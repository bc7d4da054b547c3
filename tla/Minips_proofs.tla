--------------------------- MODULE Minips_proofs ----------------------------
(***************************************************************************)
(* Of Minips, for every number of subscribers, topics, messages and places *)
(* in a channel: a message reaches who subscribed to it and comes once for *)
(* each subscription (Delivery), no closed channel is registered           *)
(* (NoneClosed), and removing a channel from the lists that are shifted    *)
(* while they are ranged over removes it and no other (Removal).           *)
(*                                                                         *)
(* The theorems are about subscribers that are used as the client does:    *)
(* by one goroutine at a time (Shared = {}), which subscribes not to what  *)
(* it has (MaxTimes = 1); and about messages on topics all of whose        *)
(* segments are named, since Publish does not go on at an empty segment    *)
(* and visits the root twice when it is a prefix.                          *)
(***************************************************************************)
EXTENDS Minips, FiniteSetTheorems, SequenceTheorems, WellFoundedInduction, TLAPS

OneCaller == Shared = {} /\ MaxTimes = 1
Named == \A t \in Published : \A k \in DOMAIN t : t[k] # ""

NoDup(list) == \A j, k \in DOMAIN list : j # k => list[j] # list[k]

\* What a map of topics to lists has under a topic.
Under(map, t) == IF t \in DOMAIN map THEN map[t] ELSE <<>>

\* A subscriber registers, one after the other, topics that it does not have;
\* once it is closing it registers none, and soon it has none.
Calling ==
  \A s \in Subs :
    /\ NoDup(joining[s])
    /\ \A t \in Elements(joining[s]) : s \notin Elements(ListOf(t))
    /\ closing[s] # "no" => closed[s] /\ joining[s] = <<>>
    /\ closing[s] \in {"close", "done"} => \A t \in DOMAIN topics : s \notin Elements(topics[t])

\* The lists that the Publish still goes through, and the places of s in them.
Waiting(s) == {k \in DOMAIN publisher.lists : s \in Elements(publisher.lists[k])}

PublisherOK ==
  /\ publisher \in [msg : Nat, lists : Seq(Seq(Subs)), total : Nat, part : Nat, real : Nat]
  /\ publisher = NoPublisher \/ (publisher.msg = count /\ count > 0)
  /\ publisher.total + publisher.part = publisher.real
  /\ publisher.lists = <<>> => publisher.part = 0
  /\ \A k \in DOMAIN publisher.lists :
       /\ NoDup(publisher.lists[k])
       /\ \A s \in Elements(publisher.lists[k]) : closing[s] \notin {"close", "done"}

\* What a subscriber got of the message and what it still will get.
Shares ==
  \A s \in Subs :
    /\ IsFiniteSet(due[s])
    /\ copies[s] + Cardinality(Waiting(s)) <= Cardinality(due[s])
    /\ ~Unlocked /\ due[s] # {} => copies[s] > 0 \/ s \in dropped \/ Waiting(s) # {}

MInv ==
  /\ TypeOK /\ Calling /\ PublisherOK /\ Shares
  /\ \A t \in DOMAIN topics : NoDup(topics[t])

-----------------------------------------------------------------------------
(* Lists of channels. *)

LEMMA LeastNat ==
  ASSUME NEW T, T \subseteq Nat, T # {}
  PROVE  \E m \in T : \A k \in T : m <= k
<1>1. PICK m \in T : \A k \in T : ~(<<k, m>> \in OpToRel(<, Nat))
  BY WFMin, NatLessThanWellFounded
<1>2. ASSUME NEW k \in T PROVE m <= k
  <2>1. ~(k < m)
    BY <1>1 DEF OpToRel
  <2> QED BY <2>1
<1> QED BY <1>2

\* The place of s in the list, 0 if it has none.
PlaceOf(list, s, p) ==
  \/ p = 0 /\ s \notin Elements(list)
  \/ p \in DOMAIN list /\ list[p] = s

LEMMA ShiftFacts ==
  ASSUME NEW list \in Seq(Subs), NoDup(list), NEW p \in DOMAIN list,
         NEW n \in Nat, n = Len(list)
  PROVE  /\ DOMAIN ShiftDown(list, p, n) = 1 .. n /\ n \in Nat /\ DOMAIN list = 1 .. n
         /\ \A j \in 1 .. n : j < p => ShiftDown(list, p, n)[j] = list[j]
         /\ \A j \in 1 .. n - 1 : p <= j => ShiftDown(list, p, n)[j] = list[j + 1]
         /\ \A j \in 1 .. n : p < j => ShiftDown(list, p, n)[j] # list[p]
<1> DEFINE sh == ShiftDown(list, p, n)
<1>1. n \in Nat /\ DOMAIN list = 1 .. n /\ p \in 1 .. n
  OBVIOUS
<1>2. sh = [j \in 1 .. n |-> IF j \in p .. n - 1 THEN list[j + 1] ELSE list[j]]
  BY <1>1 DEF ShiftDown
<1>3. \A j \in 1 .. n : j < p => sh[j] = list[j]
  BY <1>1, <1>2
<1>4. \A j \in 1 .. n - 1 : p <= j => sh[j] = list[j + 1]
  BY <1>1, <1>2
<1>5. ASSUME NEW j \in 1 .. n, p < j PROVE sh[j] # list[p]
  <2>1. CASE j \in p .. n - 1
    <3>1. sh[j] = list[j + 1] /\ j + 1 \in DOMAIN list /\ j + 1 # p
      BY <1>1, <1>2, <1>5, <2>1
    <3> QED BY <1>1, <3>1 DEF NoDup
  <2>2. CASE j \notin p .. n - 1
    <3>1. sh[j] = list[j] /\ j # p
      BY <1>1, <1>2, <1>5, <2>2
    <3> QED BY <1>1, <3>1 DEF NoDup
  <2> QED BY <2>1, <2>2
<1> QED BY <1>1, <1>2, <1>3, <1>4, <1>5

\* What the loop of unregisterChannelSafe leaves in the array: it shifts once.
LEMMA UnregisterFacts ==
  ASSUME NEW list \in Seq(Subs), NoDup(list), NEW s \in Subs,
         NEW p \in Nat, PlaceOf(list, s, p),
         NEW n \in Nat, n = Len(list)
  PROVE  Unregister(list, n, s) =
           IF p = 0 THEN [array |-> list, len |-> n]
                    ELSE [array |-> ShiftDown(list, p, n), len |-> n - 1]
<1> DEFINE after[k \in 0 .. n] ==
             IF k = 0 THEN list
             ELSE IF after[k - 1][k] = s THEN ShiftDown(after[k - 1], k, n)
             ELSE after[k - 1]
           Expect(k) == IF p # 0 /\ p <= k THEN ShiftDown(list, p, n) ELSE list
           Next1(f, k) == IF k = 0 THEN list
                          ELSE IF f[k - 1][k] = s THEN ShiftDown(f[k - 1], k, n)
                          ELSE f[k - 1]
           expected == [k \in 0 .. n |-> Expect(k)]
<1>1. /\ n \in Nat /\ DOMAIN list = 1 .. n /\ p \in 0 .. n
      /\ p # 0 => list[p] = s
      /\ p = 0 => \A k \in 1 .. n : list[k] # s
  BY DEF PlaceOf, Elements
<1>2. ASSUME NEW k \in 1 .. n PROVE (Expect(k - 1)[k] = s) <=> k = p
  <2>1. CASE p # 0 /\ p <= k - 1
    <3>1. ShiftDown(list, p, n)[k] # list[p]
      BY <1>1, <2>1, ShiftFacts
    <3> QED BY <1>1, <2>1, <3>1
  <2>2. CASE ~(p # 0 /\ p <= k - 1)
    <3>1. Expect(k - 1) = list
      BY <2>2
    <3>2. CASE p = 0
      BY <1>1, <3>1, <3>2
    <3>3. CASE p # 0
      <4>1. p \in DOMAIN list /\ k \in DOMAIN list /\ list[p] = s
        BY <1>1, <3>3
      <4> QED BY <3>1, <4>1 DEF NoDup
    <3> QED BY <3>2, <3>3
  <2> QED BY <2>1, <2>2
<1>3. ASSUME NEW k \in 1 .. n
      PROVE  Expect(k) = IF Expect(k - 1)[k] = s THEN ShiftDown(Expect(k - 1), k, n)
                         ELSE Expect(k - 1)
  <2>1. CASE k = p
    BY <1>1, <1>2, <2>1
  <2>2. CASE k # p
    <3>1. (p <= k) <=> (p <= k - 1)
      BY <1>1, <2>2
    <3> QED BY <1>2, <2>2, <3>1
  <2> QED BY <2>1, <2>2
<1> HIDE DEF Expect
<1>4. expected = [k \in 0 .. n |-> Next1(expected, k)]
  <2>1. ASSUME NEW k \in 0 .. n PROVE expected[k] = Next1(expected, k)
    <3>1. CASE k = 0
      BY <1>1, <3>1 DEF Expect
    <3>2. CASE k # 0
      <4>1. k \in 1 .. n /\ k - 1 \in 0 .. n
        BY <1>1, <3>2
      <4>2. expected[k] = Expect(k) /\ expected[k - 1] = Expect(k - 1)
        BY <4>1
      <4> QED BY <1>3, <3>2, <4>1, <4>2
    <3> QED BY <3>1, <3>2
  <2> QED BY <2>1
<1>5. after = CHOOSE f : f = [k \in 0 .. n |-> Next1(f, k)]
  OBVIOUS
<1> HIDE DEF after, Next1
<1>6. after = [k \in 0 .. n |-> Next1(after, k)]
  BY <1>4, <1>5
<1> HIDE DEF expected
<1>7. \A k \in 0 .. n : after[k] = Expect(k)
  <2> DEFINE T == {k \in 0 .. n : after[k] # Expect(k)}
  <2>1. SUFFICES ASSUME T # {} PROVE FALSE
    OBVIOUS
  <2>0. T \subseteq Nat
    BY <1>1
  <2> HIDE DEF T
  <2>2. PICK m \in T : \A k \in T : m <= k
    BY <2>0, <2>1, LeastNat
  <2> USE DEF T
  <2>3. after[m] = Next1(after, m) /\ m \in 0 .. n
    BY <1>6
  <2>4. CASE m = 0
    BY <1>1, <2>3, <2>4 DEF Next1, Expect
  <2>5. CASE m # 0
    <3>1. m \in 1 .. n /\ m - 1 \in 0 .. n /\ m - 1 < m
      BY <1>1, <2>3, <2>5
    <3>2. after[m - 1] = Expect(m - 1)
      BY <2>2, <3>1
    <3>3. after[m] = Expect(m)
      BY <1>3, <2>3, <2>5, <3>1, <3>2 DEF Next1
    <3> QED BY <3>3
  <2> QED BY <2>4, <2>5
<1>8. Unregister(list, n, s) =
        [array |-> after[n], len |-> IF \E k \in 1 .. n : list[k] = s THEN n - 1 ELSE n]
  BY DEF Unregister, after
<1>9. (\E k \in 1 .. n : list[k] = s) <=> p # 0
  BY <1>1
<1>10. after[n] = IF p = 0 THEN list ELSE ShiftDown(list, p, n)
  BY <1>1, <1>7 DEF Expect
<1> QED BY <1>8, <1>9, <1>10

\* The loop of unregisterChannelFromAll meets the channel once and calls it once.
LEMMA UnregisterAllFacts ==
  ASSUME NEW list \in Seq(Subs), NoDup(list), NEW s \in Subs,
         NEW p \in Nat, PlaceOf(list, s, p),
         NEW n \in Nat, n = Len(list)
  PROVE  UnregisterAll(list, s) =
           IF p = 0 THEN SubSeq(list, 1, n) ELSE SubSeq(ShiftDown(list, p, n), 1, n - 1)
<1> DEFINE after[k \in 0 .. n] ==
             IF k = 0 THEN [array |-> list, len |-> n]
             ELSE IF after[k - 1].array[k] = s
                    THEN Unregister(after[k - 1].array, after[k - 1].len, s)
                    ELSE after[k - 1]
           Whole == [array |-> list, len |-> n]
           Shifted == [array |-> ShiftDown(list, p, n), len |-> n - 1]
           Expect(k) == IF p # 0 /\ p <= k THEN Shifted ELSE Whole
           Next1(f, k) == IF k = 0 THEN Whole
                          ELSE IF f[k - 1].array[k] = s
                                 THEN Unregister(f[k - 1].array, f[k - 1].len, s)
                                 ELSE f[k - 1]
           expected == [k \in 0 .. n |-> Expect(k)]
<1>1. /\ n \in Nat /\ DOMAIN list = 1 .. n /\ p \in 0 .. n
      /\ p # 0 => list[p] = s
      /\ p = 0 => \A k \in 1 .. n : list[k] # s
  BY DEF PlaceOf, Elements
<1>2. ASSUME NEW k \in 1 .. n PROVE (Expect(k - 1).array[k] = s) <=> k = p
  <2>1. CASE p # 0 /\ p <= k - 1
    <3>1. ShiftDown(list, p, n)[k] # list[p]
      BY <1>1, <2>1, ShiftFacts
    <3> QED BY <1>1, <2>1, <3>1
  <2>2. CASE ~(p # 0 /\ p <= k - 1)
    <3>1. Expect(k - 1).array = list
      BY <2>2
    <3>2. CASE p = 0
      BY <1>1, <3>1, <3>2
    <3>3. CASE p # 0
      <4>1. p \in DOMAIN list /\ k \in DOMAIN list /\ list[p] = s
        BY <1>1, <3>3
      <4> QED BY <3>1, <4>1 DEF NoDup
    <3> QED BY <3>2, <3>3
  <2> QED BY <2>1, <2>2
<1>3. ASSUME NEW k \in 1 .. n
      PROVE  Expect(k) = IF Expect(k - 1).array[k] = s
                           THEN Unregister(Expect(k - 1).array, Expect(k - 1).len, s)
                           ELSE Expect(k - 1)
  <2>1. CASE k = p
    <3>1. Expect(k - 1) = Whole /\ Expect(k) = Shifted /\ p # 0
      BY <1>1, <2>1
    <3>2. Unregister(list, n, s) = Shifted
      BY <3>1, UnregisterFacts
    <3> QED BY <1>2, <2>1, <3>1, <3>2
  <2>2. CASE k # p
    <3>1. (p <= k) <=> (p <= k - 1)
      BY <1>1, <2>2
    <3> QED BY <1>2, <2>2, <3>1
  <2> QED BY <2>1, <2>2
<1> HIDE DEF Expect
<1>4. expected = [k \in 0 .. n |-> Next1(expected, k)]
  <2>1. ASSUME NEW k \in 0 .. n PROVE expected[k] = Next1(expected, k)
    <3>1. CASE k = 0
      BY <1>1, <3>1 DEF Expect
    <3>2. CASE k # 0
      <4>1. k \in 1 .. n /\ k - 1 \in 0 .. n
        BY <1>1, <3>2
      <4>2. expected[k] = Expect(k) /\ expected[k - 1] = Expect(k - 1)
        BY <4>1
      <4> QED BY <1>3, <3>2, <4>1, <4>2
    <3> QED BY <3>1, <3>2
  <2> QED BY <2>1
<1>5. after = CHOOSE f : f = [k \in 0 .. n |-> Next1(f, k)]
  OBVIOUS
<1> HIDE DEF after, Next1
<1>6. after = [k \in 0 .. n |-> Next1(after, k)]
  BY <1>4, <1>5
<1> HIDE DEF expected
<1>7. \A k \in 0 .. n : after[k] = Expect(k)
  <2> DEFINE T == {k \in 0 .. n : after[k] # Expect(k)}
  <2>1. SUFFICES ASSUME T # {} PROVE FALSE
    OBVIOUS
  <2>0. T \subseteq Nat
    BY <1>1
  <2> HIDE DEF T
  <2>2. PICK m \in T : \A k \in T : m <= k
    BY <2>0, <2>1, LeastNat
  <2> USE DEF T
  <2>3. after[m] = Next1(after, m) /\ m \in 0 .. n
    BY <1>6
  <2>4. CASE m = 0
    BY <1>1, <2>3, <2>4 DEF Next1, Expect
  <2>5. CASE m # 0
    <3>1. m \in 1 .. n /\ m - 1 \in 0 .. n /\ m - 1 < m
      BY <1>1, <2>3, <2>5
    <3>2. after[m - 1] = Expect(m - 1)
      BY <2>2, <3>1
    <3>3. after[m] = Expect(m)
      BY <1>3, <2>3, <2>5, <3>1, <3>2 DEF Next1
    <3> QED BY <3>3
  <2> QED BY <2>4, <2>5
<1>8. UnregisterAll(list, s) = SubSeq(after[n].array, 1, after[n].len)
  BY DEF UnregisterAll, after
<1>9. after[n] = IF p = 0 THEN Whole ELSE Shifted
  BY <1>1, <1>7 DEF Expect
<1> QED BY <1>8, <1>9

\* `out' is the list without s, whose other elements keep their order.
Without(list, s, out) ==
  /\ out \in Seq(Subs) /\ NoDup(out)
  /\ Elements(out) = Elements(list) \ {s}

LEMMA PlaceExists ==
  ASSUME NEW list \in Seq(Subs), NEW s
  PROVE  \E p \in Nat : PlaceOf(list, s, p)
<1>1. CASE s \in Elements(list)
  <2>1. PICK p \in DOMAIN list : list[p] = s
    BY <1>1 DEF Elements
  <2> QED BY <2>1 DEF PlaceOf
<1>2. CASE s \notin Elements(list)
  BY <1>2 DEF PlaceOf
<1> QED BY <1>1, <1>2

LEMMA ShiftedIsWithout ==
  ASSUME NEW list \in Seq(Subs), NoDup(list), NEW p \in DOMAIN list,
         NEW n \in Nat, n = Len(list)
  PROVE  Without(list, list[p], SubSeq(ShiftDown(list, p, n), 1, n - 1))
<1> DEFINE sh == ShiftDown(list, p, n)
           out == SubSeq(sh, 1, n - 1)
<1>1. /\ DOMAIN sh = 1 .. n /\ DOMAIN list = 1 .. n /\ p \in 1 .. n
      /\ \A j \in 1 .. n : j < p => sh[j] = list[j]
      /\ \A j \in 1 .. n - 1 : p <= j => sh[j] = list[j + 1]
  BY ShiftFacts
<1>2. \A j \in 1 .. n : list[j] \in Subs
  BY <1>1
<1>3. sh \in [1 .. n -> Subs]
  <2>1. ASSUME NEW j \in 1 .. n PROVE sh[j] \in Subs
    <3>1. CASE j < p
      BY <1>1, <1>2, <3>1
    <3>2. CASE p <= j /\ j # n
      BY <1>1, <1>2, <3>2
    <3>3. CASE p <= j /\ j = n
      <4>1. sh[j] = list[j]
        BY <1>1, <3>3 DEF ShiftDown
      <4> QED BY <1>2, <4>1
    <3> QED BY <1>1, <3>1, <3>2, <3>3
  <2>2. sh = [j \in 1 .. n |-> sh[j]]
    BY <1>1 DEF ShiftDown
  <2> QED BY <2>1, <2>2
<1>4. sh \in Seq(Subs) /\ Len(sh) = n
  BY <1>3
<1> HIDE DEF sh
<1>5. /\ out \in Seq(Subs) /\ DOMAIN out = 1 .. n - 1
      /\ \A j \in 1 .. n - 1 : out[j] = sh[j]
  BY <1>1, <1>4
<1> HIDE DEF out
<1>6. \A j \in 1 .. n - 1 : out[j] = IF j < p THEN list[j] ELSE list[j + 1]
  BY <1>1, <1>5
<1>7. NoDup(out)
  <2>1. ASSUME NEW j \in 1 .. n - 1, NEW k \in 1 .. n - 1, j < k PROVE out[j] # out[k]
    <3>1. PICK x \in {j, j + 1} : out[j] = list[x] /\ (x = j <=> j < p)
      BY <1>6
    <3>2. PICK y \in {k, k + 1} : out[k] = list[y] /\ (y = k <=> k < p)
      BY <1>6
    <3>3. x \in DOMAIN list /\ y \in DOMAIN list /\ x # y
      BY <1>1, <2>1, <3>1, <3>2
    <3> QED BY <3>1, <3>2, <3>3 DEF NoDup
  <2>2. ASSUME NEW j \in DOMAIN out, NEW k \in DOMAIN out, j # k PROVE out[j] # out[k]
    <3>1. j \in 1 .. n - 1 /\ k \in 1 .. n - 1 /\ (j < k \/ k < j)
      BY <1>5, <2>2
    <3> QED BY <2>1, <3>1
  <2> QED BY <2>2 DEF NoDup
<1>8. Elements(out) \subseteq Elements(list) \ {list[p]}
  <2>1. ASSUME NEW j \in 1 .. n - 1 PROVE out[j] \in Elements(list) \ {list[p]}
    <3>1. PICK x \in {j, j + 1} : out[j] = list[x] /\ (x = j <=> j < p)
      BY <1>6
    <3>2. x \in DOMAIN list /\ x # p
      BY <1>1, <3>1
    <3> QED BY <3>1, <3>2 DEF NoDup, Elements
  <2> QED BY <1>5, <2>1 DEF Elements
<1>9. Elements(list) \ {list[p]} \subseteq Elements(out)
  <2>1. ASSUME NEW x \in 1 .. n, x # p PROVE list[x] \in Elements(out)
    <3>1. CASE x < p
      <4>1. x \in 1 .. n - 1 /\ out[x] = list[x]
        BY <1>1, <1>6, <3>1
      <4> QED BY <1>5, <4>1 DEF Elements
    <3>2. CASE x > p
      <4>1. x - 1 \in 1 .. n - 1 /\ ~(x - 1 < p) /\ (x - 1) + 1 = x
        BY <1>1, <3>2
      <4>2. out[x - 1] = list[x]
        BY <1>6, <4>1
      <4> QED BY <1>5, <4>1, <4>2 DEF Elements
    <3> QED BY <1>1, <2>1, <3>1, <3>2
  <2> QED BY <1>1, <2>1 DEF Elements
<1> QED BY <1>5, <1>7, <1>8, <1>9 DEF Without, out, sh

\* Both loops leave a list without the channel.
LEMMA UnregisterWorks ==
  ASSUME NEW list \in Seq(Subs), NoDup(list), NEW s \in Subs
  PROVE  /\ Without(list, s, UnregisterAll(list, s))
         /\ LET end == Unregister(list, Len(list), s)
            IN  Without(list, s, SubSeq(end.array, 1, end.len))
<1> DEFINE n == Len(list)
           end == Unregister(list, n, s)
<1>1. n \in Nat
  OBVIOUS
<1>2. PICK p \in Nat : PlaceOf(list, s, p)
  BY PlaceExists
<1>3. CASE p = 0
  <2>1. UnregisterAll(list, s) = SubSeq(list, 1, n) /\ end = [array |-> list, len |-> n]
    BY <1>1, <1>2, <1>3, UnregisterFacts, UnregisterAllFacts
  <2>2. SubSeq(list, 1, n) = list
    OBVIOUS
  <2>3. Without(list, s, list)
    BY <1>2, <1>3 DEF Without, PlaceOf
  <2>4. SubSeq(end.array, 1, end.len) = list
    BY <2>1, <2>2
  <2> QED BY <2>1, <2>2, <2>3, <2>4
<1>4. CASE p # 0
  <2>1. /\ UnregisterAll(list, s) = SubSeq(ShiftDown(list, p, n), 1, n - 1)
        /\ end = [array |-> ShiftDown(list, p, n), len |-> n - 1]
    BY <1>1, <1>2, <1>4, UnregisterFacts, UnregisterAllFacts
  <2>2. p \in DOMAIN list /\ list[p] = s
    BY <1>2, <1>4 DEF PlaceOf
  <2>3. Without(list, s, SubSeq(ShiftDown(list, p, n), 1, n - 1))
    BY <1>1, <2>2, ShiftedIsWithout
  <2>4. end.array = ShiftDown(list, p, n) /\ end.len = n - 1
    BY <2>1
  <2> QED BY <2>1, <2>3, <2>4
<1> QED BY <1>3, <1>4

-----------------------------------------------------------------------------
(* The map of the lists. *)

\* The topics are lists of subscribers, each of which is on one once.
MapOK(map) == \A t \in DOMAIN map : map[t] \in Seq(Subs) /\ NoDup(map[t])

LEMMA EmptyList == <<>> \in Seq(Subs) /\ Elements(<<>>) = {} /\ NoDup(<<>>) /\ Len(<<>>) = 0
  BY DEF Elements, NoDup

\* Deleting the topics without channels changes no list.
LEMMA NonEmptyFacts ==
  ASSUME NEW map, MapOK(map)
  PROVE  /\ MapOK(NonEmpty(map)) /\ DOMAIN NonEmpty(map) \subseteq DOMAIN map
         /\ \A t : Under(NonEmpty(map), t) = Under(map, t)
         /\ \A t \in DOMAIN NonEmpty(map) : NonEmpty(map)[t] # <<>>
<1>1. /\ DOMAIN NonEmpty(map) = {u \in DOMAIN map : map[u] # <<>>}
      /\ \A t \in DOMAIN NonEmpty(map) : NonEmpty(map)[t] = map[t]
  BY DEF NonEmpty
<1> QED BY <1>1 DEF MapOK, Under

\* s is taken from the lists of `from', and no other list changes.
TakenFrom(new, map, s, from) ==
  /\ MapOK(new) /\ DOMAIN new \subseteq DOMAIN map
  /\ \A t \in DOMAIN new : new[t] # <<>>
  /\ \A t \in from : Elements(Under(new, t)) = Elements(Under(map, t)) \ {s}
  /\ \A t : t \notin from => Under(new, t) = Under(map, t)

LEMMA UnregisteredFromWorks ==
  ASSUME NEW map, MapOK(map), NEW s \in Subs, NEW t
  PROVE  TakenFrom(UnregisteredFrom(map, t, s), map, s, {t})
<1> DEFINE Out(u) == LET end == Unregister(map[u], Len(map[u]), s)
                     IN  SubSeq(end.array, 1, end.len)
           new == [u \in DOMAIN map |-> IF u # t THEN map[u] ELSE Out(u)]
<1>1. UnregisteredFrom(map, t, s) = NonEmpty(new)
  BY DEF UnregisteredFrom
<1>2. ASSUME t \in DOMAIN map PROVE Without(map[t], s, Out(t))
  BY <1>2, UnregisterWorks DEF MapOK
<1> HIDE DEF Out
<1>3. DOMAIN new = DOMAIN map /\ \A u \in DOMAIN map : new[u] = IF u # t THEN map[u] ELSE Out(u)
  OBVIOUS
<1> HIDE DEF new
<1>4. MapOK(new)
  BY <1>2, <1>3 DEF MapOK, Without
<1>5. Elements(Under(new, t)) = Elements(Under(map, t)) \ {s}
  <2>1. CASE t \in DOMAIN map
    BY <1>2, <1>3, <2>1 DEF Without, Under
  <2>2. CASE t \notin DOMAIN map
    <3>1. Under(new, t) = <<>> /\ Under(map, t) = <<>>
      BY <1>3, <2>2 DEF Under
    <3> QED BY <3>1, EmptyList
  <2> QED BY <2>1, <2>2
<1>6. \A u : u \notin {t} => Under(new, u) = Under(map, u)
  BY <1>3 DEF Under
<1> QED BY <1>1, <1>3, <1>4, <1>5, <1>6, NonEmptyFacts DEF TakenFrom

LEMMA UnregisteredFromAllWorks ==
  ASSUME NEW map, MapOK(map), NEW s \in Subs
  PROVE  TakenFrom(UnregisteredFromAll(map, s), map, s, DOMAIN map)
<1> DEFINE new == [u \in DOMAIN map |-> UnregisterAll(map[u], s)]
<1>1. UnregisteredFromAll(map, s) = NonEmpty(new)
  BY DEF UnregisteredFromAll
<1>2. ASSUME NEW u \in DOMAIN map PROVE Without(map[u], s, UnregisterAll(map[u], s))
  BY UnregisterWorks DEF MapOK
<1>3. DOMAIN new = DOMAIN map /\ \A u \in DOMAIN map : new[u] = UnregisterAll(map[u], s)
  OBVIOUS
<1> HIDE DEF new
<1>4. MapOK(new)
  BY <1>2, <1>3 DEF MapOK, Without
<1>5. \A u \in DOMAIN map : Elements(Under(new, u)) = Elements(Under(map, u)) \ {s}
  BY <1>2, <1>3 DEF Without, Under
<1>6. \A u : u \notin DOMAIN map => Under(new, u) = Under(map, u)
  BY <1>3 DEF Under
<1> QED BY <1>1, <1>3, <1>4, <1>5, <1>6, NonEmptyFacts DEF TakenFrom

\* In either case nobody is added, and s has no topic of `from' any more.
LEMMA TakenFacts ==
  ASSUME NEW new, NEW map, NEW s, NEW from, TakenFrom(new, map, s, from)
  PROVE  /\ \A t : Elements(Under(new, t)) \subseteq Elements(Under(map, t))
         /\ \A t \in from : s \notin Elements(Under(new, t))
         /\ \A t, o : o # s => (o \in Elements(Under(new, t)) <=> o \in Elements(Under(map, t)))
  BY DEF TakenFrom

LEMMA OccursOnce ==
  ASSUME NEW list, NoDup(list), NEW x
  PROVE  Occurrences(list, x) = IF x \in Elements(list) THEN 1 ELSE 0
<1> DEFINE S == {k \in DOMAIN list : list[k] = x}
<1>1. CASE x \in Elements(list)
  <2>1. PICK k \in DOMAIN list : list[k] = x
    BY <1>1 DEF Elements
  <2>2. S = {k}
    BY <2>1 DEF NoDup
  <2>3. Cardinality(S) = 1
    BY <2>2, FS_Singleton
  <2> QED BY <1>1, <2>3 DEF Occurrences
<1>2. CASE x \notin Elements(list)
  <2>1. S = {}
    BY <1>2 DEF Elements
  <2>2. Cardinality(S) = 0
    BY <2>1, FS_EmptySet
  <2> QED BY <1>2, <2>2 DEF Occurrences
<1> QED BY <1>1, <1>2

-----------------------------------------------------------------------------
(* The calls of the subscribers preserve the invariant. *)

LEMMA MFacts ==
  ASSUME MInv
  PROVE  /\ MapOK(topics) /\ \A t : ListOf(t) = Under(topics, t)
         /\ \A s \in Subs : joining[s] \in Seq(Topics) /\ closing[s] \in {"no", "unregister", "close", "done"}
         /\ \A t, s : s \in Elements(ListOf(t)) => t \in DOMAIN topics
  BY EmptyList DEF MInv, TypeOK, MapOK, ListOf, Under

\* A call of a subscriber does not disturb the Publish that is going on, as long
\* as it closes nothing that is on its lists.
LEMMA BusSame ==
  ASSUME MInv, UNCHANGED busVars,
         \A s \in Subs : closing'[s] \in {"close", "done"} =>
            closing[s] \in {"close", "done"} \/ Unlocked
  PROVE  PublisherOK' /\ Shares'
<1>1. UNCHANGED <<publisher, count, due, copies, dropped>>
  BY DEF busVars
<1>2. Shares'
  BY <1>1 DEF MInv, Shares, Waiting, Unlocked
<1>3. PublisherOK'
  <2>1. ASSUME NEW k \in DOMAIN publisher.lists, NEW s \in Elements(publisher.lists[k])
        PROVE  closing'[s] \notin {"close", "done"}
    <3>1. publisher.lists \in Seq(Seq(Subs)) /\ closing[s] \notin {"close", "done"}
      BY DEF MInv, PublisherOK
    <3>2. s \in Subs
      BY <3>1 DEF Elements
    <3>3. ~Unlocked
      BY DEF Unlocked, NoPublisher
    <3> QED BY <3>1, <3>2, <3>3
  <2> QED BY <1>1, <2>1 DEF MInv, PublisherOK
<1> QED BY <1>2, <1>3

\* Unsubscribe, UnsubscribeAll, and the part of Close that unregisters.
LEMMA MTake ==
  ASSUME MInv, NEW s \in Subs, NEW from, TakenFrom(topics', topics, s, from),
         UNCHANGED <<chan, closed, joining, busVars>>,
         \/ UNCHANGED closing
         \/ /\ closing[s] = "unregister" /\ closing' = [closing EXCEPT ![s] = "close"]
            /\ Unlocked /\ from = DOMAIN topics
  PROVE  MInv'
<1>1. /\ MapOK(topics') /\ DOMAIN topics' \subseteq DOMAIN topics
      /\ \A t \in DOMAIN topics' : topics'[t] # <<>>
      /\ \A t : Elements(Under(topics', t)) \subseteq Elements(Under(topics, t))
      /\ \A t \in from : s \notin Elements(Under(topics', t))
  BY TakenFacts DEF TakenFrom
<1>2. closing' \in [Subs -> {"no", "unregister", "close", "done"}]
      /\ \A o \in Subs : closing'[o] = closing[o] \/ (o = s /\ closing[s] = "unregister"
            /\ closing'[o] = "close" /\ Unlocked /\ from = DOMAIN topics)
  BY DEF MInv, TypeOK
<1>3. TypeOK'
  BY <1>1, <1>2 DEF MInv, TypeOK, MapOK, busVars
<1>4. PublisherOK' /\ Shares'
  BY <1>2, BusSame
<1>5. Calling'
  <2>1. ASSUME NEW o \in Subs, NEW t \in Elements(joining[o]) PROVE o \notin Elements(ListOf(t)')
    <3>1. o \notin Elements(Under(topics, t))
      BY MFacts DEF MInv, Calling
    <3> QED BY <1>1, <3>1 DEF ListOf, Under
  <2>2. ASSUME NEW o \in Subs, closing'[o] # "no" PROVE closed[o] /\ joining[o] = <<>>
    BY <1>2, <2>2 DEF MInv, Calling
  <2>3. ASSUME NEW o \in Subs, closing'[o] \in {"close", "done"}, NEW t \in DOMAIN topics'
        PROVE  o \notin Elements(topics'[t])
    <3>1. CASE closing'[o] = closing[o]
      <4>1. o \notin Elements(Under(topics, t))
        BY <1>1, <2>3, <3>1 DEF MInv, Calling, Under
      <4> QED BY <1>1, <4>1 DEF Under
    <3>2. CASE o = s /\ from = DOMAIN topics
      BY <1>1, <3>2 DEF Under
    <3> QED BY <1>2, <3>1, <3>2
  <2> QED BY <2>1, <2>2, <2>3 DEF MInv, Calling
<1> QED BY <1>1, <1>3, <1>4, <1>5 DEF MInv, MapOK

LEMMA TopicListFacts ==
  ASSUME NEW ts \in TopicLists
  PROVE  ts \in Seq(Topics) /\ IsFiniteSet(DOMAIN ts)
<1>1. ts \in Seq(Topics)
  <2>1. CASE ts \in Topics \X Topics
    <3>1. PICK t \in Topics, u \in Topics : ts = <<t, u>>
      BY <2>1
    <3> QED BY <3>1
  <2>2. CASE ts \in {<<t>> : t \in Topics}
    <3>1. PICK t \in Topics : ts = <<t>>
      BY <2>2
    <3> QED BY <3>1
  <2> QED BY <2>1, <2>2 DEF TopicLists
<1>2. Len(ts) \in Nat /\ DOMAIN ts = 1 .. Len(ts)
  BY <1>1
<1> QED BY <1>1, <1>2, FS_Interval

LEMMA AtMostOnce ==
  ASSUME NEW ts, IsFiniteSet(DOMAIN ts), \A t \in Elements(ts) : Occurrences(ts, t) <= 1
  PROVE  NoDup(ts) /\ \A t \in Elements(ts) : Occurrences(ts, t) = 1
<1>1. ASSUME NEW j \in DOMAIN ts, NEW k \in DOMAIN ts, j # k, ts[j] = ts[k] PROVE FALSE
  <2> DEFINE S == {x \in DOMAIN ts : ts[x] = ts[j]}
  <2>1. IsFiniteSet(S) /\ Cardinality(S) <= 1
    BY FS_Subset DEF Elements, Occurrences
  <2>2. {j} \subseteq S \ {k} /\ k \in S
    BY <1>1
  <2>3. IsFiniteSet(S \ {k}) /\ Cardinality(S \ {k}) = Cardinality(S) - 1
    BY <2>1, <2>2, FS_RemoveElement
  <2>4. Cardinality({j}) = 1 /\ Cardinality({j}) <= Cardinality(S \ {k})
    BY <2>2, <2>3, FS_Subset, FS_Singleton
  <2>5. Cardinality(S) \in Nat
    BY <2>1, FS_CardinalityType
  <2> QED BY <2>1, <2>3, <2>4, <2>5
<1>2. NoDup(ts)
  BY <1>1 DEF NoDup
<1> QED BY <1>2, OccursOnce

LEMMA MSubscribe ==
  ASSUME MInv, OneCaller, NEW s \in Subs, NEW ts \in TopicLists, Subscribe(s, ts)
  PROVE  MInv'
<1>1. /\ joining[s] = <<>> /\ closing[s] \in {"no", "done"} /\ ~closed[s]
      /\ \A t \in Elements(ts) : Occurrences(ListOf(t), s) + Occurrences(ts, t) <= 1
      /\ joining' = [joining EXCEPT ![s] = ts]
      /\ UNCHANGED <<topics, chan, closed, closing, busVars>>
  BY DEF Subscribe, MayCall, OneCaller
<1>2. ts \in Seq(Topics) /\ IsFiniteSet(DOMAIN ts)
  BY TopicListFacts
<1>3. \A t : NoDup(ListOf(t))
  BY MFacts, EmptyList DEF MapOK, Under
<1>4. ASSUME NEW t \in Elements(ts) PROVE Occurrences(ts, t) <= 1 /\ Occurrences(ts, t) \in Nat
  <2>1. Occurrences(ListOf(t), s) \in Nat
    BY <1>3, OccursOnce
  <2>2. Occurrences(ts, t) \in Nat
    BY <1>2, FS_Subset, FS_CardinalityType DEF Occurrences
  <2> QED BY <1>1, <2>1, <2>2
<1>5. NoDup(ts) /\ \A t \in Elements(ts) : Occurrences(ts, t) = 1
  BY <1>2, <1>4, AtMostOnce
<1>6. ASSUME NEW t \in Elements(ts) PROVE s \notin Elements(ListOf(t))
  BY <1>1, <1>3, <1>5, OccursOnce
<1>7. closing[s] = "no"
  BY <1>1 DEF MInv, Calling
<1>8. TypeOK'
  BY <1>1, <1>2 DEF MInv, TypeOK, busVars
<1>9. PublisherOK' /\ Shares'
  BY <1>1, BusSame
<1>10. Calling'
  <2>1. ASSUME NEW o \in Subs, o # s PROVE joining'[o] = joining[o]
    BY <1>1, <2>1 DEF MInv, TypeOK
  <2>2. joining'[s] = ts
    BY <1>1 DEF MInv, TypeOK
  <2>3. \A t : ListOf(t)' = ListOf(t)
    BY <1>1 DEF ListOf
  <2> QED BY <1>1, <1>5, <1>6, <1>7, <2>1, <2>2, <2>3 DEF MInv, Calling
<1> QED BY <1>1, <1>8, <1>9, <1>10 DEF MInv

\* s is added to the list of t, and no other list changes.
AddedTo(new, map, t, s) ==
  /\ MapOK(new) /\ DOMAIN new = DOMAIN map \cup {t}
  /\ \A u : u # t => Under(new, u) = Under(map, u)
  /\ new[t] # <<>>
  /\ Elements(Under(new, t)) = Elements(Under(map, t)) \cup {s}

\* registerChannel adds the channel at the end of one list.
LEMMA RegisteredFacts ==
  ASSUME NEW map, MapOK(map), NEW t, NEW s \in Subs, s \notin Elements(Under(map, t))
  PROVE  AddedTo(Registered(map, t, s), map, t, s)
<1> DEFINE new == Registered(map, t, s)
           old == Under(map, t)
           n == Len(old)
<1>1. old \in Seq(Subs) /\ NoDup(old)
  BY EmptyList DEF MapOK, Under
<1>2. new[t] = Append(old, s) /\ DOMAIN new = DOMAIN map \cup {t}
      /\ \A u \in DOMAIN map : u # t => new[u] = map[u]
  <2>1. /\ DOMAIN new = DOMAIN map \cup {t} /\ \A u \in DOMAIN map : u # t => new[u] = map[u]
        /\ new[t] = IF t \in DOMAIN map THEN Append(map[t], s) ELSE <<s>>
    BY DEF Registered
  <2>2. Append(<<>>, s) = <<s>>
    OBVIOUS
  <2>3. new[t] = Append(old, s)
    BY <2>1, <2>2 DEF Under
  <2> QED BY <2>1, <2>3
<1> HIDE DEF new, old
<1>3. /\ Append(old, s) \in Seq(Subs) /\ n \in Nat /\ DOMAIN old = 1 .. n
      /\ DOMAIN Append(old, s) = 1 .. n + 1 /\ Append(old, s)[n + 1] = s
      /\ \A k \in 1 .. n : Append(old, s)[k] = old[k]
  BY <1>1
<1> HIDE DEF n
<1>4. NoDup(Append(old, s))
  <2>1. s \notin Elements(old)
    BY DEF old
  <2> QED BY <1>1, <1>3, <2>1 DEF NoDup, Elements
<1>5. Elements(Append(old, s)) = Elements(old) \cup {s}
  <2>1. Elements(Append(old, s)) \subseteq Elements(old) \cup {s}
    BY <1>3 DEF Elements
  <2>2. Elements(old) \subseteq Elements(Append(old, s))
    BY <1>3 DEF Elements
  <2>3. s \in Elements(Append(old, s))
    BY <1>3 DEF Elements
  <2> QED BY <2>1, <2>2, <2>3
<1>6. Append(old, s) # <<>>
  <2>1. 1 \in DOMAIN Append(old, s) /\ DOMAIN <<>> = {}
    BY <1>3
  <2> QED BY <2>1
<1>7. MapOK(new)
  BY <1>2, <1>3, <1>4 DEF MapOK
<1>8. \A u : u # t => Under(new, u) = Under(map, u)
  BY <1>2 DEF Under
<1>9. Under(new, t) = Append(old, s)
  BY <1>2 DEF Under
<1> QED BY <1>2, <1>5, <1>6, <1>7, <1>8, <1>9 DEF new, old, AddedTo

LEMMA MRegister ==
  ASSUME MInv, NEW s \in Subs, Register(s)
  PROVE  MInv'
<1> DEFINE t == Head(joining[s])
<1>1. /\ joining[s] # <<>> /\ topics' = Registered(topics, t, s)
      /\ joining' = [joining EXCEPT ![s] = Tail(@)]
      /\ UNCHANGED <<chan, closed, closing, busVars>>
  BY DEF Register
<1>2. /\ joining[s] \in Seq(Topics) /\ NoDup(joining[s]) /\ closing[s] = "no"
  BY <1>1, MFacts DEF MInv, Calling, TypeOK
<1>3. /\ t \in Topics /\ t \in Elements(joining[s]) /\ Tail(joining[s]) \in Seq(Topics)
      /\ NoDup(Tail(joining[s])) /\ Elements(Tail(joining[s])) \subseteq Elements(joining[s]) \ {t}
  <2> DEFINE q == joining[s]
             r == Tail(q)
             n == Len(q)
  <2>1. /\ n \in Nat \ {0} /\ DOMAIN q = 1 .. n /\ t = q[1] /\ r \in Seq(Topics)
        /\ DOMAIN r = 1 .. n - 1 /\ \A k \in 1 .. n - 1 : r[k] = q[k + 1]
        /\ t \in Topics
    BY <1>1, <1>2
  <2> HIDE DEF q, r, n, t
  <2>2. NoDup(q)
    BY <1>2 DEF q
  <2>3. NoDup(r)
    <3>1. ASSUME NEW j \in 1 .. n - 1, NEW k \in 1 .. n - 1, j # k PROVE r[j] # r[k]
      <4>1. j + 1 \in DOMAIN q /\ k + 1 \in DOMAIN q /\ j + 1 # k + 1
        BY <2>1, <3>1
      <4> QED BY <2>1, <2>2, <4>1 DEF NoDup
    <3> QED BY <2>1, <3>1 DEF NoDup
  <2>4. ASSUME NEW k \in 1 .. n - 1 PROVE r[k] \in Elements(q) \ {t}
    <3>1. k + 1 \in DOMAIN q /\ 1 \in DOMAIN q /\ k + 1 # 1
      BY <2>1
    <3> QED BY <2>1, <2>2, <3>1 DEF NoDup, Elements
  <2>5. Elements(r) \subseteq Elements(q) \ {t}
    BY <2>1, <2>4 DEF Elements
  <2>6. 1 \in DOMAIN q
    BY <2>1
  <2>7. t \in Elements(q)
    BY <2>1, <2>6 DEF Elements
  <2> QED BY <2>1, <2>3, <2>5, <2>7 DEF q, r
<1> HIDE DEF t
<1>4. s \notin Elements(Under(topics, t))
  BY <1>3, MFacts DEF MInv, Calling
<1>5. /\ MapOK(topics') /\ DOMAIN topics' = DOMAIN topics \cup {t}
      /\ \A u : u # t => Under(topics', u) = Under(topics, u)
      /\ topics'[t] # <<>>
      /\ Elements(Under(topics', t)) = Elements(Under(topics, t)) \cup {s}
  <2>1. MapOK(topics)
    BY MFacts
  <2>2. AddedTo(Registered(topics, t, s), topics, t, s)
    BY <1>4, <2>1, RegisteredFacts
  <2>3. AddedTo(topics', topics, t, s)
    BY <1>1, <2>2
  <2> QED BY <2>3 DEF AddedTo
<1>6. \A u : Elements(Under(topics', u)) \subseteq Elements(Under(topics, u)) \cup {s}
  BY <1>5
<1>7. joining'[s] = Tail(joining[s]) /\ \A o \in Subs : o # s => joining'[o] = joining[o]
  BY <1>1 DEF MInv, TypeOK
<1>8. TypeOK'
  <2>1. \A u \in DOMAIN topics' : topics'[u] # <<>>
    BY <1>5 DEF MInv, TypeOK, Under
  <2> QED BY <1>1, <1>3, <1>5, <2>1 DEF MInv, TypeOK, MapOK, busVars
<1>9. PublisherOK' /\ Shares'
  BY <1>1, BusSame
<1>10. Calling'
  <2>1. ASSUME NEW o \in Subs
        PROVE  NoDup(joining'[o]) /\ Elements(joining'[o]) \subseteq Elements(joining[o])
    BY <1>3, <1>7 DEF MInv, Calling
  <2>2. ASSUME NEW o \in Subs, NEW u \in Elements(joining'[o]) PROVE o \notin Elements(ListOf(u)')
    <3>1. o \notin Elements(Under(topics, u))
      BY <2>1, <2>2, MFacts DEF MInv, Calling
    <3>2. o \notin Elements(Under(topics', u))
      <4>1. CASE o # s
        BY <1>6, <3>1, <4>1
      <4>2. CASE o = s
        BY <1>3, <1>5, <1>7, <2>2, <3>1, <4>2
      <4> QED BY <4>1, <4>2
    <3> QED BY <3>2 DEF ListOf, Under
  <2>3. ASSUME NEW o \in Subs, closing'[o] # "no" PROVE closed'[o] /\ joining'[o] = <<>>
    BY <1>1, <1>2, <1>7, <2>3 DEF MInv, Calling
  <2>4. ASSUME NEW o \in Subs, closing'[o] \in {"close", "done"}, NEW u \in DOMAIN topics'
        PROVE  o \notin Elements(topics'[u])
    <3>1. o # s /\ closing[o] \in {"close", "done"}
      BY <1>1, <1>2, <2>4
    <3>2. o \notin Elements(Under(topics, u))
      BY <3>1, EmptyList DEF MInv, Calling, Under
    <3> QED BY <1>6, <2>4, <3>1, <3>2 DEF Under
  <2> QED BY <2>1, <2>2, <2>3, <2>4 DEF Calling
<1> QED BY <1>5, <1>8, <1>9, <1>10 DEF MInv, MapOK

\* Close begins and ends; a reader takes a message.
LEMMA MCloseAndWait ==
  ASSUME MInv, OneCaller, NEW s \in Subs, Close(s) \/ CloseChannel(s) \/ WaitOne(s)
  PROVE  MInv'
<1>1. /\ UNCHANGED <<topics, joining, busVars>>
      /\ \/ /\ closing[s] = "no" /\ joining[s] = <<>> /\ closing' = [closing EXCEPT ![s] = "unregister"]
            /\ closed' = [closed EXCEPT ![s] = TRUE] /\ UNCHANGED chan
         \/ /\ closing[s] = "close" /\ closing' = [closing EXCEPT ![s] = "done"]
            /\ UNCHANGED <<chan, closed>>
         \/ /\ UNCHANGED <<closing, closed>>
            /\ chan[s] # <<>> /\ chan' = [chan EXCEPT ![s] = Tail(@)]
  BY DEF Close, MayCall, OneCaller, CloseChannel, WaitOne, callVars
<1>2. /\ closing \in [Subs -> {"no", "unregister", "close", "done"}] /\ closed \in [Subs -> BOOLEAN]
      /\ chan \in [Subs -> Seq(1 .. MaxMessages)] /\ \A o \in Subs : Len(chan[o]) <= Capacity
      /\ Capacity \in Nat
  BY BusAssumption DEF MInv, TypeOK
<1>3. \A o \in Subs :
        /\ closing'[o] = closing[o] => closed'[o] = closed[o]
        /\ closing'[o] # closing[o] =>
             \/ closing'[o] = "unregister" /\ closed'[o] /\ joining[o] = <<>>
             \/ closing'[o] = "done" /\ closing[o] = "close" /\ closed'[o] = closed[o]
  BY <1>1, <1>2
<1>4. chan' \in [Subs -> Seq(1 .. MaxMessages)] /\ \A o \in Subs : Len(chan'[o]) <= Capacity
  <2>1. CASE UNCHANGED chan
    BY <1>2, <2>1
  <2>2. CASE chan[s] # <<>> /\ chan' = [chan EXCEPT ![s] = Tail(@)]
    <3>1. /\ chan[s] \in Seq(1 .. MaxMessages) /\ Len(chan[s]) \in Nat
          /\ Tail(chan[s]) \in Seq(1 .. MaxMessages) /\ Len(Tail(chan[s])) = Len(chan[s]) - 1
      BY <1>2, <2>2
    <3>2. Len(Tail(chan[s])) <= Capacity
      BY <1>2, <3>1
    <3> QED BY <1>2, <2>2, <3>1, <3>2
  <2> QED BY <1>1, <2>1, <2>2
<1>5. closing' \in [Subs -> {"no", "unregister", "close", "done"}] /\ closed' \in [Subs -> BOOLEAN]
  BY <1>1, <1>2
<1>6. TypeOK'
  BY <1>1, <1>4, <1>5 DEF MInv, TypeOK, busVars
<1>7. PublisherOK' /\ Shares'
  BY <1>1, <1>3, BusSame
<1>8. Calling'
  <2>1. \A t : ListOf(t)' = ListOf(t)
    BY <1>1 DEF ListOf
  <2> QED BY <1>1, <1>3, <2>1 DEF MInv, Calling
<1> QED BY <1>1, <1>6, <1>7, <1>8 DEF MInv

-----------------------------------------------------------------------------
(* Publish preserves the invariant. *)

\* A named topic leads to each of its prefixes and to the root, once.
LEMMA VisitsFacts ==
  ASSUME Named, NEW t \in Published
  PROVE  \E n \in Nat : /\ DOMAIN Visits(t) = 1 .. n /\ NoDup(Visits(t))
                        /\ Elements(Visits(t)) = Reaches(t)
<1> DEFINE n == Len(t)
           v == Visits(t)
           D(d) == /\ \A k \in 0 .. d - 1 : Splits(SubSeq(t, 1, n - k))
                   /\ ~Splits(SubSeq(t, 1, n - d))
           depth == CHOOSE d \in 0 .. n - 1 : D(d)
           down == [k \in 1 .. depth + 1 |-> SubSeq(t, 1, n - k + 1)]
<1>1. t \in Seq(Segment) /\ t # <<>>
  BY BusAssumption
<1>2. n \in Nat \ {0} /\ DOMAIN t = 1 .. n
  BY <1>1
<1>13. ASSUME NEW m \in 1 .. n
       PROVE  /\ SubSeq(t, 1, m) \in Seq(Segment) /\ Len(SubSeq(t, 1, m)) = m
              /\ SubSeq(t, 1, m)[m] = t[m] /\ SubSeq(t, 1, m)[1] = t[1]
  BY <1>1, <1>2
<1>14. \A j \in 1 .. n : t[j] # ""
  BY <1>2 DEF Named
<1>3. v = down \o <<Root>>
  BY DEF Visits
<1> HIDE DEF n, v
<1>4. ASSUME NEW m \in 1 .. n PROVE Splits(SubSeq(t, 1, m)) <=> m > 1
  <2>1. Len(SubSeq(t, 1, m)) = m /\ SubSeq(t, 1, m)[m] = t[m] /\ t[m] # ""
    BY <1>13, <1>14
  <2> QED BY <2>1 DEF Splits
<1>5. depth = n - 1
  <2>1. n - 1 \in 0 .. n - 1
    BY <1>2
  <2>2. D(n - 1)
    <3>1. ASSUME NEW k \in 0 .. (n - 1) - 1 PROVE Splits(SubSeq(t, 1, n - k))
      <4>1. n - k \in 1 .. n /\ n - k > 1
        BY <1>2
      <4> QED BY <1>4, <4>1
    <3>2. ~Splits(SubSeq(t, 1, n - (n - 1)))
      <4>1. n - (n - 1) = 1 /\ 1 \in 1 .. n
        BY <1>2
      <4> QED BY <1>4, <4>1
    <3> QED BY <3>1, <3>2
  <2>3. ASSUME NEW d \in 0 .. n - 1, D(d) PROVE d = n - 1
    <3>1. n - d \in 1 .. n
      BY <1>2
    <3>2. ~(n - d > 1)
      BY <1>4, <2>3, <3>1
    <3> QED BY <1>2, <3>1, <3>2
  <2> HIDE DEF D
  <2> QED BY <2>1, <2>2, <2>3
<1> HIDE DEF depth
<1>6. down = [k \in 1 .. n |-> SubSeq(t, 1, n - k + 1)]
  BY <1>2, <1>5
<1> HIDE DEF down
<1> DEFINE E == Seq(Segment) \cup {Root}
<1>7. /\ down \in Seq(E) /\ Len(down) = n
      /\ \A k \in 1 .. n : down[k] = SubSeq(t, 1, n - k + 1)
  <2>1. ASSUME NEW k \in 1 .. n PROVE SubSeq(t, 1, n - k + 1) \in E
    <3>1. n - k + 1 \in 1 .. n
      BY <1>2
    <3> QED BY <1>13, <3>1
  <2> HIDE DEF E
  <2>2. down \in [1 .. n -> E]
    BY <1>6, <2>1
  <2>3. down \in Seq(E) /\ Len(down) = n
    BY <1>2, <2>2
  <2>4. \A k \in 1 .. n : down[k] = SubSeq(t, 1, n - k + 1)
    BY <1>6
  <2> QED BY <2>3, <2>4
<1>15. Root \in E
  OBVIOUS
<1> HIDE DEF E
<1>8. /\ DOMAIN v = 1 .. n + 1 /\ v[n + 1] = Root
      /\ \A k \in 1 .. n : v[k] = SubSeq(t, 1, n - k + 1)
  BY <1>2, <1>3, <1>7, <1>15
<1>9. \A m \in 1 .. n : SubSeq(t, 1, m) # Root
  <2>1. Root[1] = ""
    BY DEF Root
  <2>2. ASSUME NEW m \in 1 .. n PROVE SubSeq(t, 1, m)[1] # ""
    <3>1. 1 \in 1 .. n /\ SubSeq(t, 1, m)[1] = t[1]
      BY <1>2, <1>13
    <3> QED BY <1>14, <3>1
  <2> QED BY <2>1, <2>2
<1>10. NoDup(v)
  <2>1. ASSUME NEW j \in 1 .. n, NEW k \in 1 .. n, j # k PROVE v[j] # v[k]
    <3>1. n - j + 1 \in 1 .. n /\ n - k + 1 \in 1 .. n /\ n - j + 1 # n - k + 1
      BY <1>2, <2>1
    <3>2. Len(v[j]) = n - j + 1 /\ Len(v[k]) = n - k + 1
      BY <1>8, <1>13, <3>1
    <3> QED BY <3>1, <3>2
  <2>2. ASSUME NEW k \in 1 .. n PROVE v[k] # v[n + 1]
    <3>1. n - k + 1 \in 1 .. n
      BY <1>2
    <3> QED BY <1>8, <1>9, <3>1
  <2>3. ASSUME NEW j \in 1 .. n + 1, NEW k \in 1 .. n + 1, j # k PROVE v[j] # v[k]
    <3>1. (j \in 1 .. n \/ j = n + 1) /\ (k \in 1 .. n \/ k = n + 1)
      BY <1>2
    <3> QED BY <2>1, <2>2, <2>3, <3>1
  <2> QED BY <1>8, <2>3 DEF NoDup
<1>11. Elements(v) = Reaches(t)
  <2>0. Reaches(t) = {SubSeq(t, 1, m) : m \in 1 .. n} \cup {Root}
    BY DEF Reaches, n
  <2>1. ASSUME NEW k \in 1 .. n + 1 PROVE v[k] \in Reaches(t)
    <3>1. CASE k = n + 1
      BY <1>8, <2>0, <3>1
    <3>2. CASE k # n + 1
      <4>1. k \in 1 .. n /\ n - k + 1 \in 1 .. n
        BY <1>2, <3>2
      <4> QED BY <1>8, <2>0, <4>1
    <3> QED BY <3>1, <3>2
  <2>2. ASSUME NEW m \in 1 .. n PROVE SubSeq(t, 1, m) \in Elements(v)
    <3>1. n - m + 1 \in 1 .. n /\ n - m + 1 \in 1 .. n + 1 /\ n - (n - m + 1) + 1 = m
      BY <1>2
    <3>2. v[n - m + 1] = SubSeq(t, 1, m)
      BY <1>8, <3>1
    <3> QED BY <1>8, <3>1, <3>2 DEF Elements
  <2>3. Root \in Elements(v)
    <3>1. n + 1 \in DOMAIN v
      BY <1>2, <1>8
    <3> QED BY <1>8, <3>1 DEF Elements
  <2>4. Elements(v) \subseteq Reaches(t)
    BY <1>8, <2>1 DEF Elements
  <2>5. Reaches(t) \subseteq Elements(v)
    BY <2>0, <2>2, <2>3
  <2> QED BY <2>4, <2>5
<1>12. n + 1 \in Nat
  BY <1>2
<1> QED BY <1>8, <1>10, <1>11, <1>12 DEF v

LEMMA MInit == Init => MInv
<1> SUFFICES ASSUME Init PROVE MInv
  OBVIOUS
<1>1. DOMAIN topics = {} /\ publisher = NoPublisher /\ publisher.lists = <<>>
  BY DEF Init, NoPublisher
<1>2. TypeOK
  BY <1>1, EmptyList, BusAssumption DEF Init, TypeOK, NoPublisher
<1>3. Calling
  BY <1>1, EmptyList DEF Init, Calling
<1>4. PublisherOK
  <2>1. NoPublisher \in [msg : Nat, lists : Seq(Seq(Subs)), total : Nat, part : Nat, real : Nat]
    BY DEF NoPublisher
  <2> QED BY <1>1, <2>1 DEF PublisherOK, NoPublisher
<1>5. Shares
  <2>1. ASSUME NEW s \in Subs
        PROVE  Waiting(s) = {} /\ due[s] = {} /\ copies[s] = 0
    BY <1>1 DEF Init, Waiting
  <2>2. Unlocked
    BY <1>1 DEF Unlocked
  <2>3. ASSUME NEW s \in Subs
        PROVE  /\ IsFiniteSet(due[s])
               /\ copies[s] + Cardinality(Waiting(s)) <= Cardinality(due[s])
    <3>1. IsFiniteSet({}) /\ Cardinality({}) = 0
      BY FS_EmptySet
    <3>2. /\ IsFiniteSet(due[s]) /\ Cardinality(due[s]) = 0
          /\ Cardinality(Waiting(s)) = 0 /\ copies[s] = 0
      BY <2>1, <3>1
    <3> QED BY <3>2
  <2> QED BY <2>1, <2>2, <2>3 DEF Shares
<1> QED BY <1>1, <1>2, <1>3, <1>4, <1>5 DEF MInv

\* A message has as many places on the lists as the subscriber has topics that
\* lead it there.
LEMMA MPublish ==
  ASSUME MInv, Named, NEW t \in Published, Publish(t)
  PROVE  MInv'
<1> DEFINE v == Visits(t)
           L == [k \in DOMAIN v |-> ListOf(v[k])]
           D(s) == {u \in Reaches(t) : s \in Elements(ListOf(u))}
<1>1. PICK n \in Nat : DOMAIN v = 1 .. n /\ NoDup(v) /\ Elements(v) = Reaches(t)
  BY VisitsFacts
<1>2. /\ publisher = NoPublisher /\ count < MaxMessages /\ count' = count + 1
      /\ publisher' = [msg |-> count', lists |-> L, total |-> 0, part |-> 0, real |-> 0]
      /\ due' = [s \in Subs |-> D(s)]
      /\ copies' = [s \in Subs |-> 0] /\ dropped' = {}
      /\ UNCHANGED <<topics, chan, closed, closing, joining>>
  BY DEF Publish, Unlocked, callVars
<1> HIDE DEF v
<1>3. /\ L \in Seq(Seq(Subs)) /\ DOMAIN L = 1 .. n
      /\ \A k \in 1 .. n : L[k] = ListOf(v[k]) /\ NoDup(L[k])
  <2>1. \A k \in 1 .. n : ListOf(v[k]) \in Seq(Subs) /\ NoDup(ListOf(v[k]))
    BY MFacts, EmptyList DEF MapOK, Under
  <2> QED BY <1>1, <2>1
<1> HIDE DEF L
<1>4. PICK c \in Nat : c = count /\ c + 1 <= MaxMessages /\ MaxMessages \in Nat
  BY <1>2, BusAssumption DEF MInv, TypeOK
<1>5. /\ publisher'.lists = L /\ publisher'.msg = c + 1 /\ count' = c + 1
      /\ publisher'.total = 0 /\ publisher'.part = 0 /\ publisher'.real = 0
      /\ publisher' \in [msg : Nat, lists : Seq(Seq(Subs)), total : Nat, part : Nat, real : Nat]
  BY <1>2, <1>3, <1>4
<1>6. PublisherOK'
  <2>1. ASSUME NEW k \in 1 .. n, NEW s \in Elements(L[k]) PROVE closing[s] \notin {"close", "done"}
    <3>1. s \in Elements(ListOf(v[k]))
      BY <1>3
    <3>2. v[k] \in DOMAIN topics /\ s \in Elements(topics[v[k]]) /\ topics[v[k]] \in Seq(Subs)
      BY <3>1, MFacts DEF ListOf, MapOK
    <3>3. s \in Subs
      BY <3>2 DEF Elements
    <3> QED BY <3>2, <3>3 DEF MInv, Calling
  <2> QED BY <1>2, <1>3, <1>4, <1>5, <2>1 DEF PublisherOK
<1>7. TypeOK'
  <2>1. ASSUME NEW s \in Subs PROVE D(s) \subseteq Topics
    BY MFacts DEF MInv, TypeOK
  <2> QED BY <1>2, <1>4, <1>5, <2>1 DEF MInv, TypeOK
<1>8. Calling'
  BY <1>2 DEF MInv, Calling, ListOf
<1>9. ASSUME NEW s \in Subs
      PROVE  /\ IsFiniteSet(D(s)) /\ Cardinality(Waiting(s)') = Cardinality(D(s))
             /\ Cardinality(D(s)) \in Nat
             /\ D(s) # {} => Waiting(s)' # {}
  <2> DEFINE W == {k \in 1 .. n : s \in Elements(ListOf(v[k]))}
             f == [k \in W |-> v[k]]
  <2>1. Waiting(s)' = W
    BY <1>3, <1>5 DEF Waiting
  <2>2. IsFiniteSet(W)
    <3>1. IsFiniteSet(1 .. n) /\ W \subseteq 1 .. n
      BY FS_Interval
    <3> QED BY <3>1, FS_Subset
  <2>3. f \in [W -> D(s)]
    BY <1>1 DEF Elements
  <2>4. ASSUME NEW u \in D(s) PROVE \E k \in W : f[k] = u
    <3>1. PICK k \in 1 .. n : v[k] = u
      BY <1>1 DEF Elements
    <3> QED BY <3>1
  <2>5. f \in Surjection(W, D(s))
    BY <2>3, <2>4 DEF Surjection
  <2>6. f \in Injection(W, D(s))
    BY <1>1, <2>3 DEF Injection, IsInjective, NoDup
  <2>7. IsFiniteSet(D(s)) /\ Cardinality(D(s)) = Cardinality(W)
    BY <2>2, <2>5, <2>6, FS_Surjection
  <2> HIDE DEF W, f
  <2>8. D(s) # {} => W # {}
    BY <2>4
  <2> QED BY <2>1, <2>7, <2>8, FS_CardinalityType
<1>10. Shares'
  <2>1. ASSUME NEW s \in Subs PROVE due'[s] = D(s) /\ copies'[s] = 0
    BY <1>2
  <2> HIDE DEF D
  <2> QED BY <1>9, <2>1 DEF Shares
<1> QED BY <1>2, <1>6, <1>7, <1>8, <1>10 DEF MInv

\* A channel that a list gives up was on it once.
LEMMA HeadTaken ==
  ASSUME MInv, Sending, publisher'.lists = [publisher.lists EXCEPT ![1] = Tail(@)]
  PROVE  /\ publisher'.lists \in Seq(Seq(Subs)) /\ publisher'.lists # <<>> /\ Target \in Subs
         /\ \A k \in DOMAIN publisher'.lists :
              /\ NoDup(publisher'.lists[k])
              /\ k \in DOMAIN publisher.lists
              /\ Elements(publisher'.lists[k]) \subseteq Elements(publisher.lists[k])
         /\ closing[Target] \notin {"close", "done"}
         /\ \A s : Waiting(s)' = IF s = Target THEN Waiting(s) \ {1} ELSE Waiting(s)
         /\ 1 \in Waiting(Target)
<1> DEFINE L == publisher.lists
           h == L[1]
           m == publisher'.lists
<1>1. L \in Seq(Seq(Subs)) /\ L # <<>> /\ Head(L) # <<>> /\ Target = Head(Head(L))
  BY DEF MInv, PublisherOK, Sending, Target
<1>2. /\ 1 \in DOMAIN L /\ h \in Seq(Subs) /\ h # <<>> /\ Target = h[1] /\ NoDup(h)
      /\ Len(h) \in Nat \ {0} /\ DOMAIN h = 1 .. Len(h)
  BY <1>1 DEF MInv, PublisherOK
<1>3. /\ Tail(h) \in Seq(Subs) /\ DOMAIN Tail(h) = 1 .. Len(h) - 1
      /\ \A k \in 1 .. Len(h) - 1 : Tail(h)[k] = h[k + 1]
      /\ Target \in Subs
  BY <1>2
<1>4. m = [L EXCEPT ![1] = Tail(h)]
  OBVIOUS
<1>5. /\ m \in Seq(Seq(Subs)) /\ DOMAIN m = DOMAIN L /\ m[1] = Tail(h)
      /\ \A k \in DOMAIN L : k # 1 => m[k] = L[k]
  BY <1>1, <1>2, <1>3, <1>4
<1>6. NoDup(Tail(h))
  <2>1. ASSUME NEW j \in 1 .. Len(h) - 1, NEW k \in 1 .. Len(h) - 1, j # k PROVE Tail(h)[j] # Tail(h)[k]
    <3>1. j + 1 \in DOMAIN h /\ k + 1 \in DOMAIN h /\ j + 1 # k + 1
      BY <1>2, <2>1
    <3> QED BY <1>2, <1>3, <3>1 DEF NoDup
  <2> QED BY <1>3, <2>1 DEF NoDup
<1>7. Elements(Tail(h)) = Elements(h) \ {Target} /\ Target \in Elements(h)
  <2>1. ASSUME NEW k \in 1 .. Len(h) - 1 PROVE Tail(h)[k] \in Elements(h) \ {Target}
    <3>1. k + 1 \in DOMAIN h /\ 1 \in DOMAIN h /\ k + 1 # 1
      BY <1>2
    <3> QED BY <1>2, <1>3, <3>1 DEF NoDup, Elements
  <2>2. ASSUME NEW k \in DOMAIN h, k # 1 PROVE h[k] \in Elements(Tail(h))
    <3>1. k - 1 \in 1 .. Len(h) - 1 /\ (k - 1) + 1 = k
      BY <1>2, <2>2
    <3>2. Tail(h)[k - 1] = h[k]
      BY <1>3, <3>1
    <3> QED BY <1>3, <3>1, <3>2 DEF Elements
  <2>3. 1 \in DOMAIN h
    BY <1>2
  <2>4. Target \in Elements(h)
    BY <1>2, <2>3 DEF Elements
  <2>5. Elements(Tail(h)) \subseteq Elements(h) \ {Target}
    BY <1>3, <2>1 DEF Elements
  <2>6. Elements(h) \ {Target} \subseteq Elements(Tail(h))
    BY <1>2, <2>2 DEF Elements
  <2> QED BY <2>4, <2>5, <2>6
<1>8. closing[Target] \notin {"close", "done"}
  BY <1>2, <1>7 DEF MInv, PublisherOK
<1>9. m # <<>>
  BY <1>2, <1>5
<1> HIDE DEF m, h, L
<1>10. ASSUME NEW k \in DOMAIN m
       PROVE  NoDup(m[k]) /\ k \in DOMAIN L /\ Elements(m[k]) \subseteq Elements(L[k])
  <2>1. CASE k = 1
    BY <1>5, <1>6, <1>7, <2>1 DEF h
  <2>2. CASE k # 1
    BY <1>5, <2>2 DEF MInv, PublisherOK, L
  <2> QED BY <2>1, <2>2
<1>11. ASSUME NEW s PROVE Waiting(s)' = IF s = Target THEN Waiting(s) \ {1} ELSE Waiting(s)
  <2>1. Waiting(s)' = {k \in DOMAIN m : s \in Elements(m[k])} /\ Waiting(s) = {k \in DOMAIN L : s \in Elements(L[k])}
    BY DEF Waiting, m, L
  <2>2. Elements(m[1]) = Elements(L[1]) \ {Target}
    BY <1>5, <1>7 DEF h
  <2>3. CASE s # Target
    BY <1>5, <2>1, <2>2, <2>3
  <2>4. CASE s = Target
    <3>1. ASSUME NEW k \in DOMAIN L, k # 1, s \in Elements(m[k]) PROVE k \in Waiting(s)
      BY <1>5, <2>1, <3>1
    <3> QED BY <1>5, <2>1, <2>2, <2>4
  <2> QED BY <2>3, <2>4
<1>12. 1 \in Waiting(Target)
  BY <1>2, <1>7 DEF Waiting, h, L
<1> QED BY <1>3, <1>5, <1>8, <1>9, <1>10, <1>11, <1>12 DEF m, L


LEMMA WaitingFinite ==
  ASSUME MInv, NEW s
  PROVE  IsFiniteSet(Waiting(s)) /\ Cardinality(Waiting(s)) \in Nat
<1>1. publisher.lists \in Seq(Seq(Subs))
  BY DEF MInv, PublisherOK
<1>2. Len(publisher.lists) \in Nat /\ DOMAIN publisher.lists = 1 .. Len(publisher.lists)
  BY <1>1
<1>3. IsFiniteSet(DOMAIN publisher.lists) /\ Waiting(s) \subseteq DOMAIN publisher.lists
  BY <1>2, FS_Interval DEF Waiting
<1> QED BY <1>3, FS_Subset, FS_CardinalityType

\* The rest of a Publish, but for its numbers.
LEMMA RestFacts ==
  ASSUME MInv, Sending
  PROVE  RestOfList(publisher) =
           [msg |-> publisher.msg, lists |-> [publisher.lists EXCEPT ![1] = Tail(@)],
            total |-> publisher.total, part |-> publisher.part, real |-> publisher.real]
<1>1. publisher \in [msg : Nat, lists : Seq(Seq(Subs)), total : Nat, part : Nat, real : Nat]
  BY DEF MInv, PublisherOK
<1> DEFINE short == [publisher.lists EXCEPT ![1] = Tail(@)]
<1>2. RestOfList(publisher) = [publisher EXCEPT !.lists = short]
  BY DEF RestOfList
<1> HIDE DEF short
<1>3. [publisher EXCEPT !.lists = short] =
        [msg |-> publisher.msg, lists |-> short, total |-> publisher.total,
         part |-> publisher.part, real |-> publisher.real]
  BY <1>1, SMTT(30)
<1> QED BY <1>2, <1>3 DEF short

\* The send to the next channel, and the send that finds it full.
LEMMA MSend ==
  ASSUME MInv, Send \/ SendDrops
  PROVE  MInv'
<1> DEFINE rest == RestOfList(publisher)
<1>1. /\ Sending /\ ~ChanClosed(Target) /\ UNCHANGED <<topics, closed, closing, joining, count, due>>
      /\ \/ /\ Len(chan[Target]) < Capacity
            /\ chan' = [chan EXCEPT ![Target] = Append(@, publisher.msg)]
            /\ copies' = [copies EXCEPT ![Target] = @ + 1]
            /\ publisher' = [rest EXCEPT !.part = @ + 1, !.real = @ + 1]
            /\ UNCHANGED dropped
         \/ /\ dropped' = dropped \cup {Target} /\ publisher' = rest
            /\ UNCHANGED <<chan, copies>>
  BY DEF Send, SendDrops, callVars
<1>2. /\ publisher.msg \in Nat /\ publisher.total \in Nat /\ publisher.part \in Nat /\ publisher.real \in Nat
      /\ publisher.total + publisher.part = publisher.real
      /\ publisher # NoPublisher /\ publisher.msg = count /\ count > 0 /\ count \in 0 .. MaxMessages
      /\ MaxMessages \in Nat /\ Capacity \in Nat
  BY <1>1, BusAssumption DEF MInv, TypeOK, PublisherOK, Sending, Unlocked
<1> DEFINE short == [publisher.lists EXCEPT ![1] = Tail(@)]
           next(p, r) == [msg |-> publisher.msg, lists |-> short, total |-> publisher.total,
                          part |-> p, real |-> r]
<1>3. /\ publisher'.lists = short
      /\ publisher'.msg = publisher.msg /\ publisher'.total = publisher.total
      /\ publisher' = next(publisher'.part, publisher'.real)
      /\ \/ UNCHANGED copies /\ publisher'.part = publisher.part /\ publisher'.real = publisher.real
         \/ publisher'.part = publisher.part + 1 /\ publisher'.real = publisher.real + 1
  <2>1. rest = next(publisher.part, publisher.real)
    BY <1>1, RestFacts
  <2> HIDE DEF short, rest
  <2>2. \A p, r : next(p, r).lists = short /\ next(p, r).msg = publisher.msg
          /\ next(p, r).total = publisher.total /\ next(p, r).part = p /\ next(p, r).real = r
    OBVIOUS
  <2>3. CASE publisher' = rest /\ UNCHANGED copies
    <3>1. publisher' = next(publisher.part, publisher.real)
      BY <2>1, <2>3
    <3> HIDE DEF next
    <3> QED BY <2>2, <2>3, <3>1
  <2>4. CASE publisher' = [rest EXCEPT !.part = @ + 1, !.real = @ + 1]
    <3>1. publisher' = next(publisher.part + 1, publisher.real + 1)
      BY <2>1, <2>4
    <3> HIDE DEF next
    <3> QED BY <2>2, <3>1
  <2> HIDE DEF next
  <2> QED BY <1>1, <2>3, <2>4
<1> HIDE DEF rest
<1>4. /\ publisher'.lists \in Seq(Seq(Subs)) /\ publisher'.lists # <<>> /\ Target \in Subs
      /\ \A k \in DOMAIN publisher'.lists :
           /\ NoDup(publisher'.lists[k])
           /\ k \in DOMAIN publisher.lists
           /\ Elements(publisher'.lists[k]) \subseteq Elements(publisher.lists[k])
      /\ closing[Target] \notin {"close", "done"}
      /\ \A s : Waiting(s)' = IF s = Target THEN Waiting(s) \ {1} ELSE Waiting(s)
      /\ 1 \in Waiting(Target)
  BY <1>1, <1>3, HeadTaken
<1>5. chan' \in [Subs -> Seq(1 .. MaxMessages)] /\ \A s \in Subs : Len(chan'[s]) <= Capacity
  <2>1. chan \in [Subs -> Seq(1 .. MaxMessages)] /\ \A s \in Subs : Len(chan[s]) <= Capacity
    BY DEF MInv, TypeOK
  <2>2. CASE Len(chan[Target]) < Capacity /\ chan' = [chan EXCEPT ![Target] = Append(@, publisher.msg)]
    <3> DEFINE q == chan[Target]
    <3>1. q \in Seq(1 .. MaxMessages) /\ publisher.msg \in 1 .. MaxMessages
      BY <1>2, <1>4, <2>1
    <3>2. Append(q, publisher.msg) \in Seq(1 .. MaxMessages) /\ Len(Append(q, publisher.msg)) = Len(q) + 1
          /\ Len(q) \in Nat
      BY <3>1
    <3>3. Len(Append(q, publisher.msg)) <= Capacity
      BY <1>2, <2>2, <3>2
    <3> QED BY <1>4, <2>1, <2>2, <3>2, <3>3
  <2> QED BY <1>1, <2>1, <2>2
<1>6. TypeOK'
  <2>1. copies' \in [Subs -> Nat] /\ dropped' \subseteq Subs
    <3>1. copies \in [Subs -> Nat] /\ dropped \subseteq Subs
      BY DEF MInv, TypeOK
    <3>2. copies' = copies \/ copies' = [copies EXCEPT ![Target] = @ + 1]
      BY <1>1
    <3>3. dropped' = dropped \/ dropped' = dropped \cup {Target}
      BY <1>1
    <3>4. copies[Target] + 1 \in Nat
      BY <1>4, <3>1
    <3> QED BY <1>4, <3>1, <3>2, <3>3, <3>4
  <2>2. publisher'.msg \in {0, count'}
    BY <1>1, <1>2, <1>3
  <2> QED BY <1>1, <1>5, <2>1, <2>2 DEF MInv, TypeOK
<1>7. PublisherOK'
  <2>1. publisher'.part \in Nat /\ publisher'.real \in Nat /\ publisher'.total \in Nat
        /\ publisher'.total + publisher'.part = publisher'.real
    <3>1. PICK a \in Nat, b \in Nat, r \in Nat :
            a = publisher.total /\ b = publisher.part /\ r = publisher.real /\ a + b = r
      BY <1>2
    <3>2. CASE publisher'.part = b /\ publisher'.real = r
      BY <1>3, <3>1, <3>2
    <3>3. CASE publisher'.part = b + 1 /\ publisher'.real = r + 1
      <4>1. publisher'.total = a
        BY <1>3, <3>1
      <4>2. a + (b + 1) = r + 1 /\ b + 1 \in Nat /\ r + 1 \in Nat
        BY <3>1
      <4> QED BY <3>3, <4>1, <4>2
    <3> QED BY <1>3, <3>1, <3>2, <3>3
  <2>2. publisher' \in [msg : Nat, lists : Seq(Seq(Subs)), total : Nat, part : Nat, real : Nat]
    <3>1. publisher' = next(publisher'.part, publisher'.real) /\ publisher'.lists = short
      BY <1>3
    <3> HIDE DEF short
    <3> QED BY <1>2, <1>4, <2>1, <3>1
  <2>3. \A k \in DOMAIN publisher'.lists :
          \A s \in Elements(publisher'.lists[k]) : closing'[s] \notin {"close", "done"}
    BY <1>1, <1>4 DEF MInv, PublisherOK
  <2> QED BY <1>1, <1>2, <1>3, <1>4, <2>1, <2>2, <2>3 DEF PublisherOK
<1>8. Calling'
  BY <1>1 DEF MInv, Calling, ListOf
<1>9. Shares'
  <2>1. ~Unlocked
    BY <1>2 DEF Unlocked
  <2>2. ASSUME NEW s \in Subs
        PROVE  /\ copies'[s] + Cardinality(Waiting(s)') <= Cardinality(due[s])
               /\ due[s] # {} => copies'[s] > 0 \/ s \in dropped' \/ Waiting(s)' # {}
    <3>1. /\ copies[s] \in Nat /\ IsFiniteSet(due[s]) /\ Cardinality(due[s]) \in Nat
          /\ copies[s] + Cardinality(Waiting(s)) <= Cardinality(due[s])
          /\ due[s] # {} => copies[s] > 0 \/ s \in dropped \/ Waiting(s) # {}
      BY <2>1, FS_CardinalityType DEF MInv, TypeOK, Shares
    <3>2. IsFiniteSet(Waiting(s)) /\ Cardinality(Waiting(s)) \in Nat
      BY WaitingFinite
    <3>3. CASE s # Target
      <4>1. copies'[s] = copies[s] /\ (s \in dropped' <=> s \in dropped) /\ Waiting(s)' = Waiting(s)
        BY <1>1, <1>4, <3>3 DEF MInv, TypeOK
      <4> QED BY <3>1, <4>1
    <3>4. CASE s = Target
      <4>1. Waiting(s)' = Waiting(s) \ {1} /\ 1 \in Waiting(s)
        BY <1>4, <3>4
      <4>2. Cardinality(Waiting(s)') = Cardinality(Waiting(s)) - 1
        BY <3>2, <4>1, FS_RemoveElement
      <4>3. \/ copies'[s] = copies[s] + 1
            \/ copies'[s] = copies[s] /\ s \in dropped'
        BY <1>1, <3>4 DEF MInv, TypeOK
      <4> QED BY <3>1, <3>2, <4>2, <4>3
    <3> QED BY <3>3, <3>4
  <2> QED BY <1>1, <2>2 DEF MInv, Shares
<1> QED BY <1>1, <1>6, <1>7, <1>8, <1>9 DEF MInv

\* An empty list is left behind: every other place moves down by one.
LEMMA TailTaken ==
  ASSUME MInv, publisher.lists # <<>>, Head(publisher.lists) = <<>>,
         publisher'.lists = Tail(publisher.lists)
  PROVE  /\ publisher'.lists \in Seq(Seq(Subs))
         /\ \A k \in DOMAIN publisher'.lists :
              k + 1 \in DOMAIN publisher.lists /\ publisher'.lists[k] = publisher.lists[k + 1]
         /\ \A s : Cardinality(Waiting(s)') = Cardinality(Waiting(s))
         /\ \A s : Waiting(s) # {} => Waiting(s)' # {}
<1> DEFINE L == publisher.lists
           m == publisher'.lists
<1>1. /\ L \in Seq(Seq(Subs)) /\ Len(L) \in Nat \ {0} /\ DOMAIN L = 1 .. Len(L) /\ L[1] = <<>>
      /\ m \in Seq(Seq(Subs)) /\ DOMAIN m = 1 .. Len(L) - 1
      /\ \A k \in 1 .. Len(L) - 1 : m[k] = L[k + 1]
  BY DEF MInv, PublisherOK
<1> HIDE DEF L, m
<1>2. \A k \in DOMAIN m : k + 1 \in DOMAIN L /\ m[k] = L[k + 1]
  <2>1. PICK n \in Nat : n = Len(L)
    BY <1>1
  <2>2. DOMAIN L = 1 .. n /\ DOMAIN m = 1 .. n - 1 /\ \A k \in 1 .. n - 1 : m[k] = L[k + 1]
    BY <1>1, <2>1
  <2>3. \A k \in 1 .. n - 1 : k + 1 \in 1 .. n
    BY <2>1
  <2> QED BY <2>2, <2>3
<1>3. ASSUME NEW s
      PROVE  /\ Cardinality(Waiting(s)') = Cardinality(Waiting(s))
             /\ Waiting(s) # {} => Waiting(s)' # {}
  <2> DEFINE W == Waiting(s)
             V == {k \in DOMAIN m : s \in Elements(m[k])}
             f == [k \in W |-> k - 1]
  <2>1. W = {k \in DOMAIN L : s \in Elements(L[k])} /\ Waiting(s)' = V
    BY DEF Waiting, L, m
  <2>2. s \notin Elements(L[1])
    BY <1>1, EmptyList
  <2>3. ASSUME NEW k \in W PROVE k - 1 \in V /\ k \in Nat
    <3>1. k \in 1 .. Len(L) /\ k # 1 /\ s \in Elements(L[k])
      BY <1>1, <2>1, <2>2
    <3>2. k - 1 \in 1 .. Len(L) - 1 /\ (k - 1) + 1 = k
      <4>1. Len(L) \in Nat
        BY <1>1
      <4> HIDE DEF W, V, f
      <4> QED BY <3>1, <4>1
    <3>3. m[k - 1] = L[k]
      BY <1>1, <3>2
    <3> QED BY <1>1, <3>1, <3>2, <3>3
  <2>4. ASSUME NEW k \in V PROVE k + 1 \in W /\ (k + 1) - 1 = k
    BY <1>1, <1>2, <2>1
  <2>5. IsFiniteSet(W)
    BY WaitingFinite
  <2> HIDE DEF W, V
  <2>6. f \in [W -> V]
    BY <2>3
  <2>7. ASSUME NEW k \in V PROVE \E j \in W : f[j] = k
    <3>1. f[k + 1] = k
      BY <2>4
    <3> QED BY <2>4, <3>1
  <2>8. f \in Surjection(W, V)
    BY <2>6, <2>7 DEF Surjection
  <2>9. f \in Injection(W, V)
    <3>1. ASSUME NEW j \in W, NEW k \in W, f[j] = f[k] PROVE j = k
      <4>1. f[j] = j - 1 /\ f[k] = k - 1 /\ j \in Nat /\ k \in Nat
        BY <2>3
      <4> QED BY <3>1, <4>1
    <3> HIDE DEF f
    <3> QED BY <2>6, <3>1 DEF Injection, IsInjective
  <2>10. Cardinality(V) = Cardinality(W)
    BY <2>5, <2>8, <2>9, FS_Surjection
  <2>11. W # {} => V # {}
    BY <2>3
  <2> QED BY <2>1, <2>10, <2>11 DEF W
<1> QED BY <1>1, <1>2, <1>3 DEF L, m

LEMMA MNextList ==
  ASSUME MInv, NextList
  PROVE  MInv'
<1>1. /\ publisher.lists # <<>> /\ Head(publisher.lists) = <<>>
      /\ publisher' = [publisher EXCEPT !.lists = Tail(@), !.total = @ + publisher.part, !.part = 0]
      /\ UNCHANGED <<topics, chan, closed, closing, joining, count, due, copies, dropped>>
  BY DEF NextList, callVars
<1>2. PICK a \in Nat, b \in Nat, r \in Nat :
        /\ publisher = [msg |-> publisher.msg, lists |-> publisher.lists, total |-> a, part |-> b, real |-> r]
        /\ a + b = r
  BY DEF MInv, PublisherOK
<1>3. /\ publisher # NoPublisher /\ publisher.msg = count /\ count > 0 /\ publisher.msg \in Nat
  <2>1. publisher # NoPublisher
    BY <1>1 DEF NoPublisher
  <2> QED BY <2>1 DEF MInv, PublisherOK
<1>4. publisher' = [msg |-> publisher.msg, lists |-> Tail(publisher.lists), total |-> r, part |-> 0, real |-> r]
  <2>1. publisher.total + publisher.part = r /\ publisher.real = r
    BY <1>2
  <2>2. PICK q : q = Tail(publisher.lists)
    OBVIOUS
  <2>3. publisher' = [publisher EXCEPT !.lists = q, !.total = r, !.part = 0]
    BY <1>1, <2>1, <2>2
  <2>4. publisher \in [msg : Nat, lists : Seq(Seq(Subs)), total : Nat, part : Nat, real : Nat]
    BY DEF MInv, PublisherOK
  <2>5. [publisher EXCEPT !.lists = q, !.total = r, !.part = 0]
          = [msg |-> publisher.msg, lists |-> q, total |-> r, part |-> 0, real |-> publisher.real]
    <3> DEFINE S == Seq(Seq(Subs)) \cup {q}
               R == [msg : Nat, lists : S, total : Nat, part : Nat, real : Nat]
    <3>1. ASSUME NEW p \in R
          PROVE  /\ [p EXCEPT !.lists = q] \in R /\ [p EXCEPT !.total = r] \in R
                 /\ [p EXCEPT !.lists = q] = [msg |-> p.msg, lists |-> q, total |-> p.total,
                                             part |-> p.part, real |-> p.real]
                 /\ [p EXCEPT !.total = r] = [msg |-> p.msg, lists |-> p.lists, total |-> r,
                                             part |-> p.part, real |-> p.real]
                 /\ [p EXCEPT !.part = 0] = [msg |-> p.msg, lists |-> p.lists, total |-> p.total,
                                            part |-> 0, real |-> p.real]
      OBVIOUS
    <3>2. publisher \in R
      BY <2>4
    <3> HIDE DEF R
    <3> DEFINE p == [publisher EXCEPT !.lists = q]
               o == [p EXCEPT !.total = r]
    <3>3. p \in R /\ p = [msg |-> publisher.msg, lists |-> q, total |-> publisher.total,
                         part |-> publisher.part, real |-> publisher.real]
      BY <3>1, <3>2
    <3>4. [publisher EXCEPT !.lists = q, !.total = r, !.part = 0] = [o EXCEPT !.part = 0]
      OBVIOUS
    <3> HIDE DEF p
    <3>5. p.lists = q /\ p.msg = publisher.msg /\ p.real = publisher.real
      BY <3>3
    <3>6. o \in R /\ o = [msg |-> p.msg, lists |-> p.lists, total |-> r,
                         part |-> p.part, real |-> p.real]
      BY <3>1, <3>3
    <3> HIDE DEF o
    <3>7. o.lists = q /\ o.total = r /\ o.msg = publisher.msg /\ o.real = publisher.real
      BY <3>5, <3>6
    <3>8. [o EXCEPT !.part = 0] = [msg |-> o.msg, lists |-> o.lists, total |-> o.total,
                                   part |-> 0, real |-> o.real]
      BY <3>1, <3>6
    <3> QED BY <3>4, <3>7, <3>8
  <2> QED BY <2>1, <2>2, <2>3, <2>5
<1>5. /\ publisher'.lists \in Seq(Seq(Subs))
      /\ \A k \in DOMAIN publisher'.lists :
           k + 1 \in DOMAIN publisher.lists /\ publisher'.lists[k] = publisher.lists[k + 1]
      /\ \A s : Cardinality(Waiting(s)') = Cardinality(Waiting(s))
      /\ \A s : Waiting(s) # {} => Waiting(s)' # {}
  <2>1. publisher'.lists = Tail(publisher.lists)
    BY <1>4
  <2> QED BY <1>1, <2>1, TailTaken
<1>6. /\ publisher'.msg = publisher.msg /\ publisher'.total = r /\ publisher'.part = 0 /\ publisher'.real = r
      /\ publisher' \in [msg : Nat, lists : Seq(Seq(Subs)), total : Nat, part : Nat, real : Nat]
  <2>1. Tail(publisher.lists) \in Seq(Seq(Subs))
    BY <1>4, <1>5
  <2> QED BY <1>3, <1>4, <2>1
<1>7. PublisherOK'
  <2>1. ASSUME NEW k \in DOMAIN publisher'.lists
        PROVE  /\ NoDup(publisher'.lists[k])
               /\ \A s \in Elements(publisher'.lists[k]) : closing'[s] \notin {"close", "done"}
    BY <1>1, <1>5 DEF MInv, PublisherOK
  <2>2. r + 0 = r
    OBVIOUS
  <2>3. publisher'.total + publisher'.part = publisher'.real
    BY <1>6, <2>2
  <2> QED BY <1>1, <1>3, <1>6, <2>1, <2>3 DEF PublisherOK
<1>8. TypeOK'
  BY <1>1, <1>3, <1>6 DEF MInv, TypeOK
<1>9. Calling'
  BY <1>1 DEF MInv, Calling, ListOf
<1>10. Shares'
  <2>1. ~Unlocked
    BY <1>3 DEF Unlocked
  <2> QED BY <1>1, <1>5, <2>1 DEF MInv, Shares
<1> QED BY <1>1, <1>7, <1>8, <1>9, <1>10 DEF MInv

LEMMA MPublishReturns ==
  ASSUME MInv, PublishReturns
  PROVE  MInv'
<1>1. /\ publisher.lists = <<>> /\ publisher' = NoPublisher
      /\ UNCHANGED <<topics, chan, closed, closing, joining, count, due, copies, dropped>>
  BY DEF PublishReturns, callVars
<1>2. publisher'.lists = publisher.lists /\ publisher'.msg = 0 /\ Unlocked'
  BY <1>1 DEF NoPublisher, Unlocked
<1>3. PublisherOK'
  <2>1. NoPublisher \in [msg : Nat, lists : Seq(Seq(Subs)), total : Nat, part : Nat, real : Nat]
    BY DEF NoPublisher
  <2> QED BY <1>1, <2>1 DEF PublisherOK, NoPublisher
<1>4. Shares'
  BY <1>1, <1>2 DEF MInv, Shares, Waiting
<1>5. TypeOK'
  BY <1>1, <1>2 DEF MInv, TypeOK
<1>6. Calling'
  BY <1>1 DEF MInv, Calling, ListOf
<1> QED BY <1>1, <1>3, <1>4, <1>5, <1>6 DEF MInv

\* No send meets a closed channel.
LEMMA TargetOpen == ASSUME MInv, Sending PROVE ~ChanClosed(Target)
<1> DEFINE L == publisher.lists
           h == L[1]
<1>1. L \in Seq(Seq(Subs)) /\ L # <<>> /\ Head(L) # <<>> /\ Target = Head(Head(L))
  BY DEF MInv, PublisherOK, Sending, Target
<1>2. 1 \in DOMAIN L /\ 1 \in DOMAIN h /\ Target = h[1]
  BY <1>1
<1>3. Target \in Elements(h)
  BY <1>2 DEF Elements
<1> QED BY <1>2, <1>3 DEF MInv, PublisherOK, ChanClosed

LEMMA NoPanic == ASSUME MInv PROVE ~SendPanics
BY TargetOpen DEF SendPanics

-----------------------------------------------------------------------------
(* Theorems. *)

\* What each action that takes s from lists does.
LEMMA Taking ==
  ASSUME MInv, NEW s \in Subs
  PROVE  /\ \A t \in Topics : Unsubscribe(s, t) => TakenFrom(topics', topics, s, {t})
         /\ UnsubscribeAll(s) \/ CloseUnregister(s) => TakenFrom(topics', topics, s, DOMAIN topics)
<1>1. MapOK(topics)
  BY MFacts
<1> QED BY <1>1, UnregisteredFromWorks, UnregisteredFromAllWorks
        DEF Unsubscribe, UnsubscribeAll, CloseUnregister

LEMMA MStep ==
  ASSUME OneCaller, Named, MInv, [Next]_vars
  PROVE  MInv'
<1>1. ASSUME NEW s \in Subs, NEW ts \in TopicLists, Subscribe(s, ts) PROVE MInv'
  BY <1>1, MSubscribe
<1>2. ASSUME NEW s \in Subs, NEW t \in Topics, Unsubscribe(s, t) PROVE MInv'
  <2>1. TakenFrom(topics', topics, s, {t})
    BY <1>2, Taking
  <2>2. UNCHANGED <<chan, closed, joining, busVars>> /\ UNCHANGED closing
    BY <1>2 DEF Unsubscribe, callVars
  <2> QED BY <2>1, <2>2, MTake
<1>3. ASSUME NEW s \in Subs, Register(s) PROVE MInv'
  BY <1>3, MRegister
<1>4. ASSUME NEW s \in Subs, UnsubscribeAll(s) PROVE MInv'
  <2>1. TakenFrom(topics', topics, s, DOMAIN topics)
    BY <1>4, Taking
  <2>2. UNCHANGED <<chan, closed, joining, busVars>> /\ UNCHANGED closing
    BY <1>4 DEF UnsubscribeAll, callVars
  <2> QED BY <2>1, <2>2, MTake
<1>5. ASSUME NEW s \in Subs, CloseUnregister(s) PROVE MInv'
  <2>1. TakenFrom(topics', topics, s, DOMAIN topics)
    BY <1>5, Taking
  <2>2. /\ UNCHANGED <<chan, closed, joining, busVars>>
        /\ closing[s] = "unregister" /\ closing' = [closing EXCEPT ![s] = "close"] /\ Unlocked
    BY <1>5 DEF CloseUnregister
  <2> QED BY <2>1, <2>2, MTake
<1>6. ASSUME NEW s \in Subs, Close(s) \/ CloseChannel(s) \/ WaitOne(s) PROVE MInv'
  BY <1>6, MCloseAndWait
<1>7. ASSUME NEW t \in Published, Publish(t) PROVE MInv'
  BY <1>7, MPublish
<1>8. ASSUME Publishing PROVE MInv'
  BY <1>8, MSend, MNextList, MPublishReturns, NoPanic DEF Publishing
<1>9. CASE UNCHANGED vars
  <2>1. UNCHANGED <<topics, chan, closed, closing, joining, busVars>>
    BY <1>9 DEF vars, busVars
  <2>2. PublisherOK' /\ Shares'
    BY <2>1, BusSame DEF MInv
  <2>3. TypeOK'
    BY <2>1 DEF MInv, TypeOK, busVars
  <2>4. Calling'
    BY <2>1 DEF MInv, Calling, ListOf
  <2> QED BY <2>1, <2>2, <2>3, <2>4 DEF MInv
<1>10. CASE Next
  <2>1. CASE \E s \in Subs :
               \/ \E ts \in TopicLists : Subscribe(s, ts)
               \/ \E t \in Topics : Unsubscribe(s, t)
               \/ Register(s) \/ UnsubscribeAll(s)
               \/ Close(s) \/ CloseUnregister(s) \/ CloseChannel(s) \/ WaitOne(s)
    BY <1>1, <1>2, <1>3, <1>4, <1>5, <1>6, <2>1
  <2>2. CASE \E t \in Published : Publish(t)
    BY <1>7, <2>2
  <2> QED BY <1>8, <1>10, <2>1, <2>2 DEF Next
<1> QED BY <1>9, <1>10

\* The invariant, for every reachable state.
THEOREM Invariance == ASSUME OneCaller, Named PROVE Spec => []MInv
<1>1. Init => MInv
  BY MInit
<1>2. MInv /\ [Next]_vars => MInv'
  BY MStep
<1> QED BY <1>1, <1>2, PTL DEF Spec

\* Who subscribed to a topic, to a prefix of it or to the root gets the message
\* unless its channel is full, at most once for each of those, and Publish
\* returns the number of messages it sent (publishTopic, Publish).
THEOREM DeliveryHolds == ASSUME OneCaller, Named PROVE Spec => []Delivery
<1>1. ASSUME MInv PROVE Delivery
  <2>1. TypeOK
    BY <1>1 DEF MInv
  <2>2. Reached
    <3> SUFFICES ASSUME ~Unlocked, publisher.lists = <<>>, NEW s \in Subs, due[s] # {}
                 PROVE  copies[s] > 0 \/ s \in dropped
      BY DEF Reached
    <3>1. Waiting(s) = {}
      BY DEF Waiting
    <3> QED BY <1>1, <3>1 DEF MInv, Shares
  <2>3. NoExtraCopy
    <3> SUFFICES ASSUME NEW s \in Subs PROVE copies[s] <= Cardinality(due[s])
      BY DEF NoExtraCopy
    <3>1. Cardinality(Waiting(s)) \in Nat
      BY <1>1, WaitingFinite
    <3>2. copies[s] \in Nat /\ IsFiniteSet(due[s])
          /\ copies[s] + Cardinality(Waiting(s)) <= Cardinality(due[s])
      BY <1>1 DEF MInv, TypeOK, Shares
    <3>3. Cardinality(due[s]) \in Nat
      BY <3>2, FS_CardinalityType
    <3> QED BY <3>1, <3>2, <3>3
  <2>4. HonestCount
    <3> SUFFICES ASSUME publisher.lists = <<>> PROVE publisher.total = publisher.real
      BY DEF HonestCount
    <3>1. /\ publisher.total \in Nat /\ publisher.part = 0
          /\ publisher.total + publisher.part = publisher.real
      BY <1>1 DEF MInv, PublisherOK
    <3> QED BY <3>1
  <2> QED BY <2>1, <2>2, <2>3, <2>4 DEF Delivery
<1> QED BY <1>1, Invariance, PTL

\* Close takes a channel from every list before it closes it, so no closed
\* channel is registered and no send panics.
THEOREM NoneClosedHolds == ASSUME OneCaller, Named PROVE Spec => []NoneClosed
<1>1. ASSUME MInv PROVE NoneClosed
  <2> SUFFICES ASSUME NEW t \in DOMAIN topics, NEW s \in Elements(topics[t])
               PROVE  ~ChanClosed(s)
    BY DEF NoneClosed, NoneClosedOf
  <2>1. s \in Subs
    <3>1. topics[t] \in Seq(Subs)
      BY <1>1 DEF MInv, TypeOK
    <3> QED BY <3>1 DEF Elements
  <2> QED BY <1>1, <2>1 DEF MInv, Calling, ChanClosed
<1> QED BY <1>1, Invariance, PTL

\* No send meets a closed channel: publishTopic's recover has nothing to do.
THEOREM NeverPanics == ASSUME OneCaller, Named PROVE Spec => [][~SendPanics]_vars
<1>1. ASSUME MInv PROVE ~SendPanics
  BY <1>1, NoPanic
<1> QED BY <1>1, Invariance, PTL

\* Unsubscribe and UnsubscribeAll leave the subscriber on no list that they
\* are about, and every other one as often as it was
\* (unregisterChannelSafe and unregisterChannelFromAll, which shift the lists
\* they range over).
THEOREM RemovalHolds == ASSUME OneCaller, Named PROVE Spec => Removal
<1> DEFINE LeavesNothing ==
             \A s \in Subs :
               /\ \A t \in Topics : Unsubscribe(s, t) => s \notin Elements(ListOf(t)')
               /\ UnsubscribeAll(s) => \A t \in Topics : s \notin Elements(ListOf(t)')
           LeavesOthers ==
             \A s \in Subs :
               UnsubscribeAll(s) \/ CloseUnregister(s) \/ (\E t \in Topics : Unsubscribe(s, t))
                 => \A o \in Subs \ {s}, t \in Topics :
                      Occurrences(ListOf(t)', o) = Occurrences(ListOf(t), o)
<1>1. ASSUME MInv PROVE LeavesNothing
  <2>1. \A t : ListOf(t)' = Under(topics', t)
    BY DEF ListOf, Under
  <2>2. ASSUME NEW s \in Subs, NEW t \in Topics, Unsubscribe(s, t)
        PROVE  s \notin Elements(Under(topics', t))
    BY <1>1, <2>2, Taking, TakenFacts
  <2>3. ASSUME NEW s \in Subs, UnsubscribeAll(s), NEW t \in Topics
        PROVE  s \notin Elements(Under(topics', t))
    <3>1. TakenFrom(topics', topics, s, DOMAIN topics)
      BY <1>1, <2>3, Taking
    <3>2. CASE t \in DOMAIN topics
      BY <3>1, <3>2, TakenFacts
    <3>3. CASE t \notin DOMAIN topics
      <4>1. Under(topics', t) = <<>>
        BY <3>1, <3>3 DEF TakenFrom, Under
      <4> QED BY <4>1, EmptyList
    <3> QED BY <3>2, <3>3
  <2> QED BY <2>1, <2>2, <2>3
<1>2. ASSUME MInv PROVE LeavesOthers
  <2>1. ASSUME NEW s \in Subs,
               UnsubscribeAll(s) \/ CloseUnregister(s) \/ (\E t \in Topics : Unsubscribe(s, t)),
               NEW o \in Subs \ {s}, NEW t \in Topics
        PROVE  Occurrences(ListOf(t)', o) = Occurrences(ListOf(t), o)
    <3>1. PICK from : TakenFrom(topics', topics, s, from)
      BY <1>2, <2>1, Taking
    <3>2. o \in Elements(Under(topics', t)) <=> o \in Elements(Under(topics, t))
      BY <3>1, TakenFacts
    <3>3. MapOK(topics') /\ MapOK(topics)
      BY <1>2, <3>1, MFacts DEF TakenFrom
    <3>4. NoDup(Under(topics', t)) /\ NoDup(Under(topics, t))
      BY <3>3, EmptyList DEF MapOK, Under
    <3>5. Occurrences(Under(topics', t), o) = Occurrences(Under(topics, t), o)
      BY <3>2, <3>4, OccursOnce
    <3>6. ListOf(t)' = Under(topics', t) /\ ListOf(t) = Under(topics, t)
      BY DEF ListOf, Under
    <3> QED BY <3>5, <3>6
  <2> QED BY <2>1
<1> HIDE DEF LeavesNothing, LeavesOthers
<1>3. Spec => [][LeavesNothing]_vars
  BY <1>1, Invariance, PTL
<1>4. Spec => [][LeavesOthers]_vars
  BY <1>2, Invariance, PTL
<1> USE DEF LeavesNothing, LeavesOthers
<1> QED BY <1>3, <1>4, PTL DEF Removal, Gone, OthersKept

-----------------------------------------------------------------------------
(* How much a Publish has left, and that nobody keeps it waiting.           *)

\* A step of Publish ends it, ends a list, or takes a channel from its list.
Shortens ==
  \/ publisher.lists = <<>> /\ Unlocked'
  \/ Len(publisher'.lists) < Len(publisher.lists)
  \/ /\ Len(publisher'.lists) = Len(publisher.lists)
     /\ Len(Head(publisher'.lists)) < Len(Head(publisher.lists))

\* While one holds the mutex it never meets a step that is not open to it, its
\* steps shorten what it has left, and no other step lengthens it.
GoesOn ==
  ~Unlocked =>
    /\ \/ publisher.lists = <<>>
       \/ Head(publisher.lists) = <<>>
       \/ Sending /\ ~ChanClosed(Target)
    /\ Publishing => Shortens
    /\ ~Publishing => UNCHANGED publisher

LEMMA SendTakes ==
  ASSUME MInv, Send \/ SendDrops
  PROVE  publisher'.lists = [publisher.lists EXCEPT ![1] = Tail(@)]
<1>1. Sending
  BY DEF Send, SendDrops
<1> DEFINE short == [publisher.lists EXCEPT ![1] = Tail(@)]
           rest == RestOfList(publisher)
<1>2. rest = [msg |-> publisher.msg, lists |-> short, total |-> publisher.total,
              part |-> publisher.part, real |-> publisher.real]
  BY <1>1, RestFacts
<1>3. publisher' = rest \/ publisher' = [rest EXCEPT !.part = @ + 1, !.real = @ + 1]
  BY DEF Send, SendDrops
<1> HIDE DEF short, rest
<1>4. rest.lists = short
  BY <1>2
<1>5. [rest EXCEPT !.part = @ + 1, !.real = @ + 1].lists = rest.lists
  BY <1>2, ZenonT(60)
<1> QED BY <1>3, <1>4, <1>5 DEF short

LEMMA PublishingShortens ==
  ASSUME MInv, Publishing, ~Unlocked
  PROVE  Shortens
<1> DEFINE L == publisher.lists
           m == publisher'.lists
<1>1. L \in Seq(Seq(Subs)) /\ Len(L) \in Nat
  BY DEF MInv, PublisherOK
<1>2. CASE Send \/ SendDrops
  <2>1. L # <<>> /\ Head(L) # <<>> /\ m = [L EXCEPT ![1] = Tail(@)]
    BY <1>2, SendTakes DEF Send, SendDrops, Sending
  <2> HIDE DEF L, m
  <2>2. 1 \in DOMAIN L /\ L[1] = Head(L) /\ L[1] \in Seq(Subs) /\ Len(L[1]) \in Nat \ {0}
    BY <1>1, <2>1
  <2>3. Tail(L[1]) \in Seq(Subs) /\ Len(Tail(L[1])) = Len(L[1]) - 1
    BY <2>2
  <2>4. m \in Seq(Seq(Subs)) /\ Len(m) = Len(L) /\ m[1] = Tail(L[1])
    BY <1>1, <2>1, <2>2, <2>3
  <2>5. m # <<>> /\ Head(m) = m[1]
    BY <1>1, <2>1, <2>4
  <2>6. Len(Head(m)) < Len(Head(L))
    BY <2>2, <2>3, <2>4, <2>5
  <2> QED BY <2>4, <2>6 DEF Shortens, L, m
<1>3. CASE NextList
  <2>1. L # <<>> /\ m = Tail(L)
    <3>1. publisher' = [publisher EXCEPT !.lists = Tail(@), !.total = @ + publisher.part, !.part = 0]
          /\ L # <<>>
      BY <1>3 DEF NextList
    <3>2. publisher \in [msg : Nat, lists : Seq(Seq(Subs)), total : Nat, part : Nat, real : Nat]
      BY DEF MInv, PublisherOK
    <3> QED BY <3>1, <3>2, ZenonT(60)
  <2> HIDE DEF L, m
  <2>2. Len(m) = Len(L) - 1
    BY <1>1, <2>1
  <2>3. Len(m) < Len(L)
    BY <1>1, <2>2
  <2> QED BY <2>3 DEF Shortens, L, m
<1>4. CASE PublishReturns
  BY <1>4 DEF PublishReturns, Shortens, Unlocked
<1> QED BY <1>2, <1>3, <1>4, NoPanic DEF Publishing

\* Publish ends however long the lists are and whether anybody reads or not: a
\* full channel is passed by, no closed one is met, each step takes from the
\* lists it still has, and nobody adds to them (Publish and publishTopic of
\* minips.go).  This is why the mutex is always given back (PublishEnds).
THEOREM NeverBlocks == ASSUME OneCaller, Named PROVE Spec => [][GoesOn]_vars
<1>1. MInv /\ [Next]_vars => [GoesOn]_vars
  <2> SUFFICES ASSUME MInv, Next, ~Unlocked PROVE GoesOn
    BY DEF GoesOn
  <2>1. \/ publisher.lists = <<>>
        \/ Head(publisher.lists) = <<>>
        \/ Sending /\ ~ChanClosed(Target)
    BY TargetOpen DEF Sending
  <2>2. Publishing => Shortens
    BY PublishingShortens
  <2>3. ~Publishing => UNCHANGED publisher
    BY DEF Next, Subscribe, Unsubscribe, Register, UnsubscribeAll, Close,
                CloseUnregister, CloseChannel, WaitOne, Publish, busVars
  <2> QED BY <2>1, <2>2, <2>3 DEF GoesOn
<1> QED BY <1>1, Invariance, PTL DEF Spec
=============================================================================
