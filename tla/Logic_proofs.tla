---------------------------- MODULE Logic_proofs ----------------------------
(***************************************************************************)
(* Proofs about Logic, for lists of operands of every length and of all    *)
(* results, errors included: what the list operators of a filter mean.     *)
(***************************************************************************)
EXTENDS Logic, TLAPS, SequenceTheorems, WellFoundedInduction

Ops == {"and", "or", "nor"}

\* The operand evalListOp ends at: all before it let the loop go on.
EndsAt(op, rs, i) ==
  /\ i \in Stops(op, rs)
  /\ \A j \in DOMAIN rs : j < i => j \notin Stops(op, rs)

LEMMA Positions ==
  ASSUME NEW S, NEW rs \in Seq(S)
  PROVE  Len(rs) \in Nat /\ DOMAIN rs = 1 .. Len(rs)
OBVIOUS

LEMMA LeastPosition ==
  ASSUME NEW T, T \subseteq Nat, T # {}
  PROVE  \E m \in T : \A k \in T : m <= k
<1>1. PICK m \in T : \A k \in T : ~(<<k, m>> \in OpToRel(<, Nat))
  BY WFMin, NatLessThanWellFounded
<1>2. ASSUME NEW k \in T PROVE m <= k
  <2>1. ~(k < m)
    BY <1>1 DEF OpToRel
  <2> QED BY <2>1
<1> QED BY <1>2

\* What evalListOp returns: at the end of the list, or at the operand it ends
\* at, of which there is one if any operand errs or decides.
LEMMA ListEnd ==
  ASSUME NEW S, NEW rs \in Seq(S), NEW op
  PROVE  /\ Stops(op, rs) = {} => EvalListOp(op, rs) = Verdict(op # "or")
         /\ Stops(op, rs) # {} => \E i \in DOMAIN rs : EndsAt(op, rs, i)
         /\ \A i \in DOMAIN rs : EndsAt(op, rs, i) =>
              EvalListOp(op, rs) = IF Errs(rs[i]) THEN rs[i] ELSE Decided(op)
<1> DEFINE T == Stops(op, rs)
           first == CHOOSE i \in T : \A j \in T : i <= j
<1>1. Len(rs) \in Nat /\ DOMAIN rs = 1 .. Len(rs)
  BY Positions
<1>2. T \subseteq DOMAIN rs /\ T \subseteq Nat
  BY <1>1 DEF Stops
<1>3. T = {} => EvalListOp(op, rs) = Verdict(op # "or")
  BY DEF EvalListOp
<1>4. T # {} => EvalListOp(op, rs) = IF Errs(rs[first]) THEN rs[first] ELSE Decided(op)
  BY DEF EvalListOp
<1> HIDE DEF T, first
<1>5. ASSUME T # {} PROVE \E i \in DOMAIN rs : EndsAt(op, rs, i)
  <2>1. PICK m \in T : \A k \in T : m <= k
    BY <1>2, <1>5, LeastPosition
  <2>2. \A j \in DOMAIN rs : j < m => j \notin T
    BY <1>1, <1>2, <2>1
  <2> QED BY <1>2, <2>1, <2>2 DEF EndsAt, T
<1>6. ASSUME NEW i \in DOMAIN rs, EndsAt(op, rs, i)
      PROVE  EvalListOp(op, rs) = IF Errs(rs[i]) THEN rs[i] ELSE Decided(op)
  <2>1. i \in T /\ \A j \in DOMAIN rs : j < i => j \notin T
    BY <1>6 DEF EndsAt, T
  <2>2. \A j \in T : i <= j
    BY <1>1, <1>2, <2>1
  <2>3. first \in T /\ \A j \in T : first <= j
    BY <2>1, <2>2 DEF first
  <2>4. first = i
    BY <1>2, <2>1, <2>2, <2>3
  <2> QED BY <1>4, <2>1, <2>4
<1> QED BY <1>3, <1>5, <1>6 DEF T

-----------------------------------------------------------------------------
(* What the operators mean. *)

\* Without errors $and, $or and $nor are the quantifiers of logic, for a list
\* of any length, the empty one included.
THEOREM ListLogic ==
  ASSUME NEW rs \in Seq({"ok", "no"})
  PROVE  /\ EvalListOp("and", rs) = Verdict(\A i \in DOMAIN rs : rs[i] = "ok")
         /\ EvalListOp("or", rs)  = Verdict(\E i \in DOMAIN rs : rs[i] = "ok")
         /\ EvalListOp("nor", rs) = Verdict(~ \E i \in DOMAIN rs : rs[i] = "ok")
<1>1. \A i \in DOMAIN rs : rs[i] \in {"ok", "no"} /\ ~Errs(rs[i])
  BY DEF Errs
<1>2. \A op : Stops(op, rs) = {i \in DOMAIN rs : rs[i] = Decides(op)}
  BY <1>1 DEF Stops
<1>3. \A op : Stops(op, rs) = {} => EvalListOp(op, rs) = Verdict(op # "or")
  BY ListEnd
<1>4. \A op : Stops(op, rs) # {} => EvalListOp(op, rs) = Decided(op)
  BY <1>1, ListEnd
<1>5. EvalListOp("and", rs) = Verdict(\A i \in DOMAIN rs : rs[i] = "ok")
  <2>1. Stops("and", rs) = {i \in DOMAIN rs : rs[i] = "no"}
    BY <1>2 DEF Decides
  <2>2. CASE Stops("and", rs) = {}
    <3>1. \A i \in DOMAIN rs : rs[i] = "ok"
      BY <1>1, <2>1, <2>2
    <3>2. EvalListOp("and", rs) = "ok"
      BY <1>3, <2>2 DEF Verdict
    <3> QED BY <3>1, <3>2 DEF Verdict
  <2>3. CASE Stops("and", rs) # {}
    <3>1. ~ \A i \in DOMAIN rs : rs[i] = "ok"
      BY <2>1, <2>3
    <3>2. EvalListOp("and", rs) = "no"
      BY <1>4, <2>3 DEF Decided
    <3> QED BY <3>1, <3>2 DEF Verdict
  <2> QED BY <2>2, <2>3
<1>6. EvalListOp("or", rs) = Verdict(\E i \in DOMAIN rs : rs[i] = "ok")
  <2>1. Stops("or", rs) = {i \in DOMAIN rs : rs[i] = "ok"}
    BY <1>2 DEF Decides
  <2>2. CASE Stops("or", rs) = {}
    BY <1>3, <2>1, <2>2 DEF Verdict
  <2>3. CASE Stops("or", rs) # {}
    BY <1>4, <2>1, <2>3 DEF Verdict, Decided
  <2> QED BY <2>2, <2>3
<1>7. EvalListOp("nor", rs) = Verdict(~ \E i \in DOMAIN rs : rs[i] = "ok")
  BY <1>1, <1>2, <1>3, <1>4 DEF Verdict, Decides, Decided
<1> QED BY <1>5, <1>6, <1>7

\* An error is returned exactly when an operand errs and none before it decides
\* or errs, and it is the error of that operand.
THEOREM FirstError ==
  ASSUME NEW S, NEW rs \in Seq(S), NEW op \in Ops
  PROVE  /\ Errs(EvalListOp(op, rs)) <=>
              \E i \in DOMAIN rs : Errs(rs[i]) /\ EndsAt(op, rs, i)
         /\ \A i \in DOMAIN rs :
              Errs(rs[i]) /\ EndsAt(op, rs, i) => EvalListOp(op, rs) = rs[i]
<1>1. ~Errs(Decided(op)) /\ ~Errs(Verdict(op # "or"))
  BY DEF Errs, Decided, Verdict
<1>2. \A i \in DOMAIN rs : EndsAt(op, rs, i) =>
        EvalListOp(op, rs) = IF Errs(rs[i]) THEN rs[i] ELSE Decided(op)
  BY ListEnd
<1>3. Errs(EvalListOp(op, rs)) => \E i \in DOMAIN rs : EndsAt(op, rs, i)
  BY <1>1, ListEnd
<1> QED BY <1>1, <1>2, <1>3

\* What passes a filter, errors or not: $and asks all operands to hold, $nor
\* all not to, and $or one to hold with no error before it.  An access rule
\* joined to a filter with $and therefore never lets more through.
THEOREM Passes ==
  ASSUME NEW S, NEW rs \in Seq(S)
  PROVE  /\ EvalListOp("and", rs) = "ok" <=> \A i \in DOMAIN rs : rs[i] = "ok"
         /\ EvalListOp("nor", rs) = "ok" <=> \A i \in DOMAIN rs : rs[i] = "no"
         /\ EvalListOp("or", rs) = "ok" <=>
              \E i \in DOMAIN rs :
                rs[i] = "ok" /\ \A j \in DOMAIN rs : j < i => ~Errs(rs[j])
<1>1. Len(rs) \in Nat /\ DOMAIN rs = 1 .. Len(rs)
  BY Positions
<1>2. ASSUME NEW op \in {"and", "nor"}
      PROVE  EvalListOp(op, rs) = "ok" <=> Stops(op, rs) = {}
  <2>1. Verdict(op # "or") = "ok" /\ Decided(op) = "no"
    BY DEF Verdict, Decided
  <2>2. \A i \in DOMAIN rs : Errs(rs[i]) => rs[i] # "ok"
    BY DEF Errs
  <2>3. CASE Stops(op, rs) = {}
    BY <2>1, <2>3, ListEnd
  <2>4. CASE Stops(op, rs) # {}
    BY <2>1, <2>2, <2>4, ListEnd
  <2> QED BY <2>3, <2>4
<1>3. EvalListOp("and", rs) = "ok" <=> \A i \in DOMAIN rs : rs[i] = "ok"
  BY <1>2 DEF Stops, Errs, Decides
<1>4. EvalListOp("nor", rs) = "ok" <=> \A i \in DOMAIN rs : rs[i] = "no"
  BY <1>2 DEF Stops, Errs, Decides
<1>5. ASSUME EvalListOp("or", rs) = "ok"
      PROVE  \E i \in DOMAIN rs :
               rs[i] = "ok" /\ \A j \in DOMAIN rs : j < i => ~Errs(rs[j])
  <2>1. Stops("or", rs) # {}
    BY <1>5, ListEnd DEF Verdict
  <2>2. PICK i \in DOMAIN rs : EndsAt("or", rs, i)
    BY <2>1, ListEnd
  <2>3. rs[i] = "ok"
    BY <1>5, <2>2, ListEnd DEF EndsAt, Stops, Decides, Errs
  <2>4. \A j \in DOMAIN rs : j < i => ~Errs(rs[j])
    BY <2>2 DEF EndsAt, Stops
  <2> QED BY <2>3, <2>4
<1>6. ASSUME NEW i \in DOMAIN rs, rs[i] = "ok",
             \A j \in DOMAIN rs : j < i => ~Errs(rs[j])
      PROVE  EvalListOp("or", rs) = "ok"
  <2>1. Stops("or", rs) # {}
    BY <1>6 DEF Stops, Decides
  <2>2. PICK k \in DOMAIN rs : EndsAt("or", rs, k)
    BY <2>1, ListEnd
  <2>3. i \in Stops("or", rs)
    BY <1>6 DEF Stops, Decides
  <2>4. k <= i
    BY <1>1, <2>2, <2>3 DEF EndsAt
  <2>5. ~Errs(rs[k])
    BY <1>1, <1>6, <2>4 DEF Errs
  <2> QED BY <2>2, <2>5, ListEnd DEF Decided
<1> QED BY <1>3, <1>4, <1>5, <1>6

-----------------------------------------------------------------------------
(* Laws. *)

LEMMA NegatedFacts ==
  ASSUME NEW r
  PROVE  /\ Errs(Negated(r)) <=> Errs(r)
         /\ Errs(r) => Negated(r) = r
         /\ Negated(r) = "ok" <=> r = "no"
         /\ Negated(r) = "no" <=> r = "ok"
BY DEF Negated, Errs

\* $nor is the negation of $or, errors included: evalListOp loses none and
\* looks at the same operands.
THEOREM NorNegatesOr ==
  ASSUME NEW S, NEW rs \in Seq(S)
  PROVE  EvalListOp("nor", rs) = Negated(EvalListOp("or", rs))
<1>1. Stops("nor", rs) = Stops("or", rs)
  BY DEF Stops, Decides
<1>2. CASE Stops("or", rs) = {}
  BY <1>1, <1>2, ListEnd DEF Verdict, Negated
<1>3. CASE Stops("or", rs) # {}
  <2>1. PICK i \in DOMAIN rs : EndsAt("or", rs, i)
    BY <1>3, ListEnd
  <2>2. EndsAt("nor", rs, i)
    BY <1>1, <2>1 DEF EndsAt
  <2>3. EvalListOp("nor", rs) = IF Errs(rs[i]) THEN rs[i] ELSE "no"
    BY <2>2, ListEnd DEF Decided
  <2>4. EvalListOp("or", rs) = IF Errs(rs[i]) THEN rs[i] ELSE "ok"
    BY <2>1, ListEnd DEF Decided
  <2> QED BY <2>3, <2>4, NegatedFacts DEF Negated
<1> QED BY <1>2, <1>3

\* De Morgan: a negated $and is the $or of the negations, and the $and of the
\* negations is $nor, with the same error from the same operand.
THEOREM DeMorgan ==
  ASSUME NEW S, NEW rs \in Seq(S)
  PROVE  LET ns == [i \in DOMAIN rs |-> Negated(rs[i])] IN
         /\ Negated(EvalListOp("and", rs)) = EvalListOp("or", ns)
         /\ EvalListOp("and", ns) = EvalListOp("nor", rs)
<1> DEFINE ns == [i \in DOMAIN rs |-> Negated(rs[i])]
           N == {Negated(rs[i]) : i \in DOMAIN rs}
<1>1. Len(rs) \in Nat /\ DOMAIN rs = 1 .. Len(rs)
  BY Positions
<1>2. ns \in Seq(N) /\ DOMAIN ns = DOMAIN rs
  BY <1>1
<1>3. \A i \in DOMAIN rs : ns[i] = Negated(rs[i])
  OBVIOUS
<1> HIDE DEF ns, N
<1>4. Stops("or", ns) = Stops("and", rs)
  BY <1>2, <1>3, NegatedFacts DEF Stops, Decides
<1>5. ASSUME Stops("and", rs) = {}
      PROVE  Negated(EvalListOp("and", rs)) = EvalListOp("or", ns)
  <2>1. EvalListOp("and", rs) = "ok"
    BY <1>5, ListEnd DEF Verdict
  <2>2. EvalListOp("or", ns) = "no"
    BY <1>2, <1>4, <1>5, ListEnd DEF Verdict
  <2> QED BY <2>1, <2>2, NegatedFacts
<1>6. ASSUME Stops("and", rs) # {}
      PROVE  Negated(EvalListOp("and", rs)) = EvalListOp("or", ns)
  <2>1. PICK i \in DOMAIN rs : EndsAt("and", rs, i)
    BY <1>6, ListEnd
  <2>2. i \in DOMAIN ns /\ EndsAt("or", ns, i)
    BY <1>2, <1>4, <2>1 DEF EndsAt
  <2>3. EvalListOp("and", rs) = IF Errs(rs[i]) THEN rs[i] ELSE "no"
    BY <2>1, ListEnd DEF Decided
  <2>4. EvalListOp("or", ns) = IF Errs(ns[i]) THEN ns[i] ELSE "ok"
    BY <1>2, <2>2, ListEnd DEF Decided
  <2>5. ns[i] = Negated(rs[i])
    BY <1>3
  <2> QED BY <2>3, <2>4, <2>5, NegatedFacts
<1>7. Stops("and", ns) = Stops("nor", rs)
  BY <1>2, <1>3, NegatedFacts DEF Stops, Decides
<1>8. CASE Stops("nor", rs) = {}
  <2>1. EvalListOp("nor", rs) = "ok" /\ EvalListOp("and", ns) = "ok"
    BY <1>2, <1>7, <1>8, ListEnd DEF Verdict
  <2> QED BY <1>5, <1>6, <2>1 DEF ns
<1>9. CASE Stops("nor", rs) # {}
  <2>1. PICK i \in DOMAIN rs : EndsAt("nor", rs, i)
    BY <1>9, ListEnd
  <2>2. i \in DOMAIN ns /\ EndsAt("and", ns, i)
    BY <1>2, <1>7, <2>1 DEF EndsAt
  <2>3. EvalListOp("nor", rs) = IF Errs(rs[i]) THEN rs[i] ELSE "no"
    BY <2>1, ListEnd DEF Decided
  <2>4. EvalListOp("and", ns) = IF Errs(ns[i]) THEN ns[i] ELSE "no"
    BY <1>2, <2>2, ListEnd DEF Decided
  <2>5. EvalListOp("and", ns) = EvalListOp("nor", rs)
    BY <1>3, <2>3, <2>4, NegatedFacts
  <2> QED BY <1>5, <1>6, <2>5 DEF ns
<1> QED BY <1>8, <1>9

\* Nesting: merging two merged expressions with the same operator says what
\* one list of all their operands says, errors included.
THEOREM Nesting ==
  ASSUME NEW S, NEW rs \in Seq(S), NEW ss \in Seq(S), NEW op \in {"and", "or"}
  PROVE  EvalListOp(op, rs \o ss) =
           EvalListOp(op, <<EvalListOp(op, rs), EvalListOp(op, ss)>>)
<1> DEFINE a == EvalListOp(op, rs)
           b == EvalListOp(op, ss)
           all == rs \o ss
           two == <<a, b>>
           n == Len(rs)
           m == Len(ss)
<1>1. /\ n \in Nat /\ DOMAIN rs = 1 .. n
      /\ m \in Nat /\ DOMAIN ss = 1 .. m
  BY Positions
<1>2. /\ all \in Seq(S) /\ DOMAIN all = 1 .. n + m
      /\ \A i \in 1 .. n : all[i] = rs[i]
      /\ \A i \in 1 .. m : all[n + i] = ss[i]
      /\ \A i \in 1 .. n + m : i <= n \/ (i - n \in 1 .. m /\ all[i] = ss[i - n])
  BY <1>1, ConcatProperties
<1>3. two \in Seq({a, b}) /\ DOMAIN two = 1 .. 2 /\ two[1] = a /\ two[2] = b
  OBVIOUS
<1>4. /\ Decided(op) = Decides(op) /\ ~Errs(Decided(op))
      /\ ~Errs(Verdict(op # "or")) /\ Verdict(op # "or") # Decides(op)
  BY DEF Decided, Decides, Verdict, Errs
<1> HIDE DEF a, b, all, two, n, m
<1>5. CASE Stops(op, rs) # {}
  <2>1. PICK i \in DOMAIN rs : EndsAt(op, rs, i)
    BY <1>5, ListEnd
  <2>2. a = IF Errs(rs[i]) THEN rs[i] ELSE Decided(op)
    BY <2>1, ListEnd DEF a
  <2>3. i \in DOMAIN all /\ EndsAt(op, all, i) /\ all[i] = rs[i]
    BY <1>1, <1>2, <2>1 DEF EndsAt, Stops
  <2>4. EvalListOp(op, all) = a
    BY <1>2, <2>2, <2>3, ListEnd
  <2>5. 1 \in Stops(op, two)
    BY <1>3, <1>4, <2>2 DEF Stops
  <2>6. EndsAt(op, two, 1)
    BY <1>3, <2>5 DEF EndsAt
  <2>7. EvalListOp(op, two) = IF Errs(a) THEN a ELSE Decided(op)
    BY <1>3, <2>6, ListEnd
  <2> QED BY <1>4, <2>2, <2>4, <2>7 DEF a, b, all, two
<1>6. CASE Stops(op, rs) = {} /\ Stops(op, ss) # {}
  <2>1. PICK i \in DOMAIN ss : EndsAt(op, ss, i)
    BY <1>6, ListEnd
  <2>2. /\ a = Verdict(op # "or")
        /\ b = IF Errs(ss[i]) THEN ss[i] ELSE Decided(op)
    BY <1>6, <2>1, ListEnd DEF a, b
  <2>3. n + i \in DOMAIN all /\ all[n + i] = ss[i] /\ n + i \in Stops(op, all)
    BY <1>1, <1>2, <2>1 DEF EndsAt, Stops
  <2>4. ASSUME NEW j \in DOMAIN all, j < n + i PROVE j \notin Stops(op, all)
    <3>1. CASE j <= n
      BY <1>1, <1>2, <1>6, <3>1 DEF Stops
    <3>2. CASE ~(j <= n)
      <4>1. j - n \in DOMAIN ss /\ j - n < i /\ all[j] = ss[j - n]
        BY <1>1, <1>2, <2>1, <2>4, <3>2
      <4> QED BY <2>1, <4>1 DEF EndsAt, Stops
    <3> QED BY <3>1, <3>2
  <2>5. EvalListOp(op, all) = b
    <3>1. EndsAt(op, all, n + i)
      BY <2>3, <2>4 DEF EndsAt
    <3> QED BY <1>2, <2>2, <2>3, <3>1, ListEnd
  <2>6. 2 \in Stops(op, two) /\ 1 \notin Stops(op, two)
    BY <1>3, <1>4, <2>2 DEF Stops
  <2>7. EndsAt(op, two, 2)
    BY <1>3, <2>6 DEF EndsAt
  <2>8. EvalListOp(op, two) = IF Errs(b) THEN b ELSE Decided(op)
    BY <1>3, <2>7, ListEnd
  <2> QED BY <1>4, <2>2, <2>5, <2>8 DEF a, b, all, two
<1>7. CASE Stops(op, rs) = {} /\ Stops(op, ss) = {}
  <2>1. a = Verdict(op # "or") /\ b = Verdict(op # "or")
    BY <1>7, ListEnd DEF a, b
  <2>2. Stops(op, all) = {}
    <3>1. ASSUME NEW j \in DOMAIN all PROVE j \notin Stops(op, all)
      <4>1. CASE j <= n
        BY <1>1, <1>2, <1>7, <4>1 DEF Stops
      <4>2. CASE ~(j <= n)
        <5>1. j - n \in DOMAIN ss /\ all[j] = ss[j - n]
          BY <1>1, <1>2, <4>2
        <5> QED BY <1>7, <5>1 DEF Stops
      <4> QED BY <4>1, <4>2
    <3> QED BY <3>1 DEF Stops
  <2>3. Stops(op, two) = {}
    BY <1>3, <1>4, <2>1 DEF Stops
  <2>4. EvalListOp(op, all) = Verdict(op # "or")
    BY <1>2, <2>2, ListEnd
  <2>5. EvalListOp(op, two) = Verdict(op # "or")
    BY <1>3, <2>3, ListEnd
  <2> QED BY <2>4, <2>5 DEF a, b, all, two
<1> QED BY <1>5, <1>6, <1>7
=============================================================================
