--------------------------- MODULE Storages_proofs ---------------------------
(***************************************************************************)
(* Proofs about Storages, for every set of sources, ids and cursors, every *)
(* page size and every bound: both backends implement ItemQueue, and they  *)
(* answer alike as long as no write was done by one of them only.          *)
(***************************************************************************)
EXTENDS Storages, TLAPS, FiniteSetTheorems, SequenceTheorems

\* MAX(order_index), or 0, is a natural number.
LEMMA MaxOrderType ==
  ASSUME NEW T, T \in [DOMAIN T -> Row]
  PROVE  MaxOrder(T) \in Nat
<1> DEFINE orders == {T[e].order : e \in DOMAIN T}
           IsMax(m) == m \in orders /\ \A n \in orders : n <= m
<1>1. orders \subseteq Nat
  BY DEF Row
<1>2. CASE \E m \in orders : IsMax(m)
  <2>1. (CHOOSE m \in orders : IsMax(m)) \in orders
    BY <1>2
  <2> QED BY <1>1, <1>2, <2>1 DEF MaxOrder
<1>3. CASE ~ \E m \in orders : IsMax(m)
  BY <1>3 DEF MaxOrder
<1> QED BY <1>2, <1>3

\* Finitely many rows, each with an index of its own.
Stored(t) ==
  /\ DOMAIN t \subseteq Ids /\ t \in [DOMAIN t -> Row] /\ IsFiniteSet(DOMAIN t)
  /\ \A x, y \in DOMAIN t : t[x].order = t[y].order => x = y

\* Of the rows t and the items u of a source: sqlite has a row for the source
\* before it has items, and memory's next index is beyond all it has given.
SourceOK(t, u, source, next, sweeping) ==
  /\ Stored(t) /\ Stored(u)
  /\ source = NoRow => DOMAIN t = {}
  /\ \A x \in DOMAIN u : u[x].order < next
  /\ sweeping.on \in {"no"} \cup Backends /\ sweeping.page \in Seq(Ids)

\* The same items in the same relative order; their indexes may differ.
Alike(t, u) ==
  /\ DOMAIN t = DOMAIN u
  /\ \A x, y \in DOMAIN t : t[x].order < t[y].order <=> u[x].order < u[y].order
  /\ \A x \in DOMAIN t : t[x].done = u[x].done

\* A sweep unlocks the rows first, then the items: between the two, and only
\* then, may the backends disagree about what is locked.
AlikeOK(t, u, source, cur, next, sweeping) ==
  /\ source = cur
  /\ Alike(t, u)
  /\ MaxOrder(t) <= IF next > 0 THEN next - 1 ELSE 0
  /\ sweeping.on = "no" => LockedRows(t) = LockedRows(u)
  /\ sweeping.on = "memory" => LockedRows(t) = {}

SourceInv(s) ==
  /\ SourceOK(table[s], items[s], sources[s], nextIndex[s], sweep[s])
  /\ s \notin apart =>
       AlikeOK(table[s], items[s], sources[s], cursors[s], nextIndex[s], sweep[s])

\* The column is there, or its absence was noticed, from the moment the
\* migration is past it; the stored version says the same of earlier runs.
SchemaInv ==
  schema.version = 1 \/ conn \in {"version", "open"} => schema.locked \/ schema.missed

SchemaType == [version : 0 .. 1, exists : BOOLEAN, locked : BOOLEAN, missed : BOOLEAN]

\* The part of TypeOK that is not about the contents of a source.
Shape ==
  /\ DOMAIN table = Sources /\ DOMAIN items = Sources /\ DOMAIN sweep = Sources
  /\ sources \in [Sources -> Cursors \cup {NoRow}]
  /\ cursors \in [Sources -> Cursors \cup {NoRow}]
  /\ nextIndex \in [Sources -> Nat]
  /\ schema \in [version : 0 .. 1, exists : BOOLEAN, locked : BOOLEAN, missed : BOOLEAN]
  /\ conn \in {"down", "alter", "version", "open", "closed", "dropped"}
  /\ apart \subseteq Sources /\ faults \in 0 .. MaxFaults

SInv == Shape /\ SchemaInv /\ \A s \in Sources : SourceInv(s)

-----------------------------------------------------------------------------
(* The order of a table.  Nth and Rank are inverse to each other.          *)

UpTo(t, S, x) == {y \in S : t[y].order <= t[x].order}
Rank(t, S, x) == Cardinality(UpTo(t, S, x))

\* S is a set of rows of t with distinct indexes.
RowsOf(t, S) ==
  /\ IsFiniteSet(S) /\ \A x \in S : t[x].order \in Nat
  /\ \A x, y \in S : t[x].order = t[y].order => x = y

\* The rows before x are one fewer than those up to it.
LEMMA RankType ==
  ASSUME NEW t, NEW S, RowsOf(t, S), NEW x \in S
  PROVE  /\ Rank(t, S, x) \in 1 .. Cardinality(S)
         /\ Cardinality({y \in S : t[y].order < t[x].order}) = Rank(t, S, x) - 1
<1> DEFINE before == {y \in S : t[y].order < t[x].order}
<1>1. /\ IsFiniteSet(UpTo(t, S, x)) /\ Rank(t, S, x) \in Nat /\ Cardinality(S) \in Nat
      /\ Rank(t, S, x) <= Cardinality(S)
  BY FS_Subset, FS_CardinalityType DEF UpTo, Rank, RowsOf
<1>2. x \in UpTo(t, S, x) /\ before = UpTo(t, S, x) \ {x}
  BY DEF UpTo, RowsOf
<1>3. Cardinality(before) = Rank(t, S, x) - 1
  BY <1>1, <1>2, FS_RemoveElement DEF Rank
<1>4. Rank(t, S, x) # 0
  BY <1>1, <1>2, FS_EmptySet DEF Rank
<1> QED BY <1>1, <1>3, <1>4

\* A row with a smaller index has a smaller rank.
LEMMA RankGrows ==
  ASSUME NEW t, NEW S, RowsOf(t, S), NEW x \in S, NEW y \in S,
         t[x].order < t[y].order
  PROVE  Rank(t, S, x) < Rank(t, S, y)
<1>1. UpTo(t, S, x) \subseteq UpTo(t, S, y) /\ y \in UpTo(t, S, y) \ UpTo(t, S, x)
  BY DEF UpTo, RowsOf
<1>2. IsFiniteSet(UpTo(t, S, y))
  BY FS_Subset DEF UpTo, RowsOf
<1>3. /\ Rank(t, S, x) <= Rank(t, S, y)
      /\ Rank(t, S, x) = Rank(t, S, y) => UpTo(t, S, x) = UpTo(t, S, y)
  BY <1>1, <1>2, FS_Subset DEF Rank
<1>4. /\ Rank(t, S, x) \in 1 .. Cardinality(S)
      /\ Rank(t, S, y) \in 1 .. Cardinality(S)
  BY RankType
<1> QED BY <1>1, <1>3, <1>4, FS_CardinalityType DEF RowsOf

\* The k-th row exists, and is the one of rank k.
LEMMA NthFacts ==
  ASSUME NEW t, NEW S, RowsOf(t, S)
  PROVE  /\ \A k \in 1 .. Cardinality(S) :
              Nth(t, S, k) \in S /\ Rank(t, S, Nth(t, S, k)) = k
         /\ \A x \in S : Nth(t, S, Rank(t, S, x)) = x
<1> DEFINE n == Cardinality(S)
           f == [x \in S |-> Rank(t, S, x)]
<1>0. n \in Nat
  BY FS_CardinalityType DEF RowsOf
<1>1. \A x, y \in S : Rank(t, S, x) = Rank(t, S, y) => x = y
  <2> SUFFICES ASSUME NEW x \in S, NEW y \in S, x # y
               PROVE  Rank(t, S, x) # Rank(t, S, y)
    OBVIOUS
  <2>1. t[x].order < t[y].order \/ t[y].order < t[x].order
    BY DEF RowsOf
  <2>2. Rank(t, S, x) \in 1 .. n /\ Rank(t, S, y) \in 1 .. n
    BY RankType
  <2> QED BY <1>0, <2>1, <2>2, RankGrows
<1>2. f \in Injection(S, 1 .. n)
  <2>1. f \in [S -> 1 .. n]
    BY RankType
  <2> QED BY <1>1, <2>1 DEF Injection, IsInjective
<1>3. IsFiniteSet(1 .. n) /\ Cardinality(1 .. n) = n
  BY <1>0, FS_Interval
<1>4. f \in Surjection(S, 1 .. n)
  BY <1>2, <1>3, FS_Injection
<1>5. \A k \in 1 .. n : \E x \in S : Rank(t, S, x) = k
  BY <1>4 DEF Surjection
<1>6. ASSUME NEW k \in 1 .. n
      PROVE  Nth(t, S, k) \in S /\ Rank(t, S, Nth(t, S, k)) = k
  <2> DEFINE P(x) == /\ Cardinality({y \in S : t[y].order < t[x].order}) < k
                     /\ k <= Cardinality({y \in S : t[y].order <= t[x].order})
  <2>1. \A x \in S : P(x) <=> Rank(t, S, x) = k
    <3> TAKE x \in S
    <3>1. /\ Rank(t, S, x) \in 1 .. n
          /\ Cardinality({y \in S : t[y].order < t[x].order}) = Rank(t, S, x) - 1
      BY RankType
    <3>2. Cardinality({y \in S : t[y].order <= t[x].order}) = Rank(t, S, x)
      BY DEF Rank, UpTo
    <3> QED BY <1>0, <3>1, <3>2
  <2>2. \E x \in S : P(x)
    BY <1>5, <2>1
  <2>3. Nth(t, S, k) \in S /\ P(Nth(t, S, k))
    BY <2>2 DEF Nth
  <2> QED BY <2>1, <2>3
<1>7. ASSUME NEW x \in S PROVE Nth(t, S, Rank(t, S, x)) = x
  BY <1>1, <1>6, RankType
<1> QED BY <1>6, <1>7

\* Tables that order the same rows alike have the same k-th row.
LEMMA SameNth ==
  ASSUME NEW t, NEW u, NEW S, RowsOf(t, S), RowsOf(u, S),
         \A x, y \in S : t[x].order < t[y].order <=> u[x].order < u[y].order,
         NEW k \in 1 .. Cardinality(S)
  PROVE  Nth(t, S, k) = Nth(u, S, k)
<1>1. \A x \in S : Rank(t, S, x) = Rank(u, S, x)
  <2> TAKE x \in S
  <2>1. \A y \in S : t[y].order <= t[x].order <=> u[y].order <= u[x].order
    BY DEF RowsOf
  <2>2. UpTo(t, S, x) = UpTo(u, S, x)
    BY <2>1 DEF UpTo
  <2> QED BY <2>2 DEF Rank
<1>2. Nth(t, S, k) \in S /\ Rank(t, S, Nth(t, S, k)) = k
  BY NthFacts
<1>3. Nth(u, S, Rank(u, S, Nth(t, S, k))) = Nth(t, S, k)
  BY <1>2, NthFacts
<1> QED BY <1>1, <1>2, <1>3

\* When a row goes, those behind it move up.
LEMMA NthWithout ==
  ASSUME NEW t, NEW u, NEW S, NEW W, RowsOf(t, S), RowsOf(u, W),
         NEW i \in S, i \notin W, W \subseteq S, S \subseteq W \cup {i},
         \A x \in W : u[x].order = t[x].order
  PROVE  /\ Cardinality(W) = Cardinality(S) - 1
         /\ \A k \in 1 .. Cardinality(S) - 1 :
              Nth(u, W, k) = IF k < Rank(t, S, i) THEN Nth(t, S, k)
                                                  ELSE Nth(t, S, k + 1)
<1> DEFINE n == Cardinality(S)
           r == Rank(t, S, i)
<1>0. n \in Nat
  BY FS_CardinalityType DEF RowsOf
<1>1. IsFiniteSet(W) /\ Cardinality(W) = n - 1
  <2>1. W = S \ {i}
    OBVIOUS
  <2> QED BY <2>1, FS_RemoveElement DEF RowsOf
<1>3. r \in 1 .. n
  BY RankType
<1>4. ASSUME NEW x \in W
      PROVE  Rank(u, W, x) = IF Rank(t, S, x) < r THEN Rank(t, S, x)
                                                  ELSE Rank(t, S, x) - 1
  <2>1. UpTo(u, W, x) = UpTo(t, S, x) \ {i}
    BY DEF UpTo
  <2>2. IsFiniteSet(UpTo(t, S, x))
    BY FS_Subset DEF UpTo, RowsOf
  <2>3. Rank(u, W, x) = IF i \in UpTo(t, S, x) THEN Rank(t, S, x) - 1
                                               ELSE Rank(t, S, x)
    BY <2>1, <2>2, FS_RemoveElement DEF Rank
  <2>4. Rank(t, S, x) \in 1 .. n
    BY RankType
  <2>5. CASE t[x].order < t[i].order
    <3>1. i \notin UpTo(t, S, x)
      BY <2>5 DEF UpTo, RowsOf
    <3>2. Rank(t, S, x) < r
      BY <2>5, RankGrows
    <3> QED BY <2>3, <3>1, <3>2
  <2>6. CASE t[i].order < t[x].order
    <3>1. i \in UpTo(t, S, x)
      BY <2>6 DEF UpTo, RowsOf
    <3>2. r < Rank(t, S, x)
      BY <2>6, RankGrows
    <3> QED BY <1>3, <2>3, <2>4, <3>1, <3>2
  <2> QED BY <2>5, <2>6 DEF RowsOf
<1>5. ASSUME NEW k \in 1 .. n - 1
      PROVE  Nth(u, W, k) = IF k < r THEN Nth(t, S, k) ELSE Nth(t, S, k + 1)
  <2> DEFINE j == IF k < r THEN k ELSE k + 1
             x == Nth(t, S, j)
  <2>1. j \in 1 .. n /\ j # r
    BY <1>0, <1>3
  <2> HIDE DEF j
  <2>2. x \in S /\ Rank(t, S, x) = j
    BY <2>1, NthFacts
  <2>3. x \in W
    BY <2>1, <2>2
  <2> HIDE DEF x
  <2>4. Rank(u, W, x) = IF j < r THEN j ELSE j - 1
    BY <1>4, <2>2, <2>3
  <2>5. (IF j < r THEN j ELSE j - 1) = k
    BY <1>0, <1>3 DEF j
  <2>6. Nth(u, W, k) = x
    BY <2>3, <2>4, <2>5, NthFacts
  <2> QED BY <2>6 DEF x, j
<1> QED BY <1>1, <1>5

\* A row whose index is the greatest is the last one.
LEMMA NthLast ==
  ASSUME NEW t, NEW u, NEW S, NEW V, RowsOf(t, S), RowsOf(u, V),
         NEW i \in V, i \notin S, S \subseteq V, V \subseteq S \cup {i},
         \A x \in S : u[x].order = t[x].order /\ u[x].order < u[i].order
  PROVE  /\ Cardinality(S) \in Nat /\ Cardinality(V) = Cardinality(S) + 1
         /\ \A k \in 1 .. Cardinality(S) : Nth(u, V, k) = Nth(t, S, k)
         /\ Nth(u, V, Cardinality(S) + 1) = i
<1> DEFINE n == Cardinality(S)
<1>1. V = S \cup {i} /\ IsFiniteSet(S)
  BY DEF RowsOf
<1>2. /\ n = Cardinality(V) - 1
      /\ \A k \in 1 .. Cardinality(V) - 1 :
           Nth(t, S, k) = IF k < Rank(u, V, i) THEN Nth(u, V, k) ELSE Nth(u, V, k + 1)
  <2>1. \A x \in S : t[x].order = u[x].order
    OBVIOUS
  <2> QED BY <2>1, NthWithout
<1>3. n \in Nat /\ Cardinality(V) = n + 1
  BY <1>1, FS_CardinalityType, FS_AddElement
<1>4. Rank(u, V, i) = n + 1
  <2>1. UpTo(u, V, i) = V
    BY DEF UpTo, RowsOf
  <2> QED BY <1>3, <2>1 DEF Rank
<1>5. ASSUME NEW k \in 1 .. n PROVE Nth(u, V, k) = Nth(t, S, k)
  <2>1. k \in 1 .. Cardinality(V) - 1 /\ k < n + 1
    BY <1>3
  <2> QED BY <1>2, <1>4, <2>1
<1>6. Nth(u, V, n + 1) = i
  BY <1>4, NthFacts
<1> QED BY <1>3, <1>5, <1>6

-----------------------------------------------------------------------------
(* The queue a table stands for.                                           *)

QItem == [id : Ids, data : SUBSET StageNames, locked : BOOLEAN]

ItemOf(t, i) == [id |-> i, data |-> t[i].done, locked |-> t[i].locked]

LEMMA StoredRows ==
  ASSUME NEW t, Stored(t), NEW S \in SUBSET DOMAIN t
  PROVE  RowsOf(t, S) /\ Cardinality(S) \in Nat
<1>1. IsFiniteSet(S)
  BY FS_Subset DEF Stored
<1>2. \A x \in S : t[x].order \in Nat
  BY DEF Stored, Row
<1> QED BY <1>1, <1>2, FS_CardinalityType DEF RowsOf, Stored

\* The queue has an item for every row, made of its id, its data and its lock.
LEMMA QueueFacts ==
  ASSUME NEW t, Stored(t)
  PROVE  /\ Cardinality(DOMAIN t) \in Nat /\ Queue(t) \in Seq(QItem)
         /\ DOMAIN Queue(t) = 1 .. Cardinality(DOMAIN t)
         /\ Len(Queue(t)) = Cardinality(DOMAIN t)
         /\ \A k \in 1 .. Cardinality(DOMAIN t) :
              /\ Nth(t, DOMAIN t, k) \in DOMAIN t
              /\ Queue(t)[k] = ItemOf(t, Nth(t, DOMAIN t, k))
<1> DEFINE n == Cardinality(DOMAIN t)
<1>1. n \in Nat /\ RowsOf(t, DOMAIN t)
  BY StoredRows
<1>2. \A k \in 1 .. n : Nth(t, DOMAIN t, k) \in DOMAIN t
  BY <1>1, NthFacts
<1>3. Queue(t) = [k \in 1 .. n |-> ItemOf(t, Nth(t, DOMAIN t, k))]
  BY DEF Queue, ItemOf
<1>4. ASSUME NEW i \in DOMAIN t
      PROVE  ItemOf(t, i) \in QItem
  BY DEF Stored, Row, QItem, ItemOf
<1> HIDE DEF n
<1>5. Queue(t) \in [1 .. n -> QItem]
  BY <1>2, <1>3, <1>4
<1>6. Queue(t) \in Seq(QItem) /\ Len(Queue(t)) = n /\ DOMAIN Queue(t) = 1 .. n
  BY <1>1, <1>5
<1> QED BY <1>1, <1>2, <1>3, <1>6 DEF n

\* The item of a row is at its rank, and the queue holds no other items.
LEMMA QueueHolds ==
  ASSUME NEW t, Stored(t)
  PROVE  /\ \A k \in DOMAIN Queue(t) : Queue(t)[k].id \in DOMAIN t
         /\ \A i \in DOMAIN t :
              /\ Rank(t, DOMAIN t, i) \in DOMAIN Queue(t)
              /\ Queue(t)[Rank(t, DOMAIN t, i)] = ItemOf(t, i)
<1>1. RowsOf(t, DOMAIN t)
  BY StoredRows
<1>2. ASSUME NEW k \in DOMAIN Queue(t) PROVE Queue(t)[k].id \in DOMAIN t
  <2>1. k \in 1 .. Cardinality(DOMAIN t)
    BY QueueFacts
  <2>2. Nth(t, DOMAIN t, k) \in DOMAIN t /\ Queue(t)[k] = ItemOf(t, Nth(t, DOMAIN t, k))
    BY <2>1, QueueFacts
  <2> QED BY <2>2 DEF ItemOf
<1>3. ASSUME NEW i \in DOMAIN t
      PROVE  /\ Rank(t, DOMAIN t, i) \in DOMAIN Queue(t)
             /\ Queue(t)[Rank(t, DOMAIN t, i)] = ItemOf(t, i)
  <2>1. /\ Rank(t, DOMAIN t, i) \in 1 .. Cardinality(DOMAIN t)
        /\ Nth(t, DOMAIN t, Rank(t, DOMAIN t, i)) = i
    BY <1>1, RankType, NthFacts
  <2> QED BY <2>1, QueueFacts
<1> QED BY <1>2, <1>3

\* A new row with the greatest index is a new item at the end.
LEMMA QueueAppend ==
  ASSUME NEW t, NEW u, Stored(t), Stored(u), NEW i, i \notin DOMAIN t,
         DOMAIN u = DOMAIN t \cup {i},
         \A x \in DOMAIN t : u[x] = t[x] /\ u[x].order < u[i].order
  PROVE  Queue(u) = Append(Queue(t), ItemOf(u, i))
<1> DEFINE n == Cardinality(DOMAIN t)
           q == Append(Queue(t), ItemOf(u, i))
<1>1. RowsOf(t, DOMAIN t) /\ RowsOf(u, DOMAIN u)
  BY StoredRows
<1>2. /\ n \in Nat /\ Cardinality(DOMAIN u) = n + 1
      /\ \A k \in 1 .. n : Nth(u, DOMAIN u, k) = Nth(t, DOMAIN t, k)
      /\ Nth(u, DOMAIN u, n + 1) = i
  <2>1. /\ i \in DOMAIN u /\ DOMAIN t \subseteq DOMAIN u /\ DOMAIN u \subseteq DOMAIN t \cup {i}
        /\ \A x \in DOMAIN t : u[x].order = t[x].order /\ u[x].order < u[i].order
    OBVIOUS
  <2>2. /\ Cardinality(DOMAIN t) \in Nat /\ Cardinality(DOMAIN u) = Cardinality(DOMAIN t) + 1
        /\ \A k \in 1 .. Cardinality(DOMAIN t) : Nth(u, DOMAIN u, k) = Nth(t, DOMAIN t, k)
        /\ Nth(u, DOMAIN u, Cardinality(DOMAIN t) + 1) = i
    BY <1>1, <2>1, NthLast
  <2> QED BY <2>2
<1>3. DOMAIN Queue(u) = 1 .. n + 1 /\ DOMAIN q = 1 .. n + 1 /\ Queue(u) \in Seq(QItem)
  BY <1>2, QueueFacts
<1>4. ASSUME NEW k \in 1 .. n PROVE Queue(u)[k] = q[k]
  <2>1. q[k] = Queue(t)[k]
    BY <1>2, QueueFacts
  <2>2. Nth(t, DOMAIN t, k) \in DOMAIN t /\ Queue(t)[k] = ItemOf(t, Nth(t, DOMAIN t, k))
    BY QueueFacts
  <2>3. k \in 1 .. Cardinality(DOMAIN u)
    BY <1>2
  <2>4. Queue(u)[k] = ItemOf(u, Nth(u, DOMAIN u, k))
    BY <2>3, QueueFacts
  <2> QED BY <1>2, <2>1, <2>2, <2>4 DEF ItemOf
<1>5. Queue(u)[n + 1] = q[n + 1]
  <2>1. q[n + 1] = ItemOf(u, i)
    BY <1>2, QueueFacts
  <2>2. n + 1 \in 1 .. Cardinality(DOMAIN u)
    BY <1>2
  <2> QED BY <1>2, <2>1, <2>2, QueueFacts
<1> HIDE DEF q, n
<1>6. Queue(u) = [k \in 1 .. n + 1 |-> Queue(u)[k]] /\ q = [k \in 1 .. n + 1 |-> q[k]]
  <2>1. q \in Seq(QItem)
    <3>1. ItemOf(u, i) \in QItem
      BY DEF Stored, Row, QItem, ItemOf
    <3> QED BY <3>1, QueueFacts DEF q
  <2> QED BY <1>2, <1>3, <2>1
<1>7. \A k \in 1 .. n + 1 : Queue(u)[k] = q[k]
  BY <1>2, <1>4, <1>5
<1> QED BY <1>6, <1>7 DEF q

\* What is left of a sequence without its k-th element.
LEMMA RemoveAtFacts ==
  ASSUME NEW X, NEW q \in Seq(X), NEW k \in 1 .. Len(q)
  PROVE  SubSeq(q, 1, k - 1) \o SubSeq(q, k + 1, Len(q)) =
           [j \in 1 .. Len(q) - 1 |-> IF j < k THEN q[j] ELSE q[j + 1]]
<1> DEFINE a == SubSeq(q, 1, k - 1)
           b == SubSeq(q, k + 1, Len(q))
           n == Len(q)
<1>1. n \in Nat /\ k \in Nat
  OBVIOUS
<1>2. a \in Seq(X) /\ Len(a) = k - 1 /\ \A j \in 1 .. k - 1 : a[j] = q[j]
  OBVIOUS
<1>3. b \in Seq(X) /\ Len(b) = n - k /\ \A j \in 1 .. n - k : b[j] = q[j + k]
  OBVIOUS
<1> HIDE DEF a, b, n
<1>4. /\ a \o b \in Seq(X) /\ Len(a \o b) = n - 1
      /\ \A j \in 1 .. n - 1 : (a \o b)[j] = IF j < k THEN a[j] ELSE b[j - (k - 1)]
  <2>1. Len(a) + Len(b) = n - 1
    BY <1>1, <1>2, <1>3
  <2>2. /\ a \o b \in Seq(X) /\ Len(a \o b) = n - 1
        /\ \A j \in 1 .. n - 1 : (a \o b)[j] = IF j <= Len(a) THEN a[j] ELSE b[j - Len(a)]
    <3>1. a \in Seq(X) /\ b \in Seq(X)
      BY <1>2, <1>3
    <3>2. /\ a \o b \in Seq(X) /\ Len(a \o b) = Len(a) + Len(b)
          /\ \A j \in 1 .. Len(a) + Len(b) :
               (a \o b)[j] = IF j <= Len(a) THEN a[j] ELSE b[j - Len(a)]
      BY <3>1, ConcatProperties
    <3> QED BY <2>1, <3>2
  <2> QED BY <1>1, <1>2, <2>2
<1>5. \A j \in 1 .. n - 1 : (a \o b)[j] = IF j < k THEN q[j] ELSE q[j + 1]
  <2> SUFFICES ASSUME NEW j \in 1 .. n - 1
               PROVE  (a \o b)[j] = IF j < k THEN q[j] ELSE q[j + 1]
    OBVIOUS
  <2>1. CASE j < k
    <3>1. j \in 1 .. k - 1
      BY <1>1, <2>1
    <3> QED BY <1>2, <1>4, <2>1, <3>1
  <2>2. CASE ~(j < k)
    <3>1. j - (k - 1) \in 1 .. n - k /\ (j - (k - 1)) + k = j + 1
      BY <1>1, <2>2
    <3>2. b[j - (k - 1)] = q[j + 1]
      BY <1>3, <3>1
    <3> QED BY <1>4, <2>2, <3>2
  <2> QED BY <2>1, <2>2
<1>6. a \o b = [j \in 1 .. n - 1 |-> (a \o b)[j]]
  <2> DEFINE c == a \o b
  <2>1. c \in Seq(X) /\ Len(c) = n - 1
    BY <1>4
  <2> HIDE DEF c
  <2>2. c = [j \in 1 .. n - 1 |-> c[j]]
    BY <2>1
  <2> QED BY <2>2 DEF c
<1> QED BY <1>5, <1>6 DEF a, b, n

\* A row that goes takes its item out of the queue.
LEMMA QueueWithout ==
  ASSUME NEW t, NEW u, Stored(t), Stored(u), NEW i \in DOMAIN t,
         DOMAIN u = DOMAIN t \ {i}, \A x \in DOMAIN u : u[x] = t[x]
  PROVE  \E k \in DOMAIN Queue(t) :
           /\ Queue(t)[k].id = i
           /\ Queue(u) = SubSeq(Queue(t), 1, k - 1) \o SubSeq(Queue(t), k + 1, Len(Queue(t)))
<1> DEFINE n == Cardinality(DOMAIN t)
           r == Rank(t, DOMAIN t, i)
           q == [j \in 1 .. n - 1 |-> IF j < r THEN Queue(t)[j] ELSE Queue(t)[j + 1]]
<1>1. RowsOf(t, DOMAIN t) /\ RowsOf(u, DOMAIN u) /\ n \in Nat
  BY StoredRows
<1>2. /\ Cardinality(DOMAIN u) = n - 1
      /\ \A k \in 1 .. n - 1 :
           Nth(u, DOMAIN u, k) = IF k < r THEN Nth(t, DOMAIN t, k)
                                          ELSE Nth(t, DOMAIN t, k + 1)
  <2>1. /\ i \notin DOMAIN u /\ DOMAIN u \subseteq DOMAIN t
        /\ DOMAIN t \subseteq DOMAIN u \cup {i}
        /\ \A x \in DOMAIN u : u[x].order = t[x].order
    OBVIOUS
  <2> QED BY <1>1, <2>1, NthWithout
<1>3. /\ r \in DOMAIN Queue(t) /\ Queue(t)[r].id = i
      /\ r \in 1 .. n /\ Len(Queue(t)) = n /\ Queue(t) \in Seq(QItem)
  <2>1. r \in DOMAIN Queue(t) /\ Queue(t)[r] = ItemOf(t, i)
    BY QueueHolds
  <2> QED BY <2>1, QueueFacts DEF ItemOf
<1>4. SubSeq(Queue(t), 1, r - 1) \o SubSeq(Queue(t), r + 1, Len(Queue(t))) = q
  <2> DEFINE all == Queue(t)
  <2>1. all \in Seq(QItem) /\ r \in 1 .. Len(all) /\ Len(all) = n
    BY <1>3
  <2> HIDE DEF all, r, n
  <2>2. SubSeq(all, 1, r - 1) \o SubSeq(all, r + 1, Len(all)) =
          [j \in 1 .. Len(all) - 1 |-> IF j < r THEN all[j] ELSE all[j + 1]]
    BY <2>1, RemoveAtFacts
  <2> QED BY <2>1, <2>2 DEF all
<1>5. Queue(u) = [j \in 1 .. n - 1 |-> Queue(u)[j]]
  BY <1>2, QueueFacts
<1>6. ASSUME NEW j \in 1 .. n - 1 PROVE Queue(u)[j] = q[j]
  <2> DEFINE m == IF j < r THEN j ELSE j + 1
  <2>1. m \in 1 .. n /\ q[j] = Queue(t)[m]
    BY <1>1, <1>3
  <2>2. Nth(u, DOMAIN u, j) = Nth(t, DOMAIN t, m)
    BY <1>2
  <2> HIDE DEF m
  <2>3. Queue(t)[m] = ItemOf(t, Nth(t, DOMAIN t, m))
    BY <2>1, QueueFacts
  <2>4. j \in 1 .. Cardinality(DOMAIN u)
    BY <1>2
  <2>5. Nth(u, DOMAIN u, j) \in DOMAIN u /\ Queue(u)[j] = ItemOf(u, Nth(u, DOMAIN u, j))
    BY <2>4, QueueFacts
  <2> QED BY <2>1, <2>2, <2>3, <2>5 DEF ItemOf
<1>7. Queue(u) = q
  BY <1>5, <1>6
<1> QED BY <1>3, <1>4, <1>7

\* An item of p gets other data and another lock.
ChangesTo(p, q, d, b) ==
  \E k \in DOMAIN p : q = [p EXCEPT ![k] = [@ EXCEPT !.data = d, !.locked = b]]

\* A row that keeps its index keeps its place.
LEMMA QueueChange ==
  ASSUME NEW t, NEW u, Stored(t), Stored(u), NEW i \in DOMAIN t, DOMAIN u = DOMAIN t,
         u[i].order = t[i].order, \A x \in DOMAIN t \ {i} : u[x] = t[x]
  PROVE  ChangesTo(Queue(t), Queue(u), u[i].done, u[i].locked)
<1> DEFINE n == Cardinality(DOMAIN t)
           r == Rank(t, DOMAIN t, i)
<1>1. RowsOf(t, DOMAIN t) /\ RowsOf(u, DOMAIN t) /\ n \in Nat
  BY StoredRows
<1>2. \A x \in DOMAIN t : u[x].order = t[x].order
  OBVIOUS
<1>3. /\ r \in DOMAIN Queue(t) /\ Queue(t)[r] = ItemOf(t, i) /\ r \in 1 .. n
      /\ Queue(t) = [k \in 1 .. n |-> Queue(t)[k]]
      /\ Queue(u) = [k \in 1 .. n |-> Queue(u)[k]]
  <2>1. r \in DOMAIN Queue(t) /\ Queue(t)[r] = ItemOf(t, i)
    BY QueueHolds
  <2>2. Queue(t) \in Seq(QItem) /\ Len(Queue(t)) = n /\ DOMAIN Queue(t) = 1 .. n
    BY QueueFacts
  <2>3. Queue(u) \in Seq(QItem) /\ Len(Queue(u)) = n
    BY QueueFacts
  <2> QED BY <2>1, <2>2, <2>3
<1>4. ASSUME NEW k \in 1 .. n
      PROVE  Queue(u)[k] = IF k = r THEN [Queue(t)[k] EXCEPT !.data = u[i].done,
                                                             !.locked = u[i].locked]
                                    ELSE Queue(t)[k]
  <2> DEFINE x == Nth(t, DOMAIN t, k)
  <2>1. x \in DOMAIN t /\ Rank(t, DOMAIN t, x) = k /\ Nth(t, DOMAIN t, r) = i
    BY <1>1, NthFacts
  <2>2. Nth(u, DOMAIN t, k) = x
    BY <1>1, <1>2, SameNth
  <2>3. Queue(t)[k] = ItemOf(t, x)
    BY QueueFacts
  <2>4. Queue(u)[k] = ItemOf(u, x)
    BY <2>2, QueueFacts
  <2> HIDE DEF x
  <2>5. CASE k = r
    <3>1. x = i
      BY <2>1, <2>5 DEF x
    <3>2. [ItemOf(t, i) EXCEPT !.data = u[i].done, !.locked = u[i].locked] = ItemOf(u, i)
      <4> DEFINE m == [ItemOf(t, i) EXCEPT !.data = u[i].done]
      <4>1. m = [id |-> i, data |-> u[i].done, locked |-> t[i].locked]
        BY DEF ItemOf
      <4>2. [ItemOf(t, i) EXCEPT !.data = u[i].done, !.locked = u[i].locked]
              = [m EXCEPT !.locked = u[i].locked]
        OBVIOUS
      <4> HIDE DEF m
      <4>3. [m EXCEPT !.locked = u[i].locked] = ItemOf(u, i)
        BY <4>1 DEF ItemOf
      <4> QED BY <4>2, <4>3 DEF m
    <3> QED BY <2>3, <2>4, <2>5, <3>1, <3>2
  <2>6. CASE k # r
    <3>1. x # i
      BY <2>1, <2>6
    <3>2. u[x] = t[x]
      BY <2>1, <3>1
    <3> QED BY <2>3, <2>4, <2>6, <3>2 DEF ItemOf
  <2> QED BY <2>5, <2>6
<1>5. Queue(u) = [Queue(t) EXCEPT ![r] =
                    [@ EXCEPT !.data = u[i].done, !.locked = u[i].locked]]
  BY <1>3, <1>4
<1> QED BY <1>3, <1>5 DEF ChangesTo

-----------------------------------------------------------------------------
(* What the calls do to a table, and to the tables of both backends.       *)

\* MAX(order_index) bounds the indexes, and every bound on them bounds it.
LEMMA MaxOrderFacts ==
  ASSUME NEW t, Stored(t)
  PROVE  /\ MaxOrder(t) \in Nat
         /\ \A x \in DOMAIN t : t[x].order <= MaxOrder(t)
         /\ \A m \in Nat : (\A x \in DOMAIN t : t[x].order <= m) => MaxOrder(t) <= m
<1> DEFINE orders == {t[e].order : e \in DOMAIN t}
           IsMax(m) == m \in orders /\ \A n \in orders : n <= m
<1>1. MaxOrder(t) \in Nat
  BY MaxOrderType DEF Stored
<1>2. CASE DOMAIN t = {}
  <2>1. ~ \E m \in orders : IsMax(m)
    BY <1>2
  <2>2. MaxOrder(t) = 0
    BY <2>1 DEF MaxOrder
  <2> QED BY <1>1, <1>2, <2>2
<1>3. CASE DOMAIN t # {}
  <2> DEFINE D == DOMAIN t
             x == Nth(t, D, Cardinality(D))
  <2>1. IsFiniteSet(D) /\ RowsOf(t, D) /\ Cardinality(D) \in Nat
    BY StoredRows DEF Stored
  <2>2. Cardinality(D) \in 1 .. Cardinality(D)
    BY <1>3, <2>1, FS_EmptySet
  <2>3. x \in D /\ Rank(t, D, x) = Cardinality(D)
    BY <2>1, <2>2, NthFacts
  <2>4. UpTo(t, D, x) = D
    <3>1. UpTo(t, D, x) \in SUBSET D /\ Cardinality(D) = Cardinality(UpTo(t, D, x))
      BY <2>3 DEF UpTo, Rank
    <3> QED BY <2>1, <3>1, FS_Subset
  <2>5. \A y \in D : t[y].order <= t[x].order
    BY <2>4 DEF UpTo
  <2> HIDE DEF x
  <2>6. IsMax(t[x].order)
    BY <2>3, <2>5
  <2>7. IsMax(MaxOrder(t))
    BY <2>6 DEF MaxOrder
  <2>8. \A y \in DOMAIN t : t[y].order <= MaxOrder(t)
    BY <2>7
  <2>9. PICK z \in DOMAIN t : MaxOrder(t) = t[z].order
    BY <2>7
  <2> QED BY <1>1, <2>8, <2>9
<1> QED BY <1>2, <1>3

\* A fresh row at the end, as both backends make it: replacing one, or new.
Enter(t, i, n) ==
  [x \in DOMAIN t \cup {i} |->
     IF x = i THEN [order |-> n, locked |-> FALSE, done |-> {}] ELSE t[x]]

LEMMA EnterStored ==
  ASSUME NEW t, Stored(t), NEW i \in Ids, NEW n \in Nat,
         \A x \in DOMAIN t : t[x].order < n
  PROVE  /\ Stored(Enter(t, i, n)) /\ DOMAIN Enter(t, i, n) = DOMAIN t \cup {i}
         /\ Enter(t, i, n)[i] = [order |-> n, locked |-> FALSE, done |-> {}]
         /\ \A x \in DOMAIN t \ {i} : Enter(t, i, n)[x] = t[x]
<1> DEFINE u == Enter(t, i, n)
<1>1. /\ DOMAIN u = DOMAIN t \cup {i}
      /\ u[i] = [order |-> n, locked |-> FALSE, done |-> {}]
      /\ \A x \in DOMAIN t \ {i} : u[x] = t[x]
  BY DEF Enter
<1>2. u = [x \in DOMAIN u |-> u[x]]
  BY DEF Enter
<1> HIDE DEF u
<1>3. u \in [DOMAIN u -> Row]
  <2>1. \A x \in DOMAIN u : u[x] \in Row
    <3>1. [order |-> n, locked |-> FALSE, done |-> {}] \in Row
      BY DEF Row
    <3>2. \A x \in DOMAIN t : t[x] \in Row
      BY DEF Stored
    <3> QED BY <1>1, <3>1, <3>2
  <2> QED BY <1>2, <2>1
<1>4. IsFiniteSet(DOMAIN u)
  BY <1>1, FS_AddElement DEF Stored
<1>5. ASSUME NEW x \in DOMAIN u, NEW y \in DOMAIN u, u[x].order = u[y].order
      PROVE  x = y
  <2>1. \A z \in DOMAIN t \ {i} : u[z].order < n /\ u[z].order \in Nat
    BY <1>1 DEF Stored, Row
  <2>2. u[i].order = n
    BY <1>1
  <2> QED BY <1>1, <1>5, <2>1, <2>2 DEF Stored
<1>6. Stored(u)
  BY <1>1, <1>3, <1>4, <1>5 DEF Stored
<1> QED BY <1>1, <1>6 DEF u

\* A table stays one when a row goes or when a row changes and keeps its index.
LEMMA PartStored ==
  ASSUME NEW t, Stored(t), NEW u, u \in [DOMAIN u -> Row], DOMAIN u \subseteq DOMAIN t,
         \A x \in DOMAIN u : u[x].order = t[x].order
  PROVE  Stored(u) /\ MaxOrder(u) <= MaxOrder(t)
<1>1. IsFiniteSet(DOMAIN u)
  BY FS_Subset DEF Stored
<1>2. Stored(u)
  BY <1>1 DEF Stored
<1> QED BY <1>2, MaxOrderFacts

\* Deleting a row, writing its data, locking it: none moves an index.
LEMMA WritesStored ==
  ASSUME NEW t, Stored(t), NEW i
  PROVE  /\ Stored(DeleteRow(t, i)) /\ MaxOrder(DeleteRow(t, i)) <= MaxOrder(t)
         /\ \A d \in SUBSET StageNames :
              Stored(SetDone(t, i, d)) /\ MaxOrder(SetDone(t, i, d)) <= MaxOrder(t)
         /\ \A b \in BOOLEAN :
              Stored(SetLocked(t, i, b)) /\ MaxOrder(SetLocked(t, i, b)) <= MaxOrder(t)
<1>1. Stored(DeleteRow(t, i)) /\ MaxOrder(DeleteRow(t, i)) <= MaxOrder(t)
  <2>1. /\ DOMAIN DeleteRow(t, i) \subseteq DOMAIN t
        /\ DeleteRow(t, i) \in [DOMAIN DeleteRow(t, i) -> Row]
        /\ \A x \in DOMAIN DeleteRow(t, i) : DeleteRow(t, i)[x] = t[x]
    BY DEF DeleteRow, Stored
  <2> QED BY <2>1, PartStored
<1>2. ASSUME NEW d \in SUBSET StageNames
      PROVE  Stored(SetDone(t, i, d)) /\ MaxOrder(SetDone(t, i, d)) <= MaxOrder(t)
  <2>1. /\ DOMAIN SetDone(t, i, d) = DOMAIN t
        /\ SetDone(t, i, d) \in [DOMAIN t -> Row]
        /\ \A x \in DOMAIN t : SetDone(t, i, d)[x].order = t[x].order
    BY DEF SetDone, Stored, Row
  <2> QED BY <2>1, PartStored
<1>3. ASSUME NEW b \in BOOLEAN
      PROVE  Stored(SetLocked(t, i, b)) /\ MaxOrder(SetLocked(t, i, b)) <= MaxOrder(t)
  <2>1. /\ DOMAIN SetLocked(t, i, b) = DOMAIN t
        /\ SetLocked(t, i, b) \in [DOMAIN t -> Row]
        /\ \A x \in DOMAIN t : SetLocked(t, i, b)[x].order = t[x].order
    BY DEF SetLocked, Stored, Row
  <2> QED BY <2>1, PartStored
<1> QED BY <1>1, <1>2, <1>3

\* A write done by both keeps the tables alike, with the same locks.
LEMMA AlikeWrites ==
  ASSUME NEW t, NEW u, Stored(t), Stored(u), Alike(t, u), NEW i
  PROVE  /\ Alike(DeleteRow(t, i), DeleteRow(u, i))
         /\ LockedRows(t) = LockedRows(u) =>
              LockedRows(DeleteRow(t, i)) = LockedRows(DeleteRow(u, i))
         /\ \A d \in SUBSET StageNames :
              /\ Alike(SetDone(t, i, d), SetDone(u, i, d))
              /\ LockedRows(SetDone(t, i, d)) = LockedRows(t)
              /\ LockedRows(SetDone(u, i, d)) = LockedRows(u)
         /\ \A b \in BOOLEAN :
              /\ Alike(SetLocked(t, i, b), SetLocked(u, i, b))
              /\ LockedRows(t) = LockedRows(u) =>
                   LockedRows(SetLocked(t, i, b)) = LockedRows(SetLocked(u, i, b))
<1>1. /\ Alike(DeleteRow(t, i), DeleteRow(u, i))
      /\ LockedRows(t) = LockedRows(u) =>
           LockedRows(DeleteRow(t, i)) = LockedRows(DeleteRow(u, i))
  BY DEF Alike, DeleteRow, LockedRows
<1>2. ASSUME NEW d \in SUBSET StageNames
      PROVE  /\ Alike(SetDone(t, i, d), SetDone(u, i, d))
             /\ LockedRows(SetDone(t, i, d)) = LockedRows(t)
             /\ LockedRows(SetDone(u, i, d)) = LockedRows(u)
  BY DEF Alike, SetDone, LockedRows, Stored, Row
<1>3. ASSUME NEW b \in BOOLEAN
      PROVE  /\ Alike(SetLocked(t, i, b), SetLocked(u, i, b))
             /\ LockedRows(t) = LockedRows(u) =>
                  LockedRows(SetLocked(t, i, b)) = LockedRows(SetLocked(u, i, b))
  BY DEF Alike, SetLocked, LockedRows, Stored, Row
<1> QED BY <1>1, <1>2, <1>3

\* The only write that is done to one backend alone: a sweep unlocks a row.
LEMMA AlikeUnlocked ==
  ASSUME NEW t, NEW u, Stored(t), Stored(u), Alike(t, u), NEW i
  PROVE  /\ Alike(SetLocked(t, i, FALSE), u) /\ Alike(t, SetLocked(u, i, FALSE))
         /\ LockedRows(SetLocked(t, i, FALSE)) = LockedRows(t) \ {i}
<1>1. ASSUME NEW r, r \in [DOMAIN r -> Row]
      PROVE  /\ DOMAIN SetLocked(r, i, FALSE) = DOMAIN r
             /\ \A x \in DOMAIN r : /\ SetLocked(r, i, FALSE)[x].order = r[x].order
                                    /\ SetLocked(r, i, FALSE)[x].done = r[x].done
  <2>1. DOMAIN SetLocked(r, i, FALSE) = DOMAIN r
    BY DEF SetLocked
  <2>2. ASSUME NEW x \in DOMAIN r
        PROVE  /\ SetLocked(r, i, FALSE)[x].order = r[x].order
               /\ SetLocked(r, i, FALSE)[x].done = r[x].done
    <3>1. r[x] \in Row
      BY <1>1
    <3> QED BY <3>1 DEF SetLocked, Row
  <2> QED BY <2>1, <2>2
<1>2. Alike(SetLocked(t, i, FALSE), u)
  <2> DEFINE v == SetLocked(t, i, FALSE)
  <2>1. /\ DOMAIN v = DOMAIN t
        /\ \A x \in DOMAIN t : v[x].order = t[x].order /\ v[x].done = t[x].done
    BY <1>1 DEF Stored
  <2> HIDE DEF v
  <2>2. Alike(v, u)
    BY <2>1 DEF Alike
  <2> QED BY <2>2 DEF v
<1>3. Alike(t, SetLocked(u, i, FALSE))
  <2> DEFINE v == SetLocked(u, i, FALSE)
  <2>1. /\ DOMAIN v = DOMAIN u
        /\ \A x \in DOMAIN u : v[x].order = u[x].order /\ v[x].done = u[x].done
    BY <1>1 DEF Stored
  <2> HIDE DEF v
  <2>2. Alike(t, v)
    BY <2>1 DEF Alike
  <2> QED BY <2>2 DEF v
<1>4. LockedRows(SetLocked(t, i, FALSE)) = LockedRows(t) \ {i}
  BY DEF SetLocked, LockedRows, Stored, Row
<1> QED BY <1>2, <1>3, <1>4

\* A new item goes to the end of both, whatever index each gives it.
LEMMA AlikeEnter ==
  ASSUME NEW t, NEW u, Stored(t), Stored(u), Alike(t, u), NEW i \in Ids, i \notin DOMAIN t,
         NEW m \in Nat, \A x \in DOMAIN t : t[x].order < m,
         NEW n \in Nat, \A x \in DOMAIN u : u[x].order < n
  PROVE  /\ Alike(Enter(t, i, m), Enter(u, i, n))
         /\ LockedRows(t) = LockedRows(u) =>
              LockedRows(Enter(t, i, m)) = LockedRows(Enter(u, i, n))
<1> DEFINE v == Enter(t, i, m)
           w == Enter(u, i, n)
<1>1. /\ DOMAIN v = DOMAIN t \cup {i} /\ DOMAIN w = DOMAIN u \cup {i}
      /\ v[i] = [order |-> m, locked |-> FALSE, done |-> {}]
      /\ w[i] = [order |-> n, locked |-> FALSE, done |-> {}]
      /\ \A x \in DOMAIN t : v[x] = t[x] /\ w[x] = u[x]
      /\ i \notin DOMAIN u /\ DOMAIN t = DOMAIN u
  BY DEF Enter, Alike
<1>2. \A x \in DOMAIN t : t[x].order \in Nat /\ u[x].order \in Nat
  BY <1>1 DEF Stored, Row
<1> HIDE DEF v, w
<1>3. Alike(v, w)
  <2>1. DOMAIN v = DOMAIN w /\ \A x \in DOMAIN v : v[x].done = w[x].done
    <3>1. v[i].done = w[i].done
      BY <1>1
    <3>2. \A x \in DOMAIN t : v[x].done = w[x].done
      BY <1>1 DEF Alike
    <3> QED BY <1>1, <3>1, <3>2
  <2>2. ASSUME NEW x \in DOMAIN v, NEW y \in DOMAIN v
        PROVE  v[x].order < v[y].order <=> w[x].order < w[y].order
    BY <1>1, <1>2 DEF Alike
  <2> QED BY <2>1, <2>2 DEF Alike
<1>4. LockedRows(v) = LockedRows(t) /\ LockedRows(w) = LockedRows(u)
  BY <1>1 DEF LockedRows
<1> QED BY <1>3, <1>4 DEF v, w

-----------------------------------------------------------------------------
(* The invariant: the initial state, then the steps.                       *)

LEMMA EmptyFacts ==
  /\ Stored(EmptyTable) /\ DOMAIN EmptyTable = {} /\ MaxOrder(EmptyTable) = 0
  /\ LockedRows(EmptyTable) = {}
<1>1. DOMAIN EmptyTable = {}
  BY DEF EmptyTable
<1>2. Stored(EmptyTable)
  BY <1>1, FS_EmptySet DEF Stored, EmptyTable
<1>3. MaxOrder(EmptyTable) = 0
  <2>1. MaxOrder(EmptyTable) <= 0 /\ MaxOrder(EmptyTable) \in Nat
    BY <1>1, <1>2, MaxOrderFacts
  <2> QED BY <2>1
<1> QED BY <1>1, <1>2, <1>3 DEF LockedRows

\* Nothing is known of a source, and nothing is swept.
LEMMA NothingOK ==
  ASSUME NEW sweeping, sweeping = NotSweeping
  PROVE  /\ SourceOK(EmptyTable, EmptyTable, NoRow, 0, sweeping)
         /\ AlikeOK(EmptyTable, EmptyTable, NoRow, NoRow, 0, sweeping)
<1>1. sweeping.on = "no" /\ sweeping.page = <<>>
  BY DEF NotSweeping
<1>2. sweeping.page \in Seq(Ids)
  BY <1>1
<1>3. Alike(EmptyTable, EmptyTable)
  BY EmptyFacts DEF Alike
<1> QED BY <1>1, <1>2, <1>3, EmptyFacts DEF SourceOK, AlikeOK

LEMMA InitInv == Init => SInv
<1> SUFFICES ASSUME Init PROVE SInv
  OBVIOUS
<1>1. Shape
  <2>1. sources \in [Sources -> Cursors \cup {NoRow}] /\ cursors \in [Sources -> Cursors \cup {NoRow}]
    BY DEF Init, Unknown
  <2>2. schema \in [version : 0 .. 1, exists : BOOLEAN, locked : BOOLEAN, missed : BOOLEAN]
    <3>1. NoFile \in SchemaType
      BY DEF NoFile, SchemaType
    <3>2. OldFile \in SchemaType
      BY <3>1 DEF OldFile, SchemaType
    <3> QED BY <3>1, <3>2 DEF Init, SchemaType
  <2> QED BY <2>1, <2>2, BoundAssumption DEF Init, Shape, Nothing, Idle
<1>2. SchemaInv
  BY DEF Init, SchemaInv, NoFile, OldFile
<1>3. ASSUME NEW s \in Sources PROVE SourceInv(s)
  BY NothingOK DEF SourceInv, Init, Nothing, Unknown, Idle
<1> QED BY <1>1, <1>2, <1>3 DEF SInv

\* A step that concerns the contents of one source keeps what is said of the others.
LEMMA Frame ==
  ASSUME SInv, NEW s \in Sources, Shape', SchemaInv', SourceInv(s)',
         \A o \in Sources \ {s} :
           /\ table'[o] = table[o] /\ items'[o] = items[o]
           /\ sources'[o] = sources[o] /\ cursors'[o] = cursors[o]
           /\ nextIndex'[o] = nextIndex[o] /\ sweep'[o] = sweep[o]
           /\ o \in apart => o \in apart'
  PROVE  SInv'
<1>1. ASSUME NEW o \in Sources \ {s} PROVE SourceInv(o)'
  <2>1. SourceInv(o)
    BY DEF SInv
  <2> QED BY <2>1 DEF SourceInv
<1> QED BY <1>1 DEF SInv

\* What is left to show for a source that is not swept.
LEMMA AlikeQuiet ==
  ASSUME NEW t, NEW u, NEW cur, NEW next, NEW sweeping, sweeping.on = "no",
         Alike(t, u), LockedRows(t) = LockedRows(u),
         MaxOrder(t) <= IF next > 0 THEN next - 1 ELSE 0
  PROVE  AlikeOK(t, u, cur, cur, next, sweeping)
BY DEF AlikeOK

\* A Push, in both backends or, when sqlite's fails, in memory alone.
LEMMA PushStep ==
  ASSUME SInv, NEW s \in Sources, NEW i \in Ids, Push(s, i)
  PROVE  SInv'
<1> DEFINE index == IF nextIndex[s] = 0 THEN 1 ELSE nextIndex[s]
           t == table[s]
           u == items[s]
<1>1. SourceInv(s) /\ Shape /\ SchemaInv
  BY DEF SInv
<1>2. SourceOK(t, u, sources[s], nextIndex[s], sweep[s])
  BY <1>1 DEF SourceInv
<1>3. index \in Nat /\ nextIndex[s] \in Nat
  BY <1>1 DEF Shape
<1>4. /\ nextIndex' = [nextIndex EXCEPT ![s] = index + 1]
      /\ items' = [items EXCEPT ![s] = Enter(u, i, index)]
      /\ cursors' = [cursors EXCEPT ![s] = IF @ = NoRow THEN Empty ELSE @]
      /\ UNCHANGED <<schema, conn, sweep>> /\ sweep[s].on = "no"
  BY <1>1 DEF Push, MemPush, Enter, Quiet, Shape
<1>5. Stored(t) /\ Stored(u) /\ \A x \in DOMAIN u : u[x].order \in Nat /\ u[x].order < index
  BY <1>2, <1>3 DEF SourceOK, Stored, Row
<1>6. /\ Stored(Enter(u, i, index))
      /\ \A x \in DOMAIN Enter(u, i, index) : Enter(u, i, index)[x].order < index + 1
  <2>1. /\ Stored(Enter(u, i, index)) /\ DOMAIN Enter(u, i, index) = DOMAIN u \cup {i}
        /\ Enter(u, i, index)[i] = [order |-> index, locked |-> FALSE, done |-> {}]
        /\ \A x \in DOMAIN u \ {i} : Enter(u, i, index)[x] = u[x]
    BY <1>3, <1>5, EnterStored
  <2> QED BY <1>3, <1>5, <2>1
<1>7. CASE SqlPush(s, i) /\ Compare(s, TRUE, TRUE)
  <2> DEFINE m == MaxOrder(t) + 1
  <2>1. /\ i \notin DOMAIN t /\ UNCHANGED <<faults, apart>>
        /\ table' = [table EXCEPT ![s] = Enter(t, i, m)]
        /\ sources' = [sources EXCEPT ![s] = IF @ = NoRow THEN Empty ELSE @]
    BY <1>1, <1>7 DEF SqlPush, SqlDone, Compare, PushRow, Enter, Shape
  <2>2. m \in Nat /\ \A x \in DOMAIN t : t[x].order < m
    <3>1. MaxOrder(t) \in Nat /\ \A x \in DOMAIN t : t[x].order <= MaxOrder(t) /\ t[x].order \in Nat
      BY <1>5, MaxOrderFacts DEF Stored, Row
    <3> QED BY <3>1
  <2>3. /\ Stored(Enter(t, i, m)) /\ DOMAIN Enter(t, i, m) = DOMAIN t \cup {i}
        /\ MaxOrder(Enter(t, i, m)) \in Nat /\ MaxOrder(Enter(t, i, m)) <= m
    <3>1. /\ Stored(Enter(t, i, m)) /\ DOMAIN Enter(t, i, m) = DOMAIN t \cup {i}
          /\ Enter(t, i, m)[i] = [order |-> m, locked |-> FALSE, done |-> {}]
          /\ \A x \in DOMAIN t \ {i} : Enter(t, i, m)[x] = t[x]
      BY <1>5, <2>2, EnterStored
    <3>2. \A x \in DOMAIN Enter(t, i, m) : Enter(t, i, m)[x].order <= m
      BY <1>5, <2>2, <3>1 DEF Stored, Row
    <3> QED BY <2>2, <3>1, <3>2, MaxOrderFacts
  <2> HIDE DEF index, m
  <2>4. SourceOK(table'[s], items'[s], sources'[s], nextIndex'[s], sweep'[s])
    BY <1>1, <1>2, <1>4, <1>6, <2>1, <2>3, CursorAssumption DEF SourceOK, Shape
  <2>5. ASSUME s \notin apart'
        PROVE  AlikeOK(table'[s], items'[s], sources'[s], cursors'[s], nextIndex'[s], sweep'[s])
    <3>1. /\ sources[s] = cursors[s] /\ Alike(t, u)
          /\ MaxOrder(t) <= (IF nextIndex[s] > 0 THEN nextIndex[s] - 1 ELSE 0)
          /\ LockedRows(t) = LockedRows(u)
      BY <1>1, <1>4, <2>1, <2>5 DEF SourceInv, AlikeOK
    <3>2. /\ Alike(Enter(t, i, m), Enter(u, i, index))
          /\ LockedRows(Enter(t, i, m)) = LockedRows(Enter(u, i, index))
      BY <1>3, <1>5, <2>1, <2>2, <3>1, AlikeEnter
    <3>3. MaxOrder(Enter(t, i, m)) <= index /\ MaxOrder(Enter(t, i, m)) \in Nat
      <4>1. MaxOrder(t) \in Nat
        BY <1>5, MaxOrderFacts
      <4> QED BY <1>3, <2>2, <2>3, <3>1, <4>1 DEF index, m
    <3>4. /\ table'[s] = Enter(t, i, m) /\ items'[s] = Enter(u, i, index)
          /\ sources'[s] = cursors'[s] /\ nextIndex'[s] = index + 1
          /\ sweep'[s].on = "no"
      BY <1>1, <1>4, <2>1, <3>1 DEF Shape
    <3>5. MaxOrder(table'[s]) <= IF nextIndex'[s] > 0 THEN nextIndex'[s] - 1 ELSE 0
      <4>1. nextIndex'[s] > 0 /\ nextIndex'[s] - 1 = index
        BY <1>3, <3>4 DEF index
      <4> QED BY <3>3, <3>4, <4>1
    <3>6. Alike(table'[s], items'[s]) /\ LockedRows(table'[s]) = LockedRows(items'[s])
      BY <3>2, <3>4
    <3>7. AlikeOK(table'[s], items'[s], sources'[s], sources'[s], nextIndex'[s], sweep'[s])
      BY <3>4, <3>5, <3>6, AlikeQuiet
    <3> QED BY <3>4, <3>7
  <2>6. SourceInv(s)'
    BY <2>4, <2>5 DEF SourceInv
  <2>7. Shape' /\ SchemaInv'
    BY <1>1, <1>3, <1>4, <2>1, CursorAssumption DEF Shape, SchemaInv
  <2> QED BY <1>4, <2>1, <2>6, <2>7, Frame
<1>8. CASE SqlPushFails(s, i) /\ Compare(s, FALSE, TRUE)
  <2>1. UNCHANGED <<sources, table>> /\ apart' = apart \cup {s} /\ faults' \in 0 .. MaxFaults
    BY <1>1, <1>8, BoundAssumption
       DEF SqlPushFails, Compare, SqlFails, SqlDone, Disturb, Shape, sqlVars
  <2> HIDE DEF index
  <2>2. SourceInv(s)'
    BY <1>1, <1>2, <1>4, <1>6, <2>1 DEF SourceInv, SourceOK, Shape
  <2>3. Shape' /\ SchemaInv'
    BY <1>1, <1>3, <1>4, <2>1, CursorAssumption DEF Shape, SchemaInv
  <2> QED BY <1>4, <2>1, <2>2, <2>3, Frame
<1> QED BY <1>7, <1>8 DEF Push

\* A Write that moves no index, keeps the tables alike when both do it, and
\* leaves memory as it is when the item is not there.
LEMMA WriteStep ==
  ASSUME SInv, NEW s \in Sources, NEW i, NEW kept, NEW rows, NEW needsColumn \in BOOLEAN,
         Write(s, i, kept, rows, needsColumn),
         Stored(rows), DOMAIN rows \subseteq DOMAIN table[s],
         MaxOrder(rows) <= MaxOrder(table[s]),
         Stored(kept), DOMAIN kept \subseteq DOMAIN items[s],
         \A x \in DOMAIN kept : kept[x].order = items[s][x].order,
         i \notin DOMAIN items[s] => kept = items[s],
         Alike(table[s], items[s]) => Alike(rows, kept),
         Alike(table[s], items[s]) /\ LockedRows(table[s]) = LockedRows(items[s])
           => LockedRows(rows) = LockedRows(kept)
  PROVE  SInv'
<1>1. SourceInv(s) /\ Shape /\ SchemaInv
  BY DEF SInv
<1>2. SourceOK(table[s], items[s], sources[s], nextIndex[s], sweep[s])
  BY <1>1 DEF SourceInv
<1>3. /\ items' = [items EXCEPT ![s] = kept] /\ sweep[s].on = "no"
      /\ UNCHANGED <<sources, schema, conn, cursors, nextIndex, sweep>>
  BY DEF Write, Quiet
<1>4. /\ nextIndex[s] \in Nat /\ MaxOrder(table[s]) \in Nat /\ MaxOrder(rows) \in Nat
  BY <1>1, <1>2, MaxOrderFacts DEF Shape, SourceOK
<1>5. \A x \in DOMAIN kept : kept[x].order < nextIndex[s]
  BY <1>2 DEF SourceOK
<1>6. CASE /\ SqlDone /\ table' = [table EXCEPT ![s] = rows] /\ UNCHANGED apart
  <2>1. table'[s] = rows /\ items'[s] = kept /\ UNCHANGED faults
    BY <1>1, <1>3, <1>6 DEF Shape, SqlDone
  <2>2. SourceOK(rows, kept, sources[s], nextIndex[s], sweep[s])
    BY <1>2, <1>5 DEF SourceOK
  <2>3. ASSUME s \notin apart
        PROVE  AlikeOK(rows, kept, sources[s], cursors[s], nextIndex[s], sweep[s])
    <3>1. /\ sources[s] = cursors[s] /\ Alike(table[s], items[s])
          /\ MaxOrder(table[s]) <= (IF nextIndex[s] > 0 THEN nextIndex[s] - 1 ELSE 0)
          /\ LockedRows(table[s]) = LockedRows(items[s])
      BY <1>1, <1>3, <2>3 DEF SourceInv, AlikeOK
    <3>2. MaxOrder(rows) <= (IF nextIndex[s] > 0 THEN nextIndex[s] - 1 ELSE 0)
      BY <1>4, <3>1
    <3>3. Alike(rows, kept) /\ LockedRows(rows) = LockedRows(kept)
      BY <3>1
    <3> QED BY <1>3, <3>1, <3>2, <3>3, AlikeQuiet
  <2>4. SourceInv(s)'
    BY <1>3, <1>6, <2>1, <2>2, <2>3 DEF SourceInv
  <2>5. Shape' /\ SchemaInv'
    BY <1>1, <1>3, <1>6, <2>1 DEF Shape, SchemaInv
  <2> QED BY <1>3, <1>6, <2>4, <2>5, Frame
<1>7. CASE /\ SqlFails \/ (SqlDone /\ needsColumn /\ ~schema.locked)
           /\ UNCHANGED table
           /\ Compare(s, FALSE, i \in DOMAIN items[s])
  <2>1. /\ items'[s] = kept /\ faults' \in 0 .. MaxFaults
    BY <1>1, <1>3, <1>7, BoundAssumption DEF Shape, SqlDone, SqlFails, Disturb
  <2>2. /\ apart' \subseteq Sources /\ apart \subseteq apart'
        /\ s \notin apart' => s \notin apart /\ kept = items[s]
    BY <1>1, <1>7 DEF Compare, Shape
  <2>3. SourceOK(table[s], kept, sources[s], nextIndex[s], sweep[s])
    BY <1>2, <1>5 DEF SourceOK
  <2>4. SourceInv(s)'
    BY <1>1, <1>3, <1>7, <2>1, <2>2, <2>3 DEF SourceInv
  <2>5. Shape' /\ SchemaInv'
    BY <1>1, <1>3, <1>7, <2>1, <2>2 DEF Shape, SchemaInv
  <2> QED BY <1>3, <1>7, <2>2, <2>4, <2>5, Frame
<1> QED BY <1>6, <1>7 DEF Write

\* Update, Lock, Unlock and Delete are such writes.
LEMMA WritesStep ==
  ASSUME SInv, NEW s \in Sources, NEW i \in Ids,
         Update(s, i) \/ Lock(s, i) \/ Unlock(s, i) \/ Delete(s, i)
  PROVE  SInv'
<1> DEFINE t == table[s]
           u == items[s]
<1>1. Stored(t) /\ Stored(u)
  BY DEF SInv, SourceInv, SourceOK
<1>2. CASE Update(s, i)
  <2>1. PICK d \in SUBSET StageNames : Write(s, i, SetDone(u, i, d), SetDone(t, i, d), FALSE)
    BY <1>2 DEF Update
  <2>2. /\ DOMAIN SetDone(t, i, d) = DOMAIN t /\ DOMAIN SetDone(u, i, d) = DOMAIN u
        /\ \A x \in DOMAIN u : SetDone(u, i, d)[x].order = u[x].order
    BY <1>1 DEF SetDone, Stored, Row
  <2>3. i \notin DOMAIN u => SetDone(u, i, d) = u
    BY <1>1 DEF SetDone, Stored, Row
  <2>4. /\ Stored(SetDone(t, i, d)) /\ MaxOrder(SetDone(t, i, d)) <= MaxOrder(t)
        /\ Stored(SetDone(u, i, d))
    BY <1>1, WritesStored
  <2>5. Alike(t, u) => /\ Alike(SetDone(t, i, d), SetDone(u, i, d))
                       /\ LockedRows(SetDone(t, i, d)) = LockedRows(t)
                       /\ LockedRows(SetDone(u, i, d)) = LockedRows(u)
    BY <1>1, AlikeWrites
  <2> QED BY <2>1, <2>2, <2>3, <2>4, <2>5, WriteStep
<1>3. ASSUME NEW b \in BOOLEAN, Write(s, i, SetLocked(u, i, b), SetLocked(t, i, b), TRUE)
      PROVE  SInv'
  <2>1. /\ DOMAIN SetLocked(t, i, b) = DOMAIN t /\ DOMAIN SetLocked(u, i, b) = DOMAIN u
        /\ \A x \in DOMAIN u : SetLocked(u, i, b)[x].order = u[x].order
    BY <1>1 DEF SetLocked, Stored, Row
  <2>2. i \notin DOMAIN u => SetLocked(u, i, b) = u
    BY <1>1 DEF SetLocked, Stored, Row
  <2>3. /\ Stored(SetLocked(t, i, b)) /\ MaxOrder(SetLocked(t, i, b)) <= MaxOrder(t)
        /\ Stored(SetLocked(u, i, b))
    BY <1>1, WritesStored
  <2>4. Alike(t, u) => /\ Alike(SetLocked(t, i, b), SetLocked(u, i, b))
                       /\ LockedRows(t) = LockedRows(u) =>
                            LockedRows(SetLocked(t, i, b)) = LockedRows(SetLocked(u, i, b))
    BY <1>1, AlikeWrites
  <2> QED BY <1>3, <2>1, <2>2, <2>3, <2>4, WriteStep
<1>4. CASE Delete(s, i)
  <2>1. Write(s, i, DeleteRow(u, i), DeleteRow(t, i), FALSE)
    BY <1>4 DEF Delete
  <2>2. /\ DOMAIN DeleteRow(t, i) \subseteq DOMAIN t /\ DOMAIN DeleteRow(u, i) \subseteq DOMAIN u
        /\ \A x \in DOMAIN DeleteRow(u, i) : DeleteRow(u, i)[x].order = u[x].order
        /\ i \notin DOMAIN u => DeleteRow(u, i) = u
    BY <1>1 DEF DeleteRow, Stored
  <2>3. /\ Stored(DeleteRow(t, i)) /\ MaxOrder(DeleteRow(t, i)) <= MaxOrder(t)
        /\ Stored(DeleteRow(u, i))
    BY <1>1, WritesStored
  <2>4. Alike(t, u) => /\ Alike(DeleteRow(t, i), DeleteRow(u, i))
                       /\ LockedRows(t) = LockedRows(u) =>
                            LockedRows(DeleteRow(t, i)) = LockedRows(DeleteRow(u, i))
    BY <1>1, AlikeWrites
  <2> QED BY <2>1, <2>2, <2>3, <2>4, WriteStep
<1> QED BY <1>2, <1>3, <1>4 DEF Lock, Unlock

\* A page of the rows S holds rows of S, and is empty only when there are none.
LEMMA InOrderFacts ==
  ASSUME NEW t, Stored(t), NEW S \in SUBSET DOMAIN t, NEW n \in Nat
  PROVE  InOrder(t, S, n) \in Seq(S) /\ (InOrder(t, S, n) = <<>> => S = {})
<1> DEFINE limit == IF n <= 0 THEN Page ELSE n
           len == IF Cardinality(S) < limit THEN Cardinality(S) ELSE limit
<1>1. RowsOf(t, S) /\ Cardinality(S) \in Nat /\ IsFiniteSet(S)
  BY StoredRows, FS_Subset DEF Stored
<1>2. limit \in Nat \ {0}
  BY BoundAssumption
<1>3. len \in Nat /\ len <= Cardinality(S) /\ (len = 0 => Cardinality(S) = 0)
  BY <1>1, <1>2
<1>4. InOrder(t, S, n) = [k \in 1 .. len |-> Nth(t, S, k)]
  BY DEF InOrder
<1> HIDE DEF limit, len
<1>5. \A k \in 1 .. len : Nth(t, S, k) \in S
  BY <1>1, <1>3, NthFacts
<1>6. InOrder(t, S, n) \in Seq(S) /\ Len(InOrder(t, S, n)) = len
  BY <1>3, <1>4, <1>5
<1>7. InOrder(t, S, n) = <<>> => S = {}
  BY <1>1, <1>3, <1>6, FS_EmptySet
<1> QED BY <1>6, <1>7

\* UpdateCursor, in both or in memory alone; and the call that begins a sweep.
LEMMA CursorStep ==
  ASSUME SInv, NEW s \in Sources,
         (\E c \in Cursors \ {Empty} : UpdateCursor(s, c)) \/ UnlockAllEvents(s)
  PROVE  SInv'
<1>1. SourceInv(s) /\ Shape /\ SchemaInv
  BY DEF SInv
<1>2. ASSUME NEW c \in Cursors \ {Empty}, UpdateCursor(s, c)
      PROVE  SInv'
  <2>1. /\ cursors' = [cursors EXCEPT ![s] = c] /\ faults' \in 0 .. MaxFaults
        /\ UNCHANGED <<table, schema, conn, items, nextIndex, sweep>>
        /\ \/ sources' = [sources EXCEPT ![s] = c] /\ UNCHANGED apart
           \/ UNCHANGED sources /\ apart' = apart \cup {s}
    BY <1>1, <1>2, BoundAssumption
       DEF UpdateCursor, SqlDone, SqlFails, Disturb, Compare, Shape
  <2>2. SourceOK(table[s], items[s], sources'[s], nextIndex[s], sweep[s])
    BY <1>1, <2>1, CursorAssumption DEF SourceInv, SourceOK, Shape
  <2>3. s \notin apart' =>
          AlikeOK(table[s], items[s], sources'[s], cursors'[s], nextIndex[s], sweep[s])
    BY <1>1, <2>1 DEF SourceInv, AlikeOK, Shape
  <2>4. SourceInv(s)'
    BY <2>1, <2>2, <2>3 DEF SourceInv
  <2>5. Shape' /\ SchemaInv'
    BY <1>1, <2>1 DEF Shape, SchemaInv
  <2>6. \A o \in Sources \ {s} :
          /\ sources'[o] = sources[o] /\ cursors'[o] = cursors[o]
          /\ o \in apart => o \in apart'
    BY <1>1, <2>1 DEF Shape
  <2> QED BY <2>1, <2>4, <2>5, <2>6, Frame
<1>3. CASE UnlockAllEvents(s)
  <2>1. /\ sweep' = [sweep EXCEPT ![s] = [on |-> "sqlite", page |-> <<>>]]
        /\ UNCHANGED <<sources, table, schema, conn, items, cursors, nextIndex, apart, faults>>
        /\ sweep[s].on = "no"
    BY <1>3 DEF UnlockAllEvents, Quiet
  <2>2. sweep'[s].on = "sqlite" /\ sweep'[s].page = <<>>
    BY <1>1, <2>1 DEF Shape
  <2>3. SourceOK(table[s], items[s], sources[s], nextIndex[s], sweep'[s])
    BY <1>1, <2>2 DEF SourceInv, SourceOK, Backends
  <2>4. s \notin apart =>
          AlikeOK(table[s], items[s], sources[s], cursors[s], nextIndex[s], sweep'[s])
    BY <1>1, <2>2 DEF SourceInv, AlikeOK
  <2>5. SourceInv(s)'
    BY <2>1, <2>3, <2>4 DEF SourceInv
  <2>6. Shape' /\ SchemaInv'
    BY <1>1, <2>1 DEF Shape, SchemaInv
  <2> QED BY <2>1, <2>5, <2>6, Frame
<1> QED BY <1>2, <1>3

\* A page is read, or the sweep of this backend ends.
LEMMA SweepReadStep ==
  ASSUME SInv, NEW s \in Sources, NEW b \in Backends, SweepRead(b, s)
  PROVE  SInv'
<1>1. SourceInv(s) /\ Shape /\ SchemaInv
  BY DEF SInv
<1>2. SourceOK(table[s], items[s], sources[s], nextIndex[s], sweep[s])
  BY <1>1 DEF SourceInv
<1>3. /\ sweep[s] = [on |-> b, page |-> <<>>] /\ faults' \in 0 .. MaxFaults
      /\ UNCHANGED <<sources, table, schema, conn, items, cursors, nextIndex>>
      /\ apart \subseteq apart' /\ apart' \subseteq Sources
      /\ \A o \in Sources \ {s} : sweep'[o] = sweep[o]
      /\ DOMAIN sweep' = Sources
  BY <1>1, BoundAssumption
     DEF SweepRead, SweepFails, StopSweep, SqlFails, SqlDone, Disturb, Shape
<1>4. LockedRows(table[s]) \subseteq DOMAIN table[s] /\ LockedRows(items[s]) \subseteq DOMAIN items[s]
  BY DEF LockedRows
<1>5. CASE Locked(b, s) # <<>> /\ sweep' = [sweep EXCEPT ![s] = [on |-> b, page |-> Locked(b, s)]]
           /\ UNCHANGED apart
  <2>1. sweep'[s].on = sweep[s].on /\ sweep'[s].page = Locked(b, s)
    BY <1>1, <1>3, <1>5 DEF Shape
  <2>2. Locked(b, s) \in Seq(Ids)
    <3>1. /\ InOrder(table[s], LockedRows(table[s]), 0) \in Seq(LockedRows(table[s]))
          /\ InOrder(items[s], LockedRows(items[s]), 0) \in Seq(LockedRows(items[s]))
      BY <1>2, <1>4, InOrderFacts DEF SourceOK
    <3>2. LockedRows(table[s]) \subseteq Ids /\ LockedRows(items[s]) \subseteq Ids
      BY <1>2, <1>4 DEF SourceOK, Stored
    <3> QED BY <3>1, <3>2 DEF Locked
  <2>3. SourceOK(table[s], items[s], sources[s], nextIndex[s], sweep'[s])
    BY <1>2, <2>1, <2>2 DEF SourceOK
  <2>4. s \notin apart =>
          AlikeOK(table[s], items[s], sources[s], cursors[s], nextIndex[s], sweep'[s])
    BY <1>1, <2>1 DEF SourceInv, AlikeOK
  <2>5. SourceInv(s)'
    BY <1>3, <1>5, <2>3, <2>4 DEF SourceInv
  <2>6. Shape' /\ SchemaInv'
    BY <1>1, <1>3 DEF Shape, SchemaInv
  <2> QED BY <1>3, <2>5, <2>6, Frame
<1>6. CASE sweep' = [sweep EXCEPT ![s] = Ended(b)]
           /\ (s \in apart' \/ (Locked(b, s) = <<>> /\ UNCHANGED apart))
  <2>1. sweep'[s].on = (IF b = "sqlite" THEN "memory" ELSE "no") /\ sweep'[s].page = <<>>
    BY <1>1, <1>6 DEF Shape, Ended
  <2>2. SourceOK(table[s], items[s], sources[s], nextIndex[s], sweep'[s])
    BY <1>2, <2>1 DEF SourceOK, Backends
  <2>3. ASSUME s \notin apart'
        PROVE  AlikeOK(table[s], items[s], sources[s], cursors[s], nextIndex[s], sweep'[s])
    <3>1. Locked(b, s) = <<>> /\ s \notin apart
      BY <1>3, <1>6, <2>3
    <3>2. AlikeOK(table[s], items[s], sources[s], cursors[s], nextIndex[s], sweep[s])
      BY <1>1, <3>1 DEF SourceInv
    <3>3. CASE b = "sqlite"
      <4>1. LockedRows(table[s]) = {}
        BY <1>2, <1>4, <3>1, <3>3, InOrderFacts DEF Locked, SourceOK
      <4>2. sweep'[s].on = "memory"
        BY <2>1, <3>3
      <4> QED BY <3>2, <4>1, <4>2 DEF AlikeOK
    <3>4. CASE b = "memory"
      <4>1. LockedRows(items[s]) = {} /\ LockedRows(table[s]) = {}
        <5>1. InOrder(items[s], LockedRows(items[s]), 0) = <<>>
          BY <3>1, <3>4 DEF Locked
        <5>2. LockedRows(items[s]) = {}
          BY <1>2, <1>4, <5>1, InOrderFacts DEF SourceOK
        <5>3. LockedRows(table[s]) = {}
          BY <1>3, <3>2, <3>4 DEF AlikeOK
        <5> QED BY <5>2, <5>3
      <4>2. sweep'[s].on = "no"
        BY <2>1, <3>4
      <4> QED BY <3>2, <4>1, <4>2 DEF AlikeOK
    <3> QED BY <3>3, <3>4 DEF Backends
  <2>4. SourceInv(s)'
    BY <1>3, <2>2, <2>3 DEF SourceInv
  <2>5. Shape' /\ SchemaInv'
    BY <1>1, <1>3 DEF Shape, SchemaInv
  <2> QED BY <1>3, <2>4, <2>5, Frame
<1> QED BY <1>5, <1>6 DEF SweepRead, SweepFails, StopSweep

\* One item of the page is unlocked, or the sweep of this backend fails.
LEMMA SweepUnlockStep ==
  ASSUME SInv, NEW s \in Sources, NEW b \in Backends, SweepUnlock(b, s)
  PROVE  SInv'
<1> DEFINE i == Head(sweep[s].page)
<1>1. SourceInv(s) /\ Shape /\ SchemaInv
  BY DEF SInv
<1>2. /\ SourceOK(table[s], items[s], sources[s], nextIndex[s], sweep[s])
      /\ Stored(table[s]) /\ Stored(items[s])
  BY <1>1 DEF SourceInv, SourceOK
<1>3. /\ sweep[s].on = b /\ sweep[s].page # <<>> /\ faults' \in 0 .. MaxFaults
      /\ UNCHANGED <<sources, schema, conn, cursors, nextIndex>>
  <2>1. SweepFails(b, s) \/ UNCHANGED faults
    BY DEF SweepUnlock
  <2>2. faults' \in 0 .. MaxFaults
    BY <1>1, <2>1, BoundAssumption DEF SweepFails, SqlFails, SqlDone, Disturb, Shape
  <2> QED BY <2>2 DEF SweepUnlock
<1>4. CASE SweepFails(b, s) /\ UNCHANGED <<table, items>>
  <2>1. /\ sweep' = [sweep EXCEPT ![s] = [on |-> "memory", page |-> <<>>]]
        /\ apart' = apart \cup {s}
    BY <1>4 DEF SweepFails, StopSweep, Ended
  <2>2. sweep'[s].on = "memory" /\ sweep'[s].page = <<>>
    BY <1>1, <2>1 DEF Shape
  <2>3. SourceInv(s)'
    BY <1>2, <1>3, <1>4, <2>1, <2>2 DEF SourceInv, SourceOK, Backends
  <2>4. Shape' /\ SchemaInv'
    BY <1>1, <1>3, <1>4, <2>1 DEF Shape, SchemaInv
  <2>5. \A o \in Sources \ {s} : sweep'[o] = sweep[o] /\ (o \in apart => o \in apart')
    BY <1>1, <2>1 DEF Shape
  <2> QED BY <1>3, <1>4, <2>3, <2>4, <2>5, Frame
<1>5. CASE /\ UNCHANGED apart
           /\ sweep' = [sweep EXCEPT ![s].page = Tail(@)]
           /\ table' = [table EXCEPT ![s] = IF b = "sqlite" THEN SetLocked(@, i, FALSE) ELSE @]
           /\ items' = [items EXCEPT ![s] = IF b = "memory" THEN SetLocked(@, i, FALSE) ELSE @]
  <2>1. sweep'[s].on = b /\ sweep'[s].page \in Seq(Ids)
    <3>1. sweep'[s] = [sweep[s] EXCEPT !.page = Tail(@)]
      BY <1>1, <1>5 DEF Shape
    <3>2. sweep[s].page \in Seq(Ids) /\ sweep[s].page # <<>>
      BY <1>2, <1>3 DEF SourceOK
    <3>3. Tail(sweep[s].page) \in Seq(Ids)
      BY <3>2
    <3>4. sweep'[s].on = sweep[s].on
      BY <3>1
    <3>5. sweep'[s].page = Tail(sweep[s].page) \/ sweep'[s].page = sweep[s].page
      BY <3>1
    <3> QED BY <1>3, <3>2, <3>3, <3>4, <3>5
  <2>2. Shape' /\ SchemaInv'
    BY <1>1, <1>3, <1>5 DEF Shape, SchemaInv
  <2>3. ASSUME NEW o \in Sources \ {s}
        PROVE  /\ table'[o] = table[o] /\ items'[o] = items[o] /\ sweep'[o] = sweep[o]
    BY <1>1, <1>5 DEF Shape
  <2>4. CASE b = "sqlite"
    <3> DEFINE t == SetLocked(table[s], i, FALSE)
    <3>1. table'[s] = t /\ items'[s] = items[s]
      BY <1>1, <1>5, <2>4 DEF Shape
    <3>2. Stored(t) /\ MaxOrder(t) <= MaxOrder(table[s]) /\ DOMAIN t = DOMAIN table[s]
      BY <1>2, WritesStored DEF SetLocked
    <3> HIDE DEF t
    <3>3. SourceOK(t, items[s], sources[s], nextIndex[s], sweep'[s])
      BY <1>2, <2>1, <3>2 DEF SourceOK
    <3>4. ASSUME s \notin apart
          PROVE  AlikeOK(t, items[s], sources[s], cursors[s], nextIndex[s], sweep'[s])
      <4>1. AlikeOK(table[s], items[s], sources[s], cursors[s], nextIndex[s], sweep[s])
        BY <1>1, <3>4 DEF SourceInv
      <4>2. Alike(t, items[s])
        BY <1>2, <4>1, AlikeUnlocked DEF AlikeOK, t
      <4>3. MaxOrder(t) <= IF nextIndex[s] > 0 THEN nextIndex[s] - 1 ELSE 0
        <5>1. MaxOrder(t) \in Nat /\ MaxOrder(table[s]) \in Nat /\ nextIndex[s] \in Nat
          BY <1>1, <1>2, <3>2, MaxOrderFacts DEF Shape
        <5> QED BY <3>2, <4>1, <5>1 DEF AlikeOK
      <4> QED BY <2>1, <2>4, <4>1, <4>2, <4>3 DEF AlikeOK
    <3>5. SourceInv(s)'
      BY <1>3, <1>5, <3>1, <3>3, <3>4 DEF SourceInv
    <3> QED BY <1>3, <1>5, <2>2, <2>3, <3>5, Frame
  <2>5. CASE b = "memory"
    <3> DEFINE u == SetLocked(items[s], i, FALSE)
    <3>1. table'[s] = table[s] /\ items'[s] = u
      BY <1>1, <1>5, <2>5 DEF Shape
    <3>2. /\ Stored(u) /\ DOMAIN u = DOMAIN items[s]
          /\ \A x \in DOMAIN u : u[x].order = items[s][x].order
      <4>1. \A x \in DOMAIN items[s] : items[s][x] \in Row
        BY <1>2 DEF Stored
      <4>2. \A x \in DOMAIN items[s] : u[x].order = items[s][x].order
        BY <4>1 DEF SetLocked, Row
      <4>3. DOMAIN u = DOMAIN items[s]
        BY DEF SetLocked
      <4> QED BY <1>2, <4>2, <4>3, WritesStored
    <3> HIDE DEF u
    <3>3. SourceOK(table[s], u, sources[s], nextIndex[s], sweep'[s])
      BY <1>2, <2>1, <3>2 DEF SourceOK
    <3>4. ASSUME s \notin apart
          PROVE  AlikeOK(table[s], u, sources[s], cursors[s], nextIndex[s], sweep'[s])
      <4>1. AlikeOK(table[s], items[s], sources[s], cursors[s], nextIndex[s], sweep[s])
        BY <1>1, <3>4 DEF SourceInv
      <4>2. Alike(table[s], u)
        BY <1>2, <4>1, AlikeUnlocked DEF AlikeOK, u
      <4> QED BY <1>3, <2>1, <2>5, <4>1, <4>2 DEF AlikeOK
    <3>5. SourceInv(s)'
      BY <1>3, <1>5, <3>1, <3>3, <3>4 DEF SourceInv
    <3> QED BY <1>3, <1>5, <2>2, <2>3, <3>5, Frame
  <2> QED BY <2>4, <2>5 DEF Backends
<1> QED BY <1>4, <1>5 DEF SweepUnlock

\* The steps of Init and Close leave the contents alone.
LEMMA SchemaStep ==
  ASSUME SInv, CreateTables \/ AddLockedColumn \/ SetVersion \/ Close
  PROVE  SInv'
<1>1. Shape /\ SchemaInv /\ schema \in SchemaType
  BY DEF SInv, Shape, SchemaType
<1>2. UNCHANGED <<sources, table, items, cursors, nextIndex, sweep, apart>>
  BY DEF CreateTables, AddLockedColumn, SetVersion, Close
<1>3. /\ conn' \in {"down", "alter", "version", "open", "closed"}
      /\ faults' \in 0 .. MaxFaults
  BY <1>1, BoundAssumption DEF CreateTables, AddLockedColumn, SetVersion, Close, Disturb, Shape
<1>4. schema' \in SchemaType
  <2>1. [NoFile EXCEPT !.exists = TRUE, !.locked = TRUE] \in SchemaType
    <3>1. NoFile \in SchemaType
      BY DEF NoFile, SchemaType
    <3>2. [NoFile EXCEPT !.exists = TRUE, !.locked = TRUE]
            = [[NoFile EXCEPT !.exists = TRUE] EXCEPT !.locked = TRUE]
      OBVIOUS
    <3> QED BY <3>1, <3>2 DEF SchemaType
  <2>2. [schema EXCEPT !.locked = TRUE] \in SchemaType
    BY <1>1 DEF SchemaType
  <2>3. [schema EXCEPT !.missed = TRUE] \in SchemaType
    BY <1>1 DEF SchemaType
  <2>4. [schema EXCEPT !.version = 1] \in SchemaType
    BY <1>1 DEF SchemaType
  <2> QED BY <1>1, <2>1, <2>2, <2>3, <2>4
          DEF CreateTables, AddLockedColumn, SetVersion, Close
<1>5. SchemaInv'
  <2>1. CASE CreateTables
    <3>1. NoFile.version = 0
      BY DEF NoFile
    <3> QED BY <1>1, <2>1, <3>1 DEF CreateTables, SchemaInv, NoFile
  <2>2. CASE AddLockedColumn
    BY <1>1, <2>2 DEF AddLockedColumn, SchemaInv, SchemaType
  <2>3. CASE SetVersion
    BY <1>1, <2>3 DEF SetVersion, SchemaInv, SchemaType
  <2>4. CASE Close
    BY <1>1, <2>4 DEF Close, SchemaInv
  <2> QED BY <2>1, <2>2, <2>3, <2>4
<1>6. Shape'
  BY <1>1, <1>2, <1>3, <1>4 DEF Shape, SchemaType
<1>7. \A s \in Sources : SourceInv(s)'
  BY <1>2 DEF SInv, SourceInv
<1> QED BY <1>5, <1>6, <1>7 DEF SInv

\* Drop and the end of the process empty the maps; Drop deletes the file too.
LEMMA ClearStep ==
  ASSUME SInv, Drop \/ Restart
  PROVE  SInv'
<1>1. Shape /\ SchemaInv
  BY DEF SInv
<1>2. /\ items' = Nothing /\ cursors' = Unknown /\ nextIndex' = [s \in Sources |-> 0]
      /\ sweep' = Idle /\ apart' \subseteq Sources
      /\ conn' \in {"down", "dropped"} /\ faults' \in 0 .. MaxFaults
  BY <1>1, BoundAssumption DEF Drop, Restart, Disturb, Shape
<1>3. \A s \in Sources : /\ items'[s] = EmptyTable /\ cursors'[s] = NoRow
                         /\ nextIndex'[s] = 0 /\ sweep'[s] = NotSweeping
  BY <1>2 DEF Nothing, Unknown, Idle
<1>4. CASE Drop
  <2>1. \A s \in Sources : table'[s] = EmptyTable /\ sources'[s] = NoRow
    BY <1>4 DEF Drop, Nothing, Unknown
  <2>2. ASSUME NEW s \in Sources PROVE SourceInv(s)'
    BY <1>3, <2>1, NothingOK DEF SourceInv
  <2>3. schema' = NoFile /\ NoFile \in SchemaType /\ NoFile.version = 0 /\ conn' = "dropped"
    BY <1>4 DEF Drop, NoFile, SchemaType
  <2>4. Shape' /\ SchemaInv'
    BY <1>2, <1>4, <2>3 DEF Drop, Shape, SchemaInv, SchemaType, Nothing, Unknown, Idle
  <2> QED BY <2>2, <2>4 DEF SInv
<1>5. CASE Restart
  <2>1. UNCHANGED <<sources, table, schema>> /\ apart' = {s \in Sources : sources[s] # NoRow}
        /\ conn' = "down"
    BY <1>5 DEF Restart
  <2>2. ASSUME NEW s \in Sources PROVE SourceInv(s)'
    <3>1. SourceOK(table[s], items[s], sources[s], nextIndex[s], sweep[s])
      BY DEF SInv, SourceInv
    <3>2. SourceOK(table[s], EmptyTable, sources[s], 0, NotSweeping)
      BY <3>1, NothingOK DEF SourceOK
    <3>3. ASSUME s \notin apart'
          PROVE  AlikeOK(table[s], EmptyTable, sources[s], NoRow, 0, NotSweeping)
      <4>1. sources[s] = NoRow /\ DOMAIN table[s] = {} /\ Stored(table[s])
        BY <2>1, <3>1, <3>3 DEF SourceOK
      <4>2. table[s] = EmptyTable
        BY <4>1 DEF EmptyTable, Stored
      <4> QED BY <4>1, <4>2, NothingOK
    <3> QED BY <1>3, <2>1, <3>2, <3>3 DEF SourceInv
  <2>3. Shape' /\ SchemaInv'
    BY <1>1, <1>2, <2>1 DEF Shape, SchemaInv, Nothing, Unknown, Idle
  <2> QED BY <2>2, <2>3 DEF SInv
<1> QED BY <1>4, <1>5

-----------------------------------------------------------------------------
(* The theorems.                                                           *)

LEMMA NextInv == SInv /\ [Next]_vars => SInv'
<1> SUFFICES ASSUME SInv, [Next]_vars PROVE SInv'
  OBVIOUS
<1>1. ASSUME NEW s \in Sources, Calls(s) PROVE SInv'
  BY <1>1, PushStep, WritesStep, CursorStep DEF Calls
<1>2. ASSUME NEW s \in Sources, NEW b \in Backends, Sweeping(b, s) PROVE SInv'
  BY <1>2, SweepReadStep, SweepUnlockStep DEF Sweeping
<1>3. CASE CreateTables \/ AddLockedColumn \/ SetVersion \/ Close
  BY <1>3, SchemaStep
<1>4. CASE Drop \/ Restart
  BY <1>4, ClearStep
<1>5. CASE UNCHANGED vars
  BY <1>5 DEF vars, SInv, Shape, SchemaInv, SourceInv
<1> QED BY <1>1, <1>2, <1>3, <1>4, <1>5 DEF Next

\* The inductive invariant holds of every reachable state of both backends.
THEOREM Invariance == Spec => []SInv
BY InitInv, NextInv, PTL DEF Spec

\* The variables stay in their types.
LEMMA TypeCorrect == SInv => TypeOK
<1> SUFFICES ASSUME SInv PROVE TypeOK
  OBVIOUS
<1>1. Shape /\ \A s \in Sources :
                 /\ Stored(table[s]) /\ Stored(items[s])
                 /\ sweep[s].on \in {"no"} \cup Backends /\ sweep[s].page \in Seq(Ids)
  BY DEF SInv, SourceInv, SourceOK
<1> QED BY <1>1 DEF TypeOK, Shape, Stored

\* Tables that are alike are read alike, under every limit.
LEMMA SameRead ==
  ASSUME NEW t, NEW u, Stored(t), Stored(u), Alike(t, u), NEW S \in SUBSET DOMAIN t,
         NEW n \in Nat
  PROVE  Read(t, S, n) = Read(u, S, n)
<1> DEFINE limit == IF n <= 0 THEN Page ELSE n
           len == IF Cardinality(S) < limit THEN Cardinality(S) ELSE limit
<1>1. RowsOf(t, S) /\ RowsOf(u, S) /\ Cardinality(S) \in Nat
  BY StoredRows DEF Alike
<1>2. limit \in Nat
  BY BoundAssumption
<1>3. len \in Nat /\ len <= Cardinality(S)
  BY <1>1, <1>2
<1>4. /\ InOrder(t, S, n) = [k \in 1 .. len |-> Nth(t, S, k)]
      /\ InOrder(u, S, n) = [k \in 1 .. len |-> Nth(u, S, k)]
  BY DEF InOrder
<1> HIDE DEF limit, len
<1>5. ASSUME NEW k \in 1 .. len
      PROVE  Nth(t, S, k) = Nth(u, S, k) /\ Nth(t, S, k) \in S
  <2>1. k \in 1 .. Cardinality(S)
    BY <1>1, <1>3
  <2>2. \A x, y \in S : t[x].order < t[y].order <=> u[x].order < u[y].order
    BY DEF Alike
  <2> QED BY <1>1, <2>1, <2>2, SameNth, NthFacts
<1>6. InOrder(t, S, n) = InOrder(u, S, n)
  BY <1>4, <1>5
<1>7. /\ Read(t, S, n) = [k \in 1 .. len |-> [id |-> Nth(t, S, k), data |-> t[Nth(t, S, k)].done]]
      /\ Read(u, S, n) = [k \in 1 .. len |-> [id |-> Nth(t, S, k), data |-> u[Nth(t, S, k)].done]]
  BY <1>4, <1>5, <1>6 DEF Read
<1>8. \A x \in S : t[x].done = u[x].done
  BY DEF Alike
<1> QED BY <1>5, <1>7, <1>8

\* An open database answers like memory on every source no write of which was
\* done by one of them only, and memory's index is never behind sqlite's.
THEOREM AnswersAlike == Spec => []SameAnswers
<1>1. SInv => SameAnswers
  <2> SUFFICES ASSUME SInv PROVE SameReads /\ IndexNotBehind
    BY TypeCorrect DEF SameAnswers
  <2>1. ASSUME NEW s \in Sources \ apart
        PROVE  /\ Stored(table[s]) /\ Stored(items[s]) /\ Alike(table[s], items[s])
               /\ sources[s] = cursors[s]
               /\ MaxOrder(table[s]) <= IF nextIndex[s] > 0 THEN nextIndex[s] - 1 ELSE 0
               /\ Quiet(s) => LockedRows(table[s]) = LockedRows(items[s])
    BY DEF SInv, SourceInv, SourceOK, AlikeOK, Quiet
  <2>2. ASSUME NEW s \in Sources \ apart, conn = "open", Quiet(s),
               NEW n \in 0 .. Cardinality(Ids)
        PROVE  /\ SqlGetItems(s, n) = MemGetItems(s, n)
               /\ schema.locked => /\ SqlGetLocked(s, n) = MemGetLocked(s, n)
                                   /\ SqlGetUnlocked(s, n) = MemGetUnlocked(s, n)
    <3>1. n \in Nat
      OBVIOUS
    <3>2. /\ DOMAIN table[s] = DOMAIN items[s]
          /\ LockedRows(table[s]) = LockedRows(items[s])
          /\ UnlockedRows(table[s]) = UnlockedRows(items[s])
      BY <2>1, <2>2 DEF Alike, LockedRows, UnlockedRows
    <3>3. /\ LockedRows(table[s]) \subseteq DOMAIN table[s]
          /\ UnlockedRows(table[s]) \subseteq DOMAIN table[s]
      BY DEF LockedRows, UnlockedRows
    <3>4. \A S \in SUBSET DOMAIN table[s] : Read(table[s], S, n) = Read(items[s], S, n)
      BY <2>1, <3>1, SameRead
    <3> QED BY <2>2, <3>2, <3>3, <3>4 DEF SqlGetItems, MemGetItems, SqlGetLocked, MemGetLocked,
                                    SqlGetUnlocked, MemGetUnlocked, Query, LockedQuery
  <2>3. ASSUME NEW s \in Sources \ apart, conn = "open"
        PROVE  /\ SqlGetCursor(s) = MemGetCursor(s)
               /\ SqlGetIndex(s).value <= MemGetIndex(s).value
    BY <2>1, <2>3 DEF SqlGetCursor, MemGetCursor, SqlGetIndex, MemGetIndex, Query, Answer
  <2> QED BY <2>2, <2>3 DEF SameReads, IndexNotBehind
<1> QED BY <1>1, Invariance, PTL

\* An open database has the column Lock needs, or the ALTER TABLE itself failed.
THEOREM MigrationHolds == Spec => []Migrated
<1>1. SInv => Migrated
  BY DEF SInv, SchemaInv, Migrated
<1> QED BY <1>1, Invariance, PTL

\* A sweep that ends without an error leaves no item of the source locked.
THEOREM SweepsClean == Spec => SweptClean
<1> DEFINE Clean(b, s) ==
      /\ sweep[s].on = b /\ sweep'[s].on # b
      /\ conn' = conn /\ faults' = faults
      /\ (b = "sqlite" => conn = "open" /\ schema.locked)
      => (IF b = "sqlite" THEN LockedRows(table'[s]) ELSE LockedRows(items'[s])) = {}
<1>1. ASSUME SInv, [Next]_vars, NEW b \in Backends, NEW s \in Sources
      PROVE  Clean(b, s)
  <2> SUFFICES ASSUME sweep[s].on = b, sweep'[s].on # b, conn' = conn, faults' = faults,
                      b = "sqlite" => conn = "open" /\ schema.locked
               PROVE  IF b = "sqlite" THEN LockedRows(table'[s]) = {}
                                      ELSE LockedRows(items'[s]) = {}
    OBVIOUS
  <2>1. Shape /\ Stored(table[s]) /\ Stored(items[s])
    BY <1>1 DEF SInv, SourceInv, SourceOK
  <2>2. ASSUME NEW o \in Sources, Calls(o) PROVE FALSE
    <3>1. UNCHANGED sweep \/ UnlockAllEvents(o)
      BY <2>2 DEF Calls, Push, Write, Update, Lock, Unlock, Delete, UpdateCursor
    <3>2. UnlockAllEvents(o) /\ sweep[o].on = "no"
      BY <3>1 DEF UnlockAllEvents, Quiet
    <3>3. s = o
      BY <2>1, <3>2 DEF UnlockAllEvents, Shape
    <3> QED BY <3>2, <3>3 DEF Backends
  <2>3. ASSUME NEW o \in Sources, NEW c \in Backends, Sweeping(c, o)
        PROVE  s = o /\ c = b
    <3>1. sweep[o].on = c /\ \A p \in Sources \ {o} : sweep'[p] = sweep[p]
      <4>1. CASE SweepRead(c, o)
        <5>1. sweep[o] = [on |-> c, page |-> <<>>]
          BY <4>1 DEF SweepRead
        <5>2. \E w : sweep' = [sweep EXCEPT ![o] = w]
          BY <4>1 DEF SweepRead, SweepFails, StopSweep
        <5> QED BY <2>1, <5>1, <5>2 DEF Shape
      <4>2. CASE SweepUnlock(c, o)
        <5>1. sweep[o].on = c
          BY <4>2 DEF SweepUnlock
        <5>2. \E w : sweep' = [sweep EXCEPT ![o] = w]
          <6>1. \/ sweep' = [sweep EXCEPT ![o].page = Tail(@)]
                \/ sweep' = [sweep EXCEPT ![o] = Ended(c)]
            BY <4>2 DEF SweepUnlock, SweepFails, StopSweep
          <6> QED BY <6>1
        <5> QED BY <2>1, <5>1, <5>2 DEF Shape
      <4> QED BY <2>3, <4>1, <4>2 DEF Sweeping
    <3> QED BY <2>1, <3>1
  <2>4. ~SweepFails(b, s)
    BY <2>1 DEF SweepFails, SqlFails, SqlDone, Disturb, Shape
  <2>5. CASE SweepRead(b, s)
    <3>1. Locked(b, s) = <<>> /\ UNCHANGED <<table, items>>
      BY <2>1, <2>4, <2>5 DEF SweepRead, Shape
    <3>2. LockedRows(table[s]) \subseteq DOMAIN table[s] /\ LockedRows(items[s]) \subseteq DOMAIN items[s]
      BY DEF LockedRows
    <3>3. /\ InOrder(table[s], LockedRows(table[s]), 0) = <<>> => LockedRows(table[s]) = {}
          /\ InOrder(items[s], LockedRows(items[s]), 0) = <<>> => LockedRows(items[s]) = {}
      BY <2>1, <3>2, InOrderFacts
    <3> QED BY <3>1, <3>3 DEF Locked
  <2>6. CASE SweepUnlock(b, s)
    <3>1. sweep' = [sweep EXCEPT ![s].page = Tail(@)]
      BY <2>4, <2>6 DEF SweepUnlock
    <3>2. sweep'[s].on = sweep[s].on
      BY <2>1, <3>1 DEF Shape
    <3> QED BY <3>2
  <2>7. CASE CreateTables \/ AddLockedColumn \/ SetVersion \/ Close \/ Restart \/ UNCHANGED vars
    <3>1. UNCHANGED sweep \/ Restart
      BY <2>7 DEF CreateTables, AddLockedColumn, SetVersion, Close, vars
    <3> QED BY <3>1 DEF Restart
  <2>8. CASE Drop
    BY <2>1, <2>8 DEF Drop, Disturb, Shape
  <2> QED BY <1>1, <2>2, <2>3, <2>5, <2>6, <2>7, <2>8 DEF Next, Sweeping
<1>2. SInv /\ [Next]_vars => [\A b \in Backends, s \in Sources : Clean(b, s)]_vars
  BY <1>1
<1>3. [][\A b \in Backends, s \in Sources : Clean(b, s)]_vars <=> SweptClean
  BY DEF SweptClean
<1> QED BY <1>2, <1>3, Invariance, PTL DEF Spec

-----------------------------------------------------------------------------
(* How long a sweep goes on.                                               *)

LockedIn(b, s) == LockedRows(IF b = "sqlite" THEN table[s] ELSE items[s])

\* What is left of the page of a sweep: items that are locked, each once.
LockedOnce(page, S) ==
  /\ page \in Seq(S)
  /\ \A j, k \in DOMAIN page : page[j] = page[k] => j = k

IsSweep(w) == w = [on |-> w.on, page |-> w.page]

PageLocked ==
  \A s \in Sources :
    /\ IsSweep(sweep[s])
    /\ \A b \in Backends :
         sweep[s].on = b => LockedOnce(sweep[s].page, LockedIn(b, s))

\* The step of a sweep takes up a page with something on it or unlocks an item
\* that was locked, and no other step touches what is locked or the page.  It
\* goes from sqlite to memory and not back.
Shrinks ==
  \A s \in Sources, b \in Backends : sweep[s].on = b =>
    /\ b = "memory" => sweep'[s].on # "sqlite"
    /\ sweep'[s].on = b =>
       /\ Sweeping(b, s) =>
            IF sweep[s].page = <<>>
            THEN sweep'[s].page # <<>> /\ LockedIn(b, s)' = LockedIn(b, s)
            ELSE LockedIn(b, s)' \subseteq LockedIn(b, s) /\ LockedIn(b, s)' # LockedIn(b, s)
       /\ ~Sweeping(b, s) => sweep'[s] = sweep[s] /\ LockedIn(b, s)' = LockedIn(b, s)

LEMMA PageOnce ==
  ASSUME NEW t, Stored(t), NEW S \in SUBSET DOMAIN t
  PROVE  LockedOnce(InOrder(t, S, 0), S)
<1> DEFINE page == InOrder(t, S, 0)
           len == IF Cardinality(S) < Page THEN Cardinality(S) ELSE Page
<1>1. RowsOf(t, S) /\ Cardinality(S) \in Nat /\ Page \in Nat
  BY StoredRows, FS_Subset, FS_CardinalityType, BoundAssumption DEF Stored
<1>2. page = [k \in 1 .. len |-> Nth(t, S, k)] /\ len \in Nat /\ len <= Cardinality(S)
  BY <1>1 DEF InOrder
<1>3. page \in Seq(S)
  BY InOrderFacts
<1> HIDE DEF len
<1>4. ASSUME NEW j \in DOMAIN page, NEW k \in DOMAIN page, page[j] = page[k] PROVE j = k
  <2>1. j \in 1 .. Cardinality(S) /\ k \in 1 .. Cardinality(S) /\ Nth(t, S, j) = Nth(t, S, k)
    BY <1>1, <1>2, <1>4
  <2> QED BY <1>1, <2>1, NthFacts
<1> QED BY <1>3, <1>4 DEF LockedOnce

LEMMA UnlockedOne ==
  ASSUME NEW t, Stored(t), NEW i
  PROVE  LockedRows(SetLocked(t, i, FALSE)) = LockedRows(t) \ {i}
<1>1. \A x \in DOMAIN t : t[x] \in Row
  BY DEF Stored
<1> QED BY <1>1 DEF LockedRows, SetLocked, Row

LEMMA TailOnce ==
  ASSUME NEW S, NEW page, LockedOnce(page, S), page # <<>>
  PROVE  Head(page) \in S /\ LockedOnce(Tail(page), S \ {Head(page)})
<1>1. page \in Seq(S) /\ Len(page) \in Nat \ {0} /\ DOMAIN page = 1 .. Len(page)
      /\ Head(page) = page[1] /\ \A k \in 1 .. Len(page) : page[k] \in S
  BY DEF LockedOnce
<1>2. /\ Len(Tail(page)) = Len(page) - 1 /\ DOMAIN Tail(page) = 1 .. Len(page) - 1
      /\ \A k \in 1 .. Len(page) - 1 : Tail(page)[k] = page[k + 1]
  BY <1>1
<1>3. \A k \in 1 .. Len(page) - 1 : Tail(page)[k] \in S \ {Head(page)}
  BY <1>1, <1>2 DEF LockedOnce
<1>4. Tail(page) \in Seq(S \ {Head(page)})
  <2> DEFINE rest == Tail(page)
             n == Len(page) - 1
  <2>1. rest \in Seq(S) /\ n \in Nat
    BY <1>1
  <2>2. rest \in [1 .. n -> S]
    BY <1>2, <2>1, LenProperties
  <2>3. \A k \in 1 .. n : rest[k] \in S \ {Head(page)}
    BY <1>3
  <2> HIDE DEF rest, n
  <2>4. rest = [k \in 1 .. n |-> rest[k]]
    BY <2>2
  <2>5. rest \in Seq(S \ {Head(page)})
    BY <2>1, <2>3, <2>4
  <2> QED BY <2>5 DEF rest
<1>5. \A j, k \in 1 .. Len(page) - 1 : Tail(page)[j] = Tail(page)[k] => j = k
  BY <1>1, <1>2 DEF LockedOnce
<1> QED BY <1>1, <1>2, <1>4, <1>5 DEF LockedOnce

\* What a step of the sweep b of s does: it ends, reads, or unlocks.
LEMMA SweepDoes ==
  ASSUME SInv, NEW s \in Sources, IsSweep(sweep[s]), NEW b \in Backends, Sweeping(b, s)
  PROVE  /\ sweep[s].on = b /\ \A o \in Sources \ {s} : sweep'[o] = sweep[o]
         /\ \A o \in Sources \ {s} : table'[o] = table[o] /\ items'[o] = items[o]
         /\ \/ sweep'[s] = Ended(b)
            \/ /\ sweep[s].page = <<>> /\ Locked(b, s) # <<>> /\ UNCHANGED <<table, items>>
               /\ sweep'[s] = [on |-> b, page |-> Locked(b, s)]
            \/ /\ sweep[s].page # <<>>
               /\ sweep'[s] = [on |-> b, page |-> Tail(sweep[s].page)]
               /\ LockedIn(b, s)' = LockedIn(b, s) \ {Head(sweep[s].page)}
<1>1. Shape /\ Stored(table[s]) /\ Stored(items[s])
      /\ sweep[s].page \in Seq(Ids)
  BY DEF SInv, SourceInv, SourceOK
<1>2. CASE SweepRead(b, s)
  <2>1. /\ sweep[s] = [on |-> b, page |-> <<>>] /\ UNCHANGED <<table, items>>
        /\ \E w : sweep' = [sweep EXCEPT ![s] = w] /\
             (w = Ended(b) \/ (w = [on |-> b, page |-> Locked(b, s)] /\ Locked(b, s) # <<>>))
    BY <1>2 DEF SweepRead, SweepFails, StopSweep
  <2>2. sweep[s].on = b /\ sweep[s].page = <<>>
    BY <2>1
  <2> QED BY <1>1, <2>1, <2>2 DEF Shape
<1>3. CASE SweepUnlock(b, s) /\ SweepFails(b, s) /\ UNCHANGED <<table, items>>
  <2>1. sweep[s].on = b /\ sweep' = [sweep EXCEPT ![s] = Ended(b)] /\ UNCHANGED <<table, items>>
    BY <1>3 DEF SweepUnlock, SweepFails, StopSweep
  <2> QED BY <1>1, <2>1 DEF Shape
<1>4. ASSUME sweep[s].on = b, sweep[s].page # <<>>,
             sweep' = [sweep EXCEPT ![s].page = Tail(@)],
             table' = [table EXCEPT ![s] = IF b = "sqlite" THEN SetLocked(@, Head(sweep[s].page), FALSE) ELSE @],
             items' = [items EXCEPT ![s] = IF b = "memory" THEN SetLocked(@, Head(sweep[s].page), FALSE) ELSE @]
      PROVE  /\ \A o \in Sources \ {s} :
                  sweep'[o] = sweep[o] /\ table'[o] = table[o] /\ items'[o] = items[o]
             /\ sweep'[s] = [on |-> b, page |-> Tail(sweep[s].page)]
             /\ LockedIn(b, s)' = LockedIn(b, s) \ {Head(sweep[s].page)}
  <2>1. \A o \in Sources \ {s} :
          sweep'[o] = sweep[o] /\ table'[o] = table[o] /\ items'[o] = items[o]
    BY <1>1, <1>4 DEF Shape
  <2>2. sweep'[s] = [sweep[s] EXCEPT !.page = Tail(@)]
    BY <1>1, <1>4 DEF Shape
  <2>3. sweep'[s] = [on |-> b, page |-> Tail(sweep[s].page)]
    BY <1>4, <2>2 DEF IsSweep
  <2>4. ASSUME b = "sqlite"
        PROVE  LockedIn(b, s)' = LockedIn(b, s) \ {Head(sweep[s].page)}
    <3>1. table'[s] = SetLocked(table[s], Head(sweep[s].page), FALSE)
      BY <1>1, <1>4, <2>4 DEF Shape
    <3>2. LockedIn(b, s) = LockedRows(table[s]) /\ LockedIn(b, s)' = LockedRows(table'[s])
      BY <2>4 DEF LockedIn
    <3> QED BY <1>1, <3>1, <3>2, UnlockedOne
  <2>5. ASSUME b = "memory"
        PROVE  LockedIn(b, s)' = LockedIn(b, s) \ {Head(sweep[s].page)}
    <3>1. items'[s] = SetLocked(items[s], Head(sweep[s].page), FALSE)
      BY <1>1, <1>4, <2>5 DEF Shape
    <3>2. LockedIn(b, s) = LockedRows(items[s]) /\ LockedIn(b, s)' = LockedRows(items'[s])
      BY <2>5 DEF LockedIn
    <3> QED BY <1>1, <3>1, <3>2, UnlockedOne
  <2> QED BY <2>1, <2>3, <2>4, <2>5 DEF Backends
<1> QED BY <1>2, <1>3, <1>4 DEF Sweeping, SweepUnlock

\* What it leaves alone, and what becomes of the sweep.
LEMMA SweepLeaves ==
  ASSUME SInv, PageLocked, NEW o \in Sources, NEW c \in Backends, Sweeping(c, o)
  PROVE  /\ sweep[o].on = c
         /\ \A s \in Sources \ {o} :
              sweep'[s] = sweep[s] /\ table'[s] = table[s] /\ items'[s] = items[s]
         /\ \E on, page : sweep'[o] = [on |-> on, page |-> page]
<1>1. IsSweep(sweep[o])
  BY DEF PageLocked
<1>2. /\ sweep[o].on = c
      /\ \A s \in Sources \ {o} :
           sweep'[s] = sweep[s] /\ table'[s] = table[s] /\ items'[s] = items[s]
  BY <1>1, SweepDoes
<1>3. \/ sweep'[o] = Ended(c)
      \/ sweep'[o] = [on |-> c, page |-> Locked(c, o)]
      \/ sweep'[o] = [on |-> c, page |-> Tail(sweep[o].page)]
  BY <1>1, SweepDoes
<1>4. \E on, page : sweep'[o] = [on |-> on, page |-> page]
  BY <1>3, Zenon DEF Ended
<1> QED BY <1>2, <1>4

\* A step that is not one of the sweep of s leaves it and its items alone, or
\* there was none, or it ends it.
LEMMA OthersDo ==
  ASSUME SInv, PageLocked, [Next]_vars, NEW s \in Sources, NEW b \in Backends,
         sweep[s].on = b, ~Sweeping(b, s)
  PROVE  \/ sweep'[s] = NotSweeping
         \/ sweep'[s] = sweep[s] /\ table'[s] = table[s] /\ items'[s] = items[s]
<1>1. Shape
  BY DEF SInv
<1>2. ASSUME NEW o \in Sources, Calls(o)
      PROVE  sweep'[s] = sweep[s] /\ table'[s] = table[s] /\ items'[s] = items[s]
  <2>1. o # s
    BY <1>2 DEF Calls, Push, Update, Lock, Unlock, Delete, Write, UpdateCursor,
      UnlockAllEvents, Quiet, Backends
  <2>2. /\ \E w : sweep' = sweep \/ sweep' = [sweep EXCEPT ![o] = w]
        /\ \E w : table' = table \/ table' = [table EXCEPT ![o] = w]
        /\ \E w : items' = items \/ items' = [items EXCEPT ![o] = w]
    BY <1>2 DEF Calls, Push, MemPush, SqlPush, SqlPushFails, sqlVars, Update, Lock, Unlock,
      Delete, Write, UpdateCursor, UnlockAllEvents
  <2> QED BY <1>1, <2>1, <2>2 DEF Shape
<1>3. ASSUME NEW o \in Sources, NEW c \in Backends, Sweeping(c, o)
      PROVE  sweep'[s] = sweep[s] /\ table'[s] = table[s] /\ items'[s] = items[s]
  <2>1. o # s
    BY <1>3, SweepLeaves
  <2> QED BY <1>3, <2>1, SweepLeaves
<1>4. CASE CreateTables \/ AddLockedColumn \/ SetVersion \/ Close \/ UNCHANGED vars
  BY <1>4 DEF CreateTables, AddLockedColumn, SetVersion, Close, vars
<1>5. CASE Drop \/ Restart
  BY <1>5 DEF Drop, Restart, Idle
<1> QED BY <1>2, <1>3, <1>4, <1>5 DEF Next

LEMMA PageLockedStep ==
  ASSUME SInv, PageLocked, [Next]_vars
  PROVE  PageLocked'
<1>0. ASSUME NEW s \in Sources PROVE IsSweep(sweep'[s])
  <2>1. IsSweep(sweep[s]) /\ DOMAIN sweep = Sources
    BY DEF PageLocked, SInv, Shape
  <2>2. \A on, page : IsSweep([on |-> on, page |-> page])
    BY DEF IsSweep
  <2>3. ASSUME NEW o \in Sources, Calls(o) PROVE IsSweep(sweep'[s])
    <3>1. sweep' = sweep \/ sweep' = [sweep EXCEPT ![o] = [on |-> "sqlite", page |-> <<>>]]
      BY <2>3 DEF Calls, Push, Update, Lock, Unlock, Delete, Write, UpdateCursor, UnlockAllEvents
    <3> QED BY <2>1, <2>2, <3>1
  <2>4. ASSUME NEW o \in Sources, NEW c \in Backends, Sweeping(c, o) PROVE IsSweep(sweep'[s])
    <3>1. sweep'[s] = sweep[s] \/ \E on, page : sweep'[s] = [on |-> on, page |-> page]
      BY <2>4, SweepLeaves
    <3> QED BY <2>1, <2>2, <3>1
  <2>5. CASE CreateTables \/ AddLockedColumn \/ SetVersion \/ Close \/ UNCHANGED vars
    BY <2>1, <2>5 DEF CreateTables, AddLockedColumn, SetVersion, Close, vars
  <2>6. CASE Drop \/ Restart
    BY <2>2, <2>6 DEF Drop, Restart, Idle, NotSweeping
  <2> QED BY <2>3, <2>4, <2>5, <2>6 DEF Next
<1> SUFFICES ASSUME NEW s \in Sources, NEW b \in Backends, sweep'[s].on = b
             PROVE  LockedOnce(sweep'[s].page, LockedIn(b, s)')
  BY <1>0 DEF PageLocked
<1>1. \A S : LockedOnce(<<>>, S)
  BY DEF LockedOnce
<1>2. CASE sweep[s].on \notin Backends
  <2>1. sweep'[s].page = <<>>
    <3>1. ASSUME NEW o \in Sources, Calls(o) PROVE sweep'[s] = sweep[s] \/ sweep'[s].page = <<>>
      <4>1. sweep' = sweep \/ sweep' = [sweep EXCEPT ![o] = [on |-> "sqlite", page |-> <<>>]]
        BY <3>1 DEF Calls, Push, Update, Lock, Unlock, Delete, Write, UpdateCursor, UnlockAllEvents
      <4> QED BY <4>1 DEF SInv, Shape
    <3>2. ASSUME NEW o \in Sources, NEW c \in Backends, Sweeping(c, o) PROVE sweep'[s] = sweep[s]
      BY <1>2, <3>2, SweepLeaves
    <3>3. ASSUME CreateTables \/ AddLockedColumn \/ SetVersion \/ Close \/ UNCHANGED vars
          PROVE  sweep'[s] = sweep[s]
      BY <3>3 DEF CreateTables, AddLockedColumn, SetVersion, Close, vars
    <3>4. CASE Drop \/ Restart
      BY <3>4 DEF Drop, Restart, Idle, NotSweeping
    <3>5. sweep'[s] = sweep[s] \/ sweep'[s].page = <<>>
      BY <3>1, <3>2, <3>3, <3>4 DEF Next
    <3> QED BY <1>2, <3>5
  <2> QED BY <1>1, <2>1
<1>3. ASSUME NEW c \in Backends, sweep[s].on = c, Sweeping(c, s)
      PROVE  LockedOnce(sweep'[s].page, LockedIn(b, s)')
  <2>1. LockedOnce(sweep[s].page, LockedIn(c, s))
    BY <1>3 DEF PageLocked
  <2>2. CASE sweep'[s] = Ended(c)
    BY <1>1, <2>2 DEF Ended
  <2>3. CASE /\ Locked(c, s) # <<>> /\ UNCHANGED <<table, items>>
             /\ sweep'[s] = [on |-> c, page |-> Locked(c, s)]
    <3>1. c = b /\ sweep'[s].page = Locked(c, s) /\ LockedIn(b, s)' = LockedIn(b, s)
      BY <2>3 DEF LockedIn
    <3>2. Stored(table[s]) /\ Stored(items[s])
      BY DEF SInv, SourceInv, SourceOK
    <3>3. LockedRows(table[s]) \subseteq DOMAIN table[s] /\ LockedRows(items[s]) \subseteq DOMAIN items[s]
      BY DEF LockedRows
    <3> QED BY <3>1, <3>2, <3>3, PageOnce DEF Locked, LockedIn
  <2>4. CASE /\ sweep[s].page # <<>>
             /\ sweep'[s] = [on |-> c, page |-> Tail(sweep[s].page)]
             /\ LockedIn(c, s)' = LockedIn(c, s) \ {Head(sweep[s].page)}
    BY <2>1, <2>4, TailOnce
  <2> QED BY <1>3, <2>2, <2>3, <2>4, SweepDoes DEF PageLocked
<1>4. ASSUME sweep[s].on \in Backends, ~Sweeping(sweep[s].on, s)
      PROVE  LockedOnce(sweep'[s].page, LockedIn(b, s)')
  <2>1. CASE sweep'[s] = NotSweeping
    BY <1>1, <2>1 DEF NotSweeping
  <2>2. CASE sweep'[s] = sweep[s] /\ table'[s] = table[s] /\ items'[s] = items[s]
    BY <2>2 DEF PageLocked, LockedIn
  <2> QED BY <1>4, <2>1, <2>2, OthersDo
<1> QED BY <1>2, <1>3, <1>4

\* UnlockAllEvents comes to an end although every page is read anew: each of its
\* calls ends the sweep, takes up a page with an item on it, or unlocks an item that
\* was locked, and nobody locks one meanwhile (events_storage.go, UnlockAllEvents).
\* So a backend is done after at most two calls for each item it had locked, and
\* one more.  This is the safety half of SweepEnds.
THEOREM SweepShrinks == Spec => []PageLocked /\ [][Shrinks]_vars
<1>1. Init => PageLocked
  BY DEF Init, PageLocked, IsSweep, Idle, NotSweeping, Backends
<1>2. SInv /\ PageLocked /\ [Next]_vars => PageLocked'
  BY PageLockedStep
<1>3. SInv /\ PageLocked /\ [Next]_vars => [Shrinks]_vars
  <2> SUFFICES ASSUME SInv, PageLocked, Next, NEW s \in Sources, NEW b \in Backends,
                      sweep[s].on = b
               PROVE  /\ b = "memory" => sweep'[s].on # "sqlite"
                      /\ sweep'[s].on = b =>
                         /\ Sweeping(b, s) =>
                              IF sweep[s].page = <<>>
                              THEN sweep'[s].page # <<>> /\ LockedIn(b, s)' = LockedIn(b, s)
                              ELSE /\ LockedIn(b, s)' \subseteq LockedIn(b, s)
                                   /\ LockedIn(b, s)' # LockedIn(b, s)
                         /\ ~Sweeping(b, s) =>
                              sweep'[s] = sweep[s] /\ LockedIn(b, s)' = LockedIn(b, s)
    BY DEF Shrinks
  <2>1. CASE ~Sweeping(b, s)
    <3>1. CASE sweep'[s] = NotSweeping
      BY <2>1, <3>1 DEF NotSweeping, Backends
    <3>2. CASE sweep'[s] = sweep[s] /\ table'[s] = table[s] /\ items'[s] = items[s]
      BY <2>1, <3>2 DEF LockedIn
    <3> QED BY <2>1, <3>1, <3>2, OthersDo
  <2>2. CASE Sweeping(b, s)
    <3>1. LockedOnce(sweep[s].page, LockedIn(b, s))
      BY DEF PageLocked
    <3>2. CASE sweep'[s] = Ended(b)
      BY <2>2, <3>2 DEF Ended, Backends
    <3>3. CASE /\ sweep[s].page = <<>> /\ Locked(b, s) # <<>> /\ UNCHANGED <<table, items>>
               /\ sweep'[s] = [on |-> b, page |-> Locked(b, s)]
      <4>1. sweep'[s].on = b /\ sweep'[s].page = Locked(b, s) /\ LockedIn(b, s)' = LockedIn(b, s)
        BY <3>3 DEF LockedIn
      <4> QED BY <2>2, <3>3, <4>1
    <3>4. CASE /\ sweep[s].page # <<>>
               /\ sweep'[s] = [on |-> b, page |-> Tail(sweep[s].page)]
               /\ LockedIn(b, s)' = LockedIn(b, s) \ {Head(sweep[s].page)}
      <4>1. Head(sweep[s].page) \in LockedIn(b, s)
        BY <3>1, <3>4, TailOnce
      <4> QED BY <2>2, <3>4, <4>1
    <3> QED BY <2>2, <3>2, <3>3, <3>4, SweepDoes DEF PageLocked
  <2> QED BY <2>1, <2>2
<1> QED BY <1>1, <1>2, <1>3, Invariance, PTL DEF Spec

-----------------------------------------------------------------------------
(* The refinement: what a step does to the queue a table stands for.       *)

\* An item of the queue gets other data or another lock, or one is taken out.
Changes(p, q) ==
  \E d \in SUBSET StageNames, b \in BOOLEAN : ChangesTo(p, q, d, b)
Removes(p, q, i) ==
  \E k \in DOMAIN p : /\ p[k].id = i
                      /\ q = SubSeq(p, 1, k - 1) \o SubSeq(p, k + 1, Len(p))

LEMMA TableChanges ==
  ASSUME NEW t, Stored(t), NEW i, NEW u, Stored(u), DOMAIN u = DOMAIN t,
         \A x \in DOMAIN t \ {i} : u[x] = t[x],
         \A x \in DOMAIN t : u[x].order = t[x].order
  PROVE  u = t \/ Changes(Queue(t), Queue(u))
<1>1. CASE i \in DOMAIN t
  <2>1. u[i].done \in SUBSET StageNames /\ u[i].locked \in BOOLEAN
    BY <1>1 DEF Stored, Row
  <2>2. u[i].order = t[i].order
    BY <1>1
  <2>3. ChangesTo(Queue(t), Queue(u), u[i].done, u[i].locked)
    BY <1>1, <2>2, QueueChange
  <2> QED BY <2>1, <2>3 DEF Changes
<1>2. CASE i \notin DOMAIN t
  <2>1. u = t
    BY <1>2 DEF Stored
  <2> QED BY <2>1
<1> QED BY <1>1, <1>2

\* What the writes of a row do to the queue, whoever makes them.
LEMMA WritesQueue ==
  ASSUME NEW t, Stored(t), NEW i
  PROVE  /\ \A d \in SUBSET StageNames :
              SetDone(t, i, d) = t \/ Changes(Queue(t), Queue(SetDone(t, i, d)))
         /\ \A b \in BOOLEAN :
              SetLocked(t, i, b) = t \/ Changes(Queue(t), Queue(SetLocked(t, i, b)))
         /\ DeleteRow(t, i) = t \/ Removes(Queue(t), Queue(DeleteRow(t, i)), i)
<1>0. \A x \in DOMAIN t : t[x] \in Row
  BY DEF Stored
<1>1. ASSUME NEW d \in SUBSET StageNames
      PROVE  SetDone(t, i, d) = t \/ Changes(Queue(t), Queue(SetDone(t, i, d)))
  <2>1. DOMAIN SetDone(t, i, d) = DOMAIN t /\ Stored(SetDone(t, i, d))
    BY WritesStored DEF SetDone
  <2>2. \A x \in DOMAIN t \ {i} : SetDone(t, i, d)[x] = t[x]
    BY <1>0 DEF SetDone, Row
  <2>3. \A x \in DOMAIN t : SetDone(t, i, d)[x].order = t[x].order
    BY <1>0 DEF SetDone, Row
  <2> QED BY <2>1, <2>2, <2>3, TableChanges
<1>2. ASSUME NEW b \in BOOLEAN
      PROVE  SetLocked(t, i, b) = t \/ Changes(Queue(t), Queue(SetLocked(t, i, b)))
  <2>1. DOMAIN SetLocked(t, i, b) = DOMAIN t /\ Stored(SetLocked(t, i, b))
    BY WritesStored DEF SetLocked
  <2>2. \A x \in DOMAIN t \ {i} : SetLocked(t, i, b)[x] = t[x]
    BY <1>0 DEF SetLocked, Row
  <2>3. \A x \in DOMAIN t : SetLocked(t, i, b)[x].order = t[x].order
    BY <1>0 DEF SetLocked, Row
  <2> QED BY <2>1, <2>2, <2>3, TableChanges
<1>3. DeleteRow(t, i) = t \/ Removes(Queue(t), Queue(DeleteRow(t, i)), i)
  <2>1. DOMAIN DeleteRow(t, i) = DOMAIN t \ {i} /\ \A x \in DOMAIN t \ {i} : DeleteRow(t, i)[x] = t[x]
    BY DEF DeleteRow
  <2>2. CASE i \in DOMAIN t
    BY <2>1, <2>2, WritesStored, QueueWithout DEF Removes
  <2>3. CASE i \notin DOMAIN t
    BY <2>3 DEF DeleteRow, Stored
  <2> QED BY <2>2, <2>3
<1> QED BY <1>1, <1>2, <1>3

\* A row that enters at the end: its item is appended, to what is left of the
\* queue when the row replaces one.
LEMMA EnterQueue ==
  ASSUME NEW t, Stored(t), NEW i \in Ids, NEW n \in Nat, \A x \in DOMAIN t : t[x].order < n
  PROVE  LET fresh == [id |-> i, data |-> {}, locked |-> FALSE]
         IN  /\ i \notin DOMAIN t => /\ \A k \in DOMAIN Queue(t) : Queue(t)[k].id # i
                                     /\ Queue(Enter(t, i, n)) = Append(Queue(t), fresh)
             /\ i \in DOMAIN t => \E q : /\ Removes(Queue(t), q, i)
                                         /\ Queue(Enter(t, i, n)) = Append(q, fresh)
<1> DEFINE u == Enter(t, i, n)
           w == DeleteRow(t, i)
           fresh == [id |-> i, data |-> {}, locked |-> FALSE]
<1>1. /\ Stored(u) /\ DOMAIN u = DOMAIN t \cup {i}
      /\ u[i] = [order |-> n, locked |-> FALSE, done |-> {}]
      /\ \A x \in DOMAIN t \ {i} : u[x] = t[x]
  BY EnterStored
<1>2. /\ Stored(w) /\ DOMAIN w = DOMAIN t \ {i} /\ i \notin DOMAIN w
      /\ \A x \in DOMAIN w : w[x] = t[x]
  BY WritesStored DEF DeleteRow
<1> HIDE DEF u, w
<1>3. ItemOf(u, i) = fresh
  BY <1>1 DEF ItemOf
<1>4. Queue(u) = Append(Queue(w), fresh)
  <2>1. DOMAIN u = DOMAIN w \cup {i}
    BY <1>1, <1>2
  <2>2. \A x \in DOMAIN w : u[x] = w[x] /\ u[x].order < u[i].order
    BY <1>1, <1>2
  <2>3. Queue(u) = Append(Queue(w), ItemOf(u, i))
    BY <1>1, <1>2, <2>1, <2>2, QueueAppend
  <2> QED BY <1>3, <2>3
<1>5. ASSUME i \notin DOMAIN t
      PROVE  (\A k \in DOMAIN Queue(t) : Queue(t)[k].id # i) /\ w = t
  <2>1. \A k \in DOMAIN Queue(t) : Queue(t)[k].id \in DOMAIN t
    BY QueueHolds
  <2>2. w = t
    BY <1>2, <1>5 DEF Stored
  <2> QED BY <1>5, <2>1, <2>2
<1>6. ASSUME i \in DOMAIN t PROVE Removes(Queue(t), Queue(w), i)
  BY <1>2, <1>6, QueueWithout DEF Removes
<1> QED BY <1>4, <1>5, <1>6 DEF u

\* The queues of all sources, when only that of s has changed.
LEMMA OneQueue ==
  ASSUME NEW f, NEW g, DOMAIN f = Sources, NEW s \in Sources, NEW v, g = [f EXCEPT ![s] = v]
  PROVE  [o \in Sources |-> Queue(g[o])] = [[o \in Sources |-> Queue(f[o])] EXCEPT ![s] = Queue(v)]
OBVIOUS

\* A write of one source by sqlite, and nothing else, is a step of the queue.
LEMMA SqlWrite ==
  ASSUME NEW s \in Sources, DOMAIN table = Sources, NEW rows,
         table' = [table EXCEPT ![s] = rows], UNCHANGED sources,
         \/ rows = table[s]
         \/ Changes(Queue(table[s]), Queue(rows))
         \/ \E i : Removes(Queue(table[s]), Queue(rows), i)
  PROVE  [Sqlite!Next]_(Sqlite!contents)
<1> DEFINE q == [o \in Sources |-> Queue(table[o])]
           p == Queue(table[s])
<1>1. q' = [q EXCEPT ![s] = Queue(rows)] /\ q[s] = p
  BY OneQueue
<1> HIDE DEF q, p
<1>2. CASE rows = table[s]
  <2>1. table' = table \/ \A o \in Sources : table'[o] = table[o]
    BY <1>2
  <2>2. q' = q
    BY <2>1 DEF q
  <2> QED BY <2>2 DEF Sqlite!contents, q
<1>3. CASE Changes(p, Queue(rows))
  <2>1. PICK d \in SUBSET StageNames, b \in BOOLEAN, k \in DOMAIN p :
          Queue(rows) = [p EXCEPT ![k] = [@ EXCEPT !.data = d, !.locked = b]]
    BY <1>3 DEF Changes, ChangesTo
  <2>2. q' = [q EXCEPT ![s][k] = [@ EXCEPT !.data = d, !.locked = b]]
    BY <1>1, <2>1
  <2>3. Sqlite!Change(s, k) /\ k \in DOMAIN q[s]
    BY <1>1, <2>1, <2>2 DEF Sqlite!Change, q
  <2> QED BY <2>3 DEF Sqlite!Next, q
<1>4. CASE \E i : Removes(p, Queue(rows), i)
  <2>1. PICK k \in DOMAIN p : Queue(rows) = SubSeq(p, 1, k - 1) \o SubSeq(p, k + 1, Len(p))
    BY <1>4 DEF Removes
  <2>2. q' = [q EXCEPT ![s] = Sqlite!RemoveAt(@, k)] /\ k \in DOMAIN q[s]
    BY <1>1, <2>1 DEF Sqlite!RemoveAt
  <2>3. Sqlite!Delete(s, k)
    BY <2>2 DEF Sqlite!Delete, q
  <2> QED BY <2>2, <2>3 DEF Sqlite!Next, q
<1> QED BY <1>2, <1>3, <1>4 DEF p

\* A write of one source by memory, and nothing else, is a step of the queue.
LEMMA MemWrite ==
  ASSUME NEW s \in Sources, DOMAIN items = Sources, NEW rows,
         items' = [items EXCEPT ![s] = rows], UNCHANGED cursors,
         \/ rows = items[s]
         \/ Changes(Queue(items[s]), Queue(rows))
         \/ \E i : Removes(Queue(items[s]), Queue(rows), i)
  PROVE  [Memory!Next]_(Memory!contents)
<1> DEFINE q == [o \in Sources |-> Queue(items[o])]
           p == Queue(items[s])
<1>1. q' = [q EXCEPT ![s] = Queue(rows)] /\ q[s] = p
  BY OneQueue
<1> HIDE DEF q, p
<1>2. CASE rows = items[s]
  <2>1. items' = items \/ \A o \in Sources : items'[o] = items[o]
    BY <1>2
  <2>2. q' = q
    BY <2>1 DEF q
  <2> QED BY <2>2 DEF Memory!contents, q
<1>3. CASE Changes(p, Queue(rows))
  <2>1. PICK d \in SUBSET StageNames, b \in BOOLEAN, k \in DOMAIN p :
          Queue(rows) = [p EXCEPT ![k] = [@ EXCEPT !.data = d, !.locked = b]]
    BY <1>3 DEF Changes, ChangesTo
  <2>2. q' = [q EXCEPT ![s][k] = [@ EXCEPT !.data = d, !.locked = b]]
    BY <1>1, <2>1
  <2>3. Memory!Change(s, k) /\ k \in DOMAIN q[s]
    BY <1>1, <2>1, <2>2 DEF Memory!Change, q
  <2> QED BY <2>3 DEF Memory!Next, q
<1>4. CASE \E i : Removes(p, Queue(rows), i)
  <2>1. PICK k \in DOMAIN p : Queue(rows) = SubSeq(p, 1, k - 1) \o SubSeq(p, k + 1, Len(p))
    BY <1>4 DEF Removes
  <2>2. q' = [q EXCEPT ![s] = Memory!RemoveAt(@, k)] /\ k \in DOMAIN q[s]
    BY <1>1, <2>1 DEF Memory!RemoveAt
  <2>3. Memory!Delete(s, k)
    BY <2>2 DEF Memory!Delete, q
  <2> QED BY <2>2, <2>3 DEF Memory!Next, q
<1> QED BY <1>2, <1>3, <1>4 DEF p
\* A push that sqlite does is a push to the queue: the item was not in it.
LEMMA SqlPushIsPush ==
  ASSUME SInv, NEW s \in Sources, NEW i \in Ids, SqlPush(s, i)
  PROVE  Sqlite!Next
<1> DEFINE q == [o \in Sources |-> Queue(table[o])]
           t == table[s]
           fresh == [id |-> i, data |-> {}, locked |-> FALSE]
<1>1. DOMAIN table = Sources /\ Stored(t)
  BY DEF SInv, Shape, SourceInv, SourceOK
<1>2. /\ i \notin DOMAIN t /\ table' = [table EXCEPT ![s] = Enter(t, i, MaxOrder(t) + 1)]
      /\ sources' = [sources EXCEPT ![s] = IF @ = NoRow THEN Empty ELSE @]
  BY <1>1 DEF SqlPush, PushRow, Enter
<1>3. /\ \A k \in DOMAIN Queue(t) : Queue(t)[k].id # i
      /\ Queue(Enter(t, i, MaxOrder(t) + 1)) = Append(Queue(t), fresh)
  <2>1. MaxOrder(t) + 1 \in Nat /\ \A x \in DOMAIN t : t[x].order < MaxOrder(t) + 1
    <3>1. MaxOrder(t) \in Nat /\ \A x \in DOMAIN t : t[x].order <= MaxOrder(t) /\ t[x].order \in Nat
      BY <1>1, MaxOrderFacts DEF Stored, Row
    <3> QED BY <3>1
  <2> QED BY <1>1, <1>2, <2>1, EnterQueue
<1>4. q' = [q EXCEPT ![s] = Append(Queue(t), fresh)] /\ q[s] = Queue(t)
  BY <1>1, <1>2, <1>3, OneQueue
<1> HIDE DEF q
<1>5. ~Sqlite!Holds(s, i) /\ q' = [q EXCEPT ![s] = Append(@, Sqlite!Fresh(i))]
  BY <1>3, <1>4 DEF Sqlite!Holds, Sqlite!Fresh, q
<1>6. Sqlite!Push(s, i)
  BY <1>2, <1>5 DEF Sqlite!Push, q
<1> QED BY <1>6 DEF Sqlite!Next

\* A push to memory is a push to the queue that requeues: an item that is
\* there is taken out of its place first.
LEMMA MemPushIsPush ==
  ASSUME SInv, NEW s \in Sources, NEW i \in Ids, MemPush(s, i)
  PROVE  Memory!Next
<1> DEFINE q == [o \in Sources |-> Queue(items[o])]
           u == items[s]
           index == IF nextIndex[s] = 0 THEN 1 ELSE nextIndex[s]
           fresh == [id |-> i, data |-> {}, locked |-> FALSE]
<1>1. /\ DOMAIN items = Sources /\ Stored(u) /\ nextIndex[s] \in Nat
      /\ \A x \in DOMAIN u : u[x].order < nextIndex[s]
  BY DEF SInv, Shape, SourceInv, SourceOK
<1>2. /\ items' = [items EXCEPT ![s] = Enter(u, i, index)]
      /\ cursors' = [cursors EXCEPT ![s] = IF @ = NoRow THEN Empty ELSE @]
  BY <1>1 DEF MemPush, Enter
<1>3. index \in Nat /\ \A x \in DOMAIN u : u[x].order < index
  BY <1>1 DEF Stored, Row
<1> HIDE DEF index
<1>4. /\ q' = [q EXCEPT ![s] = Queue(Enter(u, i, index))] /\ q[s] = Queue(u)
  BY <1>1, <1>2, OneQueue
<1> HIDE DEF q
<1>5. CASE i \notin DOMAIN u
  <2>1. /\ \A k \in DOMAIN Queue(u) : Queue(u)[k].id # i
        /\ Queue(Enter(u, i, index)) = Append(Queue(u), fresh)
    BY <1>1, <1>3, <1>5, EnterQueue
  <2>2. ~Memory!Holds(s, i) /\ q' = [q EXCEPT ![s] = Append(@, Memory!Fresh(i))]
    BY <1>4, <2>1 DEF Memory!Holds, Memory!Fresh, q
  <2>3. Memory!Push(s, i)
    BY <1>2, <2>2 DEF Memory!Push, q
  <2> QED BY <2>3 DEF Memory!Next
<1>6. CASE i \in DOMAIN u
  <2>1. PICK p : Removes(Queue(u), p, i) /\ Queue(Enter(u, i, index)) = Append(p, fresh)
    BY <1>1, <1>3, <1>6, EnterQueue
  <2>2. PICK k \in DOMAIN Queue(u) :
          /\ Queue(u)[k].id = i
          /\ p = SubSeq(Queue(u), 1, k - 1) \o SubSeq(Queue(u), k + 1, Len(Queue(u)))
    BY <2>1 DEF Removes
  <2>3. /\ k \in DOMAIN q[s] /\ q[s][k].id = i
        /\ q' = [q EXCEPT ![s] = Append(Memory!RemoveAt(@, k), Memory!Fresh(i))]
    BY <1>4, <2>1, <2>2 DEF Memory!RemoveAt, Memory!Fresh
  <2>4. Memory!Push(s, i)
    BY <1>2, <2>3 DEF Memory!Push, q
  <2> QED BY <2>4 DEF Memory!Next
<1> QED BY <1>5, <1>6

LEMMA EmptyQueue == Queue(EmptyTable) = <<>>
<1>1. Queue(EmptyTable) \in Seq(QItem) /\ Len(Queue(EmptyTable)) = 0
  BY EmptyFacts, QueueFacts, FS_EmptySet
<1> QED BY <1>1

\* What a write of a stage does: `kept' and `rows' are the new tables of s.
Changed(old, new) ==
  \/ new = old
  \/ Changes(Queue(old), Queue(new))
  \/ \E x : Removes(Queue(old), Queue(new), x)

WriteDoes(s, kept, rows) ==
  /\ items' = [items EXCEPT ![s] = kept] /\ UNCHANGED <<sources, cursors>>
  /\ table' = [table EXCEPT ![s] = rows] \/ UNCHANGED table
  /\ Changed(items[s], kept) /\ Changed(table[s], rows)

\* The writes of the stages do to either queue what WritesQueue says.
LEMMA WriteCalls ==
  ASSUME SInv, NEW s \in Sources, NEW i \in Ids,
         Update(s, i) \/ Lock(s, i) \/ Unlock(s, i) \/ Delete(s, i)
  PROVE  \E kept, rows : WriteDoes(s, kept, rows)
<1> DEFINE t == table[s]
           u == items[s]
<1>1. Stored(t) /\ Stored(u)
  BY DEF SInv, SourceInv, SourceOK
<1>2. ASSUME NEW kept, NEW rows, NEW col, Write(s, i, kept, rows, col),
             Changed(u, kept), Changed(t, rows)
      PROVE  WriteDoes(s, kept, rows)
  BY <1>2 DEF Write, WriteDoes
<1>3. CASE Update(s, i)
  <2>1. PICK d \in SUBSET StageNames : Write(s, i, SetDone(u, i, d), SetDone(t, i, d), FALSE)
    BY <1>3 DEF Update
  <2>2. Changed(u, SetDone(u, i, d)) /\ Changed(t, SetDone(t, i, d))
    BY <1>1, WritesQueue DEF Changed
  <2>3. WriteDoes(s, SetDone(u, i, d), SetDone(t, i, d))
    BY <1>2, <2>1, <2>2
  <2> QED BY <2>3
<1>4. ASSUME NEW b \in BOOLEAN, Write(s, i, SetLocked(u, i, b), SetLocked(t, i, b), TRUE)
      PROVE  \E kept, rows : WriteDoes(s, kept, rows)
  <2>1. Changed(u, SetLocked(u, i, b)) /\ Changed(t, SetLocked(t, i, b))
    BY <1>1, WritesQueue DEF Changed
  <2>2. WriteDoes(s, SetLocked(u, i, b), SetLocked(t, i, b))
    BY <1>2, <1>4, <2>1
  <2> QED BY <2>2
<1>5. CASE Delete(s, i)
  <2>1. Write(s, i, DeleteRow(u, i), DeleteRow(t, i), FALSE)
    BY <1>5 DEF Delete
  <2>2. Changed(u, DeleteRow(u, i)) /\ Changed(t, DeleteRow(t, i))
    BY <1>1, WritesQueue DEF Changed
  <2>3. WriteDoes(s, DeleteRow(u, i), DeleteRow(t, i))
    BY <1>2, <2>1, <2>2
  <2> QED BY <2>3
<1> QED BY <1>3, <1>4, <1>5 DEF Lock, Unlock

\* A step of a sweep unlocks one row of one backend.
LEMMA SweepUnlocks ==
  ASSUME SInv, NEW s \in Sources, NEW b \in Backends, SweepUnlock(b, s)
  PROVE  /\ UNCHANGED <<sources, cursors>>
         /\ \/ UNCHANGED <<table, items>>
            \/ \E kept, rows :
                 /\ items' = [items EXCEPT ![s] = kept] /\ table' = [table EXCEPT ![s] = rows]
                 /\ kept = items[s] \/ Changes(Queue(items[s]), Queue(kept))
                 /\ rows = table[s] \/ Changes(Queue(table[s]), Queue(rows))
<1> DEFINE i == Head(sweep[s].page)
           rows == IF b = "sqlite" THEN SetLocked(table[s], i, FALSE) ELSE table[s]
           kept == IF b = "memory" THEN SetLocked(items[s], i, FALSE) ELSE items[s]
<1>1. Stored(table[s]) /\ Stored(items[s])
  BY DEF SInv, SourceInv, SourceOK
<1>2. UNCHANGED <<sources, cursors>>
  BY DEF SweepUnlock
<1>3. \/ UNCHANGED <<table, items>>
      \/ items' = [items EXCEPT ![s] = kept] /\ table' = [table EXCEPT ![s] = rows]
  BY DEF SweepUnlock
<1>4. /\ kept = items[s] \/ Changes(Queue(items[s]), Queue(kept))
      /\ rows = table[s] \/ Changes(Queue(table[s]), Queue(rows))
  BY <1>1, WritesQueue
<1> QED BY <1>2, <1>3, <1>4

\* Every step of the system is, for sqlite, a step of the queue or none.
LEMMA SqliteStep == SInv /\ [Next]_vars => [Sqlite!Next]_(Sqlite!contents)
<1> SUFFICES ASSUME SInv, [Next]_vars PROVE [Sqlite!Next]_(Sqlite!contents)
  OBVIOUS
<1>0. DOMAIN table = Sources
  BY DEF SInv, Shape
<1>1. CASE UNCHANGED <<table, sources>>
  BY <1>1 DEF Sqlite!contents
<1>2. ASSUME NEW s \in Sources, Calls(s)
      PROVE  [Sqlite!Next]_(Sqlite!contents)
  <2>1. ASSUME NEW i \in Ids, Push(s, i) PROVE [Sqlite!Next]_(Sqlite!contents)
    <3>1. SqlPush(s, i) \/ UNCHANGED <<table, sources>>
      BY <2>1 DEF Push, SqlPushFails, sqlVars
    <3> QED BY <1>1, <3>1, SqlPushIsPush
  <2>2. ASSUME NEW i \in Ids, Update(s, i) \/ Lock(s, i) \/ Unlock(s, i) \/ Delete(s, i)
        PROVE  [Sqlite!Next]_(Sqlite!contents)
    BY <1>0, <1>1, <2>2, WriteCalls, SqlWrite DEF WriteDoes, Changed
  <2>3. ASSUME NEW c \in Cursors, UpdateCursor(s, c) PROVE [Sqlite!Next]_(Sqlite!contents)
    <3>1. UNCHANGED table /\ (sources' = [sources EXCEPT ![s] = c] \/ UNCHANGED sources)
      BY <2>3 DEF UpdateCursor
    <3>2. CASE sources' = [sources EXCEPT ![s] = c]
      <4>1. Sqlite!UpdateCursor(s, c)
        BY <3>1, <3>2 DEF Sqlite!UpdateCursor
      <4> QED BY <4>1 DEF Sqlite!Next
    <3> QED BY <1>1, <3>1, <3>2
  <2>4. CASE UnlockAllEvents(s)
    BY <1>1, <2>4 DEF UnlockAllEvents
  <2> QED BY <1>2, <2>1, <2>2, <2>3, <2>4 DEF Calls
<1>3. ASSUME NEW s \in Sources, NEW b \in Backends, Sweeping(b, s)
      PROVE  [Sqlite!Next]_(Sqlite!contents)
  <2>1. CASE SweepRead(b, s)
    BY <1>1, <2>1 DEF SweepRead
  <2>2. CASE SweepUnlock(b, s)
    BY <1>0, <1>1, <2>2, SweepUnlocks, SqlWrite
  <2> QED BY <1>3, <2>1, <2>2 DEF Sweeping
<1>4. CASE Drop
  <2>1. Sqlite!Clear
    BY <1>4, EmptyQueue DEF Drop, Sqlite!Clear, Nothing, Unknown
  <2> QED BY <2>1 DEF Sqlite!Next
<1>5. CASE CreateTables \/ AddLockedColumn \/ SetVersion \/ Close \/ Restart \/ UNCHANGED vars
  BY <1>1, <1>5 DEF CreateTables, AddLockedColumn, SetVersion, Close, Restart, vars
<1> QED BY <1>2, <1>3, <1>4, <1>5 DEF Next

\* And for memory a step of the queue that requeues, or none.
LEMMA MemoryStep == SInv /\ [Next]_vars => [Memory!Next]_(Memory!contents)
<1> SUFFICES ASSUME SInv, [Next]_vars PROVE [Memory!Next]_(Memory!contents)
  OBVIOUS
<1>0. DOMAIN items = Sources
  BY DEF SInv, Shape
<1>1. CASE UNCHANGED <<items, cursors>>
  BY <1>1 DEF Memory!contents
<1>2. ASSUME NEW s \in Sources, Calls(s)
      PROVE  [Memory!Next]_(Memory!contents)
  <2>1. ASSUME NEW i \in Ids, Push(s, i) PROVE [Memory!Next]_(Memory!contents)
    BY <2>1, MemPushIsPush DEF Push
  <2>2. ASSUME NEW i \in Ids, Update(s, i) \/ Lock(s, i) \/ Unlock(s, i) \/ Delete(s, i)
        PROVE  [Memory!Next]_(Memory!contents)
    BY <1>0, <2>2, WriteCalls, MemWrite DEF WriteDoes, Changed
  <2>3. ASSUME NEW c \in Cursors, UpdateCursor(s, c) PROVE [Memory!Next]_(Memory!contents)
    <3>1. UNCHANGED items /\ cursors' = [cursors EXCEPT ![s] = c]
      BY <2>3 DEF UpdateCursor
    <3>2. Memory!UpdateCursor(s, c)
      BY <3>1 DEF Memory!UpdateCursor
    <3> QED BY <3>2 DEF Memory!Next
  <2>4. CASE UnlockAllEvents(s)
    BY <1>1, <2>4 DEF UnlockAllEvents
  <2> QED BY <1>2, <2>1, <2>2, <2>3, <2>4 DEF Calls
<1>3. ASSUME NEW s \in Sources, NEW b \in Backends, Sweeping(b, s)
      PROVE  [Memory!Next]_(Memory!contents)
  <2>1. CASE SweepRead(b, s)
    BY <1>1, <2>1 DEF SweepRead
  <2>2. CASE SweepUnlock(b, s)
    BY <1>0, <1>1, <2>2, SweepUnlocks, MemWrite
  <2> QED BY <1>3, <2>1, <2>2 DEF Sweeping
<1>4. CASE Drop \/ Restart
  <2>1. Memory!Clear
    BY <1>4, EmptyQueue DEF Drop, Restart, Memory!Clear, Nothing, Unknown
  <2> QED BY <2>1 DEF Memory!Next
<1>5. CASE CreateTables \/ AddLockedColumn \/ SetVersion \/ Close \/ UNCHANGED vars
  BY <1>1, <1>5 DEF CreateTables, AddLockedColumn, SetVersion, Close, vars
<1> QED BY <1>2, <1>3, <1>4, <1>5 DEF Next

\* The sqlite backend implements the queue of items that storage.Storage promises.
THEOREM SqliteImplementsQueue == Spec => SqliteIsQueue
<1>1. Init => Sqlite!Init
  BY EmptyQueue DEF Init, Sqlite!Init, Nothing, Unknown
<1> QED BY <1>1, SqliteStep, Invariance, PTL DEF Spec, SqliteIsQueue, Sqlite!Spec

\* The memory backend implements the same queue, in which a push of an item
\* that is there puts it at the end.
THEOREM MemoryImplementsQueue == Spec => MemoryIsQueue
<1>1. Init => Memory!Init
  BY EmptyQueue DEF Init, Memory!Init, Nothing, Unknown
<1> QED BY <1>1, MemoryStep, Invariance, PTL DEF Spec, MemoryIsQueue, Memory!Spec
=============================================================================
