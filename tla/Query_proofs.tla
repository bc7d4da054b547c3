---------------------------- MODULE Query_proofs ----------------------------
(***************************************************************************)
(* Of Query, for every feed, limit, number of faults and set of sources: a *)
(* query shows every blob once and behind the earlier ones of its source   *)
(* (Complete), and answers with less than twice its limit (BoundedAnswer). *)
(*                                                                         *)
(* Both come from QInv.  Its core is that the page is the piece of the     *)
(* feed up to the ContinuationID, so that what was collected, together     *)
(* with what was missed, is exactly what the query has Looked at; and that *)
(* a page cannot give more blobs than it has room for, which is why it is  *)
(* never left before its end.                                              *)
(***************************************************************************)
EXTENDS Query, SequenceTheorems, FiniteSetTheorems, TLAPS

\* The blobs that were shown or are in the result.
Collected == Blobs(shown) \cup Blobs(stateMap)
\* How many blobs a query has to answer with.
Size == Cardinality(Blobs(stateMap))
\* The events up to here have been looked at.
Looked == cid - Len(page)

Increasing(q) == \A j, k \in DOMAIN q : j < k => q[j] < q[k]

\* The page is the end of the feed's first cid events, and has no more of them
\* than the query may still count.
PageOK ==
  /\ pc # "fill" => page = <<>>
  /\ pc = "fill" => page # <<>> /\ mode # "raw" /\ count + Len(page) <= Limit
  /\ pc = "fill" /\ paged => \A k \in DOMAIN page : page[k] = Looked + k

Counted ==
  /\ pc \in {"query", "fill"} => total < Limit
  /\ IsFiniteSet(Blobs(stateMap))
  /\ pc = "query" => Size = total
  /\ pc = "fill" => Size = total + count
  /\ Size < 2 * Limit

\* The commands that make one request.
OneRequest ==
  /\ mode = "raw" =>
       /\ pc \in {"query", "done", "failed"} /\ cid = 0
       /\ shown = NoBlobs /\ stateMap = NoBlobs /\ missed = {}
  /\ mode = "uid" =>
       /\ cid = 0
       /\ pc \in {"query", "fill"} =>
            /\ shown = NoBlobs /\ stateMap = NoBlobs /\ missed = {}
            /\ total = 0 /\ count = 0
       /\ pc = "fill" => Len(page) = 1

Before(p, q) == \A d \in Range(p), e \in Range(q) : d < e
\* All of them are blobs of the source.
Filed(q, s) == \A e \in Range(q) : feed[e].kind = "blob" /\ SourceOf(e) = s

InOrder(s) ==
  /\ Increasing(shown[s]) /\ Increasing(stateMap[s]) /\ Before(shown[s], stateMap[s])
  /\ Filed(shown[s], s) /\ Filed(stateMap[s], s)

InFeedOrder ==
  /\ \A s \in Sources : InOrder(s)
  /\ paged => \A e \in Collected \cup missed : e <= Looked

NoneLost ==
  /\ paged /\ pc # "failed" =>
       \A e \in 1 .. Looked : feed[e].kind = "blob" => e \in Collected \cup missed
  /\ pc = "done" => stateMap = NoBlobs

Cached ==
  /\ mode # "raw" => \A d \in Collected : feed[d].schema \in schemas
  /\ \A e \in missed : \A d \in Collected : d < e => feed[d].schema # feed[e].schema

QInv == TypeOK /\ PageOK /\ Counted /\ OneRequest /\ InFeedOrder /\ NoneLost /\ Cached

-----------------------------------------------------------------------------
(* Sequences. *)

LEMMA AppendFacts ==
  ASSUME NEW q \in Seq(Positions), NEW e \in Positions
  PROVE  /\ Append(q, e) \in Seq(Positions) /\ Len(Append(q, e)) = Len(q) + 1
         /\ Range(Append(q, e)) = Range(q) \cup {e}
         /\ Increasing(q) /\ (\A d \in Range(q) : d < e) => Increasing(Append(q, e))
<1> DEFINE r == Append(q, e)
<1>1. /\ r \in Seq(Positions) /\ Len(r) = Len(q) + 1 /\ DOMAIN q = 1 .. Len(q)
      /\ DOMAIN r = 1 .. Len(q) + 1 /\ Len(q) \in Nat
      /\ \A k \in 1 .. Len(q) : r[k] = q[k]
      /\ r[Len(q) + 1] = e
  OBVIOUS
<1> HIDE DEF r
<1>2. Range(r) = Range(q) \cup {e}
  BY <1>1 DEF Range
<1>3. ASSUME Increasing(q), \A d \in Range(q) : d < e PROVE Increasing(r)
  <2>1. ASSUME NEW j \in DOMAIN r, NEW k \in DOMAIN r, j < k PROVE r[j] < r[k]
    <3>1. j \in 1 .. Len(q)
      BY <1>1, <2>1
    <3>2. CASE k \in 1 .. Len(q)
      BY <1>1, <1>3, <2>1, <3>1, <3>2 DEF Increasing
    <3>3. CASE k = Len(q) + 1
      BY <1>1, <1>3, <3>1, <3>3 DEF Range
    <3> QED BY <1>1, <3>2, <3>3
  <2> QED BY <2>1 DEF Increasing
<1> QED BY <1>1, <1>2, <1>3 DEF r

LEMMA ConcatFacts ==
  ASSUME NEW p \in Seq(Positions), NEW q \in Seq(Positions)
  PROVE  /\ p \o q \in Seq(Positions)
         /\ Range(p \o q) = Range(p) \cup Range(q)
         /\ Increasing(p) /\ Increasing(q) /\ (\A d \in Range(p), e \in Range(q) : d < e)
              => Increasing(p \o q)
<1> DEFINE r == p \o q
           m == Len(p)
           n == Len(q)
<1>1. /\ r \in Seq(Positions) /\ m \in Nat /\ n \in Nat
      /\ DOMAIN p = 1 .. m /\ DOMAIN q = 1 .. n /\ DOMAIN r = 1 .. m + n
      /\ \A k \in 1 .. m : r[k] = p[k]
      /\ \A k \in m + 1 .. m + n : r[k] = q[k - m]
  OBVIOUS
<1> HIDE DEF r, m, n
<1>2. ASSUME NEW k \in 1 .. n PROVE r[m + k] = q[k]
  <2>1. m + k \in m + 1 .. m + n /\ (m + k) - m = k
    BY <1>1
  <2>2. r[m + k] = q[(m + k) - m]
    BY <1>1, <2>1
  <2> QED BY <2>1, <2>2
<1>3. Range(r) = Range(p) \cup Range(q)
  <2>1. ASSUME NEW k \in 1 .. m + n PROVE r[k] \in Range(p) \cup Range(q)
    <3>1. CASE k \in 1 .. m
      BY <1>1, <3>1 DEF Range
    <3>2. CASE k \in m + 1 .. m + n
      <4>1. k - m \in 1 .. n /\ r[k] = q[k - m]
        BY <1>1, <3>2
      <4> QED BY <1>1, <4>1 DEF Range
    <3> QED BY <1>1, <3>1, <3>2
  <2>2. \A k \in 1 .. m : k \in DOMAIN r /\ r[k] = p[k]
    BY <1>1
  <2>3. \A k \in 1 .. n : m + k \in DOMAIN r /\ r[m + k] = q[k]
    BY <1>1, <1>2
  <2>4. Range(r) \subseteq Range(p) \cup Range(q)
    BY <1>1, <2>1 DEF Range
  <2>5. Range(p) \subseteq Range(r)
    BY <1>1, <2>2 DEF Range
  <2>6. Range(q) \subseteq Range(r)
    <3>1. DOMAIN q = 1 .. n
      BY <1>1
    <3>2. \A k \in DOMAIN q : q[k] \in Range(r)
      BY <2>3, <3>1 DEF Range
    <3> QED BY <3>2, Zenon DEF Range
  <2> QED BY <2>4, <2>5, <2>6
<1>4. ASSUME Increasing(p), Increasing(q), \A d \in Range(p), e \in Range(q) : d < e
      PROVE  Increasing(r)
  <2>1. ASSUME NEW j \in DOMAIN r, NEW k \in DOMAIN r, j < k PROVE r[j] < r[k]
    <3>1. CASE k <= m
      BY <1>1, <1>4, <2>1, <3>1 DEF Increasing
    <3>2. CASE j > m
      <4>1. /\ j - m \in DOMAIN q /\ k - m \in DOMAIN q /\ j - m < k - m
            /\ r[j] = q[j - m] /\ r[k] = q[k - m]
        BY <1>1, <2>1, <3>2
      <4> QED BY <1>4, <4>1 DEF Increasing
    <3>3. CASE j <= m /\ k > m
      <4>1. /\ j \in DOMAIN p /\ k - m \in DOMAIN q
            /\ r[j] = p[j] /\ r[k] = q[k - m]
        <5>1. j \in 1 .. m /\ k \in m + 1 .. m + n /\ k - m \in 1 .. n
          BY <1>1, <2>1, <3>3
        <5> QED BY <1>1, <5>1
      <4>2. r[j] \in Range(p) /\ r[k] \in Range(q)
        BY <4>1 DEF Range
      <4> QED BY <1>4, <4>2
    <3> QED BY <1>1, <2>1, <3>1, <3>2, <3>3
  <2> QED BY <2>1 DEF Increasing
<1> QED BY <1>1, <1>3, <1>4 DEF r

LEMMA EmptyRange == Range(<<>>) = {} /\ Increasing(<<>>) /\ <<>> \in Seq(Positions) /\ Len(<<>>) = 0
  BY DEF Range, Increasing

-----------------------------------------------------------------------------
(* Results. *)

LEMMA NoBlobsFacts ==
  /\ NoBlobs \in Result /\ Blobs(NoBlobs) = {}
  /\ IsFiniteSet(Blobs(NoBlobs)) /\ Cardinality(Blobs(NoBlobs)) = 0
  /\ \A s \in Sources : NoBlobs[s] = <<>>
<1>1. \A s \in Sources : NoBlobs[s] = <<>>
  BY DEF NoBlobs
<1>2. NoBlobs \in Result
  BY EmptyRange DEF NoBlobs, Result
<1>3. Blobs(NoBlobs) = {}
  BY <1>1, EmptyRange DEF Blobs
<1> QED BY <1>1, <1>2, <1>3, FS_EmptySet

LEMMA BlobsFacts ==
  ASSUME NEW r \in Result
  PROVE  /\ Blobs(r) \subseteq Positions
         /\ \A s \in Sources : r[s] \in Seq(Positions) /\ Range(r[s]) \subseteq Blobs(r)
<1>1. ASSUME NEW s \in Sources PROVE r[s] \in Seq(Positions) /\ Range(r[s]) \subseteq Positions
  <2>1. r[s] \in Seq(Positions)
    BY DEF Result
  <2> QED BY <2>1 DEF Range
<1> QED BY <1>1 DEF Blobs

Filing(r, s, e) == [r EXCEPT ![s] = Append(@, e)]

\* A blob that is filed joins the others of its source, and the result.
LEMMA FilingFacts ==
  ASSUME NEW r \in Result, NEW q \in Sources, NEW e \in Positions
  PROVE  LET t == Filing(r, q, e)
         IN  /\ t \in Result /\ Blobs(t) = Blobs(r) \cup {e}
             /\ t[q] = Append(r[q], e) /\ \A s \in Sources \ {q} : t[s] = r[s]
<1> DEFINE t == Filing(r, q, e)
<1>1. r \in [Sources -> Seq(Positions)]
  BY DEF Result
<1>2. /\ t[q] = Append(r[q], e) /\ \A s \in Sources \ {q} : t[s] = r[s]
      /\ t = [r EXCEPT ![q] = Append(@, e)]
  BY <1>1 DEF Filing
<1> HIDE DEF t
<1>3. Append(r[q], e) \in Seq(Positions) /\ Range(Append(r[q], e)) = Range(r[q]) \cup {e}
  BY <1>1, AppendFacts
<1>4. t \in Result
  BY <1>1, <1>2, <1>3 DEF Result
<1>5. Blobs(t) = Blobs(r) \cup {e}
  <2>1. \A x : x \in Blobs(t) <=> \E s \in Sources : x \in Range(t[s])
    BY Zenon DEF Blobs
  <2>2. \A x : x \in Blobs(r) <=> \E s \in Sources : x \in Range(r[s])
    BY Zenon DEF Blobs
  <2>3. ASSUME NEW x \in Blobs(t) PROVE x \in Blobs(r) \cup {e}
    <3>1. PICK s \in Sources : x \in Range(t[s])
      BY <2>1, <2>3
    <3>2. CASE s = q
      BY <1>2, <1>3, <2>2, <3>1, <3>2
    <3>3. CASE s # q
      BY <1>2, <2>2, <3>1, <3>3
    <3> QED BY <3>2, <3>3
  <2>4. ASSUME NEW x \in Blobs(r) PROVE x \in Blobs(t)
    <3>1. PICK s \in Sources : x \in Range(r[s])
      BY <2>2, <2>4
    <3>2. CASE s = q
      BY <1>2, <1>3, <2>1, <3>1, <3>2
    <3>3. CASE s # q
      BY <1>2, <2>1, <3>1, <3>3
    <3> QED BY <3>2, <3>3
  <2>5. e \in Blobs(t)
    BY <1>2, <1>3, <2>1
  <2> QED BY <2>3, <2>4, <2>5
<1> QED BY <1>2, <1>4, <1>5 DEF t

\* A result that is shown joins what was shown.
LEMMA ShownFacts ==
  ASSUME shown \in Result, stateMap \in Result
  PROVE  /\ Shown \in Result /\ Blobs(Shown) = Blobs(shown) \cup Blobs(stateMap)
         /\ \A s \in Sources : Shown[s] = shown[s] \o stateMap[s]
<1>1. \A s \in Sources : Shown[s] = shown[s] \o stateMap[s]
  BY DEF Shown
<1>2. \A s \in Sources : shown[s] \in Seq(Positions) /\ stateMap[s] \in Seq(Positions)
  BY DEF Result
<1>3. \A s \in Sources : /\ Shown[s] \in Seq(Positions)
                        /\ Range(Shown[s]) = Range(shown[s]) \cup Range(stateMap[s])
  BY <1>1, <1>2, ConcatFacts
<1>4. Shown \in Result
  BY <1>3 DEF Shown, Result
<1>5. Blobs(Shown) = Blobs(shown) \cup Blobs(stateMap)
  <2>1. \A x : x \in Blobs(Shown) <=> \E s \in Sources : x \in Range(Shown[s])
    BY Zenon DEF Blobs
  <2>2. \A x : x \in Blobs(shown) <=> \E s \in Sources : x \in Range(shown[s])
    BY Zenon DEF Blobs
  <2>3. \A x : x \in Blobs(stateMap) <=> \E s \in Sources : x \in Range(stateMap[s])
    BY Zenon DEF Blobs
  <2>4. \A s \in Sources : \A x :
          x \in Range(Shown[s]) <=> x \in Range(shown[s]) \/ x \in Range(stateMap[s])
    BY <1>3
  <2>5. \A x : x \in Blobs(Shown) <=> x \in Blobs(shown) \/ x \in Blobs(stateMap)
    BY <2>1, <2>2, <2>3, <2>4, Zenon
  <2> QED BY <2>5
<1> QED BY <1>1, <1>4, <1>5

\* An answer is the piece of the feed behind the ContinuationID.
LEMMA AnswerFacts ==
  ASSUME QInv, NEW n \in 1 .. Limit, cid + n <= avail
  PROVE  /\ Answer(n) \in Seq(Positions) /\ Len(Answer(n)) = n /\ Answer(n) # <<>>
         /\ DOMAIN Answer(n) = 1 .. n /\ \A k \in 1 .. n : Answer(n)[k] = cid + k
<1>1. cid \in Nat /\ avail \in Nat /\ avail <= FeedLen /\ FeedLen \in Nat /\ n \in Nat
  BY QueryAssumption DEF QInv, TypeOK
<1>2. \A k \in 1 .. n : cid + k \in Positions
  BY <1>1 DEF Positions
<1> QED BY <1>1, <1>2 DEF Answer

-----------------------------------------------------------------------------
(* The events of a page. *)

\* The event that is looked at is the next one of the feed.
LEMMA HeadFacts ==
  ASSUME QInv, pc = "fill"
  PROVE  /\ mode # "raw" /\ Len(page) \in Nat \ {0} /\ Head(page) \in Positions
         /\ Tail(page) \in Seq(Positions) /\ Len(Tail(page)) = Len(page) - 1
         /\ paged => Looked \in Nat /\ Head(page) = Looked + 1
         /\ feed[Head(page)] \in Event
         /\ feed[Head(page)].kind = "blob" =>
              SourceOf(Head(page)) \in Sources /\ feed[Head(page)].schema \in Schemas
         /\ feed[Head(page)].kind = "corrupt" => feed[Head(page)].schema \in Schemas
<1>1. page \in Seq(Positions) /\ page # <<>> /\ cid \in Nat /\ mode # "raw"
      /\ feed \in [Positions -> Event]
  BY DEF QInv, TypeOK, PageOK
<1>2. /\ Len(page) \in Nat \ {0} /\ Head(page) \in Positions /\ Head(page) = page[1]
      /\ 1 \in DOMAIN page
      /\ Tail(page) \in Seq(Positions) /\ Len(Tail(page)) = Len(page) - 1
  BY <1>1
<1>3. ASSUME paged PROVE Looked \in Nat /\ Head(page) = Looked + 1
  <2>1. page[1] = Looked + 1 /\ page[1] \in Nat /\ page[1] >= 1
    BY <1>2, <1>3 DEF QInv, PageOK, Positions
  <2>2. Looked \in Int
    BY <1>1, <1>2 DEF Looked
  <2> QED BY <1>2, <2>1, <2>2
<1>4. feed[Head(page)] \in Event
  BY <1>1, <1>2
<1>5. ASSUME feed[Head(page)].kind = "blob"
      PROVE  SourceOf(Head(page)) \in Sources /\ feed[Head(page)].schema \in Schemas
  <2>1. PICK s \in Sources :
               feed[Head(page)] = [kind |-> "blob", schema |-> s[1], origin |-> s[2]]
    BY <1>4, <1>5 DEF Event
  <2>2. s \in Schemas \X STRING /\ s = <<s[1], s[2]>> /\ s[1] \in Schemas
    BY QueryAssumption
  <2>3. feed[Head(page)].schema = s[1] /\ feed[Head(page)].origin = s[2]
    BY <2>1
  <2> QED BY <2>2, <2>3 DEF SourceOf
<1>6. ASSUME feed[Head(page)].kind = "corrupt" PROVE feed[Head(page)].schema \in Schemas
  <2>1. \A s : [kind |-> "blob", schema |-> s[1], origin |-> s[2]].kind = "blob"
    OBVIOUS
  <2>2. \/ \E s \in Sources :
              feed[Head(page)] = [kind |-> "blob", schema |-> s[1], origin |-> s[2]]
        \/ feed[Head(page)] \in [kind : {"corrupt"}, schema : Schemas]
        \/ feed[Head(page)] = [kind |-> "other"]
    BY <1>4 DEF Event
  <2>3. feed[Head(page)] # [kind |-> "other"]
    BY <1>6
  <2> QED BY <1>6, <2>1, <2>2, <2>3
<1> QED BY <1>1, <1>2, <1>3, <1>4, <1>5, <1>6

\* The result grows as the count does.
CountsOne ==
  /\ count' \in {count, count + 1}
  /\ Size' = Size + (count' - count) /\ IsFiniteSet(Blobs(stateMap'))

\* After an event the page is what is left of it, or the page has ended because
\* nothing is left.
LEMMA NextEventFacts ==
  ASSUME QInv, pc = "fill", NextEvent, CountsOne, UNCHANGED <<world, avail, cid>>
  PROVE  /\ PageOK' /\ Counted'
         /\ count' \in 0 .. Limit /\ total' \in Nat
         /\ page' \in Seq(Positions) /\ Len(page') <= Limit
         /\ pc' \in {"query", "fill", "show", "failed"} /\ (paged => pc' # "failed")
         /\ paged => Looked' = Looked + 1
         /\ ~paged => pc' \in {"show", "failed"}
<1>1. /\ page \in Seq(Positions) /\ count \in 0 .. Limit /\ total \in Nat /\ cid \in Nat
      /\ count + Len(page) <= Limit /\ total < Limit /\ Len(page) <= Limit
      /\ Size = total + count /\ Limit \in Nat \ {0}
      /\ mode \in {"once", "poll", "uid"}
  BY HeadFacts, QueryAssumption DEF QInv, TypeOK, PageOK, Counted
<1>2. Len(page) \in Nat \ {0} /\ Tail(page) \in Seq(Positions) /\ Len(Tail(page)) = Len(page) - 1
  BY HeadFacts
<1>3. /\ count' \in 0 .. Limit
      /\ count' + (Len(page) - 1) <= Limit
      /\ (Len(page) > 1 /\ count' < Limit) <=> Len(page) > 1
  <2>1. count' = count \/ count' = count + 1
    BY DEF CountsOne
  <2>2. \A m, n, c, d \in Nat : n # 0 /\ c + n <= m /\ (d = c \/ d = c + 1) =>
          d \in 0 .. m /\ d + (n - 1) <= m /\ (n > 1 => d < m)
    OBVIOUS
  <2>3. count \in Nat /\ Limit \in Nat /\ count' \in Nat
    BY <1>1, <2>1
  <2> QED BY <1>1, <1>2, <2>1, <2>2, <2>3
<1>4. mode' = mode /\ cid' = cid
  BY DEF world
<1>5. CASE Len(page) > 1
  <2>1. page' = Tail(page) /\ pc' = "fill" /\ total' = total
    BY <1>3, <1>5 DEF NextEvent
  <2>2. /\ Len(page') = Len(page) - 1 /\ page' # <<>>
        /\ page' \in Seq(Positions)
    <3>1. Len(page') = Len(page) - 1 /\ page' \in Seq(Positions) /\ Len(page') > 0
      BY <1>2, <1>5, <2>1
    <3> QED BY <3>1, EmptyRange
  <2>3. paged
    <3>1. mode = "uid" => Len(page) = 1
      BY DEF QInv, OneRequest
    <3>2. mode # "uid"
      BY <1>2, <1>5, <3>1
    <3> QED BY <1>1, <3>2 DEF paged
  <2>4. Looked' = Looked + 1 /\ Looked \in Int
    BY <1>1, <1>2, <1>4, <2>2 DEF Looked
  <2>5. ASSUME NEW k \in DOMAIN page' PROVE page'[k] = Looked' + k
    <3>1. k \in Nat /\ k + 1 \in DOMAIN page /\ page'[k] = page[k + 1]
      BY <1>1, <1>2, <2>1, <2>2
    <3>2. page[k + 1] = Looked + (k + 1)
      BY <2>3, <3>1 DEF QInv, PageOK
    <3> QED BY <2>4, <3>1, <3>2
  <2>6. PageOK'
    BY <1>1, <1>2, <1>3, <1>4, <2>1, <2>2, <2>5 DEF PageOK
  <2>7. Counted'
    <3>1. PICK n \in 0 .. Limit : count' = n
      BY <1>3
    <3>2. Size' = total' + count' /\ IsFiniteSet(Blobs(stateMap'))
      BY <1>1, <1>3, <2>1 DEF CountsOne
    <3>3. Size' < 2 * Limit
      BY <1>1, <2>1, <3>1, <3>2
    <3> QED BY <1>1, <2>1, <3>2, <3>3 DEF Counted
  <2> QED BY <1>1, <1>2, <1>3, <2>1, <2>2, <2>3, <2>4, <2>6, <2>7
<1>6. CASE ~(Len(page) > 1)
  <2>1. /\ total' = total + count' /\ page' = <<>> /\ Len(page') = 0
        /\ \/ paged /\ pc' = IF More(total') THEN "query" ELSE "show"
           \/ ~paged /\ pc' = IF total' = 0 THEN "failed" ELSE "show"
    BY <1>6 DEF NextEvent, EndOfPage
  <2>0. PICK n \in 0 .. Limit : count' = n
    BY <1>3
  <2>6. total' \in Nat /\ total' < 2 * Limit
    BY <1>1, <2>0, <2>1
  <2>7. Size' = total' /\ IsFiniteSet(Blobs(stateMap'))
    BY <1>1, <2>0, <2>1 DEF CountsOne
  <2>2. /\ total' \in Nat /\ Len(page) = 1
        /\ paged => pc' = IF total' < Limit THEN "query" ELSE "show"
        /\ ~paged => pc' \in {"show", "failed"}
        /\ pc' \in {"query", "show", "failed"}
    <3>0. Len(page) = 1
      BY <1>2, <1>6
    <3>1. total' \in Nat /\ Len(page) = 1
      BY <2>6, <3>0
    <3>2. paged \/ ~paged
      OBVIOUS
    <3>3. CASE paged
      BY <2>1, <3>1, <3>3 DEF More
    <3>4. CASE ~paged
      BY <2>1, <3>1, <3>4
    <3> QED BY <3>1, <3>3, <3>4
  <2>3. PageOK'
    BY <2>1, <2>2 DEF PageOK
  <2>4. Counted'
    <3>1. Size' = total' /\ total' < 2 * Limit /\ IsFiniteSet(Blobs(stateMap'))
      BY <2>6, <2>7
    <3>2. pc' = "query" => total' < Limit
      BY <2>2
    <3> QED BY <2>2, <3>1, <3>2 DEF Counted
  <2>5. Looked' = Looked + 1
    BY <1>1, <1>4, <2>1, <2>2 DEF Looked
  <2>8. page' \in Seq(Positions) /\ Len(page') <= Limit
    BY <1>1, <2>1, EmptyRange
  <2>9. paged => pc' # "failed"
    BY <2>2
  <2> QED BY <1>3, <2>2, <2>3, <2>4, <2>5, <2>8, <2>9
<1> QED BY <1>5, <1>6

-----------------------------------------------------------------------------
(* Every step preserves the invariant. *)

LEMMA QInit == Init => QInv
<1> SUFFICES ASSUME Init PROVE QInv
  OBVIOUS
<1>0. Limit \in Nat \ {0} /\ FeedLen \in Nat /\ MaxFaults \in Nat
  BY QueryAssumption
<1>1. TypeOK
  <2>1. /\ page \in Seq(Positions) /\ stateMap \in Result /\ shown \in Result
        /\ Len(page) = 0
    BY EmptyRange, NoBlobsFacts DEF Init
  <2>2. /\ avail \in 0 .. FeedLen /\ cid \in 0 .. avail /\ total \in Nat /\ count \in 0 .. Limit
        /\ faults \in 0 .. MaxFaults /\ Len(page) <= Limit
    BY <1>0, <2>1 DEF Init
  <2> QED BY <2>1, <2>2 DEF Init, TypeOK
<1>2. /\ Size = 0 /\ Blobs(shown) = {} /\ Blobs(stateMap) = {} /\ Looked = 0
      /\ IsFiniteSet(Blobs(stateMap)) /\ missed = {}
      /\ \A s \in Sources : shown[s] = <<>> /\ stateMap[s] = <<>>
  <2>1. cid - Len(page) = 0 - 0
    BY EmptyRange DEF Init
  <2> QED BY <2>1, NoBlobsFacts DEF Init, Looked, Size
<1>3. Collected \cup missed = {}
  BY <1>2 DEF Collected
<1>4. PageOK /\ Counted /\ OneRequest
  BY <1>2, QueryAssumption DEF Init, PageOK, Counted, OneRequest
<1>5. \A s \in Sources : InOrder(s)
  BY <1>2, EmptyRange DEF InOrder, Before, Filed
<1>6. InFeedOrder /\ NoneLost /\ Cached
  BY <1>2, <1>3, <1>5 DEF Init, InFeedOrder, NoneLost, Cached
<1> QED BY <1>1, <1>4, <1>6 DEF QInv

\* A source that nothing is done to is as it was.
LEMMA SameOrder ==
  ASSUME UNCHANGED <<feed, shown, stateMap>>, NEW s \in Sources, InOrder(s)
  PROVE  InOrder(s)'
BY DEF InOrder, Before, Filed, SourceOf

LEMMA QEventsGet == QInv /\ EventsGet => QInv'
<1> SUFFICES ASSUME QInv, EventsGet PROVE QInv'
  OBVIOUS
<1>1. PICK n \in 1 .. Limit : cid + n <= avail /\ page' = Answer(n) /\ cid' = cid + n
  BY DEF EventsGet
<1>2. /\ pc = "query" /\ pc' = "fill" /\ paged /\ count' = 0
      /\ UNCHANGED <<world, avail, total, stateMap, shown, missed, schemas, faults>>
  BY DEF EventsGet
<1>3. /\ page' \in Seq(Positions) /\ Len(page') = n /\ page' # <<>> /\ DOMAIN page' = 1 .. n
      /\ \A k \in 1 .. n : page'[k] = cid + k
  BY <1>1, AnswerFacts
<1>4. /\ TypeOK /\ page = <<>> /\ cid \in Nat /\ n \in Nat /\ n <= Limit /\ Limit \in Nat \ {0}
      /\ avail \in Nat
  BY <1>2, QueryAssumption DEF QInv, TypeOK, PageOK
<1>5. Looked' = cid /\ Looked = cid
  BY <1>1, <1>3, <1>4, EmptyRange DEF Looked
<1>6. TypeOK'
  BY <1>1, <1>2, <1>3, <1>4 DEF TypeOK, world
<1>7. mode \in {"once", "poll"} /\ mode' = mode /\ paged'
  BY <1>2 DEF paged, world
<1>8. PageOK'
  BY <1>2, <1>3, <1>4, <1>5, <1>7 DEF PageOK
<1>9. Counted' /\ OneRequest'
  BY <1>2, <1>4, <1>7 DEF QInv, TypeOK, Counted, OneRequest, Size
<1>10. InFeedOrder' /\ NoneLost' /\ Cached'
  <2>1. UNCHANGED <<feed, shown, stateMap, missed, Collected>>
    BY <1>2 DEF world, Collected
  <2>2. \A s \in Sources : InOrder(s)'
    BY <2>1, SameOrder DEF QInv, InFeedOrder
  <2> QED BY <1>2, <1>5, <1>7, <2>1, <2>2 DEF QInv, InFeedOrder, NoneLost, Cached
<1> QED BY <1>6, <1>8, <1>9, <1>10 DEF QInv

\* A step that leaves the page and the result as they are.
LEMMA QSameBlobs ==
  ASSUME QInv, EventsGetTimeout \/ RawEvents \/ NoAnswer \/ EventsGetFails \/ Arrive \/ Interrupt
  PROVE  QInv'
<1>1. /\ UNCHANGED <<feed, mode, cid, total, page, count, stateMap, shown, missed, schemas>>
      /\ \/ pc' = pc
         \/ pc = "query" /\ pc' = "show" /\ paged
         \/ pc = "query" /\ pc' = "failed"
         \/ pc = "query" /\ pc' = "done" /\ mode = "raw"
  BY DEF EventsGetTimeout, RawEvents, NoAnswer, EventsGetFails, Arrive, Interrupt, world
<1>2. TypeOK /\ TypeOK'
  <2>1. avail' \in 0 .. FeedLen /\ avail <= avail' /\ faults' \in 0 .. MaxFaults
        /\ stopped' \in BOOLEAN
    <3>1. /\ avail \in 0 .. FeedLen /\ faults \in 0 .. MaxFaults /\ stopped \in BOOLEAN
          /\ FeedLen \in Nat /\ MaxFaults \in Nat /\ cid \in 0 .. avail
      BY QueryAssumption DEF QInv, TypeOK
    <3>2. \/ faults' = faults
          \/ faults < MaxFaults /\ faults' = faults + 1
      BY DEF EventsGetTimeout, RawEvents, NoAnswer, EventsGetFails, Arrive, Interrupt, Disturb
    <3>3. avail' = avail \/ (avail < FeedLen /\ avail' = avail + 1)
      BY DEF EventsGetTimeout, RawEvents, NoAnswer, EventsGetFails, Arrive, Interrupt
    <3>4. stopped' \in {stopped, TRUE}
      BY DEF EventsGetTimeout, RawEvents, NoAnswer, EventsGetFails, Arrive, Interrupt, world
    <3>5. faults' \in 0 .. MaxFaults
      BY <3>1, <3>2
    <3>6. avail' \in 0 .. FeedLen /\ avail <= avail'
      BY <3>1, <3>3
    <3> QED BY <3>1, <3>4, <3>5, <3>6
  <2>2. cid \in 0 .. avail' /\ pc' \in {"query", "fill", "show", "done", "failed"}
    BY <1>1, <2>1 DEF QInv, TypeOK
  <2> QED BY <1>1, <2>1, <2>2 DEF QInv, TypeOK
<1>3. /\ UNCHANGED <<Collected, Looked, paged>>
  BY <1>1 DEF Collected, Looked, paged
<1>4. PageOK' /\ Counted' /\ OneRequest' /\ InFeedOrder' /\ NoneLost' /\ Cached'
  <2>1. PageOK' /\ Counted'
    BY <1>1, <1>3 DEF QInv, PageOK, Counted, Size
  <2>2. OneRequest'
    BY <1>1, <1>3 DEF QInv, OneRequest, paged
  <2>3. \A s \in Sources : InOrder(s)'
    BY <1>1, SameOrder DEF QInv, InFeedOrder
  <2>4. InFeedOrder' /\ Cached'
    BY <1>1, <1>3, <2>3 DEF QInv, InFeedOrder, Cached
  <2>5. NoneLost'
    <3>1. pc' = "done" => stateMap' = NoBlobs
      BY <1>1 DEF QInv, NoneLost, OneRequest
    <3>2. paged' /\ pc' # "failed" => paged /\ pc # "failed"
      BY <1>1, <1>3 DEF paged
    <3> QED BY <1>1, <1>3, <3>1, <3>2 DEF QInv, NoneLost
  <2> QED BY <2>1, <2>2, <2>4, <2>5
<1> QED BY <1>2, <1>4 DEF QInv

LEMMA QEventByUID == QInv /\ EventByUID => QInv'
<1> SUFFICES ASSUME QInv, EventByUID PROVE QInv'
  OBVIOUS
<1>1. PICK e \in 1 .. avail : page' = <<e>>
  BY DEF EventByUID
<1>2. /\ pc = "query" /\ mode = "uid" /\ pc' = "fill"
      /\ UNCHANGED <<world, avail, cid, total, count, stateMap, shown, missed, schemas, faults>>
  BY DEF EventByUID
<1>3. /\ TypeOK /\ shown = NoBlobs /\ stateMap = NoBlobs /\ missed = {} /\ cid = 0 /\ total = 0
      /\ count = 0 /\ Limit \in Nat \ {0} /\ avail \in 0 .. FeedLen /\ FeedLen \in Nat
  BY <1>2, QueryAssumption DEF QInv, TypeOK, OneRequest
<1>4. /\ e \in Positions /\ page' \in Seq(Positions) /\ Len(page') = 1 /\ page' # <<>>
  BY <1>1, <1>3 DEF Positions
<1>5. TypeOK'
  BY <1>2, <1>3, <1>4 DEF TypeOK, world
<1>6. mode' = "uid" /\ ~paged'
  BY <1>2 DEF paged, world
<1>7. PageOK' /\ Counted' /\ OneRequest'
  BY <1>2, <1>3, <1>4, <1>6, NoBlobsFacts DEF PageOK, Counted, OneRequest, Size
<1>8. InFeedOrder' /\ NoneLost' /\ Cached'
  <2>1. \A s \in Sources : InOrder(s)'
    BY <1>2, SameOrder DEF QInv, InFeedOrder, world
  <2> QED BY <1>2, <1>6, <2>1 DEF QInv, InFeedOrder, NoneLost, Cached, Collected, world
<1> QED BY <1>5, <1>7, <1>8 DEF QInv

LEMMA CollectedFacts ==
  ASSUME QInv
  PROVE  Collected \subseteq Nat /\ missed \subseteq Nat
<1>1. /\ shown \in Result /\ stateMap \in Result /\ missed \subseteq Positions
  BY DEF QInv, TypeOK
<1>2. Positions \subseteq Nat
  BY QueryAssumption DEF Positions
<1>3. Blobs(shown) \subseteq Positions /\ Blobs(stateMap) \subseteq Positions
  BY <1>1, BlobsFacts
<1> QED BY <1>1, <1>2, <1>3 DEF Collected

\* The events that were looked at before come before this one.
LEMMA BeforeHead ==
  ASSUME QInv, pc = "fill"
  PROVE  /\ \A d \in Collected \cup missed : d < Head(page)
         /\ Collected \subseteq Nat /\ Head(page) \in Nat
<1>1. /\ missed \subseteq Positions
      /\ mode \in {"once", "poll", "uid"}
  BY HeadFacts DEF QInv, TypeOK
<1>2. Collected \subseteq Nat /\ missed \subseteq Nat /\ Head(page) \in Nat
  BY <1>1, HeadFacts, CollectedFacts DEF Positions
<1>3. CASE paged
  <2>1. Looked \in Nat /\ Head(page) = Looked + 1 /\ \A d \in Collected \cup missed : d <= Looked
    BY <1>3, HeadFacts DEF QInv, InFeedOrder
  <2>2. ASSUME NEW d \in Collected \cup missed PROVE d < Head(page)
    BY <1>2, <2>1
  <2> QED BY <1>2, <2>2
<1>4. CASE ~paged
  <2>1. shown = NoBlobs /\ stateMap = NoBlobs /\ missed = {}
    BY <1>1, <1>4 DEF QInv, OneRequest, paged
  <2>2. Collected \cup missed = {}
    BY <2>1, NoBlobsFacts DEF Collected
  <2> QED BY <1>2, <2>2
<1> QED BY <1>3, <1>4

\* What every step over an event of the page does.
LEMMA LookFacts ==
  ASSUME QInv, Skip \/ Blob \/ SchemaFails
  PROVE  /\ pc = "fill" /\ NextEvent /\ CountsOne
         /\ UNCHANGED <<world, avail, cid, shown>>
         /\ schemas' \subseteq Schemas /\ schemas \subseteq schemas'
         /\ faults' \in 0 .. MaxFaults
         /\ stateMap' \in Result /\ missed' \subseteq Positions
<1>1. /\ stateMap \in Result /\ missed \subseteq Positions /\ schemas \subseteq Schemas
      /\ faults \in 0 .. MaxFaults /\ MaxFaults \in Nat /\ count \in Nat
      /\ IsFiniteSet(Blobs(stateMap)) /\ Size \in Nat
  BY QueryAssumption, FS_CardinalityType DEF QInv, TypeOK, Counted, Size
<1>2. CASE Skip
  <2>1. Size' = Size + (count' - count)
    BY <1>1, <1>2 DEF Skip, Size
  <2> QED BY <1>1, <1>2, <2>1 DEF Skip, CountsOne, world
<1>3. CASE Blob
  <2>1. pc = "fill" /\ NextEvent /\ feed[Head(page)].kind = "blob"
        /\ stateMap' = [stateMap EXCEPT ![SourceOf(Head(page))] = Append(@, Head(page))]
        /\ count' = count + 1 /\ schemas' = schemas \cup {feed[Head(page)].schema}
        /\ UNCHANGED <<world, avail, cid, shown, missed, faults>>
    BY <1>3 DEF Blob
  <2>2. feed[Head(page)].schema \in Schemas /\ SourceOf(Head(page)) \in Sources
        /\ Head(page) \in Positions
    BY <2>1, HeadFacts
  <2>3. stateMap' \in Result /\ Blobs(stateMap') = Blobs(stateMap) \cup {Head(page)}
    <3>1. stateMap' = Filing(stateMap, SourceOf(Head(page)), Head(page))
      BY <2>1 DEF Filing
    <3> QED BY <1>1, <2>2, <3>1, FilingFacts
  <2>4. Head(page) \notin Blobs(stateMap)
    <3>1. \A d \in Blobs(stateMap) : d \in Nat /\ d < Head(page)
      BY <2>1, BeforeHead DEF Collected
    <3>2. Head(page) \in Nat
      BY <2>1, BeforeHead
    <3> QED BY <3>1, <3>2
  <2>5. Size' = Size + 1 /\ IsFiniteSet(Blobs(stateMap'))
    BY <1>1, <2>3, <2>4, FS_AddElement DEF Size
  <2>6. Size' = Size + (count' - count)
    BY <1>1, <2>1, <2>5
  <2> QED BY <1>1, <2>1, <2>2, <2>3, <2>5, <2>6 DEF CountsOne
<1>4. CASE SchemaFails
  <2>1. pc = "fill" /\ NextEvent /\ missed' = missed \cup {Head(page)}
        /\ UNCHANGED <<world, avail, cid, stateMap, shown, schemas, count>>
        /\ faults < MaxFaults /\ faults' = faults + 1
    BY <1>4 DEF SchemaFails, Disturb
  <2>2. Size' = Size + (count' - count) /\ IsFiniteSet(Blobs(stateMap'))
    BY <1>1, <2>1 DEF Size
  <2>3. faults' \in 0 .. MaxFaults /\ missed' \subseteq Positions
    BY <1>1, <2>1, HeadFacts
  <2> QED BY <1>1, <2>1, <2>2, <2>3 DEF CountsOne
<1> QED BY <1>2, <1>3, <1>4

LEMMA QLook == QInv /\ (Skip \/ Blob \/ SchemaFails) => QInv'
<1> SUFFICES ASSUME QInv, Skip \/ Blob \/ SchemaFails PROVE QInv'
  OBVIOUS
<1> DEFINE e == Head(page)
<1>1. /\ pc = "fill" /\ NextEvent /\ CountsOne
      /\ UNCHANGED <<world, avail, cid, shown>>
      /\ schemas' \subseteq Schemas /\ schemas \subseteq schemas'
      /\ faults' \in 0 .. MaxFaults
      /\ stateMap' \in Result /\ missed' \subseteq Positions
  BY LookFacts
<1>2. /\ PageOK' /\ Counted'
      /\ count' \in 0 .. Limit /\ total' \in Nat
      /\ page' \in Seq(Positions) /\ Len(page') <= Limit
      /\ pc' \in {"query", "fill", "show", "failed"} /\ (paged => pc' # "failed")
      /\ paged => Looked' = Looked + 1
      /\ ~paged => pc' \in {"show", "failed"}
  BY <1>1, NextEventFacts
<1>3. /\ e \in Positions /\ e \in Nat /\ mode # "raw"
      /\ paged => Looked \in Nat /\ e = Looked + 1
      /\ \A d \in Collected \cup missed : d < e
      /\ Collected \subseteq Nat
  BY <1>1, HeadFacts, BeforeHead
<1> HIDE DEF e
<1>4. mode' = mode /\ paged' = paged /\ feed' = feed /\ shown' = shown
  BY <1>1 DEF world, paged
<1>5. TypeOK'
  BY <1>1, <1>2 DEF QInv, TypeOK, world
<1>6. OneRequest'
  <2>1. CASE mode = "uid"
    <3>1. cid' = 0 /\ pc' \in {"show", "failed"}
      BY <1>1, <1>2, <2>1 DEF QInv, OneRequest, paged
    <3> QED BY <1>4, <2>1, <3>1 DEF OneRequest
  <2>2. CASE mode # "uid"
    BY <1>3, <1>4, <2>2 DEF OneRequest
  <2> QED BY <2>1, <2>2
\* One of three things happened to the event.
<1>7. \/ feed[e].kind # "blob" /\ UNCHANGED <<stateMap, missed>>
      \/ /\ stateMap' = Filing(stateMap, SourceOf(e), e)
         /\ UNCHANGED missed /\ feed[e].schema \in schemas' /\ feed[e].kind = "blob"
      \/ missed' = missed \cup {e} /\ UNCHANGED stateMap /\ feed[e].schema \notin schemas
  BY DEF Skip, Blob, SchemaFails, e, Filing
<1>12. shown \in Result /\ stateMap \in Result /\ (feed[e].kind = "blob" => SourceOf(e) \in Sources)
  BY <1>1, HeadFacts DEF QInv, TypeOK, e
<1>8. /\ Collected' \in {Collected, Collected \cup {e}} /\ missed' \in {missed, missed \cup {e}}
      /\ feed[e].kind = "blob" => e \in Collected' \cup missed'
      /\ Collected' # Collected => missed' = missed /\ feed[e].schema \in schemas'
      /\ missed' # missed => Collected' = Collected /\ feed[e].schema \notin schemas
  <2>1. CASE stateMap' = Filing(stateMap, SourceOf(e), e)
             /\ UNCHANGED missed /\ feed[e].schema \in schemas' /\ feed[e].kind = "blob"
    <3>1. Blobs(stateMap') = Blobs(stateMap) \cup {e}
      BY <1>3, <1>12, <2>1, FilingFacts
    <3>2. Collected' = Collected \cup {e}
      BY <1>4, <3>1 DEF Collected
    <3> QED BY <2>1, <3>2
  <2>2. CASE UNCHANGED stateMap
    <3>1. Collected' = Collected
      BY <1>4, <2>2 DEF Collected
    <3> QED BY <1>7, <2>1, <2>2, <3>1
  <2> QED BY <1>7, <2>1, <2>2
<1>13. ASSUME NEW s \in Sources PROVE InOrder(s)'
  <2>1. InOrder(s)
    BY DEF QInv, InFeedOrder
  <2>2. CASE stateMap' = Filing(stateMap, SourceOf(e), e)
             /\ feed[e].kind = "blob" /\ s = SourceOf(e)
    <3>1. stateMap'[s] = Append(stateMap[s], e)
      BY <1>3, <1>12, <2>2, FilingFacts
    <3>2. /\ stateMap[s] \in Seq(Positions)
          /\ \A d \in Range(stateMap[s]) \cup Range(shown[s]) : d < e
      BY <1>3, <1>12, BlobsFacts DEF Collected
    <3>3. /\ Range(stateMap'[s]) = Range(stateMap[s]) \cup {e}
          /\ Increasing(stateMap'[s])
      BY <1>3, <2>1, <3>1, <3>2, AppendFacts DEF InOrder
    <3>4. Before(shown[s], stateMap'[s]) /\ Filed(stateMap'[s], s)
      BY <2>1, <2>2, <3>2, <3>3 DEF InOrder, Before, Filed
    <3>5. Increasing(shown[s]) /\ Filed(shown[s], s) /\ feed' = feed /\ shown' = shown
      BY <1>4, <2>1 DEF InOrder
    <3> QED BY <3>3, <3>4, <3>5 DEF InOrder, Before, Filed, SourceOf
  <2>3. CASE stateMap'[s] = stateMap[s]
    BY <1>4, <2>1, <2>3 DEF InOrder, Before, Filed, SourceOf
  <2>4. CASE stateMap' = Filing(stateMap, SourceOf(e), e)
             /\ feed[e].kind = "blob" /\ s # SourceOf(e)
    <3>1. stateMap'[s] = stateMap[s]
      BY <1>3, <1>12, <2>4, FilingFacts
    <3> QED BY <2>3, <3>1
  <2>5. UNCHANGED stateMap => stateMap'[s] = stateMap[s]
    OBVIOUS
  <2> QED BY <1>7, <2>2, <2>3, <2>4, <2>5
<1>9. InFeedOrder'
  <2>1. ASSUME paged, NEW d \in Collected' \cup missed' PROVE d <= Looked'
    <3>1. d \in Collected \cup missed \/ d = e
      BY <1>8
    <3>2. Looked \in Nat /\ e = Looked + 1 /\ Looked' = Looked + 1
      BY <1>2, <1>3, <2>1
    <3>3. CASE d \in Collected \cup missed
      <4>1. d <= Looked /\ d \in Nat
        BY <2>1, <3>3, CollectedFacts DEF QInv, InFeedOrder
      <4> QED BY <3>2, <4>1
    <3> QED BY <3>1, <3>2, <3>3
  <2> QED BY <1>4, <1>13, <2>1 DEF InFeedOrder
<1>10. NoneLost'
  <2>1. ASSUME paged, NEW x \in 1 .. Looked', feed[x].kind = "blob"
        PROVE  x \in Collected' \cup missed'
    <3>1. Looked \in Nat /\ e = Looked + 1 /\ Looked' = Looked + 1
      BY <1>2, <1>3, <2>1
    <3>2. x \in 1 .. Looked \/ x = e
      BY <3>1
    <3>3. CASE x \in 1 .. Looked
      BY <1>1, <1>8, <2>1, <3>3 DEF QInv, NoneLost
    <3> QED BY <1>8, <2>1, <3>2, <3>3
  <2> QED BY <1>2, <1>4, <2>1 DEF NoneLost
<1>11. Cached'
  <2>1. ASSUME NEW d \in Collected' PROVE feed[d].schema \in schemas'
    BY <1>1, <1>3, <1>8 DEF QInv, Cached
  <2>2. ASSUME NEW x \in missed', NEW d \in Collected', d < x
        PROVE  feed[d].schema # feed[x].schema
    <3>1. CASE x \in missed /\ d \in Collected
      BY <2>2, <3>1 DEF QInv, Cached
    <3>2. CASE x \notin missed
      <4>1. x = e /\ d \in Collected /\ feed[e].schema \notin schemas
        BY <1>8, <3>2
      <4>2. feed[d].schema \in schemas
        BY <1>3, <4>1 DEF QInv, Cached
      <4> QED BY <4>1, <4>2
    <3>3. CASE d \notin Collected /\ x \in missed
      <4>1. d = e /\ x < e /\ x \in Nat
        BY <1>3, <1>8, <3>3 DEF QInv, TypeOK, Positions
      <4> QED BY <1>3, <2>2, <4>1
    <3> QED BY <3>1, <3>2, <3>3
  <2> QED BY <1>4, <2>1, <2>2 DEF Cached
<1> QED BY <1>2, <1>5, <1>6, <1>9, <1>10, <1>11 DEF QInv

\* A blob that cannot be decoded leaves the result as it is.
LEMMA QCorrupt == QInv /\ Corrupt => QInv'
<1> SUFFICES ASSUME QInv, Corrupt PROVE QInv'
  OBVIOUS
<1>1. /\ pc = "fill" /\ pc' = "failed" /\ page' = <<>> /\ feed[Head(page)].kind = "corrupt"
      /\ schemas' = schemas \cup {feed[Head(page)].schema}
      /\ UNCHANGED <<world, avail, cid, total, count, stateMap, shown, missed, faults>>
  BY DEF Corrupt
<1>2. feed[Head(page)].schema \in Schemas /\ mode # "raw"
  BY <1>1, HeadFacts
<1>3. mode' = mode /\ feed' = feed /\ paged' = paged /\ Collected' = Collected
  BY <1>1 DEF world, paged, Collected
<1>4. Limit \in Nat \ {0} /\ cid \in Nat /\ Len(page) \in Nat \ {0} /\ TypeOK
  BY <1>1, HeadFacts, QueryAssumption DEF QInv, TypeOK
<1>5. TypeOK'
  BY <1>1, <1>2, <1>4, EmptyRange DEF TypeOK, world
<1>6. PageOK' /\ Counted' /\ OneRequest'
  BY <1>1, <1>2, <1>3 DEF QInv, PageOK, Counted, OneRequest, Size
<1>7. InFeedOrder'
  <2>1. Looked' = cid /\ Looked <= cid /\ Looked \in Int
    BY <1>1, <1>4, EmptyRange DEF Looked
  <2>2. ASSUME paged, NEW d \in Collected \cup missed PROVE d <= Looked'
    <3>1. d <= Looked /\ d \in Nat
      BY <2>2, CollectedFacts DEF QInv, InFeedOrder
    <3> QED BY <1>4, <2>1, <3>1
  <2>3. \A s \in Sources : InOrder(s)'
    BY <1>1, <1>3, SameOrder DEF QInv, InFeedOrder
  <2> QED BY <1>1, <1>3, <2>2, <2>3 DEF InFeedOrder
<1>8. NoneLost' /\ Cached'
  BY <1>1, <1>2, <1>3 DEF QInv, NoneLost, Cached
<1> QED BY <1>5, <1>6, <1>7, <1>8 DEF QInv

\* What is shown follows what was shown before.
LEMMA QShow == QInv /\ Show => QInv'
<1> SUFFICES ASSUME QInv, Show PROVE QInv'
  OBVIOUS
<1>1. /\ pc = "show" /\ total' = 0 /\ shown' = Shown /\ stateMap' = NoBlobs
      /\ pc' \in {"query", "done"} /\ (pc' = "query" => paged)
      /\ UNCHANGED <<world, avail, cid, page, count, missed, schemas, faults>>
  BY DEF Show, polling, paged
<1>2. TypeOK /\ page = <<>> /\ Limit \in Nat \ {0} /\ mode # "raw"
  BY <1>1, QueryAssumption DEF QInv, PageOK, OneRequest
<1>3. /\ shown \in Result /\ stateMap \in Result
      /\ shown' \in Result /\ Blobs(shown') = Blobs(shown) \cup Blobs(stateMap)
      /\ \A s \in Sources : shown'[s] = shown[s] \o stateMap[s]
  BY <1>1, <1>2, ShownFacts DEF TypeOK
<1>4. mode' = mode /\ feed' = feed /\ paged' = paged /\ Looked' = Looked
  BY <1>1 DEF world, paged, Looked
<1>5. Collected' = Collected
  BY <1>1, <1>3, NoBlobsFacts DEF Collected
<1>6. TypeOK'
  BY <1>1, <1>2, <1>3, NoBlobsFacts DEF TypeOK, world
<1>7. PageOK' /\ Counted'
  BY <1>1, <1>2, NoBlobsFacts DEF PageOK, Counted, Size
<1>8. OneRequest'
  BY <1>1, <1>2, <1>4 DEF QInv, OneRequest, paged
<1>9. InFeedOrder'
  <2>1. ASSUME NEW s \in Sources PROVE InOrder(s)'
    <3>1. shown'[s] = shown[s] \o stateMap[s] /\ stateMap'[s] = <<>>
          /\ shown[s] \in Seq(Positions) /\ stateMap[s] \in Seq(Positions)
      BY <1>1, <1>3, NoBlobsFacts, BlobsFacts
    <3>2. InOrder(s)
      BY DEF QInv, InFeedOrder
    <3>3. /\ Range(shown'[s]) = Range(shown[s]) \cup Range(stateMap[s])
          /\ Increasing(shown'[s])
      BY <3>1, <3>2, ConcatFacts DEF InOrder, Before
    <3>4. Filed(shown'[s], s)
      BY <3>2, <3>3 DEF InOrder, Filed
    <3>5. Increasing(stateMap'[s]) /\ Range(stateMap'[s]) = {}
      BY <3>1, EmptyRange
    <3> QED BY <1>4, <3>3, <3>4, <3>5 DEF InOrder, Before, Filed, SourceOf
  <2> QED BY <1>1, <1>4, <1>5, <2>1 DEF QInv, InFeedOrder
<1>10. NoneLost' /\ Cached'
  BY <1>1, <1>2, <1>4, <1>5 DEF QInv, NoneLost, Cached
<1> QED BY <1>6, <1>7, <1>8, <1>9, <1>10 DEF QInv

LEMMA QStep == QInv /\ [Next]_vars => QInv'
<1> SUFFICES ASSUME QInv, [Next]_vars PROVE QInv'
  OBVIOUS
<1>1. CASE EventsGet
  BY <1>1, QEventsGet
<1>2. CASE EventsGetTimeout \/ RawEvents \/ NoAnswer \/ EventsGetFails \/ Arrive \/ Interrupt
  BY <1>2, QSameBlobs
<1>3. CASE EventByUID
  BY <1>3, QEventByUID
<1>4. CASE Skip \/ Blob \/ SchemaFails \/ Corrupt
  BY <1>4, QLook, QCorrupt
<1>5. CASE Show
  BY <1>5, QShow
<1>6. CASE UNCHANGED vars
  <2>1. UNCHANGED <<Collected, Looked, paged>>
    BY <1>6 DEF vars, world, Collected, Looked, paged
  <2>2. TypeOK' /\ PageOK' /\ Counted'
    BY <1>6, <2>1 DEF QInv, vars, world, TypeOK, PageOK, Counted, Size
  <2>3. \A s \in Sources : InOrder(s)'
    BY <1>6, SameOrder DEF QInv, InFeedOrder, vars, world
  <2>4. OneRequest' /\ InFeedOrder' /\ NoneLost' /\ Cached'
    BY <1>6, <2>1, <2>3 DEF QInv, vars, world, OneRequest, InFeedOrder, NoneLost, Cached
  <2> QED BY <2>2, <2>4 DEF QInv
<1> QED BY <1>1, <1>2, <1>3, <1>4, <1>5, <1>6 DEF Next, Command

-----------------------------------------------------------------------------
\* Every reachable state satisfies the invariant.
THEOREM Invariance == Spec => []QInv
<1> QED BY QInit, QStep, PTL DEF Spec

LEMMA QComplete == QInv => Complete
<1> SUFFICES ASSUME QInv PROVE Complete
  OBVIOUS
<1>1. ShownInOrder
  <2>1. \A s \in Sources : InOrder(s)
    BY DEF QInv, InFeedOrder
  <2> QED BY <2>1 DEF InOrder, Increasing, Filed, ShownInOrder
<1>2. NothingSkipped
  <2>1. SUFFICES ASSUME (pc = "query" /\ total = 0 /\ stateMap = NoBlobs) \/ pc = "done",
                        NEW x \in 1 .. cid, feed[x].kind = "blob"
                 PROVE  x \in Blobs(shown) \cup missed
    BY DEF NothingSkipped
  <2>2. stateMap = NoBlobs /\ page = <<>> /\ pc # "failed" /\ cid \in Nat
        /\ mode \in {"once", "poll", "uid", "raw"}
    BY <2>1 DEF QInv, TypeOK, NoneLost, PageOK
  <2>3. CASE paged
    <3>1. Looked = cid
      BY <2>2, EmptyRange DEF Looked
    <3> QED BY <2>1, <2>2, <2>3, <3>1, NoBlobsFacts DEF QInv, NoneLost, Collected
  <2>4. CASE mode \in {"uid", "raw"}
    BY <2>1, <2>4 DEF QInv, OneRequest
  <2> QED BY <2>2, <2>3, <2>4 DEF paged
<1>3. OnlyNewSchemas
  BY DEF QInv, Cached, Collected, OnlyNewSchemas
<1> QED BY <1>1, <1>2, <1>3 DEF Complete

\* Every blob behind the ContinuationID is shown once, under its source and behind
\* the earlier blobs of it, or was missed for a schema that was new (Complete):
\* getBstates, fillStateMap and showEvents, over all pages and polls.
THEOREM ShowsAll == Spec => []Complete
<1> QED BY Invariance, QComplete, PTL

\* A query answers less than twice its limit (BoundedAnswer): fillStateMap counts
\* from 0 on each page and getBstates asks for another while it has too few.
THEOREM AnswerBounded == Spec => []BoundedAnswer
<1>1. QInv => BoundedAnswer
  BY DEF QInv, Counted, BoundedAnswer, Size
<1> QED BY <1>1, Invariance, PTL

-----------------------------------------------------------------------------
(* How much work a command has left, and that every step of it takes some.  *)

\* The command will not ask again once it has shown a result.
Ending == ~polling \/ stopped

StepsTo == [query |-> IF paged THEN 2 ELSE 5, fill |-> 0, show |-> 1,
            done |-> 0, failed |-> 0]

\* An event that is fetched costs less on its page than in the feed.
Work == 4 * (FeedLen - cid) + 3 * Len(page) + StepsTo[pc]

WorkOK ==
  /\ FeedLen - cid \in Nat /\ cid \in Nat /\ Len(page) \in Nat
  /\ StepsTo[pc] \in 0 .. 5 /\ Work \in Nat
  /\ pc # "fill" => Len(page) = 0
  /\ pc = "fill" => Len(page) >= 1
  /\ pc = "query" => StepsTo[pc] = IF paged THEN 2 ELSE 5
  /\ pc = "show" => StepsTo[pc] = 1
  /\ pc \in {"fill", "done", "failed"} => StepsTo[pc] = 0

LEMMA WorkParts == QInv => WorkOK
<1> SUFFICES ASSUME QInv PROVE WorkOK
  OBVIOUS
<1>1. /\ FeedLen \in Nat /\ avail \in 0 .. FeedLen /\ cid \in 0 .. avail
      /\ page \in Seq(Positions) /\ pc \in {"query", "fill", "show", "done", "failed"}
  BY QueryAssumption DEF QInv, TypeOK
<1>2. FeedLen - cid \in Nat /\ cid \in Nat /\ Len(page) \in Nat
  BY <1>1
<1>3. pc # "fill" => Len(page) = 0
  BY EmptyRange DEF QInv, PageOK
<1>4. pc = "fill" => Len(page) >= 1
  BY HeadFacts
<1>5. /\ StepsTo[pc] \in 0 .. 5
      /\ pc = "query" => StepsTo[pc] = IF paged THEN 2 ELSE 5
      /\ pc = "show" => StepsTo[pc] = 1
      /\ pc \in {"fill", "done", "failed"} => StepsTo[pc] = 0
  BY <1>1 DEF StepsTo
<1>6. Work \in Nat
  <2>1. \A f, l \in Nat, w \in 0 .. 5 : 4 * f + 3 * l + w \in Nat
    OBVIOUS
  <2> QED BY <1>2, <1>5, <2>1 DEF Work
<1> QED BY <1>2, <1>3, <1>4, <1>5, <1>6 DEF WorkOK

LEMMA WorkPartsAfter == QInv' => WorkOK'
BY WorkParts, PTL

\* Work left, in the terms the steps change.
Sum(f, l, w) == 4 * f + 3 * l + w

LEMMA FewerSteps ==
  ASSUME NEW f \in Nat, NEW l \in Nat, NEW w \in 0 .. 5,
         NEW g \in Nat, NEW m \in Nat, NEW v \in 0 .. 5, g <= f, m <= l, v < w
  PROVE  Sum(g, m, v) < Sum(f, l, w)
BY DEF Sum

LEMMA FewerEvents ==
  ASSUME NEW f \in Nat, NEW l \in Nat, NEW w \in 0 .. 5,
         NEW g \in Nat, NEW m \in Nat, NEW v \in 0 .. 5, g <= f, m < l, v <= w + 2
  PROVE  Sum(g, m, v) < Sum(f, l, w)
BY DEF Sum

LEMMA MoreEvents ==
  ASSUME NEW f \in Nat, NEW w \in 0 .. 5, NEW g \in Nat, NEW n \in Nat \ {0},
         \/ g = f - n /\ w >= 2
         \/ g = f /\ n = 1 /\ w = 5
  PROVE  Sum(g, n, 0) < Sum(f, 0, w)
BY DEF Sum

\* One step of the command, by what it does.
LEMMA CommandWorks ==
  ASSUME QInv, QInv', Ending, Command \/ EventsGetFails
  PROVE  Work' < Work
<1> DEFINE f == FeedLen - cid
           l == Len(page)
           w == StepsTo[pc]
<1>1. /\ f \in Nat /\ l \in Nat /\ w \in 0 .. 5 /\ cid \in Nat
      /\ Work = Sum(f, l, w)
      /\ pc # "fill" => l = 0
      /\ pc = "fill" => l >= 1 /\ w = 0
      /\ pc = "query" => w = IF paged THEN 2 ELSE 5
      /\ pc = "show" => w = 1
  BY WorkParts DEF WorkOK, Work, Sum
<1>2. /\ f' \in Nat /\ l' \in Nat /\ w' \in 0 .. 5
      /\ Work' = Sum(f', l', w')
      /\ pc' # "fill" => l' = 0
      /\ pc' = "query" => w' = IF paged' THEN 2 ELSE 5
      /\ pc' = "show" => w' = 1
      /\ pc' \in {"fill", "done", "failed"} => w' = 0
  BY WorkPartsAfter DEF WorkOK, Work, Sum
<1>3. FeedLen \in Nat
  BY QueryAssumption
<1> HIDE DEF f, l, w
<1>4. CASE EventsGet
  <2>1. PICK n \in 1 .. Limit : page' = Answer(n) /\ cid' = cid + n
    BY <1>4 DEF EventsGet
  <2>2. n \in Nat \ {0} /\ f' = f - n /\ l' = n
    <3>1. n \in Nat \ {0}
      BY QueryAssumption
    <3>2. f' = f - n
      BY <1>1, <1>3, <2>1, <3>1 DEF f
    <3>3. Len(Answer(n)) = n
      BY <3>1 DEF Answer
    <3> QED BY <2>1, <3>1, <3>2, <3>3 DEF l
  <2>3. l = 0 /\ w >= 2 /\ w' = 0
    BY <1>1, <1>2, <1>4 DEF EventsGet
  <2> QED BY <1>1, <1>2, <2>2, <2>3, MoreEvents
<1>5. CASE EventByUID
  <2>1. f' = f /\ l' = 1
    BY <1>5 DEF EventByUID, f, l
  <2>2. l = 0 /\ w = 5 /\ w' = 0
    BY <1>1, <1>2, <1>5 DEF EventByUID, paged
  <2> QED BY <1>1, <1>2, <2>1, <2>2, MoreEvents
<1>6. CASE RawEvents \/ NoAnswer \/ EventsGetFails
  <2>1. pc = "query" /\ pc' \in {"done", "failed"}
    BY <1>6 DEF RawEvents, NoAnswer, EventsGetFails
  <2>2. f' <= f
    <3>1. \/ cid' = cid
          \/ \E n \in 1 .. Limit : cid' = cid + n
      BY <1>6 DEF RawEvents, NoAnswer, EventsGetFails
    <3> QED BY <1>1, <1>3, <3>1, QueryAssumption DEF f
  <2>3. l' <= l /\ w' < w
    BY <1>1, <1>2, <2>1
  <2> QED BY <1>1, <1>2, <2>2, <2>3, FewerSteps
<1>7. CASE EventsGetTimeout
  <2>1. f' <= f
    BY <1>1, <1>7 DEF EventsGetTimeout, f
  <2>2. l' <= l /\ w' < w
    BY <1>1, <1>2, <1>7 DEF EventsGetTimeout
  <2> QED BY <1>1, <1>2, <2>1, <2>2, FewerSteps
<1>8. CASE Skip \/ Blob \/ SchemaFails
  <2>1. /\ pc = "fill" /\ NextEvent
        /\ UNCHANGED <<cid, mode>>
    BY <1>8 DEF Skip, Blob, SchemaFails, world
  <2>2. page \in Seq(Positions) /\ l >= 1 /\ l = Len(page)
    BY <1>1, <2>1 DEF QInv, TypeOK, l
  <2>3. f' <= f
    BY <1>1, <2>1 DEF f
  <2>4. CASE page' = Tail(page) /\ pc' = pc
    <3>1. l' < l /\ w' = 0
      BY <1>2, <2>1, <2>2, <2>4, HeadFacts DEF l
    <3> QED BY <1>1, <1>2, <2>3, <3>1, FewerEvents
  <2>5. CASE EndOfPage
    <3>1. pc' \in {"query", "show", "failed"} /\ (~paged => pc' # "query")
      BY <2>5 DEF EndOfPage
    <3>2. paged' = paged
      BY <2>1 DEF paged
    <3>3. l' < l /\ w' <= w + 2
      BY <1>1, <1>2, <2>1, <2>2, <3>1, <3>2
    <3> QED BY <1>1, <1>2, <2>3, <3>3, FewerEvents
  <2> QED BY <2>1, <2>4, <2>5 DEF NextEvent
<1>9. CASE Corrupt
  <2>1. pc = "fill" /\ pc' = "failed" /\ f' <= f
    BY <1>1, <1>9 DEF Corrupt, f
  <2>2. l' < l /\ w' <= w + 2
    BY <1>1, <1>2, <2>1
  <2> QED BY <1>1, <1>2, <2>1, <2>2, FewerEvents
<1>10. CASE Show
  <2>1. pc = "show" /\ pc' = "done" /\ f' <= f
    BY <1>1, <1>10 DEF Show, Ending, f
  <2>2. l' <= l /\ w' < w
    BY <1>1, <1>2, <2>1
  <2> QED BY <1>1, <1>2, <2>1, <2>2, FewerSteps
<1> QED BY <1>4, <1>5, <1>6, <1>7, <1>8, <1>9, <1>10 DEF Command

\* The cloud and the user change none of it, nor turn the command around.
LEMMA WorldWaits ==
  ASSUME Arrive \/ Interrupt
  PROVE  Work' = Work
<1>1. UNCHANGED <<cid, page, pc, mode>>
  BY DEF Arrive, Interrupt, world
<1>2. StepsTo' = StepsTo
  BY <1>1 DEF StepsTo, paged
<1> QED BY <1>1, <1>2 DEF Work

\* An ending command stays one, and each of its steps takes of the work left.
Hastens ==
  /\ Ending => Ending'
  /\ Ending /\ (Command \/ EventsGetFails) => Work' < Work
  /\ Arrive \/ Interrupt => Work' = Work

\* A command that does not poll, or that was interrupted, makes a bounded number
\* of steps, whatever the cloud answers and however its events arrive: what it
\* has left to do is a natural number, at first no more than five and four for
\* every event of the feed, that each request, event and result makes smaller.
\* This is why the loops of getBstates and of the command come to an end (Ends).
THEOREM BoundedWork ==
  Spec => Work <= 4 * FeedLen + 5 /\ [](Work \in Nat) /\ [][Hastens]_vars
<1>1. Init => Work <= 4 * FeedLen + 5
  <2> SUFFICES ASSUME Init PROVE Work <= 4 * FeedLen + 5
    OBVIOUS
  <2>1. QInv
    BY QInit
  <2>2. cid = 0 /\ Len(page) = 0 /\ StepsTo[pc] \in 0 .. 5 /\ FeedLen \in Nat
    BY <2>1, WorkParts, QueryAssumption DEF Init, WorkOK
  <2>3. \A n \in Nat, w \in 0 .. 5 : 4 * (n - 0) + 3 * 0 + w <= 4 * n + 5
    OBVIOUS
  <2> QED BY <2>2, <2>3 DEF Work
<1>2. QInv => Work \in Nat
  BY WorkParts DEF WorkOK
<1>3. QInv /\ QInv' /\ [Next]_vars => [Hastens]_vars
  <2> SUFFICES ASSUME QInv, QInv', Next PROVE Hastens
    OBVIOUS
  <2>1. Ending => Ending'
    BY DEF Ending, polling, Next, Command, EventsGet, EventByUID, RawEvents, NoAnswer,
           EventsGetTimeout, EventsGetFails, Skip, Blob, SchemaFails, Corrupt, Show,
           Arrive, Interrupt, world
  <2>2. Ending /\ (Command \/ EventsGetFails) => Work' < Work
    BY CommandWorks
  <2>3. Arrive \/ Interrupt => Work' = Work
    BY WorldWaits
  <2> QED BY <2>1, <2>2, <2>3 DEF Hastens
<1> QED BY <1>1, <1>2, <1>3, Invariance, PTL DEF Spec
=============================================================================
