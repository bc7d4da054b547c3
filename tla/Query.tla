-------------------------------- MODULE Query --------------------------------
(***************************************************************************)
(* A query of bstates events: GetBstates, getBstates and fillStateMap of   *)
(* events_bstates.go, under the command of tools/idefix/                   *)
(* cmd_events_bstates.go that calls it once, polls with it, or asks for    *)
(* one event by its UID; and the command for raw events.                   *)
(* Events are positions of the feed; a ContinuationID is the position of   *)
(* the last event it covers, 0 when it is empty.  An event is a blob of    *)
(* states of some schema and origin, a corrupt one, or one the query       *)
(* passes over (the meta filter, the type, the payload).  A result files   *)
(* its blobs by source, a schema and an origin; showEvents ranges over the *)
(* sources in whatever order, and makes one table of each.  The cloud is   *)
(* external.                                                               *)
(***************************************************************************)
EXTENDS Naturals, Sequences, FiniteSets, SequencesExt

CONSTANTS
  FeedLen,     \* number of events of the feed
  Schemas,     \* the schemas of their blobs
  Sources,     \* the sources: a schema and an origin (domain, address, meta)
  Limit,       \* GetBstatesParams.Limit
  MaxFaults    \* bound on failing requests

ASSUME QueryAssumption ==
  /\ FeedLen \in Nat /\ Limit \in Nat \ {0} /\ MaxFaults \in Nat
  /\ Sources \subseteq Schemas \X STRING

Positions == 1 .. FeedLen
Event == {[kind |-> "blob", schema |-> s[1], origin |-> s[2]] : s \in Sources} \cup
         [kind : {"corrupt"}, schema : Schemas] \cup {[kind |-> "other"]}

\* GetBstatesResult: the blobs of each source, in the order they were found.
Result  == [Sources -> Seq(Positions)]
NoBlobs == [s \in Sources |-> <<>>]
Blobs(result) == UNION {Range(result[s]) : s \in Sources}

VARIABLES
  feed,      \* the events
  avail,     \* how many of them the cloud has by now
  mode,      \* the command: bstates "once" or "poll" (--continue), "uid" or "raw"
  stopped,   \* the command's context is cancelled
  pc,        \* where the command is
  cid,       \* p.Cid and the variable cid of getBstates
  total,     \* totalBlobs of getBstates
  page,      \* events of the answer that fillStateMap has still to see
  count,     \* its numblobs
  stateMap,  \* the result
  shown,     \* history: of each source, the blobs that showEvents was given
  missed,    \* history: blobs whose schema could not be fetched
  schemas,   \* schemasMap, the cache
  faults     \* number of failed requests

vars == <<feed, avail, mode, stopped, pc, cid, total, page, count,
          stateMap, shown, missed, schemas, faults>>
world == <<feed, mode, stopped>>
polling == mode = "poll"
paged == mode \in {"once", "poll"}

TypeOK ==
  /\ feed \in [Positions -> Event] /\ avail \in 0 .. FeedLen
  /\ mode \in {"once", "poll", "uid", "raw"} /\ stopped \in BOOLEAN
  /\ pc \in {"query", "fill", "show", "done", "failed"}
  /\ cid \in 0 .. avail /\ total \in Nat /\ count \in 0 .. Limit
  /\ page \in Seq(Positions) /\ Len(page) <= Limit
  /\ stateMap \in Result /\ shown \in Result
  /\ missed \subseteq Positions /\ schemas \subseteq Schemas
  /\ faults \in 0 .. MaxFaults

Init ==
  /\ feed \in [Positions -> Event] /\ avail = 0
  /\ mode \in {"once", "poll", "uid", "raw"} /\ stopped = FALSE
  /\ pc = "query" /\ cid = 0 /\ total = 0 /\ page = <<>> /\ count = 0
  /\ stateMap = NoBlobs /\ shown = NoBlobs /\ missed = {} /\ schemas = {} /\ faults = 0

Disturb == faults < MaxFaults /\ faults' = faults + 1

-----------------------------------------------------------------------------
\* Mutant: a full result does not end the loop.
MoreAtLimit(n) == n <= Limit
\* The condition of the loop of getBstates.
More(n) == n < Limit

\* The answer to events.get: at most Limit events after cid.
Answer(n) == [k \in 1 .. n |-> cid + k]

\* The cid moves before the events of the page are looked at.
EventsGet ==
  /\ pc = "query" /\ paged /\ cid < avail
  /\ \E n \in 1 .. Limit : cid + n <= avail /\ page' = Answer(n) /\ cid' = cid + n
  /\ pc' = "fill" /\ count' = 0
  /\ UNCHANGED <<world, avail, total, stateMap, shown, missed, schemas, faults>>

\* getBstates returns with ErrTimeout, which the command ignores.
EventsGetTimeout ==
  /\ pc = "query" /\ paged /\ pc' = "show"
  /\ IF cid < avail THEN Disturb ELSE UNCHANGED faults
  /\ UNCHANGED <<world, avail, cid, total, page, count, stateMap, shown, missed, schemas>>

\* Of one event by its UID; without an answer the command ends.
EventByUID ==
  /\ pc = "query" /\ mode = "uid"
  /\ \E e \in 1 .. avail : page' = <<e>>
  /\ pc' = "fill"
  /\ UNCHANGED <<world, avail, cid, total, count, stateMap, shown, missed, schemas, faults>>

\* The raw events of one page, or the one of a UID, are listed as they came.
RawEvents ==
  /\ pc = "query" /\ mode = "raw" /\ avail > 0 /\ pc' = "done"
  /\ UNCHANGED <<world, avail, cid, total, page, count, stateMap, shown, missed, schemas, faults>>

NoAnswer ==
  /\ pc = "query" /\ ~paged /\ pc' = "failed"
  /\ UNCHANGED <<world, avail, cid, total, page, count, stateMap, shown, missed, schemas, faults>>

\* Any other error ends the command, without showing what it has.
EventsGetFails ==
  /\ pc = "query" /\ paged /\ pc' = "failed" /\ Disturb
  /\ UNCHANGED <<world, avail, cid, total, page, count, stateMap, shown, missed, schemas>>

\* fillStateMap returns: getBstates adds what it found and asks again or ends; for
\* one event GetBstates fails if that is no blob.
EndOfPage ==
  /\ total' = total + count' /\ page' = <<>>
  /\ \/ paged /\ pc' = IF More(total') THEN "query" ELSE "show"
     \/ ~paged /\ pc' = IF total' = 0 THEN "failed" ELSE "show"

\* Mutant: a page is left once the query has its Limit.
NextEventTotal ==
  IF Len(page) > 1 /\ total + count' < Limit
  THEN page' = Tail(page) /\ UNCHANGED <<pc, total>>
  ELSE EndOfPage

\* It goes on with the next event, unless the page has given Limit blobs.
NextEvent ==
  IF Len(page) > 1 /\ count' < Limit
  THEN page' = Tail(page) /\ UNCHANGED <<pc, total>>
  ELSE EndOfPage

Skip ==
  /\ pc = "fill" /\ feed[Head(page)].kind = "other"
  /\ UNCHANGED count /\ NextEvent
  /\ UNCHANGED <<world, avail, cid, stateMap, shown, missed, schemas, faults>>

\* The schema comes from the cache or from the cloud, and is then cached; the blob
\* goes behind those of its source.
SourceOf(e) == <<feed[e].schema, feed[e].origin>>

Blob ==
  /\ pc = "fill" /\ feed[Head(page)].kind = "blob"
  /\ schemas' = schemas \cup {feed[Head(page)].schema}
  /\ stateMap' = [stateMap EXCEPT ![SourceOf(Head(page))] = Append(@, Head(page))]
  /\ count' = count + 1
  /\ NextEvent
  /\ UNCHANGED <<world, avail, cid, shown, missed, faults>>

\* A schema that is not in the cache is not answered in a second: the event is
\* passed over.
SchemaFails ==
  /\ pc = "fill" /\ feed[Head(page)].kind # "other"
  /\ feed[Head(page)].schema \notin schemas /\ Disturb
  /\ missed' = missed \cup {Head(page)} /\ UNCHANGED count /\ NextEvent
  /\ UNCHANGED <<world, avail, cid, stateMap, shown, schemas>>

\* A blob that cannot be decoded is an error: the command ends.
Corrupt ==
  /\ pc = "fill" /\ feed[Head(page)].kind = "corrupt"
  /\ schemas' = schemas \cup {feed[Head(page)].schema}
  /\ pc' = "failed" /\ page' = <<>>
  /\ UNCHANGED <<world, avail, cid, total, count, stateMap, shown, missed, faults>>

\* Each source of the result has a table; in what order they come is not told.
Shown == [s \in Sources |-> shown[s] \o stateMap[s]]

\* Mutant: the context is not asked for.
ShowForever ==
  /\ pc = "show" /\ total' = 0
  /\ shown' = Shown /\ stateMap' = NoBlobs
  /\ pc' = IF polling THEN "query" ELSE "done"
  /\ UNCHANGED <<world, avail, cid, page, count, missed, schemas, faults>>

\* showEvents; a polling command starts over with an empty result.
Show ==
  /\ pc = "show" /\ total' = 0
  /\ shown' = Shown /\ stateMap' = NoBlobs
  /\ pc' = IF polling /\ ~stopped THEN "query" ELSE "done"
  /\ UNCHANGED <<world, avail, cid, page, count, missed, schemas, faults>>

\* The cloud gets another event while the command runs.
Arrive ==
  /\ pc \notin {"done", "failed"} /\ avail < FeedLen /\ avail' = avail + 1
  /\ UNCHANGED <<world, pc, cid, total, page, count, stateMap, shown, missed, schemas, faults>>

\* Only the command that polls asks whether it was interrupted.
Interrupt ==
  /\ polling /\ ~stopped /\ stopped' = TRUE
  /\ UNCHANGED <<feed, avail, mode, pc, cid, total, page, count,
                 stateMap, shown, missed, schemas, faults>>

Command ==
  \/ EventsGet \/ EventByUID \/ RawEvents \/ NoAnswer \/ EventsGetTimeout
  \/ Skip \/ Blob \/ SchemaFails \/ Corrupt \/ Show

Next == Command \/ EventsGetFails \/ Arrive \/ Interrupt

Spec == Init /\ [][Next]_vars

\* Every request is answered or times out.
FairSpec == Spec /\ WF_vars(Command)

-----------------------------------------------------------------------------
\* A source's blobs are shown in the order of the feed and none of them twice, over
\* all pages and polls; nor is a blob shown under another source.
ShownInOrder ==
  \A s \in Sources :
    /\ \A j, k \in DOMAIN shown[s] : j < k => shown[s][j] < shown[s][k]
    /\ \A e \in Range(shown[s]) : feed[e].kind = "blob" /\ SourceOf(e) = s

\* Between two queries every blob behind the ContinuationID was shown, unless its
\* schema could not be fetched: a page is never left before its end.
NothingSkipped ==
  (pc = "query" /\ total = 0 /\ stateMap = NoBlobs) \/ pc = "done" =>
    \A e \in 1 .. cid : feed[e].kind = "blob" => e \in Blobs(shown) \cup missed

\* A blob is passed over only for a schema that was never seen before.
OnlyNewSchemas == \A e \in missed : \A d \in Blobs(shown) :
  d < e => feed[d].schema # feed[e].schema

\* Every blob is shown once and behind the earlier ones of its source, over all pages
\* and polls, or its schema was unknown and could not be fetched.
Complete == ShownInOrder /\ NothingSkipped /\ OnlyNewSchemas

\* What GetBstatesParams promises: Limit is "the maximum number of results to return
\* in the response".  It is the limit of each request that the query makes.
AtMostLimit == Cardinality(Blobs(stateMap)) <= Limit

\* What holds instead: fewer than twice as many.
BoundedAnswer == TypeOK /\ Cardinality(Blobs(stateMap)) < 2 * Limit

\* A command that does not poll comes to its end.
CommandEnds == ~polling ~> pc \in {"done", "failed"}
\* So does one that polls, once it is interrupted.
InterruptEnds == stopped ~> pc \in {"done", "failed"}
\* No command goes on for ever that was not told to.
Ends == CommandEnds /\ InterruptEnds
=============================================================================
