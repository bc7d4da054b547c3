----------------------------- MODULE AtLeastOnce -----------------------------
(***************************************************************************)
(* What an event source promises its stages (eventpipe/event_source.go),   *)
(* without tables, locks, goroutines or buffers.  An event that is stored  *)
(* has a record of the stages that processed it.  A stage is called for it *)
(* only when the stages before it are on record and it is not, and never   *)
(* while another call for that event is open.  What comes of a call may    *)
(* be lost, and the call is then made again; the event itself leaves the   *)
(* store only once a stage settled it, and the source acknowledges to the  *)
(* cloud only what is stored or settled.                                   *)
(***************************************************************************)
EXTENDS Naturals, Sequences

CONSTANTS
  Events,      \* the events of the feed
  Pipelines,   \* the lists of stages a process may push
  Durable      \* the store outlives the process

VARIABLES
  stages,      \* the stages of the process that runs, or ran last
  record,      \* the stored events, with the stages that processed each
  settled,     \* the events a stage has settled: removed, or processed last
  acked,       \* the events the stored cursor is past
  calls        \* the open calls: of an event, at a stage, with their result

contract == <<stages, record, settled, acked, calls>>

Stored == DOMAIN record

Init ==
  /\ stages \in Pipelines
  /\ record = [e \in {} |-> {}]
  /\ settled = {} /\ acked = {} /\ calls = {}

\* A process starts, maybe with other stages.
Deploy ==
  /\ calls = {}
  /\ stages' \in Pipelines
  /\ IF Durable THEN UNCHANGED <<record, acked>>
                ELSE record' = [e \in {} |-> {}] /\ acked' = {}
  /\ UNCHANGED <<settled, calls>>

\* A fetched event is stored; one that was settled before may come again.
Accept(e) ==
  /\ e \notin Stored
  /\ record' = [x \in Stored \cup {e} |-> IF x = e THEN {} ELSE record[x]]
  /\ UNCHANGED <<stages, settled, acked, calls>>

Acknowledge ==
  /\ acked' \subseteq Stored \cup settled
  /\ UNCHANGED <<stages, record, settled, calls>>

Begin(e, k) ==
  /\ e \in Stored /\ \A c \in calls : c.ev # e
  /\ \A j \in 1 .. k - 1 : stages[j] \in record[e]
  /\ stages[k] \notin record[e]
  /\ calls' = calls \cup {[ev |-> e, at |-> k, result |-> "none"]}
  /\ UNCHANGED <<stages, record, settled, acked>>

\* Process answers: only a stage that is not the last passes an event on.
End(c, result) ==
  /\ c.result = "none"
  /\ result = "passed" => c.at < Len(stages)
  /\ calls' = (calls \ {c}) \cup {[c EXCEPT !.result = result]}
  /\ settled' = IF result = "settled" THEN settled \cup {c.ev} ELSE settled
  /\ UNCHANGED <<stages, record, acked>>

\* The answer reaches the store, ...
Delete(c) ==
  /\ c.result = "settled" /\ calls' = calls \ {c}
  /\ record' = [x \in Stored \ {c.ev} |-> record[x]]
  /\ UNCHANGED <<stages, settled, acked>>

Save(c) ==
  /\ c.result = "passed" /\ calls' = calls \ {c}
  /\ record' = [record EXCEPT ![c.ev] = @ \cup {stages[c.at]}]
  /\ UNCHANGED <<stages, settled, acked>>

\* ... leaves no trace there, because the stage wants the event again or the
\* answer is lost, ...
Forget(c) ==
  calls' = calls \ {c} /\ UNCHANGED <<stages, record, settled, acked>>

\* ... or the process stops with all its calls.
Stop == calls' = {} /\ UNCHANGED <<stages, record, settled, acked>>

Next ==
  \/ Deploy \/ Acknowledge \/ Stop
  \/ \E e \in Events : Accept(e) \/ \E k \in DOMAIN stages : Begin(e, k)
  \/ \E c \in calls :
       \/ \E result \in {"settled", "passed", "again"} : End(c, result)
       \/ Delete(c) \/ Save(c) \/ Forget(c)

Spec == Init /\ [][Next]_contract
=============================================================================
