------------------------------ MODULE EventPipe ------------------------------
(***************************************************************************)
(* One event source of the eventpipe package and the pipeline it runs:     *)
(* the producer (eventpipe/event_source.go, producerFunc), the stages (the *)
(* function Push wraps around every user stage) and the storage both work  *)
(* on, through crashes, cancellation of the manager's context, failing     *)
(* storage calls and restarts, possibly with another list of stages.       *)
(*                                                                         *)
(* An event is its position in the feed of the source, 1..FeedLen; a       *)
(* ContinuationID is the position of the last event it covers, and 0 is    *)
(* the empty ContinuationID.                                               *)
(***************************************************************************)
EXTENDS EventStorage, Sequences

CONSTANTS
  FeedLen,       \* number of events of the feed
  Wanted,        \* the events the filter of the source selects
  StartCID,      \* EventSourceParams.ContinuationID, 0 when it is empty
  PageLimit,     \* Limit of an events.get request (100 in the code)
  LoadLimit,     \* limit of loadUnlockedEvents (100 in the code)
  Pipelines,     \* the lists of stages a process may push
  Concurrency,   \* workers of a stage
  BufferSize,    \* input buffer of a stage
  Backend,       \* "sqlite" or "memory"
  Outcomes,      \* what Process may answer
  Faults,        \* the disturbances that may happen
  MaxFaults      \* bound on their number

Feed == 1 .. FeedLen
NoCursor == -1

ASSUME FeedAssumption ==
  /\ FeedLen \in Nat
  /\ Wanted \subseteq Feed
  /\ StartCID \in 0 .. FeedLen

\* Push refuses a second stage with the same name.
ASSUME PipelineAssumption ==
  /\ Pipelines \subseteq Seq(StageNames) \ {<<>>}
  /\ \A p \in Pipelines : \A i, j \in DOMAIN p : p[i] = p[j] => i = j

ASSUME SettingsAssumption ==
  /\ PageLimit \in Nat \ {0} /\ LoadLimit \in Nat \ {0}
  /\ Concurrency \in Nat \ {0} /\ BufferSize \in Nat \ {0}
  /\ Backend \in {"sqlite", "memory"}
  /\ Outcomes \subseteq {"processed", "retry", "remove", "error"}
  /\ Faults \subseteq {"crash", "cancel", "storage", "fetch"}
  /\ MaxFaults \in Nat

VARIABLES
  items,      \* the items table of the source
  cursor,     \* the cursor column of its sources row, NoCursor without a row
  pc,         \* where producerFunc is; "down" when nothing runs
  cancelled,  \* the manager's context is cancelled
  failed,     \* a stage returned an error: the pipeline is being torn down
  pos,        \* producerFunc's cursor variable
  loaded,     \* storageEvents still to be put
  page,       \* fetched events still to be pushed
  flight,     \* the events between put and the end of their passage
  stages,     \* the stages of the running source
  finished,   \* history: events a stage removed or the last one processed
  faults      \* number of disturbances so far

localVars == <<pos, loaded, page>>
runVars   == <<cancelled, failed, stages>>
vars == <<items, cursor, pc, cancelled, failed, pos, loaded, page,
          flight, stages, finished, faults>>

LastStage == Len(stages)

ProducerStates == {"down", "unlock", "cursor", "wait", "load", "lock", "put",
                   "fetch", "push", "stopped"}

(***************************************************************************)
(* A pipelineItem on its way: the stage it is at and what that stage is    *)
(* doing with it.  "queued" is the input buffer, "process" the call of the *)
(* user's Process, "out" the wait for room in the next stage; the others   *)
(* are the storage calls still to make: "remove" the Delete, "advance" and *)
(* "retry" the Update after Processed true and false, "unlock" the Unlock. *)
(* An item with passthrough set no longer touches the stages nor the       *)
(* storage and is not kept; PassthroughCancelled is what it can still do.  *)
(***************************************************************************)
Phases == {"queued", "process", "remove", "advance", "retry", "unlock", "out"}

PipelineItem ==
  [ev : Feed, at : Nat \ {0}, phase : Phases, done : SUBSET StageNames]

TypeOK ==
  /\ DOMAIN items \subseteq Feed /\ items \in [DOMAIN items -> Row]
  /\ cursor \in {NoCursor} \cup 0 .. FeedLen
  /\ pc \in ProducerStates
  /\ cancelled \in BOOLEAN /\ failed \in BOOLEAN
  /\ pos \in 0 .. FeedLen
  /\ loaded \subseteq EventItem(Feed)
  /\ page \subseteq Wanted
  /\ flight \subseteq PipelineItem
  /\ stages \in Pipelines
  /\ finished \subseteq Feed
  /\ faults \in 0 .. MaxFaults

Init ==
  /\ items = EmptyTable /\ cursor = NoCursor
  /\ pc = "down" /\ cancelled = FALSE /\ failed = FALSE
  /\ pos = 0 /\ loaded = {} /\ page = {} /\ flight = {}
  /\ stages \in Pipelines
  /\ finished = {} /\ faults = 0

-----------------------------------------------------------------------------
\* A disturbance of kind k, one of at most MaxFaults.
Disturb(k) == k \in Faults /\ faults < MaxFaults /\ faults' = faults + 1

(***************************************************************************)
(* The context of every SQL call derives from the manager's: once that is  *)
(* cancelled they all fail.  The memory backend never fails.               *)
(***************************************************************************)
Closed == Backend = "sqlite" /\ cancelled
StorageWorks == ~Closed /\ UNCHANGED faults
StorageFails == \/ Closed /\ UNCHANGED faults
                \/ Backend = "sqlite" /\ ~Closed /\ Disturb("storage")

\* The return of producerFunc; buildProducer's deferred cancel runs with it.
StopProducer ==
  /\ pc' = "stopped" /\ cancelled' = TRUE
  /\ pos' = 0 /\ loaded' = {} /\ page' = {}
  /\ UNCHANGED <<items, cursor, failed, stages, flight, finished>>

\* What Run leaves behind when the process or the pipeline is gone.
Halt ==
  /\ pc' = "down" /\ cancelled' = FALSE /\ failed' = FALSE
  /\ pos' = 0 /\ loaded' = {} /\ page' = {} /\ flight' = {}
  /\ UNCHANGED <<items, cursor, stages, finished>>

\* A process builds the manager, the source and its stages, and calls Run.
\* The memory backend starts empty.
Start ==
  /\ pc = "down" /\ pc' = "unlock"
  /\ stages' \in Pipelines
  /\ IF Backend = "sqlite" THEN UNCHANGED <<items, cursor>>
                           ELSE items' = EmptyTable /\ cursor' = NoCursor
  /\ UNCHANGED <<cancelled, failed, pos, loaded, page, flight, finished, faults>>

-----------------------------------------------------------------------------
(* The producer. *)

\* unlockAllEvents unlocks the locked rows one at a time, oldest first, ...
UnlockNext ==
  /\ pc = "unlock" /\ StorageWorks
  /\ \E e \in Oldest(items, LockedRows(items), 1) :
       items' = SetLocked(items, e, FALSE)
  /\ UNCHANGED <<cursor, pc, localVars, runVars, flight, finished>>

\* Mutant: the rows an earlier run left locked are not all unlocked.
UnlockedSome ==
  /\ pc = "unlock" /\ StorageWorks
  /\ pc' = "cursor"
  /\ UNCHANGED <<items, cursor, localVars, runVars, flight, finished>>

\* ... until it finds none.
UnlockedAll ==
  /\ pc = "unlock" /\ StorageWorks /\ LockedRows(items) = {}
  /\ pc' = "cursor"
  /\ UNCHANGED <<items, cursor, localVars, runVars, flight, finished>>

\* Mutant: a source without a row is taken to have a cursor.
ReadCursorUnchecked ==
  /\ pc = "cursor" /\ pc' = "wait"
  /\ StorageWorks /\ pos' = cursor
  /\ UNCHANGED <<items, cursor, loaded, page, runVars, flight, finished>>

\* Any error of GetCursor, a missing row or a failed query, selects the
\* ContinuationID of the parameters.
ReadCursor ==
  /\ pc = "cursor" /\ pc' = "wait"
  /\ \/ StorageWorks /\ cursor # NoCursor /\ pos' = cursor
     \/ StorageWorks /\ cursor = NoCursor /\ pos' = StartCID
     \/ StorageFails /\ pos' = StartCID
  /\ UNCHANGED <<items, cursor, loaded, page, runVars, flight, finished>>

WaitOver ==
  /\ pc = "wait" /\ ~cancelled
  /\ pc' = "load"
  /\ UNCHANGED <<items, cursor, localVars, runVars, flight, finished, faults>>

WaitCancelled == pc = "wait" /\ cancelled /\ StopProducer /\ UNCHANGED faults

Load ==
  /\ pc = "load" /\ StorageWorks
  /\ pc' = "lock"
  /\ loaded' = Snapshot(items, Oldest(items, UnlockedRows(items), LoadLimit))
  /\ UNCHANGED <<items, cursor, pos, page, runVars, flight, finished>>

\* The event the loop over storageEvents is at, if there is one.
NextLoaded ==
  {it \in loaded :
     it = CHOOSE first \in loaded : \A o \in loaded : first.order <= o.order}

LockNext ==
  /\ pc = "lock" /\ StorageWorks
  /\ pc' = "put"
  /\ \E it \in NextLoaded : items' = SetLocked(items, it.ev, TRUE)
  /\ UNCHANGED <<cursor, localVars, runVars, flight, finished>>

Queued(k) == {i \in flight : i.at = k /\ i.phase = "queued"}
Busy(k)   == {i \in flight : i.at = k /\ i.phase # "queued"}
Room(k)   == Cardinality(Queued(k)) < BufferSize

Put ==
  /\ pc = "put" /\ Room(1)
  /\ pc' = "lock"
  /\ \E it \in NextLoaded :
       /\ flight' = flight \cup
            {[ev |-> it.ev, at |-> 1, phase |-> "queued", done |-> it.done]}
       /\ loaded' = loaded \ {it}
  /\ UNCHANGED <<items, cursor, pos, page, runVars, finished, faults>>

PutAll ==
  /\ pc = "lock" /\ loaded = {} /\ ~cancelled
  /\ pc' = "fetch"
  /\ UNCHANGED <<items, cursor, localVars, runVars, flight, finished, faults>>

PutAllCancelled ==
  pc = "lock" /\ loaded = {} /\ cancelled /\ StopProducer /\ UNCHANGED faults

\* A page ends at q, the position of the ContinuationID that comes with it.
\* Without events there is nothing to push, and no UpdateCursor.
FetchPage ==
  /\ pc = "fetch" /\ ~cancelled
  /\ \E q \in pos + 1 .. FeedLen :
       LET events == Wanted \cap (pos + 1 .. q)
       IN  /\ Cardinality(events) <= PageLimit
           /\ pos' = q /\ page' = events
           /\ pc' = IF events = {} THEN "wait" ELSE "push"
  /\ UNCHANGED <<items, cursor, loaded, runVars, flight, finished, faults>>

\* Mutant: the cursor is lost with a poll that times out.
FetchTimeoutForgets ==
  /\ pc = "fetch" /\ pc' = "wait" /\ pos' = 0
  /\ UNCHANGED <<items, cursor, loaded, page, runVars, flight, finished, faults>>

\* ErrTimeout is also what the client answers when the context is cancelled.
FetchTimeout ==
  /\ pc = "fetch" /\ pc' = "wait"
  /\ UNCHANGED <<items, cursor, localVars, runVars, flight, finished, faults>>

FetchFails == pc = "fetch" /\ Disturb("fetch") /\ StopProducer

NextPushed == {e \in page : \A o \in page : e <= o}

\* The primary key of the items table refuses an event that is still there.
Refused(e) == Backend = "sqlite" /\ e \in DOMAIN items

PushNext ==
  /\ pc = "push" /\ StorageWorks
  /\ \E e \in NextPushed :
       /\ ~Refused(e)
       /\ items' = PushRow(items, e)
       /\ page' = page \ {e}
  /\ cursor' = IF cursor = NoCursor THEN 0 ELSE cursor
  /\ UNCHANGED <<pc, pos, loaded, runVars, flight, finished>>

PushRefused ==
  /\ pc = "push" /\ StorageWorks
  /\ \E e \in NextPushed : Refused(e)
  /\ StopProducer

\* Mutant: the cursor is stored before all events of the page are.
UpdateCursorEarly ==
  /\ pc = "push" /\ StorageWorks
  /\ cursor' = pos /\ pc' = "wait" /\ page' = {}
  /\ UNCHANGED <<items, pos, loaded, runVars, flight, finished>>

UpdateCursor ==
  /\ pc = "push" /\ page = {} /\ StorageWorks
  /\ cursor' = pos /\ pc' = "wait"
  /\ UNCHANGED <<items, localVars, runVars, flight, finished>>

\* The storage call producerFunc is at fails, and producerFunc returns.
ProducerFails ==
  /\ pc \in {"unlock", "load", "push"} \/ (pc = "lock" /\ loaded # {})
  /\ StorageFails /\ StopProducer

-----------------------------------------------------------------------------
(* A stage, on the item i it holds. *)

Move(i, phase) == flight' = (flight \ {i}) \cup {[i EXCEPT !.phase = phase]}
Leave(i)       == flight' = flight \ {i}

\* The stage function returns an error: the item is gone, the pipeline too.
Abort(i) ==
  /\ Leave(i) /\ failed' = TRUE
  /\ UNCHANGED <<items, cursor, pc, localVars, cancelled, stages>>

producerAndRun == <<cursor, pc, localVars, runVars>>

StageCancelled(i) ==
  /\ i.phase = "queued" /\ Cardinality(Busy(i.at)) < Concurrency
  /\ cancelled
  /\ Abort(i) /\ UNCHANGED <<finished, faults>>

\* The context is looked at before passthrough is, so an item on its way out
\* fails the pipeline as well.
PassthroughCancelled ==
  /\ pc # "down" /\ cancelled /\ ~failed
  /\ failed' = TRUE
  /\ UNCHANGED <<items, cursor, pc, cancelled, localVars, flight, stages,
                 finished, faults>>

Skip(i) ==
  /\ i.phase = "queued" /\ Cardinality(Busy(i.at)) < Concurrency
  /\ ~cancelled /\ stages[i.at] \in i.done
  /\ Move(i, "out")
  /\ UNCHANGED <<items, producerAndRun, finished, faults>>

\* Mutant: processedStages is not consulted.
CallProcessAgain(i) ==
  /\ i.phase = "queued" /\ Cardinality(Busy(i.at)) < Concurrency
  /\ ~cancelled
  /\ Move(i, "process")
  /\ UNCHANGED <<items, producerAndRun, finished, faults>>

CallProcess(i) ==
  /\ i.phase = "queued" /\ Cardinality(Busy(i.at)) < Concurrency
  /\ ~cancelled /\ stages[i.at] \notin i.done
  /\ Move(i, "process")
  /\ UNCHANGED <<items, producerAndRun, finished, faults>>

\* Mutant: every stage deletes what it processed.
AfterProcessEager(i, answer) == IF answer = "processed" THEN "remove" ELSE answer
\* What is left to do after Process answered: Remove || (Processed && isLastStage)
\* deletes the event.
AfterProcess(i, answer) ==
  IF answer = "processed"
    THEN IF i.at = LastStage THEN "remove" ELSE "advance"
    ELSE answer

\* The stage is done with the event for good (a history variable keeps these).
Final(i, answer) ==
  answer = "remove" \/ (answer = "processed" /\ i.at = LastStage)

ProcessReturns(i, answer) ==
  /\ i.phase = "process" /\ answer # "error"
  /\ Move(i, AfterProcess(i, answer))
  /\ finished' = IF Final(i, answer) THEN finished \cup {i.ev} ELSE finished
  /\ UNCHANGED <<items, producerAndRun, faults>>

ProcessFails(i) ==
  i.phase = "process" /\ "error" \in Outcomes /\ Abort(i)
  /\ UNCHANGED <<finished, faults>>

DeleteEvent(i) ==
  /\ i.phase = "remove" /\ StorageWorks
  /\ items' = DeleteRow(items, i.ev)
  /\ Leave(i)
  /\ UNCHANGED <<producerAndRun, finished>>

\* The result of deleteEvent is not looked at.
DeleteEventFails(i) ==
  /\ i.phase = "remove" /\ StorageFails
  /\ Leave(i)
  /\ UNCHANGED <<items, producerAndRun, finished>>

\* Mutant: the stage forgets to record that it processed the event.
NewDoneForgets(i) == i.done

\* The context the stage writes back: its own name set to Processed.
NewDone(i) == IF i.phase = "advance" THEN i.done \cup {stages[i.at]}
                                     ELSE i.done \ {stages[i.at]}

AfterUpdate(i) == IF i.phase = "advance" THEN "out" ELSE "unlock"

UpdateEvent(i) ==
  /\ i.phase \in {"advance", "retry"} /\ StorageWorks
  /\ items' = SetDone(items, i.ev, NewDone(i))
  /\ flight' = (flight \ {i}) \cup
       {[i EXCEPT !.phase = AfterUpdate(i), !.done = NewDone(i)]}
  /\ UNCHANGED <<producerAndRun, finished>>

\* Mutant: an event to be retried stays locked.
UnlockEventNot(i) ==
  /\ i.phase = "unlock" /\ StorageWorks
  /\ Leave(i)
  /\ UNCHANGED <<items, producerAndRun, finished>>

UnlockEvent(i) ==
  /\ i.phase = "unlock" /\ StorageWorks
  /\ items' = SetLocked(items, i.ev, FALSE)
  /\ Leave(i)
  /\ UNCHANGED <<producerAndRun, finished>>

StageStorageFails(i) ==
  /\ i.phase \in {"advance", "retry", "unlock"} /\ StorageFails
  /\ Abort(i) /\ UNCHANGED finished

\* On to the input buffer of the next stage ...
Forward(i) ==
  /\ i.phase = "out" /\ i.at < LastStage /\ Room(i.at + 1)
  /\ flight' = (flight \ {i}) \cup {[i EXCEPT !.phase = "queued", !.at = i.at + 1]}
  /\ UNCHANGED <<items, producerAndRun, finished, faults>>

\* ... or out of the pipeline, after a last stage that was skipped.
LeavePipeline(i) ==
  /\ i.phase = "out" /\ i.at = LastStage
  /\ Leave(i)
  /\ UNCHANGED <<items, producerAndRun, finished, faults>>

-----------------------------------------------------------------------------
(* The environment. *)

Cancel ==
  /\ pc # "down" /\ ~cancelled /\ Disturb("cancel")
  /\ cancelled' = TRUE
  /\ UNCHANGED <<items, cursor, pc, localVars, failed, stages, flight, finished>>

Crash == pc # "down" /\ Disturb("crash") /\ Halt

\* Run returns: the producer and all stages are done, or the pipeline library
\* tore the rest down after an error of a stage.
RunReturns ==
  /\ \/ pc = "stopped" /\ flight = {}
     \/ pc # "down" /\ failed
  /\ Halt /\ UNCHANGED faults

Producer ==
  \/ UnlockNext \/ UnlockedAll \/ ReadCursor \/ WaitOver \/ WaitCancelled
  \/ Load \/ LockNext \/ Put \/ PutAll \/ PutAllCancelled
  \/ FetchPage \/ FetchTimeout \/ PushNext \/ PushRefused
  \/ UpdateCursor \/ ProducerFails \/ FetchFails

Stage(i) ==
  \/ StageCancelled(i) \/ Skip(i) \/ CallProcess(i)
  \/ \E answer \in Outcomes : ProcessReturns(i, answer)
  \/ ProcessFails(i) \/ DeleteEvent(i) \/ DeleteEventFails(i)
  \/ UpdateEvent(i) \/ UnlockEvent(i) \/ StageStorageFails(i)
  \/ Forward(i) \/ LeavePipeline(i)

Next ==
  \/ Start \/ Producer \/ RunReturns \/ Cancel \/ Crash
  \/ PassthroughCancelled
  \/ \E i \in flight : Stage(i)

Spec == Init /\ [][Next]_vars
-----------------------------------------------------------------------------
(***************************************************************************)
(* Fairness.  The goroutines of the producer and of the workers are always *)
(* scheduled again, Run returns once they are done, and whoever runs the   *)
(* source starts it again.  Of the world outside: a poll that is repeated  *)
(* for ever is answered (FetchPage), and a stage that is called again and  *)
(* again for an event answers Processed in the end.                        *)
(***************************************************************************)
StageOf(e)     == \E i \in flight : i.ev = e /\ Stage(i)
ProcessedOf(e) == \E i \in flight : i.ev = e /\ ProcessReturns(i, "processed")

Fairness ==
  /\ WF_vars(Start) /\ WF_vars(Producer) /\ WF_vars(RunReturns)
  /\ SF_vars(FetchPage)
  /\ \A e \in Feed : WF_vars(StageOf(e)) /\ SF_vars(ProcessedOf(e))

FairSpec == Spec /\ Fairness

-----------------------------------------------------------------------------
(* Properties. *)

Due == {e \in Wanted : e > StartCID}

\* No event is lost: one that the stored cursor is past is in the storage,
\* unless a stage removed it or the last stage processed it.  It rests on the
\* order of pushEvent and UpdateCursor in producerFunc, across crashes and
\* restarts at any point between them.
NoEventLost ==
  \A e \in Due : e <= cursor => e \in DOMAIN items \/ e \in finished

\* An event is in the pipeline once: what is loaded is not in flight, and no
\* two items carry the same event, although the producer loads pending events
\* again on every turn while stages still work on those of earlier turns.
OneActiveItem ==
  /\ \A i, j \in flight : i.ev = j.ev => i = j
  /\ \A it \in loaded : \A i \in flight : i.ev # it.ev

\* An event reaches a stage only after the storage knows that the earlier
\* stages processed it, so that a restart resumes at that stage.
ResumePoint ==
  \A i \in flight :
    /\ i.ev \in DOMAIN items
    /\ \A k \in 1 .. i.at - 1 : stages[k] \in items[i.ev].done

\* A stage is never called for an event the storage records as processed by
\* it (EventStageOutput: "will not be retried again in the stages where the
\* event was already processed").
NoRepeatedStage ==
  \A i \in flight :
    i.phase = "process" => stages[i.at] \notin items[i.ev].done

\* While a run is healthy, every locked row is held by an item in flight or
\* about to be put: a locked row that nobody holds is not loaded again before
\* a restart.
Healthy == pc \notin {"down", "unlock", "stopped"} /\ ~failed /\ ~cancelled

Held == {i.ev : i \in flight} \cup
        (IF pc = "put" THEN {it.ev : it \in NextLoaded} ELSE {})

NoOrphan == Healthy => LockedRows(items) \subseteq Held

\* A healthy run keeps no row of an event that is finished, except while the
\* Delete is still to come.
RemovedWhenDone ==
  Healthy => \A e \in finished \cap DOMAIN items :
               \E i \in flight : i.ev = e /\ i.phase = "remove"

\* Pending events are ordered as the feed is, so that loading the oldest
\* order_index first is first in, first out.
FeedOrder ==
  \A e, f \in DOMAIN items : e < f => items[e].order < items[f].order

\* First in, first out: the pending rows follow the feed, whatever is deleted
\* meanwhile, and no row of a finished event stays among them.
OneByOne == FeedOrder /\ RemovedWhenDone

\* A row leaves the storage only when a stage removed its event or the last
\* stage processed it.
OnlyFinishedLeave ==
  [][\A e \in DOMAIN items \ DOMAIN items' : e \in finished]_vars

(***************************************************************************)
(* The pipeline implements AtLeastOnce.  A call is open from the call of   *)
(* Process until its outcome is in the storage or is lost; which storage   *)
(* call is still to come says what its result was.                         *)
(***************************************************************************)
ResultOf == [process |-> "none", remove |-> "settled",
             advance |-> "passed", retry |-> "again"]

OpenCalls ==
  {[ev |-> i.ev, at |-> i.at, result |-> ResultOf[i.phase]] :
     i \in {j \in flight : j.phase \in DOMAIN ResultOf}}

Promise == INSTANCE AtLeastOnce WITH
             Events <- Feed, Durable <- Backend = "sqlite",
             record <- [e \in DOMAIN items |-> items[e].done],
             settled <- finished, acked <- {e \in Due : e <= cursor},
             calls <- OpenCalls

\* Whatever the interleaving of producer and stages, the crashes, the lost
\* storage calls and the restarts with other stages: an event is stored before
\* the cloud is told so, goes through its stages in order and one call at a
\* time, and leaves the storage only when a stage settled it.
KeepsPromise == Promise!Spec

\* The stored cursor never moves back.
CursorMonotone == [][cursor <= cursor']_vars

\* Every event the feed still holds for the source is finished some day, and
\* the storage is empty then.
AllFinished == <>(Due \subseteq finished /\ DOMAIN items = {})
=============================================================================
