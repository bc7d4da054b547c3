-------------------------- MODULE EventPipe_proofs --------------------------
(***************************************************************************)
(* Proofs about EventPipe, for every feed, pipeline, backend and set of    *)
(* disturbances.  IInv is the inductive invariant; its conjuncts say what  *)
(* the safety properties of EventPipe rest on.                             *)
(***************************************************************************)
EXTENDS EventPipe, TLAPS, WellFoundedInduction

-----------------------------------------------------------------------------
(* The statements on the table of items: what each changes and leaves alone. *)

\* MAX(order_index), or 0, is a natural number.
LEMMA MaxOrderType ==
  ASSUME NEW T, T \in [DOMAIN T -> Row]
  PROVE  MaxOrder(T) \in Nat
<1> DEFINE orders == {T[e].order : e \in DOMAIN T}
           IsMax(m) == m \in orders /\ \A n \in orders : n <= m
<1>1. orders \subseteq Nat
  BY DEF Row
<1>2. CASE \E m \in orders : IsMax(m)
  <2>1. (CHOOSE m \in orders : IsMax(m)) \in orders
    BY <1>2
  <2> QED BY <1>1, <1>2, <2>1 DEF MaxOrder
<1>3. CASE ~ \E m \in orders : IsMax(m)
  BY <1>3 DEF MaxOrder
<1> QED BY <1>2, <1>3

\* A pushed row is unlocked and without context; the others stay.
LEMMA PushRowFacts ==
  ASSUME NEW T, T \in [DOMAIN T -> Row], NEW e
  PROVE  /\ DOMAIN PushRow(T, e) = DOMAIN T \cup {e}
         /\ PushRow(T, e) \in [DOMAIN T \cup {e} -> Row]
         /\ \A x \in DOMAIN T : x # e => PushRow(T, e)[x] = T[x]
         /\ ~PushRow(T, e)[e].locked
<1>1. MaxOrder(T) + 1 \in Nat
  BY MaxOrderType
<1> QED BY <1>1 DEF PushRow, Row

LEMMA DeleteRowFacts ==
  ASSUME NEW T, T \in [DOMAIN T -> Row], NEW e
  PROVE  /\ DOMAIN DeleteRow(T, e) = DOMAIN T \ {e}
         /\ DeleteRow(T, e) \in [DOMAIN T \ {e} -> Row]
         /\ \A x \in DOMAIN T \ {e} : DeleteRow(T, e)[x] = T[x]
BY DEF DeleteRow

\* Lock and Unlock write one column of one row.
LEMMA LockFacts ==
  ASSUME NEW T, T \in [DOMAIN T -> Row], NEW e
  PROVE  /\ DOMAIN SetLocked(T, e, TRUE) = DOMAIN T
         /\ SetLocked(T, e, TRUE) \in [DOMAIN T -> Row]
         /\ \A x \in DOMAIN T :
              /\ SetLocked(T, e, TRUE)[x].done = T[x].done
              /\ x = e => SetLocked(T, e, TRUE)[x].locked
              /\ x # e => SetLocked(T, e, TRUE)[x] = T[x]
BY DEF SetLocked, Row

LEMMA UnlockFacts ==
  ASSUME NEW T, T \in [DOMAIN T -> Row], NEW e
  PROVE  /\ DOMAIN SetLocked(T, e, FALSE) = DOMAIN T
         /\ SetLocked(T, e, FALSE) \in [DOMAIN T -> Row]
         /\ \A x \in DOMAIN T : x # e => SetLocked(T, e, FALSE)[x] = T[x]
BY DEF SetLocked, Row

\* Update writes the context of one row.
LEMMA SetDoneFacts ==
  ASSUME NEW T, T \in [DOMAIN T -> Row], NEW e, NEW d \in SUBSET StageNames
  PROVE  /\ DOMAIN SetDone(T, e, d) = DOMAIN T
         /\ SetDone(T, e, d) \in [DOMAIN T -> Row]
         /\ \A x \in DOMAIN T :
              /\ SetDone(T, e, d)[x].locked = T[x].locked
              /\ x = e => SetDone(T, e, d)[x].done = d
              /\ x # e => SetDone(T, e, d)[x].done = T[x].done
BY DEF SetDone, Row

\* Reading a set of rows gives one item for each, with its context.
LEMMA SnapshotFacts ==
  ASSUME NEW T, T \in [DOMAIN T -> Row], NEW S \in SUBSET DOMAIN T
  PROVE  \A it \in Snapshot(T, S) :
           /\ it \in EventItem(S)
           /\ it.done = T[it.ev].done
           /\ \A o \in Snapshot(T, S) : o.ev = it.ev => o = it
BY DEF Snapshot, EventItem, Row

LEMMA OldestFacts ==
  ASSUME NEW T, NEW S, NEW n
  PROVE  Oldest(T, S, n) \subseteq S
BY DEF Oldest

\* Lock and Unlock leave the order and the contexts of all rows alone.
LEMMA LockKeeps ==
  ASSUME NEW T, T \in [DOMAIN T -> Row], NEW e
  PROVE  \A x \in DOMAIN T : SetLocked(T, e, TRUE)[x].order = T[x].order
BY DEF SetLocked, Row

LEMMA UnlockKeeps ==
  ASSUME NEW T, T \in [DOMAIN T -> Row], NEW e
  PROVE  \A x \in DOMAIN T :
           /\ SetLocked(T, e, FALSE)[x].done = T[x].done
           /\ SetLocked(T, e, FALSE)[x].order = T[x].order
           /\ x = e => ~SetLocked(T, e, FALSE)[x].locked
BY DEF SetLocked, Row

\* Update leaves the order alone.
LEMMA SetDoneKeeps ==
  ASSUME NEW T, T \in [DOMAIN T -> Row], NEW e, NEW d
  PROVE  /\ DOMAIN SetDone(T, e, d) = DOMAIN T
         /\ \A x \in DOMAIN T : SetDone(T, e, d)[x].order = T[x].order
BY DEF SetDone, Row

LEMMA PushedRow ==
  ASSUME NEW T, NEW e
  PROVE  PushRow(T, e)[e].done = {} /\ PushRow(T, e)[e].order = MaxOrder(T) + 1
BY DEF PushRow

\* The greatest index is that of a row no other row comes after.
LEMMA MaxOrderIs ==
  ASSUME NEW T, T \in [DOMAIN T -> Row], NEW g \in DOMAIN T,
         \A e \in DOMAIN T : T[e].order <= T[g].order
  PROVE  MaxOrder(T) = T[g].order
<1> DEFINE orders == {T[e].order : e \in DOMAIN T}
           IsMax(m) == m \in orders /\ \A n \in orders : n <= m
<1>1. orders \subseteq Nat
  BY DEF Row
<1>2. IsMax(T[g].order)
  OBVIOUS
<1>3. ASSUME NEW m \in orders, IsMax(m) PROVE m = T[g].order
  <2>1. m <= T[g].order /\ T[g].order <= m /\ m \in Nat /\ T[g].order \in Nat
    BY <1>1, <1>2, <1>3
  <2> QED BY <2>1
<1> QED BY <1>2, <1>3 DEF MaxOrder

-----------------------------------------------------------------------------
(* The inductive invariant. *)

\* What is in memory belongs to a run, and each part of it to a phase of it.
RunInv ==
  /\ pc = "down" => ~cancelled /\ ~failed
  /\ pc \in {"down", "unlock", "cursor"} => flight = {} /\ pos = 0
  /\ loaded # {} => pc \in {"lock", "put"}
  /\ page # {} => pc = "push"
  /\ \A e \in page : e <= pos

\* The memory backend is filled by this run alone, in the order of the feed.
MemoryInv ==
  Backend = "memory" =>
    /\ pc \in {"unlock", "cursor"} => DOMAIN items = {} /\ cursor = NoCursor
    /\ pc \notin {"down", "stopped"} =>
         \A e \in DOMAIN items : e <= pos /\ e \notin page

\* The snapshot of the pending rows is still right when it is used.
LoadedInv ==
  \A it \in loaded :
    /\ it.ev \in DOMAIN items
    /\ it.done = items[it.ev].done
    /\ items[it.ev].locked <=> (pc = "put" /\ it \in NextLoaded)
    /\ \A o \in loaded : o.ev = it.ev => o = it
    /\ \A i \in flight : i.ev # it.ev

\* A row in flight is locked and held by one item, which knows its context.
FlightInv ==
  \A i \in flight :
    /\ i.ev \in DOMAIN items
    /\ items[i.ev].locked
    /\ i.done = items[i.ev].done
    /\ \A j \in flight : j.ev = i.ev => j = i

\* How far an item has come, and what its context says of that.
StageInv ==
  \A i \in flight :
    /\ i.at \in 1 .. Len(stages)
    /\ \A k \in 1 .. i.at - 1 : stages[k] \in i.done
    /\ i.phase = "out" => stages[i.at] \in i.done
    /\ i.phase \in {"process", "retry"} => stages[i.at] \notin i.done
    /\ i.phase = "remove" => i.ev \in finished

Covered(e) == e \in DOMAIN items \/ e \in finished

\* Both cursors have only stored or finished events behind them.
CoverInv ==
  \A e \in Due :
    /\ e <= cursor => Covered(e)
    /\ e <= pos => Covered(e) \/ e \in page

IInv == /\ TypeOK /\ RunInv /\ MemoryInv /\ LoadedInv
        /\ FlightInv /\ StageInv /\ CoverInv

-----------------------------------------------------------------------------
(* The invariant: the initial state, then the steps, by kind. *)

LEMMA InitInv == Init => IInv
<1> SUFFICES ASSUME Init PROVE IInv
  OBVIOUS
<1>1. TypeOK
  <2>1. DOMAIN items \subseteq Feed /\ items \in [DOMAIN items -> Row]
    BY DEF Init, EmptyTable
  <2>2. cancelled \in BOOLEAN /\ failed \in BOOLEAN
    BY DEF Init
  <2>3. /\ cursor \in {NoCursor} \cup 0 .. FeedLen
        /\ pc \in ProducerStates /\ pos \in 0 .. FeedLen
        /\ faults \in 0 .. MaxFaults
    BY FeedAssumption, SettingsAssumption DEF Init, ProducerStates
  <2>4. /\ loaded \subseteq EventItem(Feed) /\ page \subseteq Wanted
        /\ flight \subseteq PipelineItem /\ stages \in Pipelines
        /\ finished \subseteq Feed
    BY DEF Init
  <2> QED BY <2>1, <2>2, <2>3, <2>4 DEF TypeOK
<1>2. RunInv /\ MemoryInv /\ LoadedInv /\ FlightInv /\ StageInv
  BY DEF Init, RunInv, MemoryInv, LoadedInv, FlightInv, StageInv, EmptyTable
<1>3. CoverInv
  BY FeedAssumption DEF Init, CoverInv, NoCursor, Due, Feed
<1> QED BY <1>1, <1>2, <1>3 DEF IInv

\* A disturbance, and a storage call of either outcome, keep the bound.
LEMMA FaultsBounded ==
  ASSUME faults \in 0 .. MaxFaults,
         \/ UNCHANGED faults \/ StorageWorks \/ StorageFails
         \/ \E k \in {"crash", "cancel", "storage", "fetch"} : Disturb(k)
  PROVE  faults' \in 0 .. MaxFaults
BY SettingsAssumption DEF StorageWorks, StorageFails, Disturb

\* producerFunc returns: only what it held in memory is gone.
LEMMA StopProducerStep ==
  ASSUME IInv, StopProducer, faults' \in 0 .. MaxFaults
  PROVE  IInv'
<1> USE DEF IInv, StopProducer
<1>1. TypeOK'
  BY FeedAssumption DEF TypeOK, ProducerStates
<1>2. RunInv' /\ MemoryInv' /\ LoadedInv'
  BY DEF RunInv, MemoryInv, LoadedInv
<1>3. FlightInv' /\ StageInv'
  BY DEF FlightInv, StageInv
<1>4. CoverInv'
  BY FeedAssumption DEF CoverInv, Covered, Due, Feed
<1> QED BY <1>1, <1>2, <1>3, <1>4

\* Nothing is left of a run but the storage.
LEMMA HaltStep ==
  ASSUME IInv, Halt, faults' \in 0 .. MaxFaults
  PROVE  IInv'
<1> USE DEF IInv, Halt
<1>1. TypeOK'
  <2>1. cancelled' \in BOOLEAN /\ failed' \in BOOLEAN
    OBVIOUS
  <2>2. /\ DOMAIN items' \subseteq Feed /\ items' \in [DOMAIN items' -> Row]
        /\ cursor' \in {NoCursor} \cup 0 .. FeedLen
        /\ stages' \in Pipelines /\ finished' \subseteq Feed
    BY DEF TypeOK
  <2>3. /\ pc' \in ProducerStates /\ pos' \in 0 .. FeedLen
        /\ loaded' \subseteq EventItem(Feed) /\ page' \subseteq Wanted
        /\ flight' \subseteq PipelineItem
    BY FeedAssumption DEF ProducerStates
  <2> QED BY <2>1, <2>2, <2>3 DEF TypeOK
<1>2. RunInv' /\ MemoryInv' /\ LoadedInv' /\ FlightInv' /\ StageInv'
  BY DEF RunInv, MemoryInv, LoadedInv, FlightInv, StageInv
<1>3. CoverInv'
  BY FeedAssumption DEF CoverInv, Covered, Due, Feed
<1> QED BY <1>1, <1>2, <1>3

LEMMA StartStep ==
  ASSUME IInv, Start
  PROVE  IInv'
<1> USE DEF IInv, Start
<1>1. TypeOK'
  BY DEF TypeOK, ProducerStates, RunInv, EmptyTable, NoCursor
<1>2. RunInv' /\ LoadedInv' /\ FlightInv' /\ StageInv'
  BY DEF RunInv, LoadedInv, FlightInv, StageInv
<1>3. MemoryInv'
  BY DEF MemoryInv, RunInv, EmptyTable
<1>4. CoverInv'
  BY FeedAssumption, SettingsAssumption
  DEF CoverInv, Covered, Due, Feed, RunInv, NoCursor
<1> QED BY <1>1, <1>2, <1>3, <1>4

-----------------------------------------------------------------------------
(* Steps of the producer that change neither the table nor the flight. *)

LEMMA UnlockedAllStep ==
  ASSUME IInv, UnlockedAll
  PROVE  IInv'
<1> USE DEF IInv, UnlockedAll, localVars, runVars
<1>1. TypeOK'
  BY FaultsBounded DEF TypeOK, ProducerStates
<1>2. RunInv' /\ MemoryInv' /\ LoadedInv'
  BY DEF RunInv, MemoryInv, LoadedInv
<1>3. FlightInv' /\ StageInv'
  BY DEF FlightInv, StageInv
<1>4. CoverInv'
  BY DEF CoverInv, Covered
<1> QED BY <1>1, <1>2, <1>3, <1>4

LEMMA ReadCursorStep ==
  ASSUME IInv, ReadCursor
  PROVE  IInv'
<1> USE DEF IInv, ReadCursor, runVars
<1>1. (pos' = cursor /\ cursor \in 0 .. FeedLen) \/ pos' = StartCID
  BY DEF TypeOK
<1>2. TypeOK'
  <2>1. pos' \in 0 .. FeedLen
    BY <1>1, FeedAssumption
  <2>2. faults' \in 0 .. MaxFaults
    BY FaultsBounded DEF TypeOK
  <2> QED BY <2>1, <2>2 DEF TypeOK, ProducerStates
<1>3. RunInv' /\ LoadedInv'
  BY DEF RunInv, LoadedInv
<1>4. MemoryInv'
  BY DEF MemoryInv, RunInv
<1>5. FlightInv' /\ StageInv'
  BY DEF FlightInv, StageInv
<1>6. CoverInv'
  BY <1>1, FeedAssumption DEF CoverInv, Covered, Due, Feed, TypeOK
<1> QED BY <1>2, <1>3, <1>4, <1>5, <1>6

\* WaitOver, PutAll and FetchTimeout only move the program counter.
LEMMA MoveStep ==
  ASSUME IInv, WaitOver \/ PutAll \/ FetchTimeout
  PROVE  IInv'
<1> USE DEF IInv, WaitOver, PutAll, FetchTimeout, localVars, runVars
<1>1. TypeOK'
  BY DEF TypeOK, ProducerStates
<1>2. RunInv' /\ LoadedInv'
  BY DEF RunInv, LoadedInv
<1>3. MemoryInv'
  BY DEF MemoryInv
<1>4. FlightInv' /\ StageInv'
  BY DEF FlightInv, StageInv
<1>5. CoverInv'
  BY DEF CoverInv, Covered
<1> QED BY <1>1, <1>2, <1>3, <1>4, <1>5

\* The loop over the loaded events ends, and a new page replaces an empty one.
LEMMA FetchPageStep ==
  ASSUME IInv, FetchPage
  PROVE  IInv'
<1>1. PICK q \in pos + 1 .. FeedLen :
        /\ pos' = q /\ page' = Wanted \cap (pos + 1 .. q)
        /\ pc' = IF page' = {} THEN "wait" ELSE "push"
  BY DEF FetchPage
<1> USE <1>1 DEF IInv, FetchPage, runVars
<1>2. pos' \in 0 .. FeedLen
  BY FeedAssumption DEF TypeOK
<1>3. TypeOK'
  BY <1>2 DEF TypeOK, ProducerStates
<1>4. RunInv' /\ LoadedInv'
  BY DEF RunInv, LoadedInv
<1>5. MemoryInv'
  BY FeedAssumption DEF MemoryInv, TypeOK, Feed
<1>6. FlightInv' /\ StageInv'
  BY DEF FlightInv, StageInv
<1>7. CoverInv'
  <2>1. page = {}
    BY DEF RunInv
  <2> QED BY <2>1, FeedAssumption DEF CoverInv, Covered, Due, Feed, TypeOK
<1> QED BY <1>3, <1>4, <1>5, <1>6, <1>7

LEMMA UpdateCursorStep ==
  ASSUME IInv, UpdateCursor
  PROVE  IInv'
<1> USE DEF IInv, UpdateCursor, localVars, runVars
<1>1. TypeOK'
  BY FaultsBounded DEF TypeOK, ProducerStates
<1>2. RunInv' /\ LoadedInv'
  BY DEF RunInv, LoadedInv
<1>3. MemoryInv'
  BY DEF MemoryInv
<1>4. FlightInv' /\ StageInv'
  BY DEF FlightInv, StageInv
<1>5. CoverInv'
  BY DEF CoverInv, Covered
<1> QED BY <1>1, <1>2, <1>3, <1>4, <1>5

\* Cancellation, and what it does to an item on its way out.
LEMMA CancelStep ==
  ASSUME IInv, Cancel \/ PassthroughCancelled
  PROVE  IInv'
<1> USE DEF IInv, Cancel, PassthroughCancelled, localVars
<1>1. TypeOK'
  BY FaultsBounded DEF TypeOK
<1>2. RunInv'
  BY DEF RunInv
<1>3. LoadedInv'
  <2>1. NextLoaded' = NextLoaded
    BY DEF NextLoaded
  <2> QED BY <2>1 DEF LoadedInv
<1>4. MemoryInv' /\ FlightInv' /\ StageInv'
  BY DEF MemoryInv, FlightInv, StageInv
<1>5. CoverInv'
  BY DEF CoverInv, Covered
<1> QED BY <1>1, <1>2, <1>3, <1>4, <1>5

-----------------------------------------------------------------------------
(* Steps of the producer that touch the table or the flight. *)

\* Nothing is in flight yet when the rows of an earlier run are unlocked.
LEMMA UnlockNextStep ==
  ASSUME IInv, UnlockNext
  PROVE  IInv'
<1>1. PICK e : items' = SetLocked(items, e, FALSE)
  BY DEF UnlockNext
<1>2. items \in [DOMAIN items -> Row]
  BY DEF IInv, TypeOK
<1>3. DOMAIN items' = DOMAIN items /\ items' \in [DOMAIN items -> Row]
  BY <1>1, <1>2, UnlockFacts
<1> USE DEF IInv, UnlockNext, localVars, runVars
<1>4. TypeOK'
  BY <1>3, FaultsBounded DEF TypeOK
<1>5. RunInv' /\ LoadedInv' /\ FlightInv' /\ StageInv'
  BY DEF RunInv, LoadedInv, FlightInv, StageInv
<1>6. MemoryInv' /\ CoverInv'
  BY <1>3 DEF MemoryInv, CoverInv, Covered
<1> QED BY <1>4, <1>5, <1>6

\* The rows read are unlocked, so none of them is in flight.
LEMMA LoadStep ==
  ASSUME IInv, Load
  PROVE  IInv'
<1> DEFINE read == Oldest(items, UnlockedRows(items), LoadLimit)
<1> USE DEF IInv
<1>1. read \subseteq UnlockedRows(items) /\ UnlockedRows(items) \subseteq DOMAIN items
  BY OldestFacts DEF UnlockedRows
<1>2. loaded' = Snapshot(items, read) /\ pc = "load" /\ pc' = "lock"
  BY DEF Load
<1>3. \A it \in loaded' :
        /\ it \in EventItem(read)
        /\ it.done = items[it.ev].done
        /\ \A o \in loaded' : o.ev = it.ev => o = it
  <2> HIDE DEF read
  <2> QED BY <1>1, <1>2, SnapshotFacts DEF TypeOK
<1>4. \A it \in loaded' : it.ev \in DOMAIN items /\ ~items[it.ev].locked
  BY <1>1, <1>3 DEF EventItem, UnlockedRows
<1> HIDE DEF read
<1> USE DEF Load, runVars
<1>5. TypeOK'
  <2>1. loaded' \subseteq EventItem(Feed)
    BY <1>1, <1>3 DEF EventItem, TypeOK
  <2>2. faults' \in 0 .. MaxFaults
    BY FaultsBounded DEF TypeOK
  <2> QED BY <1>2, <2>1, <2>2 DEF TypeOK, ProducerStates
<1>6. RunInv' /\ MemoryInv'
  BY <1>2 DEF RunInv, MemoryInv
<1>7. LoadedInv'
  BY <1>2, <1>3, <1>4 DEF LoadedInv, FlightInv
<1>8. FlightInv' /\ StageInv'
  BY DEF FlightInv, StageInv
<1>9. CoverInv'
  BY DEF CoverInv, Covered
<1> QED BY <1>5, <1>6, <1>7, <1>8, <1>9

\* The loop variable is one event, the same for the Lock and the put.
LEMMA NextLoadedSingle ==
  /\ NextLoaded \subseteq loaded
  /\ \A it, o \in NextLoaded : it = o
BY DEF NextLoaded

LEMMA LockNextStep ==
  ASSUME IInv, LockNext
  PROVE  IInv'
<1> USE DEF IInv
<1>1. PICK it \in NextLoaded : items' = SetLocked(items, it.ev, TRUE)
  BY DEF LockNext
<1>2. /\ DOMAIN items' = DOMAIN items /\ items' \in [DOMAIN items -> Row]
      /\ \A x \in DOMAIN items :
           /\ items'[x].done = items[x].done
           /\ x = it.ev => items'[x].locked
           /\ x # it.ev => items'[x] = items[x]
  <2>1. items \in [DOMAIN items -> Row]
    BY DEF TypeOK
  <2> QED BY <1>1, <2>1, LockFacts
<1>3. NextLoaded' = NextLoaded /\ loaded' = loaded /\ pc = "lock" /\ pc' = "put"
  BY DEF LockNext, NextLoaded, localVars
<1> USE DEF LockNext, localVars, runVars
<1>4. TypeOK'
  BY <1>2, FaultsBounded DEF TypeOK, ProducerStates
<1>5. RunInv' /\ StageInv'
  BY DEF RunInv, StageInv
<1>6. MemoryInv'
  BY <1>2 DEF MemoryInv
<1>7. LoadedInv'
  <2>1. \A o \in loaded : items'[o.ev].locked <=> o.ev = it.ev
    BY <1>2, <1>3 DEF LoadedInv
  <2>2. \A o \in loaded : o.ev = it.ev <=> o \in NextLoaded
    BY <1>3, NextLoadedSingle DEF LoadedInv
  <2> QED BY <1>2, <1>3, <2>1, <2>2 DEF LoadedInv
<1>8. FlightInv'
  BY <1>2 DEF FlightInv
<1>9. CoverInv'
  BY <1>2 DEF CoverInv, Covered
<1> QED BY <1>4, <1>5, <1>6, <1>7, <1>8, <1>9

\* A put event was loaded, so it was not in flight, and is locked by now.
LEMMA PutStep ==
  ASSUME IInv, Put
  PROVE  IInv'
<1> USE DEF IInv
<1>1. PICK it \in NextLoaded :
        /\ flight' = flight \cup
             {[ev |-> it.ev, at |-> 1, phase |-> "queued", done |-> it.done]}
        /\ loaded' = loaded \ {it}
  BY DEF Put
<1> DEFINE new == [ev |-> it.ev, at |-> 1, phase |-> "queued", done |-> it.done]
<1>2. it \in loaded /\ pc = "put" /\ pc' = "lock"
  BY NextLoadedSingle DEF Put
<1>3. /\ it.ev \in DOMAIN items /\ items[it.ev].locked
      /\ it.done = items[it.ev].done
      /\ \A i \in flight : i.ev # it.ev
      /\ \A o \in loaded : o.ev = it.ev => o = it
  BY <1>1, <1>2 DEF LoadedInv
<1> USE DEF Put, runVars
<1>4. TypeOK'
  <2>1. new \in PipelineItem
    BY <1>2 DEF TypeOK, EventItem, PipelineItem, Phases
  <2> QED BY <1>1, <1>2, <2>1 DEF TypeOK, ProducerStates
<1>5. RunInv' /\ MemoryInv'
  BY <1>2 DEF RunInv, MemoryInv
<1>6. LoadedInv'
  <2>1. \A o \in loaded' : o \notin NextLoaded
    BY <1>1, NextLoadedSingle
  <2>2. \A o \in loaded' : o \in loaded /\ o # it /\ o.ev # it.ev
    BY <1>1, <1>3
  <2> QED BY <1>1, <1>2, <2>1, <2>2 DEF LoadedInv
<1>7. FlightInv'
  BY <1>1, <1>3 DEF FlightInv
<1>8. StageInv'
  <2>1. 1 \in 1 .. Len(stages)
    BY PipelineAssumption DEF TypeOK
  <2> QED BY <1>1, <2>1 DEF StageInv
<1>9. CoverInv'
  BY DEF CoverInv, Covered
<1> QED BY <1>4, <1>5, <1>6, <1>7, <1>8, <1>9

\* The row that is written is new, whatever the backend.
LEMMA PushNextStep ==
  ASSUME IInv, PushNext
  PROVE  IInv'
<1> USE DEF IInv
<1>1. PICK e \in page : /\ ~Refused(e) /\ items' = PushRow(items, e)
                        /\ page' = page \ {e}
  BY DEF PushNext, NextPushed
<1>2. e \in Wanted /\ e \in Feed /\ pc = "push"
  BY <1>1, FeedAssumption DEF TypeOK, PushNext
<1>3. e \notin DOMAIN items
  BY <1>1, <1>2, SettingsAssumption DEF Refused, MemoryInv
<1>4. /\ DOMAIN items' = DOMAIN items \cup {e}
      /\ items' \in [DOMAIN items \cup {e} -> Row]
      /\ \A x \in DOMAIN items : items'[x] = items[x]
  BY <1>1, <1>3, PushRowFacts DEF TypeOK
<1>5. loaded = {}
  BY <1>2 DEF RunInv
<1> USE DEF PushNext, runVars
<1>6. TypeOK'
  <2>1. cursor' \in {NoCursor} \cup 0 .. FeedLen
    BY FeedAssumption DEF TypeOK
  <2>2. faults' \in 0 .. MaxFaults
    BY FaultsBounded DEF TypeOK
  <2> QED BY <1>1, <1>2, <1>4, <2>1, <2>2 DEF TypeOK
<1>7. RunInv' /\ LoadedInv'
  BY <1>2, <1>5 DEF RunInv, LoadedInv
<1>8. MemoryInv'
  <2>1. e <= pos
    BY <1>1 DEF RunInv
  <2> QED BY <1>1, <1>2, <1>4, <2>1 DEF MemoryInv
<1>9. FlightInv' /\ StageInv'
  BY <1>4 DEF FlightInv, StageInv
<1>10. CoverInv'
  BY <1>1, <1>4, FeedAssumption DEF CoverInv, Covered, Due, Feed, TypeOK, NoCursor
<1> QED BY <1>6, <1>7, <1>8, <1>9, <1>10

-----------------------------------------------------------------------------
(* Steps of the stages. *)

\* An item leaves and the table stays: after an error, or past the last stage.
LEMMA LeaveStep ==
  ASSUME IInv, NEW i \in flight, Leave(i), pc # "down",
         failed' \in BOOLEAN, faults' \in 0 .. MaxFaults,
         UNCHANGED <<items, cursor, pc, cancelled, pos, loaded, page, stages,
                     finished>>
  PROVE  IInv'
<1> USE DEF IInv, Leave
<1>1. TypeOK'
  BY DEF TypeOK
<1>2. RunInv' /\ MemoryInv'
  BY DEF RunInv, MemoryInv
<1>3. LoadedInv'
  <2>1. NextLoaded' = NextLoaded
    BY DEF NextLoaded
  <2> QED BY <2>1 DEF LoadedInv
<1>4. FlightInv' /\ StageInv'
  BY DEF FlightInv, StageInv
<1>5. CoverInv'
  BY DEF CoverInv, Covered
<1> QED BY <1>1, <1>2, <1>3, <1>4, <1>5

\* A stage in a pipeline: its index, its name.
LEMMA StageName ==
  ASSUME TypeOK, NEW k \in 1 .. Len(stages)
  PROVE  /\ stages[k] \in StageNames
         /\ \A j \in 1 .. k - 1 : stages[j] # stages[k]
BY PipelineAssumption DEF TypeOK

\* An item moves on in memory only: to another phase or to the next stage.
LEMMA PassStep ==
  ASSUME IInv, NEW i \in flight, NEW at, NEW phase,
         flight' = (flight \ {i}) \cup
           {[ev |-> i.ev, at |-> at, phase |-> phase, done |-> i.done]},
         at \in 1 .. Len(stages), phase \in Phases,
         \A k \in 1 .. at - 1 : stages[k] \in i.done,
         phase = "out" => stages[at] \in i.done,
         phase \in {"process", "retry"} => stages[at] \notin i.done,
         phase = "remove" => i.ev \in finished',
         finished' \subseteq Feed, finished \subseteq finished',
         UNCHANGED <<items, cursor, pc, cancelled, failed, pos, loaded, page,
                     stages, faults>>
  PROVE  IInv'
<1> DEFINE new == [ev |-> i.ev, at |-> at, phase |-> phase, done |-> i.done]
<1> USE DEF IInv
<1>1. TypeOK'
  <2>1. new \in PipelineItem
    BY PipelineAssumption DEF TypeOK, PipelineItem
  <2> QED BY <2>1 DEF TypeOK
<1>2. RunInv' /\ MemoryInv'
  BY DEF RunInv, MemoryInv
<1>3. LoadedInv'
  <2>1. NextLoaded' = NextLoaded
    BY DEF NextLoaded
  <2> QED BY <2>1 DEF LoadedInv
<1>4. FlightInv'
  BY DEF FlightInv
<1>5. StageInv'
  BY DEF StageInv
<1>6. CoverInv'
  BY DEF CoverInv, Covered
<1> QED BY <1>1, <1>2, <1>3, <1>4, <1>5, <1>6

LEMMA DeleteEventStep ==
  ASSUME IInv, NEW i \in flight, DeleteEvent(i)
  PROVE  IInv'
<1> USE DEF IInv
<1>1. /\ DOMAIN items' = DOMAIN items \ {i.ev}
      /\ items' \in [DOMAIN items \ {i.ev} -> Row]
      /\ \A x \in DOMAIN items \ {i.ev} : items'[x] = items[x]
  BY DeleteRowFacts DEF DeleteEvent, TypeOK
<1>2. i.ev \in finished /\ flight' = flight \ {i}
  BY DEF DeleteEvent, Leave, StageInv
<1> USE DEF DeleteEvent, producerAndRun, localVars, runVars
<1>3. TypeOK'
  BY <1>1, <1>2, FaultsBounded DEF TypeOK
<1>4. RunInv' /\ MemoryInv'
  BY <1>1, <1>2 DEF RunInv, MemoryInv
<1>5. LoadedInv'
  <2>1. NextLoaded' = NextLoaded
    BY DEF NextLoaded
  <2> QED BY <1>1, <1>2, <2>1 DEF LoadedInv
<1>6. FlightInv'
  BY <1>1, <1>2 DEF FlightInv
<1>7. StageInv'
  BY <1>2 DEF StageInv
<1>8. CoverInv'
  BY <1>1, <1>2 DEF CoverInv, Covered
<1> QED BY <1>3, <1>4, <1>5, <1>6, <1>7, <1>8

LEMMA UnlockEventStep ==
  ASSUME IInv, NEW i \in flight, UnlockEvent(i)
  PROVE  IInv'
<1> USE DEF IInv
<1>1. /\ DOMAIN items' = DOMAIN items /\ items' \in [DOMAIN items -> Row]
      /\ \A x \in DOMAIN items : x # i.ev => items'[x] = items[x]
  <2>1. items \in [DOMAIN items -> Row]
    BY DEF TypeOK
  <2> QED BY <2>1, UnlockFacts DEF UnlockEvent
<1>2. flight' = flight \ {i}
  BY DEF UnlockEvent, Leave
<1> USE DEF UnlockEvent, producerAndRun, localVars, runVars
<1>3. TypeOK'
  BY <1>1, <1>2, FaultsBounded DEF TypeOK
<1>4. RunInv' /\ MemoryInv'
  BY <1>1, <1>2 DEF RunInv, MemoryInv
<1>5. LoadedInv'
  <2>1. NextLoaded' = NextLoaded
    BY DEF NextLoaded
  <2> QED BY <1>1, <1>2, <2>1 DEF LoadedInv
<1>6. FlightInv'
  <2>1. \A j \in flight \ {i} : j.ev # i.ev
    BY DEF FlightInv
  <2> QED BY <1>1, <1>2, <2>1 DEF FlightInv
<1>7. StageInv' /\ CoverInv'
  BY <1>1, <1>2 DEF StageInv, CoverInv, Covered
<1> QED BY <1>3, <1>4, <1>5, <1>6, <1>7

\* The stored context and the one in memory change together, and a retry
\* takes no name of an earlier stage away.
LEMMA UpdateEventStep ==
  ASSUME IInv, NEW i \in flight, UpdateEvent(i)
  PROVE  IInv'
<1> USE DEF IInv
<1> DEFINE new == [i EXCEPT !.phase = AfterUpdate(i), !.done = NewDone(i)]
<1>1. i \in PipelineItem /\ i.at \in 1 .. Len(stages)
  BY DEF TypeOK, StageInv
<1>2. stages[i.at] \in StageNames /\ \A k \in 1 .. i.at - 1 : stages[k] # stages[i.at]
  BY <1>1, StageName
<1>3. NewDone(i) \in SUBSET StageNames
  BY <1>1, <1>2 DEF NewDone, PipelineItem
<1>4. /\ new \in PipelineItem /\ new.ev = i.ev /\ new.at = i.at
      /\ new.phase \in {"out", "unlock"} /\ new.done = NewDone(i)
      /\ new.phase = "out" => i.phase = "advance"
  BY <1>1, <1>3 DEF PipelineItem, AfterUpdate, Phases
<1>5. flight' = (flight \ {i}) \cup {new}
  BY DEF UpdateEvent
<1>6. /\ DOMAIN items' = DOMAIN items /\ items' \in [DOMAIN items -> Row]
      /\ \A x \in DOMAIN items :
           /\ items'[x].locked = items[x].locked
           /\ x = i.ev => items'[x].done = NewDone(i)
           /\ x # i.ev => items'[x].done = items[x].done
  <2>1. items \in [DOMAIN items -> Row]
    BY DEF TypeOK
  <2> QED BY <1>3, <2>1, SetDoneFacts DEF UpdateEvent
<1> HIDE DEF new
<1> USE DEF UpdateEvent, producerAndRun, localVars, runVars
<1>7. TypeOK'
  BY <1>4, <1>5, <1>6, FaultsBounded DEF TypeOK
<1>8. RunInv' /\ MemoryInv'
  BY <1>5, <1>6 DEF RunInv, MemoryInv
<1>9. LoadedInv'
  <2>1. NextLoaded' = NextLoaded
    BY DEF NextLoaded
  <2> QED BY <1>4, <1>5, <1>6, <2>1 DEF LoadedInv
<1>10. FlightInv'
  <2>1. \A j \in flight \ {i} : j.ev # i.ev
    BY DEF FlightInv
  <2>2. \A j \in flight \ {i} : /\ j.ev \in DOMAIN items' /\ items'[j.ev].locked
                              /\ j.done = items'[j.ev].done
    BY <1>6, <2>1 DEF FlightInv
  <2>3. new.ev \in DOMAIN items' /\ items'[new.ev].locked
    BY <1>4, <1>6 DEF FlightInv
  <2>4. new.done = items'[new.ev].done
    BY <1>4, <1>6 DEF FlightInv
  <2>5. \A j, k \in flight' : j.ev = k.ev => j = k
    <3>1. \A j, k \in flight \ {i} : j.ev = k.ev => j = k
      BY DEF FlightInv
    <3> QED BY <1>4, <1>5, <2>1, <3>1
  <2> QED BY <1>5, <2>2, <2>3, <2>4, <2>5 DEF FlightInv
<1>11. StageInv'
  <2>1. \A k \in 1 .. i.at - 1 : stages[k] \in NewDone(i)
    BY <1>1, <1>2 DEF StageInv, NewDone
  <2>2. i.phase = "advance" => stages[i.at] \in NewDone(i)
    BY DEF NewDone
  <2>3. /\ new.at \in 1 .. Len(stages)
        /\ \A k \in 1 .. new.at - 1 : stages[k] \in new.done
        /\ new.phase = "out" => stages[new.at] \in new.done
        /\ new.phase \notin {"process", "retry", "remove"}
    BY <1>1, <1>4, <2>1, <2>2
  <2> QED BY <1>5, <2>3 DEF StageInv
<1>12. CoverInv'
  BY <1>6 DEF CoverInv, Covered
<1> QED BY <1>7, <1>8, <1>9, <1>10, <1>11, <1>12

\* The item that the next stage gets.
LEMMA ForwardedItem ==
  ASSUME NEW i \in PipelineItem
  PROVE  [i EXCEPT !.phase = "queued", !.at = i.at + 1] =
           [ev |-> i.ev, at |-> i.at + 1, phase |-> "queued", done |-> i.done]
<1>1. [i EXCEPT !.phase = "queued"] =
        [ev |-> i.ev, at |-> i.at, phase |-> "queued", done |-> i.done]
  BY DEF PipelineItem
<1>2. \A n : [[ev |-> i.ev, at |-> i.at, phase |-> "queued", done |-> i.done]
              EXCEPT !.at = n] =
          [ev |-> i.ev, at |-> n, phase |-> "queued", done |-> i.done]
  OBVIOUS
<1>3. \A n : [i EXCEPT !.phase = "queued", !.at = n] =
             [[i EXCEPT !.phase = "queued"] EXCEPT !.at = n]
  BY DEF PipelineItem
<1> QED BY <1>1, <1>2, <1>3

LEMMA StageStep ==
  ASSUME IInv, NEW i \in flight, Stage(i)
  PROVE  IInv'
<1>1. /\ i \in PipelineItem /\ i.at \in 1 .. Len(stages) /\ i.ev \in Feed
      /\ \A k \in 1 .. i.at - 1 : stages[k] \in i.done
      /\ i.phase = "out" => stages[i.at] \in i.done
      /\ faults \in 0 .. MaxFaults /\ finished \subseteq Feed
      /\ failed \in BOOLEAN
  BY DEF IInv, TypeOK, StageInv, PipelineItem
<1>2. pc # "down"
  BY DEF IInv, RunInv
<1>3. \A phase : [i EXCEPT !.phase = phase] =
                   [ev |-> i.ev, at |-> i.at, phase |-> phase, done |-> i.done]
  BY <1>1 DEF PipelineItem
<1>4. CASE \/ StageCancelled(i) \/ ProcessFails(i) \/ DeleteEventFails(i)
           \/ StageStorageFails(i) \/ LeavePipeline(i)
  <2>1. faults' \in 0 .. MaxFaults
    BY <1>1, <1>4, FaultsBounded
    DEF StageCancelled, ProcessFails, DeleteEventFails, StageStorageFails,
        LeavePipeline
  <2>2. failed' \in BOOLEAN
    BY <1>1, <1>4
    DEF StageCancelled, ProcessFails, DeleteEventFails, StageStorageFails,
        LeavePipeline, Abort, producerAndRun, runVars
  <2>3. /\ Leave(i)
        /\ UNCHANGED <<items, cursor, pc, cancelled, pos, loaded, page, stages,
                       finished>>
    BY <1>4
    DEF StageCancelled, ProcessFails, DeleteEventFails, StageStorageFails,
        LeavePipeline, Abort, producerAndRun, localVars, runVars
  <2> QED BY <1>2, <2>1, <2>2, <2>3, LeaveStep
<1>5. CASE Skip(i)
  <2>1. /\ flight' = (flight \ {i}) \cup
             {[ev |-> i.ev, at |-> i.at, phase |-> "out", done |-> i.done]}
        /\ stages[i.at] \in i.done
        /\ UNCHANGED <<items, cursor, pc, cancelled, failed, pos, loaded, page,
                       stages, faults, finished>>
    BY <1>3, <1>5 DEF Skip, Move, producerAndRun, localVars, runVars
  <2>2. "out" \in Phases /\ finished' \subseteq Feed /\ finished \subseteq finished'
    BY <1>1, <2>1 DEF Phases
  <2> QED BY <1>1, <2>1, <2>2, PassStep
<1>6. CASE CallProcess(i)
  <2>1. /\ flight' = (flight \ {i}) \cup
             {[ev |-> i.ev, at |-> i.at, phase |-> "process", done |-> i.done]}
        /\ stages[i.at] \notin i.done
        /\ UNCHANGED <<items, cursor, pc, cancelled, failed, pos, loaded, page,
                       stages, faults, finished>>
    BY <1>3, <1>6 DEF CallProcess, Move, producerAndRun, localVars, runVars
  <2>2. /\ "process" \in Phases
        /\ finished' \subseteq Feed /\ finished \subseteq finished'
    BY <1>1, <2>1 DEF Phases
  <2> QED BY <1>1, <2>1, <2>2, PassStep
<1>7. ASSUME NEW answer \in Outcomes, ProcessReturns(i, answer)
      PROVE  IInv'
  <2>1. /\ AfterProcess(i, answer) \in {"remove", "advance", "retry"}
        /\ AfterProcess(i, answer) = "remove" => Final(i, answer)
    BY <1>7, SettingsAssumption DEF AfterProcess, Final, ProcessReturns
  <2>2. stages[i.at] \notin i.done
    BY <1>7 DEF ProcessReturns, IInv, StageInv
  <2> QED BY <1>1, <1>3, <1>7, <2>1, <2>2, PassStep
      DEF ProcessReturns, Move, producerAndRun, localVars, runVars, Phases
<1>8. CASE Forward(i)
  <2>1. [i EXCEPT !.phase = "queued", !.at = i.at + 1] =
          [ev |-> i.ev, at |-> i.at + 1, phase |-> "queued", done |-> i.done]
    BY <1>1, ForwardedItem
  <2>2. i.at + 1 \in 1 .. Len(stages) /\ i.phase = "out"
    BY <1>1, <1>8, PipelineAssumption DEF Forward, LastStage, IInv, TypeOK
  <2>3. \A k \in 1 .. (i.at + 1) - 1 : stages[k] \in i.done
    BY <1>1, <2>2
  <2> QED BY <1>1, <1>8, <2>1, <2>2, <2>3, PassStep
      DEF Forward, producerAndRun, localVars, runVars, Phases
<1>9. CASE DeleteEvent(i)
  BY <1>9, DeleteEventStep
<1>10. CASE UpdateEvent(i)
  BY <1>10, UpdateEventStep
<1>11. CASE UnlockEvent(i)
  BY <1>11, UnlockEventStep
<1> QED BY <1>4, <1>5, <1>6, <1>7, <1>8, <1>9, <1>10, <1>11 DEF Stage

LEMMA ProducerStep ==
  ASSUME IInv, Producer
  PROVE  IInv'
<1>1. faults \in 0 .. MaxFaults
  BY DEF IInv, TypeOK
<1>2. CASE WaitCancelled \/ PutAllCancelled \/ FetchFails \/ PushRefused
           \/ ProducerFails
  <2>1. faults' \in 0 .. MaxFaults
    BY <1>1, <1>2, FaultsBounded
    DEF WaitCancelled, PutAllCancelled, FetchFails, PushRefused, ProducerFails
  <2>2. StopProducer
    BY <1>2
    DEF WaitCancelled, PutAllCancelled, FetchFails, PushRefused, ProducerFails
  <2> QED BY <2>1, <2>2, StopProducerStep
<1> QED BY <1>2, UnlockNextStep, UnlockedAllStep, ReadCursorStep, MoveStep,
           LoadStep, LockNextStep, PutStep, FetchPageStep, PushNextStep,
           UpdateCursorStep
        DEF Producer

LEMMA NextInv == IInv /\ [Next]_vars => IInv'
<1> SUFFICES ASSUME IInv, [Next]_vars PROVE IInv'
  OBVIOUS
<1>1. faults \in 0 .. MaxFaults
  BY DEF IInv, TypeOK
<1>2. CASE RunReturns \/ Crash
  <2>1. faults' \in 0 .. MaxFaults
    BY <1>1, <1>2, FaultsBounded DEF RunReturns, Crash
  <2> QED BY <1>2, <2>1, HaltStep DEF RunReturns, Crash
<1>3. CASE \E i \in flight : Stage(i)
  BY <1>3, StageStep
<1>4. CASE UNCHANGED vars
  <2> USE <1>4 DEF vars, IInv
  <2>1. NextLoaded' = NextLoaded
    BY DEF NextLoaded
  <2>2. TypeOK' /\ RunInv' /\ MemoryInv'
    BY DEF TypeOK, RunInv, MemoryInv
  <2>3. LoadedInv'
    BY <2>1 DEF LoadedInv
  <2>4. FlightInv' /\ StageInv' /\ CoverInv'
    BY DEF FlightInv, StageInv, CoverInv, Covered
  <2> QED BY <2>2, <2>3, <2>4
<1> QED BY <1>2, <1>3, <1>4, StartStep, ProducerStep, CancelStep DEF Next

\* IInv holds in every reachable state.
THEOREM Invariance == Spec => []IInv
BY InitInv, NextInv, PTL DEF Spec

-----------------------------------------------------------------------------
(* The properties. *)

\* Every variable keeps its type: producerFunc, the stages and the storage
\* calls write only rows, cursors and items of the right form, and no table
\* holds an event that the feed does not have.
THEOREM TypeCorrect == Spec => []TypeOK
<1>1. IInv => TypeOK
  BY DEF IInv
<1> QED BY <1>1, Invariance, PTL

\* No event is lost: pushEvent stores every event of a page before
\* UpdateCursor stores the cursor that is past them, so that at any crash,
\* cancellation or failed call an event behind the stored cursor is in the
\* storage or finished.
THEOREM NothingLost == Spec => []NoEventLost
<1>1. IInv => NoEventLost
  BY DEF IInv, CoverInv, Covered, NoEventLost
<1> QED BY <1>1, Invariance, PTL

\* An event is in the pipeline once: producerFunc loads unlocked rows only
\* and locks each before it puts it.
THEOREM ActiveOnce == Spec => []OneActiveItem
<1>1. IInv => OneActiveItem
  BY DEF IInv, LoadedInv, FlightInv, OneActiveItem
<1> QED BY <1>1, Invariance, PTL

\* An item is at a stage only when the storage records it as processed by
\* all earlier stages, whatever stages earlier runs had.
THEOREM ResumesThere == Spec => []ResumePoint
<1>1. IInv => ResumePoint
  BY DEF IInv, FlightInv, StageInv, ResumePoint
<1> QED BY <1>1, Invariance, PTL

\* Process is called only for an event that the storage does not record as
\* processed by that stage.
THEOREM StageNotRepeated == Spec => []NoRepeatedStage
<1>1. IInv => NoRepeatedStage
  BY DEF IInv, FlightInv, StageInv, NoRepeatedStage
<1> QED BY <1>1, Invariance, PTL

\* With sqlite, a row leaves the items table only when its event is finished:
\* the only DELETE is the one a stage makes after Remove or after the last
\* Processed.  (The memory backend also loses its rows with the process.)
THEOREM RowsLeaveFinished ==
  ASSUME Backend = "sqlite"
  PROVE  Spec => OnlyFinishedLeave
<1> DEFINE Kept == \A e \in DOMAIN items \ DOMAIN items' : e \in finished
<1>1. IInv /\ [Next]_vars => [Kept]_vars
  <2> SUFFICES ASSUME IInv, Next PROVE DOMAIN items \subseteq DOMAIN items' \/ Kept
    BY DEF vars
  <2>1. items \in [DOMAIN items -> Row]
    BY DEF IInv, TypeOK
  <2>2. CASE Start
    BY <2>2 DEF Start
  <2>3. CASE Producer
    <3>1. CASE UnlockNext
      BY <2>1, <3>1, UnlockFacts DEF UnlockNext
    <3>2. CASE LockNext
      BY <2>1, <3>2, LockFacts DEF LockNext
    <3>3. CASE PushNext
      BY <2>1, <3>3, PushRowFacts DEF PushNext
    <3>4. CASE items' = items
      BY <3>4
    <3> QED BY <2>3, <3>1, <3>2, <3>3, <3>4
        DEF Producer, UnlockedAll, ReadCursor, WaitOver, WaitCancelled, Load,
            Put, PutAll, PutAllCancelled, FetchPage, FetchTimeout, PushRefused,
            UpdateCursor, ProducerFails, FetchFails, StopProducer
  <2>4. CASE RunReturns \/ Cancel \/ Crash \/ PassthroughCancelled
    BY <2>4 DEF RunReturns, Cancel, Crash, Halt, PassthroughCancelled
  <2>5. ASSUME NEW i \in flight, Stage(i)
        PROVE  DOMAIN items \subseteq DOMAIN items' \/ Kept
    <3>1. CASE DeleteEvent(i)
      <4>1. i.ev \in finished
        BY <3>1 DEF DeleteEvent, IInv, StageInv
      <4>2. DOMAIN items' = DOMAIN items \ {i.ev}
        BY <2>1, <3>1, DeleteRowFacts DEF DeleteEvent
      <4> QED BY <4>1, <4>2
    <3>2. CASE UpdateEvent(i)
      BY <3>2 DEF UpdateEvent, SetDone
    <3>3. CASE UnlockEvent(i)
      BY <2>1, <3>3, UnlockFacts DEF UnlockEvent
    <3>4. CASE UNCHANGED items
      BY <3>4
    <3> QED BY <2>5, <3>1, <3>2, <3>3, <3>4
        DEF Stage, StageCancelled, Skip, CallProcess, ProcessReturns,
            ProcessFails, DeleteEventFails, StageStorageFails, Forward,
            LeavePipeline, Abort
  <2> QED BY <2>2, <2>3, <2>4, <2>5 DEF Next
<1>2. Spec => [][Kept]_vars
  BY <1>1, Invariance, PTL DEF Spec
<1> QED BY <1>2, PTL DEF OnlyFinishedLeave

-----------------------------------------------------------------------------
(* The stored cursor, when no storage call fails but for the cancellation. *)

Turning == pc \notin {"down", "unlock", "cursor", "stopped"}

\* The stored cursor is never ahead of the producer's, unless the query for
\* the stored one met a cancelled context; then nothing is stored any more.
CursorInv == Turning /\ ~Closed => cursor <= pos

\* What a step of a stage leaves alone.
LEMMA StageKeeps ==
  ASSUME NEW i \in flight, Stage(i)
  PROVE  UNCHANGED <<cursor, pc, cancelled, pos, loaded, page, stages>>
BY DEF Stage, StageCancelled, Skip, CallProcess, ProcessReturns, ProcessFails,
       DeleteEvent, DeleteEventFails, UpdateEvent, UnlockEvent, StageStorageFails,
       Forward, LeavePipeline, Abort, producerAndRun, localVars, runVars

LEMMA CursorStep ==
  ASSUME "storage" \notin Faults, IInv, CursorInv, [Next]_vars
  PROVE  CursorInv' /\ (Backend = "sqlite" => cursor <= cursor')
<1>1. cursor \in {NoCursor} \cup 0 .. FeedLen /\ pos \in 0 .. FeedLen /\ NoCursor = -1
      /\ StartCID \in 0 .. FeedLen /\ FeedLen \in Nat
  BY FeedAssumption DEF IInv, TypeOK, NoCursor
<1>2. cursor <= cursor
  BY <1>1
<1>3. CASE StopProducer \/ Halt
  BY <1>2, <1>3 DEF StopProducer, Halt, CursorInv, Turning
<1>4. CASE Start
  BY <1>2, <1>4 DEF Start, CursorInv, Turning
<1>5. CASE UnlockNext \/ UnlockedAll
  BY <1>2, <1>5 DEF UnlockNext, UnlockedAll, CursorInv, Turning
<1>6. CASE ReadCursor
  <2>1. UNCHANGED <<cursor, cancelled>>
    BY <1>6 DEF ReadCursor, runVars
  <2>2. \/ pos' = cursor
        \/ cursor = NoCursor /\ pos' = StartCID
        \/ Closed
    BY <1>6 DEF ReadCursor, StorageFails, Disturb
  <2>3. ~Closed => cursor <= pos'
    BY <1>1, <1>2, <2>2
  <2> QED BY <1>2, <2>1, <2>3 DEF CursorInv, Closed
<1>7. CASE UpdateCursor
  <2>1. pc = "push" /\ ~Closed /\ cursor' = pos /\ pos' = pos
    BY <1>7 DEF UpdateCursor, StorageWorks, localVars
  <2>2. cursor <= pos /\ pos <= pos
    BY <1>1, <2>1 DEF CursorInv, Turning
  <2> QED BY <2>1, <2>2 DEF CursorInv
<1>8. CASE PushNext
  <2>1. /\ pc = "push" /\ pos' = pos /\ ~Closed
        /\ cursor' = IF cursor = NoCursor THEN 0 ELSE cursor
    BY <1>8 DEF PushNext, StorageWorks
  <2>2. cursor <= pos
    BY <2>1 DEF CursorInv, Turning
  <2>3. cursor <= cursor' /\ cursor' <= pos
    BY <1>1, <2>1, <2>2
  <2> QED BY <2>1, <2>3 DEF CursorInv
<1>9. CASE FetchPage
  <2>1. PICK q \in pos + 1 .. FeedLen : pos' = q
    BY <1>9 DEF FetchPage
  <2>2. pc = "fetch" /\ UNCHANGED <<cursor, cancelled>>
    BY <1>9 DEF FetchPage, runVars
  <2>3. Turning /\ (~Closed => cursor <= pos)
    BY <2>2 DEF CursorInv, Turning
  <2>4. ~Closed => cursor <= q
    BY <1>1, <2>3
  <2> QED BY <1>2, <2>1, <2>2, <2>4 DEF CursorInv, Closed
<1>10. ASSUME cursor' = cursor, pos' = pos, Turning' => Turning, ~Closed' => ~Closed
       PROVE  CursorInv' /\ (Backend = "sqlite" => cursor <= cursor')
  <2>1. Turning' /\ ~Closed' => cursor <= pos
    BY <1>10 DEF CursorInv
  <2>2. CursorInv'
    BY <1>10, <2>1 DEF CursorInv
  <2> QED BY <1>2, <1>10, <2>2
<1>11. CASE WaitOver \/ Load \/ LockNext \/ Put \/ PutAll \/ FetchTimeout
  <2>1. Turning /\ cursor' = cursor /\ pos' = pos /\ cancelled' = cancelled
    BY <1>11 DEF WaitOver, Load, LockNext, Put, PutAll, FetchTimeout, localVars, runVars, Turning
  <2>2. ~Closed' => ~Closed
    BY <2>1 DEF Closed
  <2> QED BY <1>10, <2>1, <2>2
<1>12. CASE Cancel \/ PassthroughCancelled
  <2>1. pc' = pc /\ cursor' = cursor /\ pos' = pos
    BY <1>12 DEF Cancel, PassthroughCancelled, localVars
  <2>2. ASSUME Cancel PROVE ~Closed
    BY <2>2 DEF Cancel, Closed
  <2>3. ASSUME PassthroughCancelled PROVE Closed' = Closed
    BY <2>3 DEF PassthroughCancelled, Closed
  <2>4. ~Closed' => ~Closed
    BY <1>12, <2>2, <2>3
  <2>5. Turning' => Turning
    BY <2>1 DEF Turning
  <2> QED BY <1>10, <2>1, <2>4, <2>5
<1>13. ASSUME pc' = pc, cursor' = cursor, pos' = pos, cancelled' = cancelled
       PROVE  CursorInv' /\ (Backend = "sqlite" => cursor <= cursor')
  <2>1. (Turning' => Turning) /\ (~Closed' => ~Closed)
    BY <1>13 DEF Closed, Turning
  <2> QED BY <1>10, <1>13, <2>1
<1>14. CASE UNCHANGED vars \/ \E i \in flight : Stage(i)
  <2>1. pc' = pc /\ cursor' = cursor /\ pos' = pos /\ cancelled' = cancelled
    BY <1>14, StageKeeps DEF vars
  <2> QED BY <1>13, <2>1
<1>15. CASE Producer
  <2>1. WaitCancelled \/ PutAllCancelled \/ FetchFails \/ PushRefused \/ ProducerFails
          => StopProducer
    BY DEF WaitCancelled, PutAllCancelled, FetchFails, PushRefused, ProducerFails
  <2> QED BY <1>3, <1>5, <1>6, <1>7, <1>8, <1>9, <1>11, <1>15, <2>1 DEF Producer
<1>16. CASE RunReturns \/ Crash
  <2>1. Halt
    BY <1>16 DEF RunReturns, Crash
  <2> QED BY <1>3, <2>1
<1> QED BY <1>4, <1>12, <1>14, <1>15, <1>16 DEF Next

\* The stored cursor never moves back, as long as the query for it answers:
\* producerFunc takes a query that fails for a cursor that is missing, starts
\* from its parameters, and would store a cursor behind the stored one.  (The
\* memory backend starts without a cursor.)
THEOREM CursorNeverBack ==
  ASSUME "storage" \notin Faults, Backend = "sqlite"
  PROVE  Spec => CursorMonotone
<1>1. Init => CursorInv
  BY DEF Init, CursorInv, Turning
<1>2. IInv /\ CursorInv /\ [Next]_vars => CursorInv' /\ cursor <= cursor'
  BY CursorStep
<1>3. Spec => [](IInv /\ CursorInv)
  BY <1>1, <1>2, Invariance, PTL DEF Spec
<1>4. IInv /\ CursorInv /\ [Next]_vars => [cursor <= cursor']_vars
  BY <1>2
<1> QED BY <1>3, <1>4, PTL DEF Spec, CursorMonotone

-----------------------------------------------------------------------------
(* Every locked row is held, in a run that nothing has disturbed. *)

\* The pipelines of all deployments end with stages that no other deployment
\* goes on after: with another, an event would skip its last stage and leave
\* the pipeline with its row locked.
SameEnd ==
  \A p, q \in Pipelines : \A k \in 1 .. Len(p) - 1 : p[k] # q[Len(q)]

\* No row is recorded as processed by a last stage, for that stage deletes it.
EndInv ==
  /\ \A e \in DOMAIN items : \A q \in Pipelines : q[Len(q)] \notin items[e].done
  /\ \A i \in flight : i.phase = "advance" => i.at < Len(stages)

OrphanInv == NoOrphan /\ EndInv

\* The item i goes on, the rows stay.
Carried(i) ==
  /\ items' = items
  /\ \E at, phase :
       /\ flight' = (flight \ {i}) \cup
            {[ev |-> i.ev, at |-> at, phase |-> phase, done |-> i.done]}
       /\ phase = "advance" => at < Len(stages)
       /\ i.phase = "remove" => phase = "remove"

\* The item i is given up, in a run that ends with it.
GivenUp(i) ==
  Leave(i) /\ items' = items /\ (failed' \/ Closed \/ "storage" \in Faults)

\* The rows and the items of a step of a stage.
LEMMA StageEffect ==
  ASSUME IInv, NEW i \in flight, Stage(i)
  PROVE  \/ GivenUp(i) \/ Carried(i) \/ LeavePipeline(i)
         \/ DeleteEvent(i) \/ UpdateEvent(i) \/ UnlockEvent(i)
<1>1. i \in PipelineItem /\ i.at \in 1 .. Len(stages) /\ Len(stages) \in Nat
  BY PipelineAssumption DEF IInv, TypeOK, StageInv
<1>2. \A phase : [i EXCEPT !.phase = phase] =
                   [ev |-> i.ev, at |-> i.at, phase |-> phase, done |-> i.done]
  BY <1>1 DEF PipelineItem
<1>3. ASSUME StageCancelled(i) \/ ProcessFails(i) \/ StageStorageFails(i) PROVE GivenUp(i)
  BY <1>3 DEF StageCancelled, ProcessFails, StageStorageFails, Abort, GivenUp
<1>4. ASSUME DeleteEventFails(i) PROVE GivenUp(i)
  BY <1>4 DEF DeleteEventFails, StorageFails, Disturb, GivenUp
<1>6. ASSUME Skip(i) \/ CallProcess(i) PROVE Carried(i)
  <2>1. /\ items' = items /\ i.phase = "queued"
        /\ \E phase \in {"out", "process"} :
             flight' = (flight \ {i}) \cup
               {[ev |-> i.ev, at |-> i.at, phase |-> phase, done |-> i.done]}
    BY <1>2, <1>6 DEF Skip, CallProcess, Move
  <2> QED BY <2>1 DEF Carried
<1>7. ASSUME NEW answer \in Outcomes, ProcessReturns(i, answer)
      PROVE  Carried(i)
  <2>1. items' = items /\ i.phase = "process" /\ flight' = (flight \ {i}) \cup
          {[ev |-> i.ev, at |-> i.at, phase |-> AfterProcess(i, answer), done |-> i.done]}
    BY <1>2, <1>7 DEF ProcessReturns, Move
  <2>2. AfterProcess(i, answer) = "advance" => i.at < Len(stages)
    BY <1>1, <1>7, SettingsAssumption DEF AfterProcess, LastStage, ProcessReturns
  <2> QED BY <2>1, <2>2 DEF Carried
<1>8. ASSUME Forward(i) PROVE Carried(i)
  <2>1. /\ items' = items /\ i.phase = "out"
        /\ flight' = (flight \ {i}) \cup {[i EXCEPT !.phase = "queued", !.at = i.at + 1]}
    BY <1>8 DEF Forward
  <2>2. [i EXCEPT !.phase = "queued", !.at = i.at + 1] =
          [ev |-> i.ev, at |-> i.at + 1, phase |-> "queued", done |-> i.done]
    BY <1>1, ForwardedItem
  <2> QED BY <2>1, <2>2 DEF Carried
<1> QED BY <1>3, <1>4, <1>6, <1>7, <1>8 DEF Stage


\* Every row keeps its context in a step of the producer, and new rows have none.
LEMMA ProducerContexts ==
  ASSUME IInv, EndInv, Producer
  PROVE  EndInv'
<1>1. items \in [DOMAIN items -> Row]
  BY DEF IInv, TypeOK
<1>2. \A e \in DOMAIN items' :
        items'[e].done = {} \/ (e \in DOMAIN items /\ items'[e].done = items[e].done)
  <2>1. CASE UnlockNext
    <3>1. PICK e : items' = SetLocked(items, e, FALSE)
      BY <2>1 DEF UnlockNext
    <3>2. DOMAIN items' = DOMAIN items
      BY <1>1, <3>1, UnlockFacts
    <3>3. \A x \in DOMAIN items : items'[x].done = items[x].done
      BY <1>1, <3>1, UnlockKeeps
    <3> QED BY <3>2, <3>3
  <2>2. CASE LockNext
    <3>1. PICK it : items' = SetLocked(items, it.ev, TRUE)
      BY <2>2 DEF LockNext
    <3>2. DOMAIN items' = DOMAIN items /\ \A x \in DOMAIN items : items'[x].done = items[x].done
      BY <1>1, <3>1, LockFacts
    <3> QED BY <3>2
  <2>3. CASE PushNext
    <3>1. PICK e : items' = PushRow(items, e)
      BY <2>3 DEF PushNext
    <3>2. /\ DOMAIN items' = DOMAIN items \cup {e}
          /\ \A x \in DOMAIN items : x # e => items'[x] = items[x]
      BY <1>1, <3>1, PushRowFacts
    <3>3. items'[e].done = {}
      BY <3>1, PushedRow
    <3> QED BY <3>2, <3>3
  <2>4. CASE items' = items
    BY <2>4
  <2> QED BY <2>1, <2>2, <2>3, <2>4
      DEF Producer, UnlockedAll, ReadCursor, WaitOver, WaitCancelled, Load,
          Put, PutAll, PutAllCancelled, FetchPage, FetchTimeout, PushRefused,
          UpdateCursor, ProducerFails, FetchFails, StopProducer
<1>3. stages' = stages /\ \A i \in flight' : i \in flight \/ i.phase = "queued"
  <2>1. CASE Put
    BY <2>1 DEF Put, runVars
  <2>2. CASE stages' = stages /\ flight' = flight
    BY <2>2
  <2>3. CASE UnlockNext \/ UnlockedAll \/ ReadCursor \/ WaitOver \/ Load \/ LockNext
             \/ PutAll \/ FetchPage \/ FetchTimeout \/ PushNext \/ UpdateCursor
    BY <2>2, <2>3
    DEF UnlockNext, UnlockedAll, ReadCursor, WaitOver, Load, LockNext, PutAll, FetchPage,
        FetchTimeout, PushNext, UpdateCursor, runVars
  <2>4. CASE StopProducer
    BY <2>2, <2>4 DEF StopProducer
  <2> QED BY <2>1, <2>3, <2>4
      DEF Producer, WaitCancelled, PutAllCancelled, PushRefused, ProducerFails, FetchFails
<1> QED BY <1>2, <1>3 DEF EndInv

LEMMA StageContexts ==
  ASSUME SameEnd, IInv, EndInv, NEW i \in flight, Stage(i)
  PROVE  EndInv'
<1>1. /\ items \in [DOMAIN items -> Row] /\ stages' = stages /\ stages \in Pipelines
      /\ i.at \in 1 .. Len(stages) /\ i \in PipelineItem
  BY StageKeeps DEF IInv, TypeOK, StageInv
<1>2. i.ev \in DOMAIN items /\ i.done = items[i.ev].done
  BY DEF IInv, FlightInv
<1>3. CASE GivenUp(i) \/ LeavePipeline(i)
  <2>1. items' = items /\ flight' \subseteq flight
    BY <1>3 DEF GivenUp, LeavePipeline, Leave
  <2> QED BY <1>1, <2>1 DEF EndInv
<1>4. CASE Carried(i)
  <2>1. PICK at, phase :
          /\ flight' = (flight \ {i}) \cup
               {[ev |-> i.ev, at |-> at, phase |-> phase, done |-> i.done]}
          /\ phase = "advance" => at < Len(stages)
    BY <1>4 DEF Carried
  <2> DEFINE next == [ev |-> i.ev, at |-> at, phase |-> phase, done |-> i.done]
  <2>4. next.at = at /\ next.phase = phase
    OBVIOUS
  <2>5. flight' = (flight \ {i}) \cup {next}
    BY <2>1
  <2> HIDE DEF next
  <2>2. \A j \in flight' : j.phase = "advance" => j.at < Len(stages)
    <3> SUFFICES ASSUME NEW j \in flight', j.phase = "advance"
                 PROVE  j.at < Len(stages)
      OBVIOUS
    <3>1. CASE j = next
      BY <2>1, <2>4, <3>1
    <3>2. CASE j \in flight
      BY <3>2 DEF EndInv
    <3> QED BY <2>5, <3>1, <3>2
  <2>3. items' = items
    BY <1>4 DEF Carried
  <2> QED BY <1>1, <2>2, <2>3 DEF EndInv
<1>5. CASE DeleteEvent(i)
  <2>1. flight' \subseteq flight /\ items' = DeleteRow(items, i.ev)
    BY <1>5 DEF DeleteEvent, Leave
  <2>2. DOMAIN items' \subseteq DOMAIN items /\ \A x \in DOMAIN items' : items'[x] = items[x]
    BY <1>1, <2>1, DeleteRowFacts, ZenonT(60)
  <2>3. flight' \subseteq flight
    BY <2>1
  <2> QED BY <1>1, <2>2, <2>3, SMTT(30) DEF EndInv
<1>6. CASE UnlockEvent(i)
  <2>1. flight' \subseteq flight /\ items' = SetLocked(items, i.ev, FALSE)
    BY <1>6 DEF UnlockEvent, Leave
  <2>2. DOMAIN items' = DOMAIN items
    BY <1>1, <2>1, UnlockFacts
  <2>3. \A x \in DOMAIN items : items'[x].done = items[x].done
    BY <1>1, <2>1, UnlockKeeps
  <2> QED BY <1>1, <2>1, <2>2, <2>3 DEF EndInv
<1>7. CASE UpdateEvent(i)
  <2>1. /\ items' = SetDone(items, i.ev, NewDone(i)) /\ i.phase \in {"advance", "retry"}
        /\ flight' = (flight \ {i}) \cup
             {[i EXCEPT !.phase = AfterUpdate(i), !.done = NewDone(i)]}
    BY <1>7 DEF UpdateEvent
  <2>2. stages[i.at] \in StageNames
    BY <1>1, StageName DEF IInv
  <2>3. NewDone(i) \in SUBSET StageNames
    BY <1>1, <2>2 DEF NewDone, PipelineItem
  <2>4. ASSUME NEW q \in Pipelines PROVE q[Len(q)] \notin NewDone(i)
    <3>1. q[Len(q)] \notin i.done
      BY <1>2 DEF EndInv
    <3>2. CASE i.phase = "advance"
      <4>1. i.at \in 1 .. Len(stages) - 1
        <5>1. i.at < Len(stages) /\ Len(stages) \in Nat
          BY <1>1, <3>2, PipelineAssumption DEF EndInv
        <5> QED BY <1>1, <5>1
      <4>2. stages[i.at] # q[Len(q)]
        BY <1>1, <4>1 DEF SameEnd
      <4> QED BY <3>1, <3>2, <4>2 DEF NewDone
    <3>3. CASE i.phase # "advance"
      BY <3>1, <3>3 DEF NewDone
    <3> QED BY <3>2, <3>3
  <2>5. [i EXCEPT !.phase = AfterUpdate(i), !.done = NewDone(i)].phase # "advance"
    BY <1>1 DEF PipelineItem, AfterUpdate
  <2>6. \A x \in DOMAIN items : SetDone(items, i.ev, NewDone(i))[x].done
          = IF x = i.ev THEN NewDone(i) ELSE items[x].done
    BY <1>1, <2>3, SetDoneFacts
  <2>7. DOMAIN items' = DOMAIN items
    BY <1>1, <2>1, <2>3, SetDoneFacts
  <2>8. \A e \in DOMAIN items' : \A q \in Pipelines : q[Len(q)] \notin items'[e].done
    BY <2>1, <2>4, <2>6, <2>7 DEF EndInv
  <2>9. \A j \in flight' : j.phase = "advance" => j.at < Len(stages')
    BY <1>1, <2>1, <2>5 DEF EndInv
  <2> QED BY <2>8, <2>9 DEF EndInv
<1> QED BY <1>3, <1>4, <1>5, <1>6, <1>7, StageEffect


LEMMA EndStep ==
  ASSUME SameEnd, IInv, EndInv, [Next]_vars
  PROVE  EndInv'
<1>1. CASE Start
  <2>1. (items' = items \/ items' = EmptyTable) /\ flight' = {}
    BY <1>1 DEF Start, IInv, RunInv
  <2> QED BY <2>1 DEF EndInv, EmptyTable
<1>2. CASE RunReturns \/ Crash
  <2>1. items' = items /\ flight' = {}
    BY <1>2 DEF RunReturns, Crash, Halt
  <2> QED BY <2>1 DEF EndInv
<1>3. CASE Cancel \/ PassthroughCancelled \/ UNCHANGED vars
  <2>1. items' = items /\ flight' = flight /\ stages' = stages
    BY <1>3 DEF Cancel, PassthroughCancelled, vars
  <2> QED BY <2>1 DEF EndInv
<1> QED BY <1>1, <1>2, <1>3, ProducerContexts, StageContexts DEF Next

\* A run that is healthy was so before, or has just begun.
LEMMA HealthyKept ==
  ASSUME [Next]_vars, Healthy'
  PROVE  Healthy \/ UnlockedAll
<1>1. pc' \notin {"down", "unlock", "stopped"} /\ ~failed' /\ ~cancelled'
  BY DEF Healthy
<1>2. ~StopProducer /\ ~Halt /\ ~Start /\ ~UnlockNext
  BY <1>1 DEF StopProducer, Halt, Start, UnlockNext
<1>3. ASSUME ReadCursor \/ WaitOver \/ Load \/ LockNext \/ Put \/ PutAll \/ FetchPage
               \/ FetchTimeout \/ PushNext \/ UpdateCursor
      PROVE  Healthy
  <2>1. UNCHANGED <<failed, cancelled>> /\ pc \notin {"down", "unlock", "stopped"}
    BY <1>3 DEF ReadCursor, WaitOver, Load, LockNext, Put, PutAll, FetchPage, FetchTimeout,
                PushNext, UpdateCursor, runVars
  <2> QED BY <1>1, <2>1 DEF Healthy
<1>4. ASSUME NEW i \in flight, Stage(i) PROVE Healthy
  <2>1. pc' = pc /\ UNCHANGED cancelled
    BY <1>4, StageKeeps
  <2>2. failed' \/ UNCHANGED failed
    BY <1>4 DEF Stage, StageCancelled, Skip, CallProcess, ProcessReturns, ProcessFails,
       DeleteEvent, DeleteEventFails, UpdateEvent, UnlockEvent, StageStorageFails,
       Forward, LeavePipeline, Abort, producerAndRun, runVars
  <2> QED BY <1>1, <2>1, <2>2 DEF Healthy
<1>5. ~Cancel /\ ~PassthroughCancelled
  BY <1>1 DEF Cancel, PassthroughCancelled
<1>6. ASSUME UNCHANGED vars PROVE Healthy
  BY <1>1, <1>6 DEF vars, Healthy
<1>7. ~RunReturns /\ ~Crash
  BY <1>2 DEF RunReturns, Crash
<1>8. ASSUME Producer PROVE Healthy \/ UnlockedAll
  BY <1>2, <1>3, <1>8 DEF Producer, WaitCancelled, PutAllCancelled, FetchFails, PushRefused,
                     ProducerFails
<1> QED BY <1>2, <1>4, <1>5, <1>6, <1>7, <1>8 DEF Next

Evs == {i.ev : i \in flight}

\* The producer locks what it is about to put, and puts it.
LEMMA ProducerHolds ==
  ASSUME IInv, NoOrphan, Producer, Healthy'
  PROVE  LockedRows(items)' \subseteq Held'
<1>1. Healthy \/ UnlockedAll
  BY HealthyKept DEF Next
<1>2. items \in [DOMAIN items -> Row]
  BY DEF IInv, TypeOK
<1>3. CASE UnlockedAll
  <2>1. LockedRows(items)' = {}
    BY <1>3 DEF UnlockedAll, LockedRows
  <2> QED BY <2>1
<1>4. CASE Healthy
  <2>0. LockedRows(items) \subseteq Held
    BY <1>4 DEF NoOrphan
  <2>1. CASE Put
    <3>1. pc = "put" /\ pc' = "lock" /\ items' = items
      BY <2>1 DEF Put
    <3>2. Evs' = Evs \cup {n.ev : n \in NextLoaded}
      <4>1. PICK it \in NextLoaded :
              flight' = flight \cup {[ev |-> it.ev, at |-> 1, phase |-> "queued", done |-> it.done]}
        BY <2>1 DEF Put
      <4>2. NextLoaded = {it}
        BY <4>1, NextLoadedSingle
      <4>3. {n.ev : n \in NextLoaded} = {it.ev}
        BY <4>2
      <4> DEFINE new == [ev |-> it.ev, at |-> 1, phase |-> "queued", done |-> it.done]
      <4>4. flight' = flight \cup {new} /\ new.ev = it.ev
        BY <4>1
      <4> HIDE DEF new
      <4>5. Evs' = Evs \cup {it.ev}
        BY <4>4 DEF Evs
      <4> QED BY <4>3, <4>5
    <3> QED BY <2>0, <3>1, <3>2 DEF Held, LockedRows, Evs
  <2>2. CASE LockNext
    <3>1. PICK it \in NextLoaded : items' = SetLocked(items, it.ev, TRUE)
      BY <2>2 DEF LockNext
    <3>2. /\ DOMAIN items' = DOMAIN items
          /\ \A x \in DOMAIN items : x # it.ev => items'[x] = items[x]
      BY <1>2, <3>1, LockFacts
    <3>3. LockedRows(items)' \subseteq LockedRows(items) \cup {it.ev}
      BY <3>2 DEF LockedRows
    <3>4. pc = "lock" /\ pc' = "put" /\ NextLoaded' = NextLoaded /\ flight' = flight
      BY <2>2 DEF LockNext, NextLoaded, localVars
    <3> QED BY <2>0, <3>1, <3>3, <3>4 DEF Held
  <2>3. CASE PushNext
    <3>1. PICK e : items' = PushRow(items, e)
      BY <2>3 DEF PushNext
    <3>2. /\ DOMAIN items' = DOMAIN items \cup {e} /\ ~items'[e].locked
          /\ \A x \in DOMAIN items : x # e => items'[x] = items[x]
      BY <1>2, <3>1, PushRowFacts
    <3>3. LockedRows(items)' \subseteq LockedRows(items)
      BY <3>2 DEF LockedRows
    <3>4. pc = "push" /\ pc' = pc /\ flight' = flight
      BY <2>3 DEF PushNext
    <3> QED BY <2>0, <3>3, <3>4 DEF Held
  <2>4. CASE ReadCursor \/ WaitOver \/ Load \/ PutAll \/ FetchPage \/ FetchTimeout \/ UpdateCursor
    <3>1. items' = items /\ flight' = flight /\ pc # "put"
      BY <2>4 DEF ReadCursor, WaitOver, Load, PutAll, FetchPage, FetchTimeout, UpdateCursor
    <3> QED BY <2>0, <3>1 DEF Held, LockedRows
  <2>5. ~StopProducer /\ ~UnlockNext
    BY DEF StopProducer, UnlockNext, Healthy
  <2> QED BY <1>3, <2>1, <2>2, <2>3, <2>4, <2>5
          DEF Producer, WaitCancelled, PutAllCancelled, FetchFails, PushRefused, ProducerFails
<1> QED BY <1>1, <1>3, <1>4

\* A stage that lets go of an item has deleted or unlocked its row.
LEMMA StageHolds ==
  ASSUME "storage" \notin Faults, IInv, OrphanInv, NEW i \in flight, Stage(i), Healthy'
  PROVE  LockedRows(items)' \subseteq Held'
<1>1. Healthy
  BY HealthyKept DEF Next, UnlockedAll, IInv, RunInv
<1>2. items \in [DOMAIN items -> Row] /\ LockedRows(items) \subseteq Held
  BY <1>1 DEF OrphanInv, NoOrphan, IInv, TypeOK
<1>3. NextLoaded' = NextLoaded /\ pc' = pc /\ stages' = stages
  BY StageKeeps DEF NextLoaded
<1>4. CASE LockedRows(items)' \subseteq LockedRows(items) /\ Evs \subseteq Evs'
  BY <1>2, <1>3, <1>4 DEF Held, Evs
<1>5. CASE LockedRows(items)' \subseteq LockedRows(items) \ {i.ev} /\ Evs \subseteq Evs' \cup {i.ev}
  BY <1>2, <1>3, <1>5 DEF Held, Evs
<1>6. CASE Carried(i)
  <2>1. PICK at, phase : flight' = (flight \ {i}) \cup
          {[ev |-> i.ev, at |-> at, phase |-> phase, done |-> i.done]}
    BY <1>6 DEF Carried
  <2>2. Evs \subseteq Evs'
    <3> DEFINE next == [ev |-> i.ev, at |-> at, phase |-> phase, done |-> i.done]
    <3>1. next.ev = i.ev
      OBVIOUS
    <3>2. flight' = (flight \ {i}) \cup {next}
      BY <2>1
    <3> HIDE DEF next
    <3> QED BY <3>1, <3>2 DEF Evs
  <2>3. LockedRows(items)' = LockedRows(items)
    BY <1>6 DEF Carried, LockedRows
  <2> QED BY <1>4, <2>2, <2>3
<1>7. CASE UpdateEvent(i)
  <2>1. /\ items' = SetDone(items, i.ev, NewDone(i))
        /\ flight' = (flight \ {i}) \cup {[i EXCEPT !.phase = AfterUpdate(i), !.done = NewDone(i)]}
    BY <1>7 DEF UpdateEvent
  <2>2. [i EXCEPT !.phase = AfterUpdate(i), !.done = NewDone(i)].ev = i.ev
    BY DEF IInv, TypeOK, PipelineItem
  <2>3. Evs \subseteq Evs'
    BY <2>1, <2>2 DEF Evs
  <2>4. LockedRows(items)' = LockedRows(items)
    BY <1>2, <2>1 DEF LockedRows, SetDone, Row
  <2> QED BY <1>4, <2>3, <2>4
<1>8. CASE DeleteEvent(i)
  <2>1. items' = DeleteRow(items, i.ev) /\ flight' = flight \ {i}
    BY <1>8 DEF DeleteEvent, Leave
  <2>2. DOMAIN items' = DOMAIN items \ {i.ev} /\ \A x \in DOMAIN items' : items'[x] = items[x]
    BY <1>2, <2>1, DeleteRowFacts
  <2>3. LockedRows(items)' \subseteq LockedRows(items) \ {i.ev}
    BY <2>2 DEF LockedRows
  <2>4. Evs \subseteq Evs' \cup {i.ev}
    BY <2>1 DEF Evs
  <2> QED BY <1>5, <2>3, <2>4
<1>9. CASE UnlockEvent(i)
  <2>1. items' = SetLocked(items, i.ev, FALSE) /\ flight' = flight \ {i}
    BY <1>9 DEF UnlockEvent, Leave
  <2>2. DOMAIN items' = DOMAIN items /\ \A x \in DOMAIN items : x # i.ev => items'[x] = items[x]
    BY <1>2, <2>1, UnlockFacts
  <2>3. \A x \in DOMAIN items : x = i.ev => ~items'[x].locked
    BY <1>2, <2>1, UnlockKeeps
  <2>4. LockedRows(items)' \subseteq LockedRows(items) \ {i.ev}
    BY <2>2, <2>3 DEF LockedRows
  <2>5. Evs \subseteq Evs' \cup {i.ev}
    BY <2>1 DEF Evs
  <2> QED BY <1>5, <2>4, <2>5
<1>10. ~LeavePipeline(i)
  <2>1. stages \in Pipelines /\ i.ev \in DOMAIN items /\ i.done = items[i.ev].done
        /\ (i.phase = "out" => stages[i.at] \in i.done)
    BY DEF IInv, TypeOK, FlightInv, StageInv
  <2> QED BY <2>1 DEF LeavePipeline, LastStage, OrphanInv, EndInv
<1>11. ~GivenUp(i)
  <2>1. ~failed' /\ ~Closed
    BY <1>1 DEF Healthy, Closed
  <2> QED BY <2>1 DEF GivenUp
<1> QED BY <1>6, <1>7, <1>8, <1>9, <1>10, <1>11, StageEffect

\* In a run that nothing has disturbed every locked row is held by an item in
\* the pipeline or by the producer, whatever happened to earlier runs: their
\* locks are all released before the first row is loaded.  (A failing Delete
\* leaves a locked row behind, for its result is not looked at; and so does a
\* deployment that ends with an earlier stage of the last one.)
THEOREM NoneOrphaned ==
  ASSUME "storage" \notin Faults, SameEnd
  PROVE  Spec => []NoOrphan
<1>1. Init => OrphanInv
  BY DEF Init, OrphanInv, NoOrphan, EndInv, Healthy, EmptyTable
<1>2. IInv /\ OrphanInv /\ [Next]_vars => OrphanInv'
  <2> SUFFICES ASSUME IInv, OrphanInv, [Next]_vars PROVE OrphanInv'
    OBVIOUS
  <2>1. EndInv'
    BY EndStep DEF OrphanInv
  <2>2. ASSUME Healthy' PROVE LockedRows(items)' \subseteq Held'
    <3>1. CASE Producer
      BY <2>2, <3>1, ProducerHolds DEF OrphanInv
    <3>2. CASE \E i \in flight : Stage(i)
      BY <2>2, <3>2, StageHolds
    <3>3. CASE UNCHANGED vars
      <4>1. Healthy /\ LockedRows(items)' = LockedRows(items) /\ Held' = Held
        BY <2>2, <3>3 DEF vars, Healthy, LockedRows, Held, NextLoaded
      <4> QED BY <4>1 DEF OrphanInv, NoOrphan
    <3>4. ~Start /\ ~RunReturns /\ ~Crash /\ ~Cancel /\ ~PassthroughCancelled
      BY <2>2 DEF Start, RunReturns, Crash, Halt, Cancel, PassthroughCancelled, Healthy
    <3> QED BY <3>1, <3>2, <3>3, <3>4 DEF Next
  <2> QED BY <2>1, <2>2 DEF OrphanInv, NoOrphan
<1>3. OrphanInv => NoOrphan
  BY DEF OrphanInv
<1> QED BY <1>1, <1>2, <1>3, Invariance, PTL DEF Spec

-----------------------------------------------------------------------------
(* First in, first out, in a run that nothing disturbs. *)

Steady == Faults = {} /\ "error" \notin Outcomes

\* What was stored or finished precedes what is still to be pushed; a finished
\* event whose row is there is about to be deleted.
SteadyInv ==
  /\ ~cancelled /\ ~failed /\ pc # "stopped"
  /\ pc \in {"down", "unlock", "cursor"} => DOMAIN items = {} /\ finished = {}
  /\ \A e \in DOMAIN items \cup finished : e <= pos /\ \A f \in page : e < f
  /\ FeedOrder
  /\ \A e \in finished \cap DOMAIN items :
       \E i \in flight : i.ev = e /\ i.phase = "remove"

\* A set of positions of the feed that has a member has a last one.
LEMMA LastOf ==
  ASSUME NEW S, S \subseteq Feed, S # {}
  PROVE  \E g \in S : \A e \in S : e <= g
<1> DEFINE T == {n \in Nat : \E e \in S : n = FeedLen - e}
<1>1. FeedLen \in Nat /\ \A e \in S : e \in Nat /\ FeedLen - e \in Nat
  BY FeedAssumption DEF Feed
<1>2. T # {} /\ T \subseteq Nat
  BY <1>1
<1>3. PICK m \in T : \A k \in T : ~(<<k, m>> \in OpToRel(<, Nat))
  <2> HIDE DEF T
  <2> QED BY <1>2, WFMin, NatLessThanWellFounded
<1>4. PICK g \in S : m = FeedLen - g
  OBVIOUS
<1>5. ASSUME NEW e \in S PROVE e <= g
  <2>1. FeedLen - e \in T
    BY <1>1
  <2>2. ~(FeedLen - e < FeedLen - g)
    BY <1>1, <1>3, <1>4, <2>1 DEF OpToRel
  <2> QED BY <1>1, <2>2
<1> QED BY <1>5

\* A row pushed after all rows of earlier events is the last in order.
LEMMA PushedLast ==
  ASSUME TypeOK, FeedOrder, NEW e \in Feed, \A x \in DOMAIN items : x < e,
         items' = PushRow(items, e)
  PROVE  FeedOrder'
<1>1. items \in [DOMAIN items -> Row] /\ DOMAIN items \subseteq Feed
  BY DEF TypeOK
<1>2. /\ DOMAIN items' = DOMAIN items \cup {e} /\ items'[e].order = MaxOrder(items) + 1
      /\ \A x \in DOMAIN items : x # e => items'[x] = items[x]
  <2>1. /\ DOMAIN items' = DOMAIN items \cup {e}
        /\ \A x \in DOMAIN items : x # e => items'[x] = items[x]
    BY <1>1, PushRowFacts
  <2>2. items'[e].order = MaxOrder(items) + 1
    BY PushedRow
  <2> QED BY <2>1, <2>2
<1>3. \A x \in Feed : x \in Nat
  BY FeedAssumption DEF Feed
<1>4. ASSUME NEW x \in DOMAIN items PROVE items[x].order < MaxOrder(items) + 1
  <2>1. PICK g \in DOMAIN items : \A y \in DOMAIN items : y <= g
    BY <1>1, LastOf
  <2>2. ASSUME NEW y \in DOMAIN items PROVE items[y].order <= items[g].order
    <3>1. y \in Nat /\ g \in Nat /\ y <= g /\ items[y].order \in Nat /\ items[g].order \in Nat
      BY <1>1, <1>3, <2>1 DEF Row
    <3>2. CASE y = g
      BY <3>1, <3>2
    <3>3. CASE y < g
      BY <3>1, <3>3 DEF FeedOrder
    <3> QED BY <3>1, <3>2, <3>3
  <2>3. MaxOrder(items) = items[g].order
    BY <1>1, <2>2, MaxOrderIs
  <2>4. items[x].order \in Nat /\ items[g].order \in Nat /\ items[x].order <= items[g].order
    BY <1>1, <2>2 DEF Row
  <2> QED BY <2>3, <2>4
<1>5. ASSUME NEW x \in DOMAIN items', NEW y \in DOMAIN items', x < y
      PROVE  items'[x].order < items'[y].order
  <2>1. x # e
    <3>1. CASE y = e
      BY <1>3, <1>5, <3>1
    <3>2. CASE y \in DOMAIN items
      <4>1. y < e /\ y \in Nat /\ x \in Nat /\ e \in Nat
        BY <1>1, <1>2, <1>3, <3>2
      <4> QED BY <1>5, <4>1
    <3> QED BY <1>2, <3>1, <3>2
  <2>2. x \in DOMAIN items /\ items'[x] = items[x]
    BY <1>2, <2>1
  <2>3. CASE y = e
    BY <1>2, <1>4, <2>2, <2>3
  <2>4. CASE y # e
    BY <1>2, <1>5, <2>2, <2>4 DEF FeedOrder
  <2> QED BY <2>3, <2>4
<1> QED BY <1>5 DEF FeedOrder

\* The rows that stay keep their order.
LEMMA SameOrder ==
  ASSUME FeedOrder, DOMAIN items' \subseteq DOMAIN items,
         \A x \in DOMAIN items' : items'[x].order = items[x].order
  PROVE  FeedOrder'
BY DEF FeedOrder

\* Nothing fails and nothing stops in such a run.
LEMMA NothingStops ==
  ASSUME Steady, IInv, SteadyInv
  PROVE  /\ ~RunReturns /\ ~Crash /\ ~Cancel /\ ~PassthroughCancelled
         /\ ~WaitCancelled /\ ~PutAllCancelled /\ ~FetchFails /\ ~PushRefused /\ ~ProducerFails
         /\ \A i \in flight : /\ ~StageCancelled(i) /\ ~ProcessFails(i)
                              /\ ~DeleteEventFails(i) /\ ~StageStorageFails(i)
<1>1. ~Closed /\ \A k : ~Disturb(k)
  BY DEF Closed, SteadyInv, Disturb, Steady
<1>2. ~StorageFails
  BY <1>1 DEF StorageFails
<1>3. ~PushRefused
  <2> SUFFICES ASSUME NEW e \in page, e \in DOMAIN items PROVE FALSE
    BY DEF PushRefused, NextPushed, Refused
  <2>1. e < e /\ e \in Nat
    BY FeedAssumption DEF SteadyInv, IInv, TypeOK, Feed
  <2> QED BY <2>1
<1>4. ~RunReturns /\ ~Crash /\ ~Cancel /\ ~PassthroughCancelled
  BY <1>1 DEF RunReturns, Crash, Cancel, PassthroughCancelled, SteadyInv
<1>5. ~WaitCancelled /\ ~PutAllCancelled /\ ~FetchFails /\ ~ProducerFails
  BY <1>1, <1>2 DEF WaitCancelled, PutAllCancelled, FetchFails, ProducerFails, SteadyInv
<1>6. ASSUME NEW i \in flight
      PROVE  ~StageCancelled(i) /\ ~ProcessFails(i) /\ ~DeleteEventFails(i) /\ ~StageStorageFails(i)
  BY <1>2 DEF StageCancelled, ProcessFails, DeleteEventFails, StageStorageFails, SteadyInv, Steady
<1> QED BY <1>3, <1>4, <1>5, <1>6

\* Steps of the producer that push nothing.
LEMMA SteadyProducer ==
  ASSUME Steady, IInv, SteadyInv, Producer
  PROVE  SteadyInv'
<1>1. items \in [DOMAIN items -> Row]
  BY DEF IInv, TypeOK
<1>2. CASE UnlockNext \/ UnlockedAll \/ ReadCursor
  <2>1. pc \in {"unlock", "cursor"} /\ pc' \in {"unlock", "cursor", "wait"}
        /\ UNCHANGED <<cancelled, failed, finished, page, flight>> /\ DOMAIN items' = DOMAIN items
    <3>1. CASE UnlockNext
      <4>1. PICK e : items' = SetLocked(items, e, FALSE)
        BY <3>1 DEF UnlockNext
      <4>2. DOMAIN items' = DOMAIN items
        BY <1>1, <4>1, UnlockFacts
      <4> QED BY <3>1, <4>2 DEF UnlockNext, localVars, runVars
    <3>2. CASE UnlockedAll \/ ReadCursor
      BY <3>2 DEF UnlockedAll, ReadCursor, localVars, runVars
    <3> QED BY <1>2, <3>1, <3>2
  <2>2. DOMAIN items' = {} /\ finished' = {}
    BY <2>1 DEF SteadyInv
  <2> QED BY <2>1, <2>2 DEF SteadyInv, FeedOrder
<1>3. CASE WaitOver \/ Load \/ LockNext \/ Put \/ PutAll \/ FetchTimeout \/ UpdateCursor
  <2>1. /\ pc' \notin {"down", "unlock", "cursor", "stopped"}
        /\ UNCHANGED <<cancelled, failed, finished, page, pos>> /\ flight \subseteq flight'
    BY <1>3 DEF WaitOver, Load, LockNext, Put, PutAll, FetchTimeout, UpdateCursor, localVars, runVars
  <2>2. DOMAIN items' = DOMAIN items /\ \A x \in DOMAIN items : items'[x].order = items[x].order
    <3>1. CASE LockNext
      <4>1. PICK it : items' = SetLocked(items, it.ev, TRUE)
        BY <3>1 DEF LockNext
      <4>2. DOMAIN items' = DOMAIN items
        BY <1>1, <4>1, LockFacts
      <4>3. \A x \in DOMAIN items : items'[x].order = items[x].order
        BY <1>1, <4>1, LockKeeps
      <4> QED BY <4>2, <4>3
    <3>2. CASE WaitOver \/ Load \/ Put \/ PutAll \/ FetchTimeout \/ UpdateCursor
      BY <3>2 DEF WaitOver, Load, Put, PutAll, FetchTimeout, UpdateCursor
    <3> QED BY <1>3, <3>1, <3>2
  <2>3. FeedOrder'
    BY <2>2, SameOrder DEF SteadyInv
  <2> QED BY <2>1, <2>2, <2>3 DEF SteadyInv
<1>4. CASE FetchPage
  <2>1. PICK q \in pos + 1 .. FeedLen : pos' = q /\ page' = Wanted \cap (pos + 1 .. q)
    BY <1>4 DEF FetchPage
  <2>2. pc' \in {"wait", "push"} /\ UNCHANGED <<items, cancelled, failed, finished, flight>>
    BY <1>4 DEF FetchPage, runVars
  <2>3. pos \in Nat /\ FeedLen \in Nat /\ \A e \in DOMAIN items \cup finished : e \in Nat
    BY FeedAssumption DEF IInv, TypeOK, Feed
  <2>4. ASSUME NEW e \in DOMAIN items \cup finished, NEW f \in page' PROVE e < f
    <3>1. e <= pos /\ f \in pos + 1 .. q
      BY <2>1 DEF SteadyInv
    <3> QED BY <2>3, <3>1
  <2>5. \A e \in DOMAIN items \cup finished : e <= q
    BY <2>3 DEF SteadyInv
  <2>6. FeedOrder'
    BY <2>2, SameOrder DEF SteadyInv
  <2> QED BY <2>1, <2>2, <2>4, <2>5, <2>6 DEF SteadyInv
<1>5. CASE PushNext
  <2>1. PICK e \in page : /\ \A o \in page : e <= o
                          /\ items' = PushRow(items, e) /\ page' = page \ {e}
    BY <1>5 DEF PushNext, NextPushed
  <2>2. pc' = "push" /\ UNCHANGED <<pos, cancelled, failed, finished, flight>>
    BY <1>5 DEF PushNext, runVars
  <2>3. e \in Feed /\ pos \in Nat /\ e <= pos /\ \A f \in page : f \in Nat
    BY <2>1, FeedAssumption DEF IInv, TypeOK, RunInv, Feed
  <2>4. \A x \in DOMAIN items \cup finished : x < e
    BY <2>1 DEF SteadyInv
  <2>5. FeedOrder'
    BY <2>1, <2>3, <2>4, PushedLast DEF SteadyInv, IInv
  <2>6. DOMAIN items' = DOMAIN items \cup {e}
    BY <1>1, <2>1, PushRowFacts
  <2>7. \A f \in page' : e < f
    BY <2>1, <2>3
  <2>8. e \notin finished
    <3>1. e \in Nat
      BY <2>3, FeedAssumption DEF Feed
    <3> QED BY <2>4, <3>1
  <2> QED BY <2>1, <2>2, <2>3, <2>5, <2>6, <2>7, <2>8 DEF SteadyInv
<1> QED BY <1>2, <1>3, <1>4, <1>5, NothingStops DEF Producer


\* A stage takes one item on; it finishes an event only to delete its row.
LEMMA SteadyStage ==
  ASSUME Steady, IInv, SteadyInv, NEW i \in flight, Stage(i)
  PROVE  SteadyInv'
<1>1. /\ items \in [DOMAIN items -> Row] /\ i \in PipelineItem /\ i.ev \in DOMAIN items
      /\ \A j \in flight : j.ev = i.ev => j = i
      /\ UNCHANGED <<pc, cancelled, pos, page, stages>>
      /\ pc \notin {"down", "unlock", "cursor"}
  BY StageKeeps DEF IInv, TypeOK, FlightInv, RunInv
<1>2. \A phase : [i EXCEPT !.phase = phase].ev = i.ev /\ [i EXCEPT !.phase = phase].phase = phase
  BY <1>1 DEF PipelineItem
<1>3. /\ UNCHANGED failed
      /\ \/ finished' = finished
         \/ /\ finished' = finished \cup {i.ev}
            /\ \E j \in flight' : j.ev = i.ev /\ j.phase = "remove"
  <2>1. ASSUME NEW answer \in Outcomes, ProcessReturns(i, answer)
        PROVE  /\ UNCHANGED failed
               /\ \/ finished' = finished
                  \/ /\ finished' = finished \cup {i.ev}
                     /\ \E j \in flight' : j.ev = i.ev /\ j.phase = "remove"
    <3>1. UNCHANGED failed /\ flight' = (flight \ {i}) \cup {[i EXCEPT !.phase = AfterProcess(i, answer)]}
          /\ finished' = IF Final(i, answer) THEN finished \cup {i.ev} ELSE finished
      BY <2>1 DEF ProcessReturns, Move, producerAndRun, runVars
    <3>2. Final(i, answer) => AfterProcess(i, answer) = "remove"
      BY DEF Final, AfterProcess
    <3> QED BY <1>2, <3>1, <3>2
  <2>2. CASE Skip(i) \/ CallProcess(i) \/ DeleteEvent(i) \/ UpdateEvent(i) \/ UnlockEvent(i)
             \/ Forward(i) \/ LeavePipeline(i)
    BY <2>2 DEF Skip, CallProcess, DeleteEvent, UpdateEvent, UnlockEvent, Forward, LeavePipeline,
                producerAndRun, runVars
  <2> QED BY <2>1, <2>2, NothingStops DEF Stage
<1>4. /\ DOMAIN items' \subseteq DOMAIN items
      /\ \A x \in DOMAIN items' : items'[x].order = items[x].order
      /\ i.phase = "remove" => DOMAIN items' = DOMAIN items \ {i.ev}
  <2>1. CASE DeleteEvent(i)
    <3>1. items' = DeleteRow(items, i.ev)
      BY <2>1 DEF DeleteEvent
    <3>2. /\ DOMAIN items' = DOMAIN items \ {i.ev}
          /\ \A x \in DOMAIN items \ {i.ev} : items'[x] = items[x]
      BY <1>1, <3>1, DeleteRowFacts
    <3> QED BY <3>2
  <2>2. CASE UpdateEvent(i)
    <3>1. items' = SetDone(items, i.ev, NewDone(i)) /\ i.phase # "remove"
      BY <2>2 DEF UpdateEvent
    <3>2. DOMAIN items' = DOMAIN items /\ \A x \in DOMAIN items : items'[x].order = items[x].order
      BY <1>1, <3>1, SetDoneKeeps
    <3> QED BY <3>1, <3>2
  <2>3. CASE UnlockEvent(i)
    <3>1. items' = SetLocked(items, i.ev, FALSE) /\ i.phase # "remove"
      BY <2>3 DEF UnlockEvent
    <3>2. DOMAIN items' = DOMAIN items
      BY <1>1, <3>1, UnlockFacts
    <3>3. \A x \in DOMAIN items : items'[x].order = items[x].order
      BY <1>1, <3>1, UnlockKeeps
    <3> QED BY <3>1, <3>2, <3>3
  <2>4. CASE \/ Skip(i) \/ CallProcess(i) \/ Forward(i) \/ LeavePipeline(i)
             \/ \E answer \in Outcomes : ProcessReturns(i, answer)
    BY <2>4 DEF Skip, CallProcess, ProcessReturns, Forward, LeavePipeline
  <2> QED BY <2>1, <2>2, <2>3, <2>4, NothingStops DEF Stage
<1>5. flight \ {i} \subseteq flight'
  BY NothingStops DEF Stage, Skip, CallProcess, ProcessReturns, DeleteEvent, UpdateEvent,
                      UnlockEvent, Forward, LeavePipeline, Move, Leave
<1>6. FeedOrder'
  BY <1>4, SameOrder DEF SteadyInv
<1>7. ASSUME NEW e \in finished' \cap DOMAIN items'
      PROVE  \E j \in flight' : j.ev = e /\ j.phase = "remove"
  <2>1. CASE e \notin finished
    BY <1>3, <2>1
  <2>2. CASE e \in finished
    <3>1. PICK j \in flight : j.ev = e /\ j.phase = "remove"
      BY <1>4, <2>2 DEF SteadyInv
    <3>2. j # i
      BY <1>4, <3>1
    <3> QED BY <1>5, <3>1, <3>2
  <2> QED BY <2>1, <2>2
<1>8. DOMAIN items' \cup finished' \subseteq DOMAIN items \cup finished
  BY <1>1, <1>3, <1>4
<1> QED BY <1>1, <1>3, <1>6, <1>7, <1>8 DEF SteadyInv

\* Pending events are in the order of the feed, and no row of a finished event
\* stays among them: in a run without failures, Push gives each event a place
\* after all that are pending or finished, and the stage that finishes an
\* event deletes its row and no other.
THEOREM OneByOneHolds ==
  ASSUME Steady
  PROVE  Spec => []OneByOne
<1>1. Init => SteadyInv
  BY DEF Init, SteadyInv, FeedOrder, EmptyTable
<1>2. IInv /\ SteadyInv /\ [Next]_vars => SteadyInv'
  <2> SUFFICES ASSUME IInv, SteadyInv, [Next]_vars PROVE SteadyInv'
    OBVIOUS
  <2>1. CASE Start
    <3>1. /\ DOMAIN items = {} /\ finished = {} /\ page = {} /\ pc' = "unlock"
          /\ UNCHANGED <<cancelled, failed, page, finished>>
          /\ items' = items \/ items' = EmptyTable
      BY <2>1 DEF Start, SteadyInv, IInv, RunInv
    <3>2. DOMAIN items' = {}
      BY <3>1 DEF EmptyTable
    <3> QED BY <3>1, <3>2 DEF SteadyInv, FeedOrder
  <2>2. CASE UNCHANGED vars
    BY <2>2 DEF vars, SteadyInv, FeedOrder
  <2> QED BY <2>1, <2>2, NothingStops, SteadyProducer, SteadyStage DEF Next
<1>3. SteadyInv => OneByOne
  BY DEF SteadyInv, OneByOne, RemovedWhenDone
<1> QED BY <1>1, <1>2, <1>3, Invariance, PTL DEF Spec


-----------------------------------------------------------------------------
(* The pipeline implements AtLeastOnce. *)

OpenPhases == {"process", "remove", "advance", "retry"}
CallOf(i)  == [ev |-> i.ev, at |-> i.at, result |-> ResultOf[i.phase]]
CallsOf(F) == {CallOf(i) : i \in {j \in F : j.phase \in OpenPhases}}
RecordOf(T) == [e \in DOMAIN T |-> T[e].done]

LEMMA ResultFacts ==
  /\ DOMAIN ResultOf = OpenPhases
  /\ ResultOf["process"] = "none" /\ ResultOf["remove"] = "settled"
  /\ ResultOf["advance"] = "passed" /\ ResultOf["retry"] = "again"
BY DEF ResultOf, OpenPhases

LEMMA OpenCallsAre == OpenCalls = CallsOf(flight) /\ OpenCalls' = CallsOf(flight')
BY ResultFacts DEF OpenCalls, CallsOf, CallOf

LEMMA CallFields ==
  ASSUME NEW i
  PROVE  /\ CallOf(i).ev = i.ev /\ CallOf(i).at = i.at
         /\ CallOf(i).result = ResultOf[i.phase]
BY DEF CallOf

\* The calls of what is in flight, when one item goes or comes.
LEMMA CallsWithout ==
  ASSUME NEW F, NEW i \in F, \A j \in F : j.ev = i.ev => j = i
  PROVE  /\ i.phase \in OpenPhases =>
              CallOf(i) \in CallsOf(F) /\ CallsOf(F \ {i}) = CallsOf(F) \ {CallOf(i)}
         /\ i.phase \notin OpenPhases => CallsOf(F \ {i}) = CallsOf(F)
         /\ \A c \in CallsOf(F \ {i}) : c.ev # i.ev
<1>1. \A j \in F \ {i} : CallOf(j).ev # CallOf(i).ev
  BY CallFields
<1>2. \A c \in CallsOf(F \ {i}) : c.ev # i.ev
  BY CallFields DEF CallsOf
<1>3. CASE i.phase \in OpenPhases
  <2>1. \A j \in F \ {i} : CallOf(j) # CallOf(i)
    BY <1>1
  <2> QED BY <1>2, <1>3, <2>1 DEF CallsOf
<1>4. CASE i.phase \notin OpenPhases
  BY <1>2, <1>4 DEF CallsOf
<1> QED BY <1>3, <1>4

LEMMA CallsWith ==
  ASSUME NEW F, NEW n
  PROVE  CallsOf(F \cup {n}) =
           IF n.phase \in OpenPhases THEN CallsOf(F) \cup {CallOf(n)} ELSE CallsOf(F)
BY DEF CallsOf

\* A step that changes none of what the promise is about.
LEMMA SilentStep ==
  ASSUME UNCHANGED stages, RecordOf(items') = RecordOf(items),
         UNCHANGED finished, UNCHANGED {e \in Due : e <= cursor},
         CallsOf(flight') = CallsOf(flight)
  PROVE  UNCHANGED Promise!contract
<1>1. OpenCalls' = OpenCalls
  BY OpenCallsAre
<1>2. UNCHANGED [e \in DOMAIN items |-> items[e].done]
  BY DEF RecordOf
<1> QED BY <1>1, <1>2 DEF Promise!contract

\* producerFunc: a push accepts, UpdateCursor acknowledges, the rest is silent.
LEMMA PushPromised ==
  ASSUME IInv, PushNext
  PROVE  Promise!Next
<1>1. PICK e \in NextPushed : ~Refused(e) /\ items' = PushRow(items, e)
  BY DEF PushNext
<1>2. items \in [DOMAIN items -> Row] /\ pc = "push" /\ e \in page /\ e \in Feed
  BY <1>1, FeedAssumption DEF IInv, TypeOK, PushNext, NextPushed
<1>3. e \notin DOMAIN items
  BY <1>1, <1>2, SettingsAssumption DEF Refused, IInv, MemoryInv
<1>4. /\ DOMAIN items' = DOMAIN items \cup {e}
      /\ \A x \in DOMAIN items : x # e => items'[x] = items[x]
      /\ items'[e].done = {}
  <2>1. items' = PushRow(items, e)
    BY <1>1
  <2>2. items'[e].done = {}
    BY <2>1, PushedRow
  <2>3. /\ DOMAIN items' = DOMAIN items \cup {e}
        /\ \A x \in DOMAIN items : x # e => items'[x] = items[x]
    BY <1>2, <2>1, PushRowFacts
  <2> QED BY <2>2, <2>3
<1>5. [x \in DOMAIN items' |-> items'[x].done] =
        [x \in DOMAIN items \cup {e} |-> IF x = e THEN {} ELSE items[x].done]
  BY <1>3, <1>4
<1>6. UNCHANGED {x \in Due : x <= cursor}
  <2>1. \A x \in Due : x <= cursor' <=> x <= cursor
    BY FeedAssumption DEF PushNext, Due, Feed, NoCursor, IInv, TypeOK
  <2> QED BY <2>1 DEF Due
<1>7. UNCHANGED <<stages, finished, OpenCalls>>
  BY OpenCallsAre DEF PushNext, runVars
<1>8. Promise!Accept(e)
  BY <1>3, <1>5, <1>6, <1>7 DEF Promise!Accept, Promise!Stored
<1> QED BY <1>2, <1>8 DEF Promise!Next

LEMMA CursorPromised ==
  ASSUME IInv, UpdateCursor
  PROVE  Promise!Next
<1>1. UNCHANGED <<items, stages, finished, flight>>
  BY DEF UpdateCursor, runVars
<1>2. UNCHANGED [e \in DOMAIN items |-> items[e].done] /\ UNCHANGED OpenCalls
  BY <1>1, OpenCallsAre
<1>3. \A e \in Due : e <= cursor' => e \in DOMAIN items \cup finished
  BY DEF UpdateCursor, IInv, CoverInv, Covered
<1>4. {e \in Due : e <= cursor'} \subseteq
        DOMAIN [e \in DOMAIN items |-> items[e].done] \cup finished
  BY <1>3
<1>5. {e \in Due : e <= cursor}' = {e \in Due : e <= cursor'}
  BY DEF Due
<1>6. Promise!Acknowledge
  BY <1>1, <1>2, <1>4, <1>5 DEF Promise!Acknowledge, Promise!Stored
<1> QED BY <1>6 DEF Promise!Next

LEMMA ProducerPromised ==
  ASSUME IInv, Producer
  PROVE  Promise!Next \/ UNCHANGED Promise!contract
<1>1. items \in [DOMAIN items -> Row]
  BY DEF IInv, TypeOK
<1>2. CASE UnlockNext \/ LockNext
  <2>1. PICK e : \/ items' = SetLocked(items, e, FALSE)
                 \/ items' = SetLocked(items, e, TRUE)
    BY <1>2 DEF UnlockNext, LockNext
  <2>2. DOMAIN items' = DOMAIN items
    BY <1>1, <2>1, LockFacts, UnlockFacts
  <2>3. \A x \in DOMAIN items : items'[x].done = items[x].done
    <3>1. CASE items' = SetLocked(items, e, FALSE)
      BY <1>1, <3>1, UnlockKeeps
    <3>2. CASE items' = SetLocked(items, e, TRUE)
      BY <1>1, <3>2, LockFacts
    <3> QED BY <2>1, <3>1, <3>2
  <2>4. UNCHANGED <<stages, cursor, finished, flight>>
    BY <1>2 DEF UnlockNext, LockNext, runVars
  <2>5. RecordOf(items') = RecordOf(items)
    BY <2>2, <2>3 DEF RecordOf
  <2> QED BY <2>4, <2>5, SilentStep DEF Due
<1>3. CASE Put
  <2>1. PICK it : flight' = flight \cup
            {[ev |-> it.ev, at |-> 1, phase |-> "queued", done |-> it.done]}
    BY <1>3 DEF Put
  <2>2. CallsOf(flight') = CallsOf(flight)
    BY <2>1, CallsWith DEF OpenPhases
  <2>3. UNCHANGED <<items, stages, cursor, finished>>
    BY <1>3 DEF Put, runVars
  <2> QED BY <2>2, <2>3, SilentStep DEF Due
<1>4. CASE UNCHANGED <<items, stages, cursor, finished, flight>>
  BY <1>4, SilentStep DEF Due
<1> QED BY <1>2, <1>3, <1>4, PushPromised, CursorPromised
        DEF Producer, UnlockedAll, ReadCursor, WaitOver, WaitCancelled, Load,
            PutAll, PutAllCancelled, FetchPage, FetchTimeout, PushRefused,
            ProducerFails, FetchFails, StopProducer, runVars

\* An item leaves the pipeline, and the contexts stay: its call, if one is
\* open, comes to nothing.
LEMMA LeavePromised ==
  ASSUME IInv, NEW i \in flight, Leave(i), RecordOf(items') = RecordOf(items),
         UNCHANGED <<stages, cursor, finished>>
  PROVE  Promise!Next \/ UNCHANGED Promise!contract
<1>1. \A j \in flight : j.ev = i.ev => j = i
  BY DEF IInv, FlightInv
<1>2. flight' = flight \ {i}
  BY DEF Leave
<1>3. CASE i.phase \notin OpenPhases
  <2>1. CallsOf(flight') = CallsOf(flight)
    BY <1>1, <1>2, <1>3, CallsWithout
  <2> QED BY <2>1, SilentStep DEF Due
<1>4. CASE i.phase \in OpenPhases
  <2>1. /\ CallOf(i) \in OpenCalls
        /\ OpenCalls' = OpenCalls \ {CallOf(i)}
    BY <1>1, <1>2, <1>4, CallsWithout, OpenCallsAre
  <2>2. UNCHANGED [e \in DOMAIN items |-> items[e].done]
    BY DEF RecordOf
  <2>3. UNCHANGED {e \in Due : e <= cursor}
    BY DEF Due
  <2>4. Promise!Forget(CallOf(i))
    BY <2>1, <2>2, <2>3 DEF Promise!Forget
  <2> QED BY <2>1, <2>4 DEF Promise!Next
<1> QED BY <1>3, <1>4

\* The calls when an item of the pipeline is replaced by another.
LEMMA CallsReplaced ==
  ASSUME IInv, NEW i \in flight, NEW n, flight' = (flight \ {i}) \cup {n}
  PROVE  /\ i.phase \in OpenPhases => CallOf(i) \in OpenCalls
         /\ i.phase \notin OpenPhases => \A c \in OpenCalls : c.ev # i.ev
         /\ OpenCalls' = (IF i.phase \in OpenPhases THEN OpenCalls \ {CallOf(i)}
                                                   ELSE OpenCalls)
                         \cup (IF n.phase \in OpenPhases THEN {CallOf(n)} ELSE {})
<1>1. \A j \in flight : j.ev = i.ev => j = i
  BY DEF IInv, FlightInv
<1>2. /\ i.phase \in OpenPhases =>
             /\ CallOf(i) \in OpenCalls
             /\ CallsOf(flight \ {i}) = OpenCalls \ {CallOf(i)}
      /\ i.phase \notin OpenPhases => CallsOf(flight \ {i}) = OpenCalls
      /\ \A c \in CallsOf(flight \ {i}) : c.ev # i.ev
  BY <1>1, CallsWithout, OpenCallsAre
<1>3. OpenCalls' = IF n.phase \in OpenPhases THEN CallsOf(flight \ {i}) \cup {CallOf(n)}
                                             ELSE CallsOf(flight \ {i})
  BY CallsWith, OpenCallsAre
<1> QED BY <1>2, <1>3

LEMMA CallPromised ==
  ASSUME IInv, NEW i \in flight, CallProcess(i)
  PROVE  Promise!Next
<1> DEFINE n == [i EXCEPT !.phase = "process"]
<1>1. /\ i \in PipelineItem /\ i.at \in 1 .. Len(stages) /\ i.ev \in Feed
      /\ i.ev \in DOMAIN items /\ items[i.ev].done = i.done
      /\ \A k \in 1 .. i.at - 1 : stages[k] \in i.done
      /\ i.phase = "queued" /\ stages[i.at] \notin i.done
  BY DEF IInv, TypeOK, FlightInv, StageInv, PipelineItem, CallProcess
<1>2. flight' = (flight \ {i}) \cup {n}
  BY DEF CallProcess, Move
<1>3. n.ev = i.ev /\ n.at = i.at /\ n.phase = "process"
  BY <1>1 DEF PipelineItem
<1>4. CallOf(n) = [ev |-> i.ev, at |-> i.at, result |-> "none"]
  BY <1>3, ResultFacts DEF CallOf
<1> HIDE DEF n
<1>5. /\ \A c \in OpenCalls : c.ev # i.ev
      /\ OpenCalls' = OpenCalls \cup {CallOf(n)}
  BY <1>1, <1>2, <1>3, CallsReplaced DEF OpenPhases
<1>6. UNCHANGED <<items, stages, cursor, finished>>
  BY DEF CallProcess, producerAndRun, runVars
<1>7. /\ UNCHANGED [e \in DOMAIN items |-> items[e].done]
      /\ UNCHANGED {e \in Due : e <= cursor}
  BY <1>6 DEF Due
<1>8. Promise!Begin(i.ev, i.at)
  BY <1>1, <1>4, <1>5, <1>6, <1>7 DEF Promise!Begin, Promise!Stored
<1>9. i.at \in DOMAIN stages
  BY <1>1, PipelineAssumption DEF IInv, TypeOK
<1> QED BY <1>1, <1>8, <1>9 DEF Promise!Next

LEMMA ReturnPromised ==
  ASSUME IInv, NEW i \in flight, NEW answer \in Outcomes, ProcessReturns(i, answer)
  PROVE  Promise!Next
<1> DEFINE after == AfterProcess(i, answer)
           n == [i EXCEPT !.phase = after]
           c == CallOf(i)
           result == ResultOf[after]
<1>1. /\ i \in PipelineItem /\ i.at \in 1 .. Len(stages) /\ i.phase = "process"
  BY DEF IInv, TypeOK, StageInv, ProcessReturns
<1>2. /\ after \in {"remove", "advance", "retry"}
      /\ after = "remove" <=> Final(i, answer)
      /\ after = "advance" => i.at # Len(stages)
  BY SettingsAssumption DEF AfterProcess, Final, ProcessReturns, LastStage
<1>3. flight' = (flight \ {i}) \cup {n}
  BY DEF ProcessReturns, Move
<1> HIDE DEF after
<1>4. n.ev = i.ev /\ n.at = i.at /\ n.phase = after
  BY <1>1 DEF PipelineItem
<1>5. /\ c.ev = i.ev /\ c.at = i.at /\ c.result = "none"
      /\ CallOf(n) = [c EXCEPT !.result = result]
  BY <1>1, <1>4, ResultFacts DEF CallOf
<1>6. /\ result \in {"settled", "passed", "again"}
      /\ result = "settled" <=> after = "remove"
      /\ result = "passed" <=> after = "advance"
  BY <1>2, ResultFacts
<1> HIDE DEF n, c, result
<1>7. /\ c \in OpenCalls
      /\ OpenCalls' = (OpenCalls \ {c}) \cup {[c EXCEPT !.result = result]}
  <2>1. i.phase \in OpenPhases /\ n.phase \in OpenPhases
    BY <1>1, <1>2, <1>4 DEF OpenPhases
  <2> QED BY <1>3, <1>5, <2>1, CallsReplaced DEF c
<1>8. result = "passed" => c.at < Len(stages)
  <2>1. Len(stages) \in Nat
    BY PipelineAssumption DEF IInv, TypeOK
  <2> QED BY <1>1, <1>2, <1>5, <1>6, <2>1
<1>9. finished' = IF result = "settled" THEN finished \cup {c.ev} ELSE finished
  BY <1>2, <1>5, <1>6 DEF ProcessReturns
<1>10. UNCHANGED <<items, stages, cursor>>
  BY DEF ProcessReturns, producerAndRun, runVars
<1>11. /\ UNCHANGED [e \in DOMAIN items |-> items[e].done]
       /\ UNCHANGED {e \in Due : e <= cursor}
  BY <1>10 DEF Due
<1>12. Promise!End(c, result)
  BY <1>5, <1>7, <1>8, <1>9, <1>10, <1>11 DEF Promise!End
<1> QED BY <1>6, <1>7, <1>12 DEF Promise!Next

LEMMA DeletePromised ==
  ASSUME IInv, NEW i \in flight, DeleteEvent(i)
  PROVE  Promise!Next
<1> DEFINE c == CallOf(i)
<1>1. i.phase = "remove" /\ flight' = flight \ {i} /\ items' = DeleteRow(items, i.ev)
  BY DEF DeleteEvent, Leave
<1>2. /\ DOMAIN items' = DOMAIN items \ {i.ev}
      /\ \A x \in DOMAIN items \ {i.ev} : items'[x] = items[x]
  BY <1>1, DeleteRowFacts DEF IInv, TypeOK
<1>3. [x \in DOMAIN items' |-> items'[x].done] =
        [x \in DOMAIN items \ {i.ev} |-> items[x].done]
  BY <1>2
<1>4. c.ev = i.ev /\ c.result = "settled"
  BY <1>1, ResultFacts DEF CallOf
<1> HIDE DEF c
<1>5. c \in OpenCalls /\ OpenCalls' = OpenCalls \ {c}
  <2>1. \A j \in flight : j.ev = i.ev => j = i
    BY DEF IInv, FlightInv
  <2>2. i.phase \in OpenPhases
    BY <1>1 DEF OpenPhases
  <2> QED BY <1>1, <2>1, <2>2, CallsWithout, OpenCallsAre DEF c
<1>6. UNCHANGED <<stages, cursor, finished>>
  BY DEF DeleteEvent, producerAndRun, runVars
<1>7. UNCHANGED {e \in Due : e <= cursor}
  BY <1>6 DEF Due
<1>8. Promise!Delete(c)
  BY <1>3, <1>4, <1>5, <1>6, <1>7 DEF Promise!Delete, Promise!Stored
<1> QED BY <1>5, <1>8 DEF Promise!Next

\* Processed adds the stage to the record; a retry finds it absent there and
\* leaves the record as it was.
LEMMA UpdatePromised ==
  ASSUME IInv, NEW i \in flight, UpdateEvent(i)
  PROVE  Promise!Next
<1> DEFINE c == CallOf(i)
           n == [i EXCEPT !.phase = AfterUpdate(i), !.done = NewDone(i)]
<1>1. /\ i \in PipelineItem /\ i.phase \in {"advance", "retry"}
      /\ i.at \in 1 .. Len(stages) /\ i.ev \in DOMAIN items
      /\ items[i.ev].done = i.done
      /\ i.phase = "retry" => stages[i.at] \notin i.done
  BY DEF IInv, TypeOK, FlightInv, StageInv, UpdateEvent
<1>2. flight' = (flight \ {i}) \cup {n}
  BY DEF UpdateEvent
<1>3. n.phase \notin OpenPhases
  BY <1>1 DEF PipelineItem, AfterUpdate, OpenPhases
<1>4. /\ c.ev = i.ev /\ c.at = i.at
      /\ c.result = IF i.phase = "advance" THEN "passed" ELSE "again"
  BY <1>1, ResultFacts DEF CallOf
<1> HIDE DEF n, c
<1>5. c \in OpenCalls /\ OpenCalls' = OpenCalls \ {c}
  <2>1. i.phase \in OpenPhases
    BY <1>1 DEF OpenPhases
  <2> QED BY <1>2, <1>3, <2>1, CallsReplaced DEF c
<1>6. /\ DOMAIN items' = DOMAIN items
      /\ \A x \in DOMAIN items :
           items'[x].done = IF x = i.ev THEN NewDone(i) ELSE items[x].done
  <2>1. items \in [DOMAIN items -> Row]
    BY DEF IInv, TypeOK
  <2>2. NewDone(i) \in SUBSET StageNames
    BY <1>1, StageName DEF NewDone, PipelineItem, IInv
  <2> QED BY <2>1, <2>2, SetDoneFacts DEF UpdateEvent
<1>7. UNCHANGED <<stages, cursor, finished>>
  BY DEF UpdateEvent, producerAndRun, runVars
<1>8. UNCHANGED {e \in Due : e <= cursor}
  BY <1>7 DEF Due
<1>9. CASE i.phase = "advance"
  <2>1. NewDone(i) = items[i.ev].done \cup {stages[i.at]}
    BY <1>1, <1>9 DEF NewDone
  <2>2. [x \in DOMAIN items' |-> items'[x].done] =
          [[x \in DOMAIN items |-> items[x].done]
             EXCEPT ![c.ev] = @ \cup {stages[c.at]}]
    BY <1>1, <1>4, <1>6, <2>1
  <2>3. Promise!Save(c)
    BY <1>4, <1>5, <1>7, <1>8, <1>9, <2>2 DEF Promise!Save
  <2> QED BY <1>5, <2>3 DEF Promise!Next
<1>10. CASE i.phase = "retry"
  <2>1. NewDone(i) = items[i.ev].done
    BY <1>1, <1>10 DEF NewDone
  <2>2. UNCHANGED [x \in DOMAIN items |-> items[x].done]
    BY <1>6, <2>1
  <2>3. Promise!Forget(c)
    BY <1>5, <1>7, <1>8, <2>2 DEF Promise!Forget
  <2> QED BY <1>5, <2>3 DEF Promise!Next
<1> QED BY <1>1, <1>9, <1>10

LEMMA StagePromised ==
  ASSUME IInv, NEW i \in flight, Stage(i)
  PROVE  Promise!Next \/ UNCHANGED Promise!contract
<1>1. CASE \/ StageCancelled(i) \/ ProcessFails(i) \/ DeleteEventFails(i)
           \/ StageStorageFails(i) \/ LeavePipeline(i)
  <2>1. Leave(i) /\ UNCHANGED <<items, stages, cursor, finished>>
    BY <1>1
    DEF StageCancelled, ProcessFails, DeleteEventFails, StageStorageFails,
        LeavePipeline, Abort, producerAndRun, runVars
  <2> QED BY <2>1, LeavePromised
<1>2. CASE UnlockEvent(i)
  <2>1. items \in [DOMAIN items -> Row] /\ items' = SetLocked(items, i.ev, FALSE)
    BY <1>2 DEF IInv, TypeOK, UnlockEvent
  <2>2. RecordOf(items') = RecordOf(items)
    <3>1. DOMAIN items' = DOMAIN items
      BY <2>1, UnlockFacts
    <3>2. \A e \in DOMAIN items : items'[e].done = items[e].done
      BY <2>1, UnlockFacts, UnlockKeeps
    <3> QED BY <3>1, <3>2 DEF RecordOf
  <2> QED BY <1>2, <2>2, LeavePromised DEF UnlockEvent, producerAndRun, runVars
<1>3. CASE Skip(i) \/ Forward(i)
  <2>1. i.phase \in {"queued", "out"} /\ i \in PipelineItem
    BY <1>3 DEF Skip, Forward, IInv, TypeOK
  <2>2. PICK n : /\ flight' = (flight \ {i}) \cup {n}
                 /\ n.phase \in {"queued", "out"}
    <3>1. CASE Skip(i)
      <4>1. [i EXCEPT !.phase = "out"].phase = "out"
        BY <2>1 DEF PipelineItem
      <4> QED BY <3>1, <4>1 DEF Skip, Move
    <3>2. CASE Forward(i)
      BY <2>1, <3>2, ForwardedItem DEF Forward
    <3> QED BY <1>3, <3>1, <3>2
  <2>3. OpenCalls' = OpenCalls
    <3>1. i.phase \notin OpenPhases /\ n.phase \notin OpenPhases
      BY <2>1, <2>2 DEF OpenPhases
    <3> QED BY <2>2, <3>1, CallsReplaced
  <2>4. UNCHANGED <<items, stages, cursor, finished>>
    BY <1>3 DEF Skip, Forward, producerAndRun, runVars
  <2> QED BY <2>3, <2>4, SilentStep, OpenCallsAre DEF Due
<1> QED BY <1>1, <1>2, <1>3, CallPromised, ReturnPromised, DeletePromised,
           UpdatePromised DEF Stage

\* The process stops, and starts, with nothing in flight.
LEMMA StartPromised ==
  ASSUME IInv, Start
  PROVE  Promise!Next
<1>1. flight = {} /\ OpenCalls = {} /\ UNCHANGED OpenCalls
  BY OpenCallsAre DEF Start, IInv, RunInv, CallsOf
<1>2. stages' \in Pipelines /\ UNCHANGED finished
  BY DEF Start
<1>3. CASE Backend = "sqlite"
  <2>1. UNCHANGED <<items, cursor>>
    BY <1>3 DEF Start
  <2>2. UNCHANGED [e \in DOMAIN items |-> items[e].done]
    BY <2>1
  <2>3. UNCHANGED {e \in Due : e <= cursor}
    BY <2>1 DEF Due
  <2>4. Promise!Deploy
    BY <1>1, <1>2, <1>3, <2>2, <2>3 DEF Promise!Deploy
  <2> QED BY <2>4 DEF Promise!Next
<1>4. CASE Backend # "sqlite"
  <2>1. items' = EmptyTable /\ cursor' = NoCursor
    BY <1>4 DEF Start
  <2>2. [e \in DOMAIN items' |-> items'[e].done] = [e \in {} |-> {}]
    BY <2>1 DEF EmptyTable
  <2>3. {e \in Due : e <= cursor}' = {}
    <3>1. \A e \in Due : ~(e <= cursor')
      BY <2>1, FeedAssumption DEF Due, NoCursor, Feed
    <3> QED BY <3>1 DEF Due
  <2>4. Promise!Deploy
    BY <1>1, <1>2, <1>4, <2>2, <2>3 DEF Promise!Deploy
  <2> QED BY <2>4 DEF Promise!Next
<1> QED BY <1>3, <1>4

LEMMA HaltPromised ==
  ASSUME Halt
  PROVE  Promise!Next
<1>1. OpenCalls' = {}
  BY OpenCallsAre DEF Halt, CallsOf
<1>2. UNCHANGED <<items, cursor, stages, finished>>
  BY DEF Halt
<1>3. /\ UNCHANGED [e \in DOMAIN items |-> items[e].done]
      /\ UNCHANGED {e \in Due : e <= cursor}
  BY <1>2 DEF Due
<1>4. Promise!Stop
  BY <1>1, <1>2, <1>3 DEF Promise!Stop
<1> QED BY <1>4 DEF Promise!Next

LEMMA PromiseStep ==
  IInv /\ [Next]_vars => [Promise!Next]_(Promise!contract)
<1> SUFFICES ASSUME IInv, [Next]_vars
             PROVE  Promise!Next \/ UNCHANGED Promise!contract
  OBVIOUS
<1>1. CASE RunReturns \/ Crash
  BY <1>1, HaltPromised DEF RunReturns, Crash
<1>2. CASE Cancel \/ PassthroughCancelled \/ UNCHANGED vars
  <2>1. UNCHANGED <<items, stages, cursor, finished, flight>>
    BY <1>2 DEF Cancel, PassthroughCancelled, vars
  <2> QED BY <2>1, SilentStep DEF Due
<1>3. CASE \E i \in flight : Stage(i)
  BY <1>3, StagePromised
<1> QED BY <1>1, <1>2, <1>3, StartPromised, ProducerPromised DEF Next

\* The event source keeps the promise of AtLeastOnce, for every feed, every
\* list of stages, any number of workers and buffers, both backends and every
\* sequence of disturbances: each step of producerFunc, of a stage, of the
\* storage and of the process is a step of the promise or is not seen by it.
THEOREM PromiseKept == Spec => KeepsPromise
<1>1. Init => Promise!Init
  <2> SUFFICES ASSUME Init PROVE Promise!Init
    OBVIOUS
  <2>1. OpenCalls = {}
    BY OpenCallsAre DEF Init, CallsOf
  <2>2. [e \in DOMAIN items |-> items[e].done] = [e \in {} |-> {}]
    BY DEF Init, EmptyTable
  <2>3. {e \in Due : e <= cursor} = {}
    <3>1. \A e \in Due : ~(e <= cursor)
      BY FeedAssumption DEF Init, Due, NoCursor, Feed
    <3> QED BY <3>1
  <2> QED BY <2>1, <2>2, <2>3 DEF Init, Promise!Init
<1> QED BY <1>1, PromiseStep, Invariance, PTL DEF Spec, KeepsPromise, Promise!Spec
=============================================================================
