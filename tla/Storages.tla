------------------------------ MODULE Storages ------------------------------
(***************************************************************************)
(* The two implementations of storage.Storage side by side, driven by the  *)
(* same calls: eventpipe/storage/storage_sqlite.go (variables sources,     *)
(* table, schema, conn) and storage_memory.go (items, cursors, nextIndex), *)
(* under the calls of eventpipe/events_storage.go.  A call is one step in  *)
(* both, except UnlockAllEvents, which is a loop of calls in each.         *)
(* The data and the context of an item are the set `done' of EventStorage. *)
(***************************************************************************)
EXTENDS EventStorage, Sequences

CONSTANTS
  Sources,
  Ids,           \* the ids events may have
  Cursors,       \* the cursors, with
  Empty,         \*   the empty string, and
  NoRow,         \*   not a cursor: the source is not known
  Page,          \* the limit a call with limit 0 gets (100 in the code)
  MaxIndex,      \* bound on the order indexes
  MaxFaults      \* bound on the failing statements, crashes and closings

ASSUME CursorAssumption == Empty \in Cursors /\ NoRow \notin Cursors
ASSUME BoundAssumption == Page \in Nat \ {0} /\ MaxIndex \in Nat /\ MaxFaults \in Nat

Backends == {"sqlite", "memory"}

VARIABLES
  sources,     \* sqlite: the cursor column, NoRow without a row
  table,       \* sqlite: the items of every source
  schema,      \* sqlite: user_version, and whether items has a locked column
  conn,        \* sqlite: where Init is, "open", or what ended it
  items,       \* memory: the map of maps
  cursors,     \* memory: its cursors
  nextIndex,   \* memory: its next order indexes, 0 for a source without one
  sweep,       \* the running UnlockAllEvents: in which backend, what is left of its page
  apart,       \* history: sources a write of which only one backend did
  faults       \* number of disturbances so far

sqlVars == <<sources, table>>
vars == <<sources, table, schema, conn, items, cursors, nextIndex,
          sweep, apart, faults>>

NotSweeping == [on |-> "no", page |-> <<>>]
NoFile == [version |-> 0, exists |-> FALSE, locked |-> FALSE, missed |-> FALSE]
\* A file of the release before items had the column.
OldFile == [NoFile EXCEPT !.exists = TRUE]

Nothing == [s \in Sources |-> EmptyTable]
Unknown == [s \in Sources |-> NoRow]
Idle == [s \in Sources |-> NotSweeping]

TypeOK ==
  /\ DOMAIN table = Sources /\ DOMAIN items = Sources /\ DOMAIN sweep = Sources
  /\ \A s \in Sources :
       /\ DOMAIN table[s] \subseteq Ids /\ table[s] \in [DOMAIN table[s] -> Row]
       /\ DOMAIN items[s] \subseteq Ids /\ items[s] \in [DOMAIN items[s] -> Row]
       /\ sweep[s].on \in {"no"} \cup Backends /\ sweep[s].page \in Seq(Ids)
  /\ sources \in [Sources -> Cursors \cup {NoRow}]
  /\ cursors \in [Sources -> Cursors \cup {NoRow}]
  /\ nextIndex \in [Sources -> Nat]
  /\ schema \in [version : 0 .. 1, exists : BOOLEAN, locked : BOOLEAN, missed : BOOLEAN]
  /\ conn \in {"down", "alter", "version", "open", "closed", "dropped"}
  /\ apart \subseteq Sources /\ faults \in 0 .. MaxFaults

Init ==
  /\ sources = Unknown /\ table = Nothing
  /\ schema \in {NoFile, OldFile} /\ conn = "down"
  /\ items = Nothing /\ cursors = Unknown /\ nextIndex = [s \in Sources |-> 0]
  /\ sweep = Idle /\ apart = {} /\ faults = 0

-----------------------------------------------------------------------------
\* The k-th id of S in the order of the indexes: fewer than k are before it.
Nth(t, S, k) ==
  CHOOSE x \in S : /\ Cardinality({y \in S : t[y].order < t[x].order}) < k
                   /\ k <= Cardinality({y \in S : t[y].order <= t[x].order})

\* The ids of S in the order of their index, at most n of them; 0 is Page.
InOrder(t, S, n) ==
  LET limit == IF n <= 0 THEN Page ELSE n
  IN  [k \in 1 .. IF Cardinality(S) < limit THEN Cardinality(S) ELSE limit |->
         Nth(t, S, k)]

\* The items a reader gets: their ids and data, never their index or lock.
Read(t, S, n) ==
  LET found == InOrder(t, S, n)
  IN  [k \in DOMAIN found |-> [id |-> found[k], data |-> t[found[k]].done]]

\* What a read returns: a value, or an error with an empty one.
Answer(value) == [err |-> FALSE, value |-> value]
Failed(empty) == [err |-> TRUE, value |-> empty]

\* A query is refused on a closed or dropped database (on a dropped one the call
\* panics), and one with the locked column in its condition where there is none.
Query(value, empty)       == IF conn = "open" THEN Answer(value) ELSE Failed(empty)
LockedQuery(value, empty) == IF schema.locked THEN Query(value, empty) ELSE Failed(empty)

SqlGetItems(s, n)    == Query(Read(table[s], DOMAIN table[s], n), <<>>)
SqlGetLocked(s, n)   == LockedQuery(Read(table[s], LockedRows(table[s]), n), <<>>)
SqlGetUnlocked(s, n) == LockedQuery(Read(table[s], UnlockedRows(table[s]), n), <<>>)
SqlGetCursor(s)      == IF sources[s] = NoRow THEN Failed(Empty) ELSE Query(sources[s], Empty)
SqlGetIndex(s)       == Query(MaxOrder(table[s]), 0)

MemGetItems(s, n)    == Answer(Read(items[s], DOMAIN items[s], n))
MemGetLocked(s, n)   == Answer(Read(items[s], LockedRows(items[s]), n))
MemGetUnlocked(s, n) == Answer(Read(items[s], UnlockedRows(items[s]), n))
MemGetCursor(s)      == IF cursors[s] = NoRow THEN Failed(Empty) ELSE Answer(cursors[s])
\* One less than the next index, also when its item is gone.
MemGetIndex(s)       == Answer(IF nextIndex[s] > 0 THEN nextIndex[s] - 1 ELSE 0)

-----------------------------------------------------------------------------
Disturb == faults < MaxFaults /\ faults' = faults + 1

\* A statement is done, or it fails and changes nothing: on a closed or dropped
\* database always (on a dropped one the call panics), else now and then.
SqlDone == conn = "open" /\ UNCHANGED faults
SqlFails == \/ conn \in {"closed", "dropped"} /\ UNCHANGED faults
            \/ conn = "open" /\ Disturb

\* A write of s that exactly one of the backends has done sets them apart.
Compare(s, sqlDid, memDid) ==
  apart' = IF sqlDid = memDid THEN apart ELSE apart \cup {s}

\* The pipeline of s makes no other call while its producer unlocks all.
Quiet(s) == sweep[s].on = "no"

\* Mutant: the next index is the number of items.
MemPushCounts(s, i) ==
  LET index == Cardinality(DOMAIN items[s]) + 1
  IN  /\ nextIndex' = [nextIndex EXCEPT ![s] = index + 1]
      /\ items' = [items EXCEPT ![s] =
           [x \in DOMAIN @ \cup {i} |->
              IF x = i THEN [order |-> index, locked |-> FALSE, done |-> {}] ELSE @[x]]]
      /\ cursors' = [cursors EXCEPT ![s] = IF @ = NoRow THEN Empty ELSE @]

\* Replaces an item with the same id: it goes to the end, unlocked.
MemPush(s, i) ==
  LET index == IF nextIndex[s] = 0 THEN 1 ELSE nextIndex[s]
  IN  /\ nextIndex' = [nextIndex EXCEPT ![s] = index + 1]
      /\ items' = [items EXCEPT ![s] =
           [x \in DOMAIN @ \cup {i} |->
              IF x = i THEN [order |-> index, locked |-> FALSE, done |-> {}] ELSE @[x]]]
      /\ cursors' = [cursors EXCEPT ![s] = IF @ = NoRow THEN Empty ELSE @]

\* The transaction: the source with an empty cursor, then the item, which the
\* primary key refuses when it is there.
SqlPush(s, i) ==
  /\ SqlDone /\ i \notin DOMAIN table[s]
  /\ table' = [table EXCEPT ![s] = PushRow(@, i)]
  /\ sources' = [sources EXCEPT ![s] = IF @ = NoRow THEN Empty ELSE @]

SqlPushFails(s, i) ==
  /\ SqlFails \/ (SqlDone /\ i \in DOMAIN table[s])
  /\ UNCHANGED sqlVars

Push(s, i) ==
  /\ Quiet(s) /\ conn \notin {"down", "alter", "version"}
  /\ nextIndex[s] <= MaxIndex /\ MaxOrder(table[s]) < MaxIndex
  /\ MemPush(s, i)
  /\ \/ SqlPush(s, i) /\ Compare(s, TRUE, TRUE)
     \/ SqlPushFails(s, i) /\ Compare(s, FALSE, TRUE)
  /\ UNCHANGED <<schema, conn, sweep>>

(***************************************************************************)
(* A call that changes the items of s to `kept' and its rows to `rows', as *)
(* they were when the item is not there (sqlite then says nothing of a     *)
(* Lock or Unlock, memory answers an error; both answer an error to        *)
(* Update).  The statement needs the locked column or not.                 *)
(***************************************************************************)
Write(s, i, kept, rows, needsColumn) ==
  /\ Quiet(s) /\ conn \notin {"down", "alter", "version"}
  /\ items' = [items EXCEPT ![s] = kept]
  /\ \/ /\ SqlDone /\ (needsColumn => schema.locked)
        /\ table' = [table EXCEPT ![s] = rows] /\ UNCHANGED apart
     \/ /\ SqlFails \/ (SqlDone /\ needsColumn /\ ~schema.locked)
        /\ UNCHANGED table
        /\ Compare(s, FALSE, i \in DOMAIN items[s])
  /\ UNCHANGED <<sources, schema, conn, cursors, nextIndex, sweep>>

\* Mutant: INSERT OR REPLACE with the next index.
UpdateReplaces(s, i) ==
  LET Replaced(t, d) == IF i \in DOMAIN t THEN SetDone(PushRow(t, i), i, d) ELSE t
  IN  \E d \in SUBSET StageNames :
        Write(s, i, Replaced(items[s], d), Replaced(table[s], d), FALSE)

Update(s, i) ==
  \E d \in SUBSET StageNames :
    Write(s, i, SetDone(items[s], i, d), SetDone(table[s], i, d), FALSE)
Lock(s, i) ==
  Write(s, i, SetLocked(items[s], i, TRUE), SetLocked(table[s], i, TRUE), TRUE)
Unlock(s, i) ==
  Write(s, i, SetLocked(items[s], i, FALSE), SetLocked(table[s], i, FALSE), TRUE)
Delete(s, i) ==
  Write(s, i, DeleteRow(items[s], i), DeleteRow(table[s], i), FALSE)

\* UPDATE, and INSERT when it met no row: only the producer of s moves it.
UpdateCursor(s, c) ==
  /\ Quiet(s) /\ conn \notin {"down", "alter", "version"}
  /\ cursors' = [cursors EXCEPT ![s] = c]
  /\ \/ SqlDone /\ sources' = [sources EXCEPT ![s] = c] /\ UNCHANGED apart
     \/ SqlFails /\ UNCHANGED sources /\ Compare(s, FALSE, TRUE)
  /\ UNCHANGED <<table, schema, conn, items, nextIndex, sweep>>

-----------------------------------------------------------------------------
(***************************************************************************)
(* UnlockAllEvents: read a page of locked items, unlock each, and again,   *)
(* until a page is empty; an error ends it.  It runs before the stages.    *)
(* The backends share nothing, so memory's turn may come after sqlite's.   *)
(***************************************************************************)
Locked(b, s) ==
  IF b = "sqlite" THEN InOrder(table[s], LockedRows(table[s]), 0)
                  ELSE InOrder(items[s], LockedRows(items[s]), 0)

UnlockAllEvents(s) ==
  /\ Quiet(s) /\ conn \notin {"down", "alter", "version"}
  /\ sweep' = [sweep EXCEPT ![s] = [on |-> "sqlite", page |-> <<>>]]
  /\ UNCHANGED <<sources, table, schema, conn, items, cursors, nextIndex, apart, faults>>

Ended(b) == [on |-> IF b = "sqlite" THEN "memory" ELSE "no", page |-> <<>>]
StopSweep(b, s) == sweep' = [sweep EXCEPT ![s] = Ended(b)]

\* A call of the loop that sqlite may not answer.
SweepFails(b, s) ==
  /\ b = "sqlite" /\ (SqlFails \/ (SqlDone /\ ~schema.locked))
  /\ StopSweep(b, s) /\ apart' = apart \cup {s}
SweepGoesOn(b) ==
  b = "sqlite" => conn = "open" /\ schema.locked

SweepRead(b, s) ==
  /\ sweep[s] = [on |-> b, page |-> <<>>]
  /\ \/ /\ SweepGoesOn(b) /\ UNCHANGED <<apart, faults>>
        /\ sweep' = [sweep EXCEPT ![s] = IF Locked(b, s) = <<>> THEN Ended(b)
                                         ELSE [on |-> b, page |-> Locked(b, s)]]
     \/ SweepFails(b, s)
  /\ UNCHANGED <<sources, table, schema, conn, items, cursors, nextIndex>>

\* Mutant: one page is all.
SweepUnlockOnce(b, s) ==
  /\ sweep[s].on = b /\ sweep[s].page # <<>>
  /\ LET unlocked(t) == SetLocked(t, Head(sweep[s].page), FALSE)
     IN  \/ /\ SweepGoesOn(b) /\ UNCHANGED <<apart, faults>>
            /\ sweep' = [sweep EXCEPT ![s] = IF Len(@.page) = 1 THEN Ended(b)
                                             ELSE [@ EXCEPT !.page = Tail(@)]]
            /\ table' = [table EXCEPT ![s] = IF b = "sqlite" THEN unlocked(@) ELSE @]
            /\ items' = [items EXCEPT ![s] = IF b = "memory" THEN unlocked(@) ELSE @]
         \/ SweepFails(b, s) /\ UNCHANGED <<table, items>>
  /\ UNCHANGED <<sources, schema, conn, cursors, nextIndex>>

SweepUnlock(b, s) ==
  /\ sweep[s].on = b /\ sweep[s].page # <<>>
  /\ LET unlocked(t) == SetLocked(t, Head(sweep[s].page), FALSE)
     IN  \/ /\ SweepGoesOn(b) /\ UNCHANGED <<apart, faults>>
            /\ sweep' = [sweep EXCEPT ![s].page = Tail(@)]
            /\ table' = [table EXCEPT ![s] = IF b = "sqlite" THEN unlocked(@) ELSE @]
            /\ items' = [items EXCEPT ![s] = IF b = "memory" THEN unlocked(@) ELSE @]
         \/ SweepFails(b, s) /\ UNCHANGED <<table, items>>
  /\ UNCHANGED <<sources, schema, conn, cursors, nextIndex>>

Sweeping(b, s) == SweepRead(b, s) \/ SweepUnlock(b, s)

-----------------------------------------------------------------------------
\* Mutant: the version is stored before the column is added.
CreateTablesSetsVersion ==
  /\ conn = "down"
  /\ \/ /\ schema' = IF schema.exists THEN [schema EXCEPT !.version = 1]
                     ELSE [NoFile EXCEPT !.exists = TRUE, !.locked = TRUE]
        /\ conn' = "alter" /\ UNCHANGED faults
     \/ Disturb /\ UNCHANGED <<schema, conn>>
  /\ UNCHANGED <<sources, table, items, cursors, nextIndex, sweep, apart>>

\* Init: directory, connection, tables if they do not exist.
CreateTables ==
  /\ conn = "down"
  /\ \/ /\ schema' = IF schema.exists THEN schema
                     ELSE [NoFile EXCEPT !.exists = TRUE, !.locked = TRUE]
        /\ conn' = "alter" /\ UNCHANGED faults
     \/ Disturb /\ UNCHANGED <<schema, conn>>
  /\ UNCHANGED <<sources, table, items, cursors, nextIndex, sweep, apart>>

\* ALTER TABLE, when user_version is 0.  An error is taken for "the column
\* exists"; the query of user_version is the one that makes Init fail.
AddLockedColumn ==
  /\ conn = "alter"
  /\ \/ /\ schema' = IF schema.version = 0 THEN [schema EXCEPT !.locked = TRUE] ELSE schema
        /\ conn' = "version" /\ UNCHANGED faults
     \/ /\ schema.version = 0 /\ ~schema.locked
        /\ schema' = [schema EXCEPT !.missed = TRUE]
        /\ conn' = "version" /\ Disturb
     \/ conn' = "down" /\ UNCHANGED schema /\ Disturb
  /\ UNCHANGED <<sources, table, items, cursors, nextIndex, sweep, apart>>

\* PRAGMA user_version = 1; an error is logged.
SetVersion ==
  /\ conn = "version" /\ conn' = "open"
  /\ \/ schema' = [schema EXCEPT !.version = 1] /\ UNCHANGED faults
     \/ schema.version = 0 /\ UNCHANGED schema /\ Disturb
  /\ UNCHANGED <<sources, table, items, cursors, nextIndex, sweep, apart>>

\* Close cancels the context of sqlite's calls and does nothing in memory.
Close ==
  /\ conn = "open" /\ conn' = "closed" /\ Disturb
  /\ UNCHANGED <<sources, table, schema, items, cursors, nextIndex, sweep, apart>>

\* Drop deletes the file and clears the maps.
Drop ==
  /\ conn \in {"open", "closed"} /\ conn' = "dropped" /\ Disturb
  /\ sources' = Unknown /\ table' = Nothing /\ schema' = NoFile
  /\ items' = Nothing /\ cursors' = Unknown /\ nextIndex' = [s \in Sources |-> 0]
  /\ sweep' = Idle /\ apart' = {}

\* The process ends; the next one opens the file and has empty maps.
Restart ==
  /\ conn # "down" /\ conn' = "down" /\ (conn = "open" => Disturb)
  /\ (conn # "open" => UNCHANGED faults)
  /\ items' = Nothing /\ cursors' = Unknown /\ nextIndex' = [s \in Sources |-> 0]
  /\ sweep' = Idle /\ apart' = {s \in Sources : sources[s] # NoRow}
  /\ UNCHANGED <<sources, table, schema>>

Calls(s) ==
  \/ \E i \in Ids : \/ Push(s, i) \/ Update(s, i) \/ Delete(s, i)
                         \/ Lock(s, i) \/ Unlock(s, i)
  \/ \E c \in Cursors \ {Empty} : UpdateCursor(s, c)
  \/ UnlockAllEvents(s)

Next ==
  \/ \E s \in Sources : Calls(s) \/ \E b \in Backends : Sweeping(b, s)
  \/ CreateTables \/ AddLockedColumn \/ SetVersion
  \/ Close \/ Drop \/ Restart

Spec == Init /\ [][Next]_vars

\* A goroutine in UnlockAllEvents goes on.
FairSpec == Spec /\ \A s \in Sources, b \in Backends : WF_vars(Sweeping(b, s))

-----------------------------------------------------------------------------
(***************************************************************************)
(* As long as no write of a source was done by one backend only (an item   *)
(* pushed again, a failing statement, a closed or restarted process), an   *)
(* open database answers every read of it like memory, an unknown source   *)
(* included, in the same order and under every limit, although one takes   *)
(* the greatest index that is left and the other counts.  A closed or      *)
(* dropped one refuses every read while memory goes on answering, and so   *)
(* does one without the locked column the reads that are about locks.      *)
(***************************************************************************)
SameReads ==
  \A s \in Sources \ apart : conn = "open" /\ Quiet(s) =>
    /\ SqlGetCursor(s) = MemGetCursor(s)
    /\ \A n \in 0 .. Cardinality(Ids) :
         /\ SqlGetItems(s, n) = MemGetItems(s, n)
         /\ schema.locked => /\ SqlGetLocked(s, n) = MemGetLocked(s, n)
                             /\ SqlGetUnlocked(s, n) = MemGetUnlocked(s, n)

\* GetIndex tells the backends apart after a Delete of the newest item, and
\* only in that direction: the memory backend never gives an index again.
IndexNotBehind ==
  \A s \in Sources \ apart :
    conn = "open" => SqlGetIndex(s).value <= MemGetIndex(s).value

\* What the backends may answer differently is an index that is not read.
SameAnswers == TypeOK /\ SameReads /\ IndexNotBehind

\* An open database has the column every Lock needs, unless the ALTER TABLE
\* itself failed, wherever a migration was cut short.
Migrated == conn = "open" /\ ~schema.locked => schema.missed

\* When UnlockAllEvents ends without an error no item of the source is locked,
\* although it reads pages of limited size.
SweptClean ==
  [][\A b \in Backends, s \in Sources :
       /\ sweep[s].on = b /\ sweep'[s].on # b
       /\ conn' = conn /\ faults' = faults
       /\ (b = "sqlite" => conn = "open" /\ schema.locked)
       => (IF b = "sqlite" THEN LockedRows(table'[s]) ELSE LockedRows(items'[s])) = {}]_vars

\* UnlockAllEvents ends: a page it has unlocked is not read again.
SweepEnds == \A s \in Sources : []<>Quiet(s)

\* UnlockAllEvents comes to an end, and then nothing is locked.
Sweeps == SweptClean /\ SweepEnds

\* Both implement the queue; only the memory backend replaces an item that is
\* pushed again.
Queue(t) ==
  LET Item(i) == [id |-> i, data |-> t[i].done, locked |-> t[i].locked]
  IN  [k \in 1 .. Cardinality(DOMAIN t) |-> Item(Nth(t, DOMAIN t, k))]

Sqlite == INSTANCE ItemQueue WITH
  queue <- [s \in Sources |-> Queue(table[s])], cursor <- sources,
  Data <- SUBSET StageNames, Requeues <- FALSE
Memory == INSTANCE ItemQueue WITH
  queue <- [s \in Sources |-> Queue(items[s])], cursor <- cursors,
  Data <- SUBSET StageNames, Requeues <- TRUE

\* Every step of the sqlite backend is a step of the queue.
SqliteIsQueue == Sqlite!Spec
\* Every step of the memory backend is a step of the queue that requeues.
MemoryIsQueue == Memory!Spec
=============================================================================
