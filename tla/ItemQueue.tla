------------------------------ MODULE ItemQueue ------------------------------
(***************************************************************************)
(* What storage.Storage (eventpipe/storage/storage.go) promises to the     *)
(* event pipeline, without indexes, rows or maps: every source has a queue *)
(* of items with distinct ids, read from its head, and a cursor.           *)
(***************************************************************************)
EXTENDS SequencesExt, Naturals

CONSTANTS
  Sources, Ids, Data,
  Cursors, Empty,   \* the cursors, and the one that is the empty string
  NoRow,            \* the cursor of a source that is not known
  Requeues          \* a Push of an item that is there puts it at the end

VARIABLES queue, cursor

contents == <<queue, cursor>>

Fresh(i) == [id |-> i, data |-> {}, locked |-> FALSE]
Holds(s, i) == \E k \in DOMAIN queue[s] : queue[s][k].id = i

Init == queue = [s \in Sources |-> <<>>] /\ cursor = [s \in Sources |-> NoRow]

\* A new item goes to the end; a source that is not known gets the empty cursor.
Push(s, i) ==
  /\ cursor' = [cursor EXCEPT ![s] = IF @ = NoRow THEN Empty ELSE @]
  /\ \/ /\ ~Holds(s, i)
        /\ queue' = [queue EXCEPT ![s] = Append(@, Fresh(i))]
     \/ /\ Requeues
        /\ \E k \in DOMAIN queue[s] :
             /\ queue[s][k].id = i
             /\ queue' = [queue EXCEPT ![s] = Append(RemoveAt(@, k), Fresh(i))]

\* An item keeps its place whatever becomes of its data and its lock.
Change(s, k) ==
  /\ UNCHANGED cursor
  /\ \E d \in Data, b \in BOOLEAN :
       queue' = [queue EXCEPT ![s][k] = [@ EXCEPT !.data = d, !.locked = b]]

Delete(s, k) ==
  UNCHANGED cursor /\ queue' = [queue EXCEPT ![s] = RemoveAt(@, k)]

UpdateCursor(s, c) ==
  cursor' = [cursor EXCEPT ![s] = c] /\ UNCHANGED queue

\* Drop, and for the memory backend the end of the process.
Clear ==
  queue' = [s \in Sources |-> <<>>] /\ cursor' = [s \in Sources |-> NoRow]

Next ==
  \/ \E s \in Sources :
       \/ \E i \in Ids : Push(s, i)
       \/ \E k \in DOMAIN queue[s] : Change(s, k) \/ Delete(s, k)
       \/ \E c \in Cursors : UpdateCursor(s, c)
  \/ Clear

Spec == Init /\ [][Next]_contents
=============================================================================
