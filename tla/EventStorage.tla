---------------------------- MODULE EventStorage ----------------------------
(***************************************************************************)
(* The items table of one event source, as the storage sub-package keeps   *)
(* it: eventpipe/storage/storage_sqlite.go, behind eventpipe/              *)
(* events_storage.go.  A table is a function from the ids present to rows. *)
(* The payload of a row is not modelled; of its context only the part the  *)
(* pipeline itself reads is: the set of stages marked as processed.        *)
(* Each operator is one SQL statement or transaction, so it is atomic.     *)
(***************************************************************************)
EXTENDS Integers, FiniteSets

CONSTANT StageNames     \* the names stages are pushed under

\* A row: its order_index, its locked column and context.processedStages.
Row == [order : Nat, locked : BOOLEAN, done : SUBSET StageNames]

\* What a reader gets back of a row (it copies the context).
EventItem(ids) == [ev : ids, done : SUBSET StageNames, order : Nat]

EmptyTable == [e \in {} |-> [order |-> 0, locked |-> FALSE, done |-> {}]]

\* COALESCE(MAX(order_index), 0): 0 when no row has the greatest index.
MaxOrder(items) ==
  LET orders == {items[e].order : e \in DOMAIN items}
      IsMax(m) == m \in orders /\ \A n \in orders : n <= m
  IN  IF \E m \in orders : IsMax(m) THEN CHOOSE m \in orders : IsMax(m) ELSE 0

\* Mutant: the index of the newest row is given again.
PushRowSameIndex(items, e) ==
  [x \in DOMAIN items \cup {e} |->
     IF x = e THEN [order |-> MaxOrder(items), locked |-> FALSE, done |-> {}]
              ELSE items[x]]

\* The INSERT of Push: a fresh row, unlocked, with no context.
PushRow(items, e) ==
  [x \in DOMAIN items \cup {e} |->
     IF x = e THEN [order |-> MaxOrder(items) + 1, locked |-> FALSE, done |-> {}]
              ELSE items[x]]

DeleteRow(items, e) == [x \in DOMAIN items \ {e} |-> items[x]]

SetLocked(items, e, b) ==
  [x \in DOMAIN items |-> [items[x] EXCEPT !.locked = IF x = e THEN b ELSE @]]

\* Update replaces the context and keeps order_index and the locked column.
SetDone(items, e, done) ==
  [x \in DOMAIN items |-> [items[x] EXCEPT !.done = IF x = e THEN done ELSE @]]

\* Mutant: the query for unlocked rows has lost its condition.
AnyRows(items) == DOMAIN items

LockedRows(items)   == {e \in DOMAIN items : items[e].locked}
UnlockedRows(items) == {e \in DOMAIN items : ~items[e].locked}

\* ORDER BY order_index LIMIT n over the rows S.
Oldest(items, S, n) ==
  {e \in S : Cardinality({f \in S : items[f].order < items[e].order}) < n}

\* A read of rows S: the items, as they are now.
Snapshot(items, S) ==
  {[ev |-> e, done |-> items[e].done, order |-> items[e].order] : e \in S}
=============================================================================
