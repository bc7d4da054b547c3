------------------------------- MODULE Minips -------------------------------
(***************************************************************************)
(* The in-process message bus, minips/minips.go: subscribers with bounded  *)
(* channels, registered under dotted topics, and Publish, which sends to   *)
(* the topic, to each of its prefixes and to the empty topic without ever  *)
(* blocking.  The registrations change under one mutex; the closed flag of *)
(* a Subscriber, its channel and the goroutines that use it do not.        *)
(*                                                                         *)
(* A topic is the sequence of its segments: "a.b" is <<"a", "b">>, and ""  *)
(* is <<"">>.  A message is its number in the order of publication.        *)
(***************************************************************************)
EXTENDS Integers, FiniteSets, Sequences

CONSTANTS
  Subs,            \* the subscribers; each stands for its channel too
  Topics,          \* what they may subscribe to
  Published,       \* what is published on
  Capacity,        \* of a channel; an unbuffered one is not modelled
  MaxMessages,     \* bound on the messages published
  MaxTimes,        \* bound on a subscriber's registrations under one topic;
                   \* with 1 it never subscribes to what it has already
  Shared           \* the subscribers whose calls several goroutines make at once

\* What is between the dots of a topic.
Segment == STRING

ASSUME BusAssumption ==
  /\ Capacity \in Nat \ {0} /\ MaxMessages \in Nat
  /\ MaxTimes \in Nat \ {0} /\ Shared \subseteq Subs
  /\ \A t \in Topics \cup Published : t \in Seq(Segment) /\ t # <<>>

VARIABLES
  topics,      \* mp.topics: topic -> list of channels
  chan,        \* what a channel buffers
  closed,      \* Subscriber.closed
  closing,     \* where a call of Close is: "no", "unregister", "close", "done"
  joining,     \* topics a call of Subscribe has still to register
  publisher,   \* the Publish that holds the mutex, or NoPublisher
  count,       \* number of messages published
  due,         \* history: for each subscriber, the topics it has that lead
               \* the last message to it
  copies,      \* history: how often the last message was sent to each channel
  dropped      \* history: the channels it found full

vars == <<topics, chan, closed, closing, joining, publisher, count, due,
          copies, dropped>>
callVars == <<closed, closing, joining>>
busVars  == <<publisher, count, due, copies, dropped>>

Root == <<"">>
Elements(list) == {list[k] : k \in DOMAIN list}
Occurrences(list, x) == Cardinality({k \in DOMAIN list : list[k] = x})
ListOf(t) == IF t \in DOMAIN topics THEN topics[t] ELSE <<>>

NoPublisher == [msg |-> 0, lists |-> <<>>, total |-> 0, part |-> 0, real |-> 0]

TypeOK ==
  /\ DOMAIN topics \subseteq Topics
  /\ \A t \in DOMAIN topics : topics[t] \in Seq(Subs) /\ topics[t] # <<>>
  /\ chan \in [Subs -> Seq(1 .. MaxMessages)]
  /\ \A s \in Subs : Len(chan[s]) <= Capacity
  /\ closed \in [Subs -> BOOLEAN]
  /\ closing \in [Subs -> {"no", "unregister", "close", "done"}]
  /\ joining \in [Subs -> Seq(Topics)]
  /\ count \in 0 .. MaxMessages
  /\ publisher.msg \in {0, count}
  /\ due \in [Subs -> SUBSET Topics]
  /\ copies \in [Subs -> Nat] /\ dropped \subseteq Subs

Init ==
  /\ topics = [t \in {} |-> <<>>]
  /\ chan = [s \in Subs |-> <<>>]
  /\ closed = [s \in Subs |-> FALSE]
  /\ closing = [s \in Subs |-> "no"]
  /\ joining = [s \in Subs |-> <<>>]
  /\ publisher = NoPublisher /\ count = 0
  /\ due = [s \in Subs |-> {}] /\ copies = [s \in Subs |-> 0] /\ dropped = {}

Unlocked == publisher = NoPublisher
ChanClosed(s) == closing[s] = "done"

-----------------------------------------------------------------------------
(* The lists of channels. *)

\* append(list[:k], list[k+1:]...) moves the elements after k down by one, in
\* the array the loop is still running over; the last place keeps its element.
ShiftDown(array, k, n) ==
  [j \in DOMAIN array |-> IF j \in k .. n - 1 THEN array[j + 1] ELSE array[j]]

\* Mutant: the loop ends one place early.
UnregisterNotLast(array, n, s) ==
  IF \E k \in 1 .. n - 1 : array[k] = s
    THEN [array |-> ShiftDown(array, CHOOSE k \in 1 .. n - 1 : array[k] = s, n),
          len |-> n - 1]
    ELSE [array |-> array, len |-> n]
\* unregisterChannelSafe on the list in the first n places of an array: a
\* match leaves a list of n - 1, at every match again of n - 1.
Unregister(array, n, s) ==
  LET after[k \in 0 .. n] ==
        IF k = 0 THEN array
        ELSE IF after[k - 1][k] = s THEN ShiftDown(after[k - 1], k, n)
        ELSE after[k - 1]
  IN  [array |-> after[n],
       len   |-> IF \E k \in 1 .. n : array[k] = s THEN n - 1 ELSE n]

\* The loop of unregisterChannelFromAll over the list of one topic: it calls
\* unregisterChannelSafe for every match it meets in the changing array.
UnregisterAll(list, s) ==
  LET after[k \in 0 .. Len(list)] ==
        IF k = 0 THEN [array |-> list, len |-> Len(list)]
        ELSE IF after[k - 1].array[k] = s
               THEN Unregister(after[k - 1].array, after[k - 1].len, s)
               ELSE after[k - 1]
      end == after[Len(list)]
  IN  SubSeq(end.array, 1, end.len)

\* A topic without channels is deleted.
NonEmpty(map) ==
  [t \in {u \in DOMAIN map : map[u] # <<>>} |-> map[t]]

Registered(map, t, s) ==
  [u \in DOMAIN map \cup {t} |->
     IF u # t THEN map[u]
     ELSE IF t \in DOMAIN map THEN Append(map[t], s) ELSE <<s>>]

UnregisteredFrom(map, t, s) ==
  NonEmpty([u \in DOMAIN map |->
     IF u # t THEN map[u]
     ELSE LET end == Unregister(map[u], Len(map[u]), s)
          IN  SubSeq(end.array, 1, end.len)])

UnregisteredFromAll(map, s) ==
  NonEmpty([u \in DOMAIN map |-> UnregisterAll(map[u], s)])

-----------------------------------------------------------------------------
(* The calls of a subscriber. *)

\* A subscriber that is not shared is used by one goroutine at a time.
MayCall(s) == s \in Shared \/ (joining[s] = <<>> /\ closing[s] \in {"no", "done"})

\* Subscribe looks at closed once, and registers one topic after the other.
Subscribe(s, ts) ==
  /\ MayCall(s) /\ joining[s] = <<>>
  /\ ~closed[s]
  /\ \A t \in Elements(ts) :
       Occurrences(ListOf(t), s) + Occurrences(ts, t) <= MaxTimes
  /\ joining' = [joining EXCEPT ![s] = ts]
  /\ UNCHANGED <<topics, chan, closed, closing, busVars>>

Register(s) ==
  /\ joining[s] # <<>> /\ Unlocked
  /\ topics' = Registered(topics, Head(joining[s]), s)
  /\ joining' = [joining EXCEPT ![s] = Tail(@)]
  /\ UNCHANGED <<chan, closed, closing, busVars>>

Unsubscribe(s, t) ==
  /\ MayCall(s) /\ Unlocked
  /\ topics' = UnregisteredFrom(topics, t, s)
  /\ UNCHANGED <<chan, callVars, busVars>>

UnsubscribeAll(s) ==
  /\ MayCall(s) /\ Unlocked
  /\ topics' = UnregisteredFromAll(topics, s)
  /\ UNCHANGED <<chan, callVars, busVars>>

\* Close: the flag, the registrations, the channel.  (A second Close would
\* close a closed channel; no caller makes it.)
Close(s) ==
  /\ MayCall(s) /\ closing[s] = "no"
  /\ closed' = [closed EXCEPT ![s] = TRUE]
  /\ closing' = [closing EXCEPT ![s] = "unregister"]
  /\ UNCHANGED <<topics, chan, joining, busVars>>

CloseUnregister(s) ==
  /\ closing[s] = "unregister" /\ Unlocked
  /\ topics' = UnregisteredFromAll(topics, s)
  /\ closing' = [closing EXCEPT ![s] = "close"]
  /\ UNCHANGED <<chan, closed, joining, busVars>>

\* Mutant: the channel is closed while it is still registered.
CloseChannelFirst(s) ==
  /\ closing[s] \in {"unregister", "close"}
  /\ closing' = [closing EXCEPT ![s] = "done"]
  /\ UNCHANGED <<topics, chan, closed, joining, busVars>>

CloseChannel(s) ==
  /\ closing[s] = "close"
  /\ closing' = [closing EXCEPT ![s] = "done"]
  /\ UNCHANGED <<topics, chan, closed, joining, busVars>>

\* WaitOne takes a message, what a closed channel still buffers included; its
\* other results, "closed" and "timeout", change nothing.
WaitOne(s) ==
  /\ chan[s] # <<>>
  /\ chan' = [chan EXCEPT ![s] = Tail(@)]
  /\ UNCHANGED <<topics, callVars, busVars>>

-----------------------------------------------------------------------------
(* Publish. *)

\* topicSplitterRegexp: a last segment that is not empty, behind a dot.
Splits(t) == Len(t) > 1 /\ t[Len(t)] # ""

\* Mutant: only the topic itself and the root are served.
VisitsNoPrefix(t) == <<t, Root>>
\* The topics Publish visits, in order; the root comes last, and again if it
\* was reached before.
Visits(t) ==
  LET depth == CHOOSE d \in 0 .. Len(t) - 1 :
                 /\ \A k \in 0 .. d - 1 : Splits(SubSeq(t, 1, Len(t) - k))
                 /\ ~Splits(SubSeq(t, 1, Len(t) - d))
  IN  [k \in 1 .. depth + 1 |-> SubSeq(t, 1, Len(t) - k + 1)] \o <<Root>>

\* What a topic is said to reach: its dotted prefixes and the root.
Reaches(t) == {SubSeq(t, 1, k) : k \in 1 .. Len(t)} \cup {Root}

Publish(t) ==
  /\ Unlocked /\ count < MaxMessages
  /\ count' = count + 1
  /\ publisher' = [msg |-> count',
                   lists |-> [k \in DOMAIN Visits(t) |-> ListOf(Visits(t)[k])],
                   total |-> 0, part |-> 0, real |-> 0]
  /\ due' = [s \in Subs |-> {u \in Reaches(t) : s \in Elements(ListOf(u))}]
  /\ copies' = [s \in Subs |-> 0] /\ dropped' = {}
  /\ UNCHANGED <<topics, chan, callVars>>

Sending == ~Unlocked /\ publisher.lists # <<>> /\ Head(publisher.lists) # <<>>
Target  == Head(Head(publisher.lists))
RestOfList(p) == [p EXCEPT !.lists[1] = Tail(@)]

\* Mutant: a send without a default; on a full channel it makes no step.
SendWaits == FALSE

\* The select sends if there is room, and otherwise goes on.
Send ==
  /\ Sending /\ ~ChanClosed(Target) /\ Len(chan[Target]) < Capacity
  /\ chan' = [chan EXCEPT ![Target] = Append(@, publisher.msg)]
  /\ copies' = [copies EXCEPT ![Target] = @ + 1]
  /\ publisher' = [RestOfList(publisher) EXCEPT !.part = @ + 1, !.real = @ + 1]
  /\ UNCHANGED <<topics, callVars, count, due, dropped>>

SendDrops ==
  /\ Sending /\ ~ChanClosed(Target) /\ Len(chan[Target]) >= Capacity
  /\ dropped' = dropped \cup {Target}
  /\ publisher' = RestOfList(publisher)
  /\ UNCHANGED <<topics, chan, callVars, count, due, copies>>

\* A send on a closed channel panics: publishTopic recovers, does not go on
\* with the list, and returns 0 for it.
SendPanics ==
  /\ Sending /\ ChanClosed(Target)
  /\ publisher' = [publisher EXCEPT !.lists = Tail(@), !.part = 0]
  /\ UNCHANGED <<topics, chan, callVars, count, due, copies, dropped>>

NextList ==
  /\ publisher.lists # <<>> /\ Head(publisher.lists) = <<>>
  /\ publisher' = [publisher EXCEPT !.lists = Tail(@),
                                    !.total = @ + publisher.part, !.part = 0]
  /\ UNCHANGED <<topics, chan, callVars, count, due, copies, dropped>>

PublishReturns ==
  /\ ~Unlocked /\ publisher.lists = <<>>
  /\ publisher' = NoPublisher
  /\ UNCHANGED <<topics, chan, callVars, count, due, copies, dropped>>

Publishing == Send \/ SendDrops \/ SendPanics \/ NextList \/ PublishReturns

\* Subscribe takes any number of topics; one or two are enough.
TopicLists == {<<t>> : t \in Topics} \cup (Topics \X Topics)

Next ==
  \/ \E s \in Subs :
       \/ \E ts \in TopicLists : Subscribe(s, ts)
       \/ \E t \in Topics : Unsubscribe(s, t)
       \/ Register(s) \/ UnsubscribeAll(s)
       \/ Close(s) \/ CloseUnregister(s) \/ CloseChannel(s) \/ WaitOne(s)
  \/ \E t \in Published : Publish(t)
  \/ Publishing

Spec == Init /\ [][Next]_vars

\* A Publish that has the mutex is scheduled; nothing is assumed of readers.
FairSpec == Spec /\ WF_vars(Publishing)

-----------------------------------------------------------------------------
(* Properties. *)

\* A message reaches every subscriber of its topic, of a prefix or of the
\* root, unless its channel was full: nobody keeps a message from others.
Reached ==
  ~Unlocked /\ publisher.lists = <<>> =>
    \A s \in Subs : due[s] # {} => copies[s] > 0 \/ s \in dropped

\* A message is sent to a subscriber at most once for each topic that leads
\* it there: the lists hold no channel twice and Publish visits none twice.
NoExtraCopy == \A s \in Subs : copies[s] <= Cardinality(due[s])

\* No closed channel is registered, so no send panics.
NoneClosedOf(subs) ==
  \A t \in DOMAIN topics : \A s \in Elements(topics[t]) \cap subs : ~ChanClosed(s)

\* A subscriber that one goroutine uses at a time is never registered closed: Close
\* unregisters under the mutex before it closes.
NoneClosed == NoneClosedOf(Subs \ Shared)

\* The number Publish returns is the number of messages it sent, which the
\* client takes for "nobody is listening" when it is 0.
HonestCount ==
  ~Unlocked /\ publisher.lists = <<>> => publisher.total = publisher.real

\* A message comes at most once for each of a subscriber's subscriptions.  While no
\* closed channel is registered, who subscribed and has room gets it, and the caller
\* is told how many were sent; the panic of a closed one ends the rest of a list.
Delivery == TypeOK /\ NoExtraCopy /\ (NoneClosedOf(Subs) => Reached /\ HonestCount)

\* After Unsubscribe and UnsubscribeAll, nothing published later on the topic
\* goes to the subscriber.
Gone ==
  [][\A s \in Subs :
       /\ \A t \in Topics : Unsubscribe(s, t) => s \notin Elements(ListOf(t)')
       /\ UnsubscribeAll(s) => \A t \in Topics : s \notin Elements(ListOf(t)')]_vars

\* One subscriber's registrations are no business of another's.
OthersKept ==
  [][\A s \in Subs :
       UnsubscribeAll(s) \/ CloseUnregister(s) \/ (\E t \in Topics : Unsubscribe(s, t))
         => \A o \in Subs \ {s}, t \in Topics :
              Occurrences(ListOf(t)', o) = Occurrences(ListOf(t), o)]_vars

\* Removing a channel from the lists it is on, shifted while they are ranged over,
\* removes all of it and nothing else.
Removal == Gone /\ OthersKept

\* Publish returns, whether anybody reads or not.
PublishEnds == ~Unlocked ~> Unlocked
=============================================================================
