------------------------------- MODULE Streams -------------------------------
(***************************************************************************)
(* Publisher and subscriber streams of one client (stream_pub.go,          *)
(* stream_sub.go): their creation, keepalive, Close, and the delivery of   *)
(* what they receive.  The MQTT library calls receiveMessage of streams    *)
(* and of calls one after the other, in one goroutine, the router here;    *)
(* so a stream whose buffer is full holds back everybody's messages.       *)
(* The device at the other end is external: it keeps a subscription or     *)
(* publisher until it is deleted or not refreshed in time.                 *)
(***************************************************************************)
EXTENDS Naturals, Sequences

CONSTANTS
  Streams,      \* the streams of the client
  Capacities,   \* the capacities they may be created with
  MaxTicks,     \* bound on the keepalives of a stream
  MaxValues     \* bound on the values published on a topic

ASSUME StreamsAssumption == Capacities \subseteq Nat
ASSUME BoundAssumption == MaxTicks \in Nat /\ MaxValues \in Nat

VARIABLES
  subs,      \* which streams are subscriber streams, the others publish
  client,    \* the context of the client is alive
  ctx,       \* the context of the stream is alive
  cap,       \* capacity of the buffer
  new,       \* where New*Stream is
  ka,        \* where the keepalive goroutine is
  user,      \* where the Close of the user is
  buffer,    \* the channel of a subscriber stream
  reader,    \* who reads from that channel
  last,      \* history: the last value read
  sticky,    \* the sticky payload in the answer to New, 0 for none
  listening, \* the MQTT subscription to the public topic is made
  lost,      \* history: the published values that do not reach the buffer
  requests,  \* sent calls the device has not handled
  sending,   \* the calls whose message the broker has not acknowledged
  router,    \* messages for the client, in order
  mail,      \* answers a call has in the channel of its subscriber
  remote,    \* what the device has of the stream
  value,     \* the last value published on the topic
  ticks      \* number of keepalives

stages == <<ctx, new, ka, user>>
channel == <<subs, cap, buffer, reader, last, sticky>>
network == <<listening, lost, requests, sending, router, mail>>
device == <<remote, value>>
vars == <<subs, client, ctx, new, ka, user, cap, buffer, reader, last, sticky,
          listening, lost, requests, sending, router, mail, remote, value, ticks>>

Values == 0 .. MaxValues   \* 0 for none
Callers == {"new", "keepalive", "closing", "close"}
Request == [s : Streams, op : {"create", "refresh", "delete"}, who : Callers \cup {"nobody"}]
\* An answer, for its caller or for nobody any more, carries the sticky payload,
\* 0 for none; a publication, for the stream itself, its value, and is ok when
\* it can be decoded.
Incoming == [s : Streams, who : Callers \cup {"nobody", "stream"}, ok : BOOLEAN,
             value : 0 .. MaxValues]
IsAnswer(r) == r.who # "stream"

TypeOK ==
  /\ client \in BOOLEAN
  /\ ctx \in [Streams -> BOOLEAN] /\ cap \in [Streams -> Capacities]
  /\ new \in [Streams -> {"idle", "call", "sticky", "subscribe", "open", "failed"}]
  /\ ka \in [Streams -> {"none", "wait", "call", "return", "closing", "gone"}]
  /\ user \in [Streams -> {"no", "call", "closed"}]
  /\ subs \subseteq Streams
  /\ buffer \in [Streams -> Seq(Values)] /\ \A s \in Streams : Len(buffer[s]) <= cap[s]
  /\ reader \in [Streams -> {"none", "reads", "quit"}]
  /\ last \in [Streams -> 0 .. MaxValues] /\ sticky \in [Streams -> 0 .. MaxValues]
  /\ listening \in [Streams -> BOOLEAN] /\ lost \in [Streams -> SUBSET Values]
  /\ requests \subseteq Request /\ sending \subseteq Streams \X Callers
  /\ router \in Seq(Incoming) /\ mail \subseteq Incoming
  /\ remote \in [Streams -> {"none", "alive", "gone"}]
  /\ value \in [Streams -> 0 .. MaxValues] /\ ticks \in [Streams -> 0 .. MaxTicks]

Init ==
  /\ subs \in SUBSET Streams
  /\ client = TRUE /\ ctx = [s \in Streams |-> TRUE] /\ cap \in [Streams -> Capacities]
  /\ new = [s \in Streams |-> "idle"] /\ ka = [s \in Streams |-> "none"]
  /\ user = [s \in Streams |-> "no"] /\ buffer = [s \in Streams |-> <<>>]
  /\ reader = [s \in Streams |-> "none"] /\ last = [s \in Streams |-> 0]
  /\ sticky = [s \in Streams |-> 0]
  /\ listening = [s \in Streams |-> FALSE] /\ lost = [s \in Streams |-> {}]
  /\ requests = {} /\ sending = {} /\ router = <<>> /\ mail = {} /\ remote = [s \in Streams |-> "none"]
  /\ value = [s \in Streams |-> 0] /\ ticks = [s \in Streams |-> 0]

-----------------------------------------------------------------------------
\* The publications on their way to a stream.
Routed(s) == {k \in DOMAIN router : router[k].s = s /\ router[k].who = "stream"}

\* QoS 1: sendMessage waits until the broker acknowledges, without a deadline.
Send(s, op, who) ==
  /\ requests' = requests \cup {[s |-> s, op |-> op, who |-> who]}
  /\ sending' = sending \cup {<<s, who>>}

\* A call returns and closes its subscriber: nobody waits for the answer.
Forget(s, who) ==
  LET late(r) == IF r.s = s /\ r.who = who THEN [r EXCEPT !.who = "nobody"] ELSE r
  IN  /\ requests' = {late(r) : r \in requests}
      /\ router' = [k \in DOMAIN router |-> late(router[k])]
      /\ mail' = {r \in mail : ~(r.s = s /\ r.who = who)}
      /\ sending' = sending \ {<<s, who>>}

(***************************************************************************)
(* What a Call of caller `who' does with its result: "ok", an error of the *)
(* device, "timeout" (also when the client's context ends the wait), or    *)
(* "closed" when it cannot be sent, or not be acknowledged.                *)
(***************************************************************************)
NewReturned(s, res) ==
  /\ new' = [new EXCEPT ![s] = IF res # "ok" THEN "failed"
                               ELSE IF s \in subs THEN "sticky" ELSE "open"]
  /\ ka' = IF res = "ok" /\ s \notin subs THEN [ka EXCEPT ![s] = "wait"] ELSE ka
  /\ UNCHANGED <<ctx, user>>

\* Mutant: every error ends the keepalive.
RefreshedStrict(s, res) ==
  /\ IF res = "ok" THEN ka' = [ka EXCEPT ![s] = "wait"] /\ UNCHANGED ctx
     ELSE ka' = [ka EXCEPT ![s] = "return"] /\ ctx' = [ctx EXCEPT ![s] = FALSE]
  /\ UNCHANGED <<new, user>>

Refreshed(s, res) ==
  /\ IF res \in {"ok", "timeout"} THEN ka' = [ka EXCEPT ![s] = "wait"] /\ UNCHANGED ctx
     ELSE ka' = [ka EXCEPT ![s] = "return"] /\ ctx' = [ctx EXCEPT ![s] = FALSE]
  /\ UNCHANGED <<new, user>>

\* The Close of the user and that of keepalive: whatever the result.
Closed(s) ==
  /\ user' = [user EXCEPT ![s] = "closed"] /\ ctx' = [ctx EXCEPT ![s] = FALSE]
  /\ UNCHANGED <<new, ka>>
KeepaliveClosed(s) ==
  /\ ka' = [ka EXCEPT ![s] = "gone"] /\ ctx' = [ctx EXCEPT ![s] = FALSE]
  /\ UNCHANGED <<new, user>>

CallReturns(s, who, res) ==
  \/ who = "new" /\ NewReturned(s, res)
  \/ who = "keepalive" /\ Refreshed(s, res)
  \/ who = "closing" /\ KeepaliveClosed(s)
  \/ who = "close" /\ Closed(s)

\* Mutant: the call of New has no timeout.
WaitsForever(s, who) ==
  \/ who = "keepalive" /\ ka[s] = "call"
  \/ who = "closing" /\ ka[s] = "closing"
  \/ who = "close" /\ user[s] = "call"

Waits(s, who) ==
  \/ who = "new" /\ new[s] = "call"
  \/ who = "keepalive" /\ ka[s] = "call"
  \/ who = "closing" /\ ka[s] = "closing"
  \/ who = "close" /\ user[s] = "call"

\* The broker has the message.
Acknowledge(s, who) ==
  /\ <<s, who>> \in sending /\ client /\ sending' = sending \ {<<s, who>>}
  /\ UNCHANGED <<client, stages, channel, listening, lost, requests, router, mail, device, ticks>>

\* The client's context ended while the broker had not acknowledged.
SendFails(s, who) ==
  /\ <<s, who>> \in sending /\ ~client
  /\ Forget(s, who) /\ CallReturns(s, who, "closed")
  /\ UNCHANGED <<client, channel, listening, lost, device, ticks>>

\* Five seconds are over, or the client's context is.
TimesOut(s, who) ==
  /\ Waits(s, who) /\ <<s, who>> \notin sending
  /\ Forget(s, who) /\ CallReturns(s, who, "timeout")
  /\ UNCHANGED <<client, channel, listening, lost, device, ticks>>

\* The sticky payload of a created subscription is kept for the next step.
Answered(r) ==
  /\ Waits(r.s, r.who) /\ <<r.s, r.who>> \notin sending
  /\ Forget(r.s, r.who) /\ CallReturns(r.s, r.who, IF r.ok THEN "ok" ELSE "refused")
  /\ sticky' = IF r.who = "new" /\ r.ok /\ r.s \in subs
               THEN [sticky EXCEPT ![r.s] = r.value] ELSE sticky
  /\ UNCHANGED <<client, subs, cap, buffer, reader, last, listening, lost, device, ticks>>

\* A call is sent, or refused by sendMessage because the client is closed.
\* `waiting' is what changes while it waits.
Calls(s, op, who, waiting) ==
  /\ \/ client /\ waiting /\ Send(s, op, who)
     \/ ~client /\ CallReturns(s, who, "closed") /\ UNCHANGED <<requests, sending>>
  /\ UNCHANGED <<client, channel, listening, router, mail, lost, device>>

New(s) ==
  /\ new[s] = "idle" /\ client
  /\ Calls(s, "create", "new", new' = [new EXCEPT ![s] = "call"] /\ UNCHANGED <<ctx, ka, user>>)
  /\ UNCHANGED ticks

\* The sticky payload is put into the buffer before anybody can read it.
PushSticky(s) ==
  /\ IF sticky[s] = 0 THEN UNCHANGED buffer
     ELSE Len(buffer[s]) < cap[s] /\ buffer' = [buffer EXCEPT ![s] = Append(@, sticky[s])]
  /\ sticky' = [sticky EXCEPT ![s] = 0]

\* client.Subscribe, whose token is neither waited for nor looked at.
Subscribe(s) ==
  /\ new[s] = "subscribe" /\ new' = [new EXCEPT ![s] = "open"]
  /\ ka' = [ka EXCEPT ![s] = "wait"] /\ reader' = [reader EXCEPT ![s] = "reads"]
  /\ UNCHANGED <<client, ctx, user, subs, cap, buffer, last, sticky, network, device, ticks>>

\* The broker has the subscription: some time later, or never.
Listen(s) ==
  /\ s \in subs /\ new[s] = "open" /\ client /\ ~listening[s]
  /\ listening' = [listening EXCEPT ![s] = TRUE]
  /\ UNCHANGED <<client, stages, channel, lost, requests, sending, router, mail, device, ticks>>

Tick(s) ==
  /\ ka[s] = "wait" /\ ticks[s] < MaxTicks /\ ticks' = [ticks EXCEPT ![s] = @ + 1]
  /\ Calls(s, "refresh", "keepalive",
           ka' = [ka EXCEPT ![s] = "call"] /\ UNCHANGED <<ctx, new, user>>)

\* Mutant: keepalive listens only to the client's context.
KeepaliveEndsLate(s) == ka[s] = "wait" /\ ~client

KeepaliveEndsWith(s) == ka[s] = "wait" /\ ~ctx[s]

\* The deferred Close of keepalive, after its context ended or an error.
KeepaliveCloses(s) ==
  /\ KeepaliveEndsWith(s) \/ ka[s] = "return"
  /\ Calls(s, "delete", "closing",
           ka' = [ka EXCEPT ![s] = "closing"] /\ UNCHANGED <<ctx, new, user>>)
  /\ UNCHANGED ticks

Close(s) ==
  /\ new[s] = "open" /\ user[s] = "no"
  /\ Calls(s, "delete", "close",
           user' = [user EXCEPT ![s] = "call"] /\ UNCHANGED <<ctx, new, ka>>)
  /\ UNCHANGED ticks

\* Disconnect, or a lost connection: every stream's context derives from it.
Disconnect ==
  /\ client /\ client' = FALSE
  /\ ctx' = [s \in Streams |-> FALSE] /\ listening' = [s \in Streams |-> FALSE]
  /\ router' = <<>>
  /\ lost' = [s \in Streams |-> lost[s] \cup {router[k].value : k \in Routed(s)}]
  /\ UNCHANGED <<new, ka, user, channel, requests, sending, mail, device, ticks>>

-----------------------------------------------------------------------------
\* Mutant: a full buffer drops what comes.
HandleDrops(s, v) ==
  \/ Len(buffer[s]) < cap[s] /\ buffer' = [buffer EXCEPT ![s] = Append(@, v)] /\ UNCHANGED last
  \/ Len(buffer[s]) = cap[s] /\ UNCHANGED <<buffer, last>>

\* Mutant: the buffer is full one value early.
HandleEarlyFull(s, v) ==
  \/ Len(buffer[s]) + 1 < cap[s] /\ buffer' = [buffer EXCEPT ![s] = Append(@, v)] /\ UNCHANGED last
  \/ /\ cap[s] = 0 /\ reader[s] = "reads"
     /\ last' = [last EXCEPT ![s] = v] /\ UNCHANGED buffer

\* The end of handleMsg: a full buffer blocks.  Without a buffer the value is
\* handed to a reader.
Handle(s, v) ==
  \/ Len(buffer[s]) < cap[s] /\ buffer' = [buffer EXCEPT ![s] = Append(@, v)] /\ UNCHANGED last
  \/ /\ cap[s] = 0 /\ reader[s] = "reads"
     /\ last' = [last EXCEPT ![s] = v] /\ UNCHANGED buffer

\* What does not unmarshal, or has no payload, is printed and dropped.
Undecodable(s, v) == lost' = [lost EXCEPT ![s] = @ \cup {v}] /\ UNCHANGED <<buffer, last>>

\* receiveMessage and handleMsg of a stream.
RouteValue ==
  /\ router # <<>> /\ ~IsAnswer(Head(router)) /\ router' = Tail(router)
  /\ LET m == Head(router)
     IN  \/ m.ok /\ Handle(m.s, m.value) /\ UNCHANGED lost
         \/ ~m.ok /\ Undecodable(m.s, m.value)
  /\ UNCHANGED <<client, stages, subs, cap, reader, sticky, listening, requests, sending, mail,
                 device, ticks>>

\* The publication of an answer reaches the call that waits for it, if any.
RouteAnswer ==
  /\ router # <<>> /\ IsAnswer(Head(router)) /\ router' = Tail(router)
  /\ mail' = IF Head(router).who = "nobody" THEN mail ELSE mail \cup {Head(router)}
  /\ UNCHANGED <<client, stages, channel, listening, lost, requests, sending, device, ticks>>

Sticky(s) ==
  /\ new[s] = "sticky" /\ new' = [new EXCEPT ![s] = "subscribe"]
  /\ PushSticky(s)
  /\ UNCHANGED <<client, ctx, ka, user, subs, cap, reader, last, network, device, ticks>>

Read(s) ==
  /\ reader[s] = "reads" /\ buffer[s] # <<>>
  /\ last' = [last EXCEPT ![s] = Head(buffer[s])]
  /\ buffer' = [buffer EXCEPT ![s] = Tail(@)]
  /\ UNCHANGED <<client, stages, subs, cap, reader, sticky, network, device, ticks>>

\* A reader goes when its stream is closed or done.
Quit(s) ==
  /\ reader[s] = "reads" /\ (~ctx[s] \/ user[s] = "closed")
  /\ reader' = [reader EXCEPT ![s] = "quit"]
  /\ UNCHANGED <<client, stages, subs, cap, buffer, last, sticky, network, device, ticks>>

-----------------------------------------------------------------------------
\* The device handles a call; its answer reaches a client that is connected.
Serve(r) ==
  /\ requests' = requests \ {r}
  /\ LET ok == r.op = "create" \/ remote[r.s] = "alive"
     IN  /\ remote' = [remote EXCEPT ![r.s] = IF r.op = "create" THEN "alive"
                                               ELSE IF r.op = "delete" /\ ok THEN "gone" ELSE @]
         /\ router' = IF client /\ r.who # "nobody"
                      THEN Append(router, [s |-> r.s, who |-> r.who, ok |-> ok,
                                           value |-> IF r.op = "create" THEN value[r.s] ELSE 0])
                      ELSE router
  /\ UNCHANGED <<client, stages, channel, listening, lost, sending, mail, value, ticks>>

\* No refresh came in time.
Expire(s) ==
  /\ remote[s] = "alive" /\ remote' = [remote EXCEPT ![s] = "gone"]
  /\ UNCHANGED <<client, stages, channel, network, value, ticks>>

\* Somebody publishes, with QoS 0: it reaches the subscribed client, or not.
PublishValue(s) ==
  /\ s \in subs /\ value[s] < MaxValues /\ value' = [value EXCEPT ![s] = @ + 1]
  /\ \/ /\ remote[s] = "alive" /\ listening[s] /\ UNCHANGED lost
        /\ \E ok \in BOOLEAN :
             router' = Append(router, [s |-> s, who |-> "stream", ok |-> ok, value |-> value'[s]])
     \/ lost' = [lost EXCEPT ![s] = @ \cup {value'[s]}] /\ UNCHANGED router
  /\ UNCHANGED <<client, stages, channel, listening, requests, sending, mail, remote, ticks>>

Route == RouteAnswer \/ RouteValue
Creating(s) == Sticky(s) \/ Subscribe(s)

Next ==
  \/ \E s \in Streams :
       \/ New(s) \/ Creating(s) \/ Close(s)
       \/ Tick(s) \/ KeepaliveCloses(s)
       \/ \E who \in Callers : Acknowledge(s, who) \/ SendFails(s, who) \/ TimesOut(s, who)
       \/ Read(s) \/ Quit(s) \/ Listen(s) \/ Expire(s) \/ PublishValue(s)
  \/ \E r \in requests : Serve(r)
  \/ \E r \in mail : Answered(r)
  \/ Route \/ Disconnect

Spec == Init /\ [][Next]_vars

\* Goroutines that can go on do, timers fire, a reader reads until it quits,
\* and the device forgets what is not refreshed.  Nobody has to acknowledge, to
\* make a subscription or to answer.
FairSpec ==
  /\ Spec /\ WF_vars(Route)
  /\ \A s \in Streams :
       /\ WF_vars(Creating(s)) /\ WF_vars(KeepaliveCloses(s)) /\ WF_vars(Read(s))
       /\ WF_vars(ka[s] \in {"none", "gone"} /\ Expire(s))
       /\ \A who \in Callers : WF_vars(TimesOut(s, who)) /\ WF_vars(SendFails(s, who))

-----------------------------------------------------------------------------
\* What a subscriber stream has received and not read, and what it will receive.
Pending(s) == {buffer[s][k] : k \in DOMAIN buffer[s]} \cup {router[k].value : k \in Routed(s)}

Ordered(s) ==
  /\ \A j, k \in DOMAIN buffer[s] : j < k => buffer[s][j] < buffer[s][k]
  /\ \A j, k \in Routed(s) : j < k => router[j].value < router[k].value
  /\ \A j \in DOMAIN buffer[s], k \in Routed(s) : buffer[s][j] < router[k].value
  /\ \A v \in Pending(s) : last[s] < v

\* The values that were neither read nor are on their way, nor lost outside of
\* the stream.
Missing(s) == {w \in 1 .. value[s] \ lost[s] : w > last[s] /\ w \notin Pending(s)}

(***************************************************************************)
(* A reader sees values in the order they were published, the sticky one   *)
(* first, and the stream itself drops none: a value is missing only if it  *)
(* never reached its handler, or does not decode.  A full buffer, a late   *)
(* reader, Close and the end of the client lose nothing that was handled.  *)
(***************************************************************************)
InOrder == \A s \in subs : Missing(s) = {} /\ (new[s] = "open" => Ordered(s))

\* The channels stay within their capacities and hold what comes next.
Received == TypeOK /\ InOrder

\* Timeouts are not the end of a stream: its context dies of a Close, of the
\* client's end, or because the device refuses a refresh.
OnlyRefusedDies ==
  \A s \in Streams : ~ctx[s] => \/ ~client \/ user[s] = "closed"
                                \/ remote[s] = "gone"

(***************************************************************************)
(* sendMessage has no deadline: a call that the broker never acknowledges, *)
(* while the connection stays, waits for ever, and its goroutine with it.  *)
(***************************************************************************)
Unacknowledged(s) == \E who \in Callers : <>[](<<s, who>> \in sending)

\* A stream that was closed, or whose keepalive failed, stops its keepalive.
KeepaliveEnds(s) == ~ctx[s] ~> ka[s] \in {"none", "gone"}

\* The device does not keep what belongs to a closed stream, also when it never
\* handles the delete: nothing refreshes it any more.
RemoteForgets(s) == user[s] = "closed" ~> remote[s] # "alive"

\* A stream that is over leaves nothing behind on either side, whatever the
\* device and the router do, unless a call of it is never acknowledged.
ClosedForGood == \A s \in Streams : Unacknowledged(s) \/ (KeepaliveEnds(s) /\ RemoteForgets(s))

\* New*Stream returns, also when the answer is late or never comes, unless its
\* call is never acknowledged, or a stream without a buffer gets a sticky
\* payload that nobody can read.
NewReturns ==
  \A s \in Streams :
    Unacknowledged(s) \/ (new[s] \in {"call", "sticky", "subscribe"} /\ (s \in subs => cap[s] > 0)
                            ~> new[s] \in {"open", "failed"})

\* While readers read, every message and answer gets through: only a stream
\* nobody reads any more holds the router up.
RouterMoves ==
  (\E s \in Streams : <>(reader[s] = "quit")) \/ []<>(router = <<>>)
=============================================================================
