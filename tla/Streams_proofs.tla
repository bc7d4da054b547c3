---------------------------- MODULE Streams_proofs ----------------------------
(***************************************************************************)
(* Proofs about streams, for any number of them, of any capacities, with   *)
(* any number of keepalives and values: a stream is only given up when the *)
(* device refuses it, the client is over or the user closes it, what a     *)
(* reader sees is in order, and the stream itself drops nothing.           *)
(***************************************************************************)
EXTENDS Streams, TLAPS

-----------------------------------------------------------------------------
\* What a message is when it leaves a sequence, or comes to it.
LEMMA Elements ==
  ASSUME NEW S, NEW q \in Seq(S)
  PROVE  /\ Len(q) \in Nat /\ DOMAIN q = 1 .. Len(q)
         /\ \A k \in DOMAIN q : k \in Nat /\ q[k] \in S
OBVIOUS

LEMMA TailElements ==
  ASSUME NEW S, NEW q \in Seq(S), q # <<>>
  PROVE  /\ Head(q) \in S /\ 1 \in DOMAIN q /\ Head(q) = q[1]
         /\ Tail(q) \in Seq(S) /\ Len(Tail(q)) = Len(q) - 1 /\ Len(q) \in Nat \ {0}
         /\ DOMAIN Tail(q) = 1 .. Len(q) - 1
         /\ \A k \in DOMAIN Tail(q) :
              k \in Nat /\ k + 1 \in DOMAIN q /\ k + 1 # 1 /\ Tail(q)[k] = q[k + 1]
OBVIOUS

LEMMA AppendElements ==
  ASSUME NEW S, NEW q \in Seq(S), NEW e \in S
  PROVE  /\ Append(q, e) \in Seq(S) /\ Len(Append(q, e)) = Len(q) + 1 /\ Len(q) \in Nat
         /\ DOMAIN q = 1 .. Len(q) /\ DOMAIN Append(q, e) = DOMAIN q \cup {Len(q) + 1}
         /\ Append(q, e)[Len(q) + 1] = e /\ Len(q) + 1 \notin DOMAIN q
         /\ \A k \in DOMAIN q : k < Len(q) + 1 /\ Append(q, e)[k] = q[k]
<1>1. /\ Append(q, e) \in Seq(S) /\ Len(Append(q, e)) = Len(q) + 1 /\ Len(q) \in Nat
      /\ DOMAIN q = 1 .. Len(q) /\ DOMAIN Append(q, e) = 1 .. Len(q) + 1
      /\ Append(q, e)[Len(q) + 1] = e
  OBVIOUS
<1>2. \A k \in 1 .. Len(q) : Append(q, e)[k] = q[k]
  OBVIOUS
<1>3. \A n \in Nat : /\ 1 .. n + 1 = 1 .. n \cup {n + 1} /\ n + 1 \notin 1 .. n
                     /\ \A k \in 1 .. n : k < n + 1
  OBVIOUS
<1>4. DOMAIN Append(q, e) = DOMAIN q \cup {Len(q) + 1} /\ Len(q) + 1 \notin DOMAIN q
  BY <1>1, <1>3, Zenon
<1>5. \A k \in DOMAIN q : k < Len(q) + 1
  BY <1>1, <1>3, Zenon
<1>6. \A k \in DOMAIN q : Append(q, e)[k] = q[k]
  BY <1>1, <1>2
<1> QED
  BY <1>1, <1>4, <1>5, <1>6, Zenon

\* The places of a stream stay in their sets, whatever a call returns.
LEMMA ReturnTypes ==
  ASSUME TypeOK, NEW s \in Streams, NEW who, NEW res, CallReturns(s, who, res)
  PROVE  /\ ctx' \in [Streams -> BOOLEAN]
         /\ new' \in [Streams -> {"idle", "call", "sticky", "subscribe", "open", "failed"}]
         /\ ka' \in [Streams -> {"none", "wait", "call", "return", "closing", "gone"}]
         /\ user' \in [Streams -> {"no", "call", "closed"}]
<1>1. /\ ctx \in [Streams -> BOOLEAN]
      /\ new \in [Streams -> {"idle", "call", "sticky", "subscribe", "open", "failed"}]
      /\ ka \in [Streams -> {"none", "wait", "call", "return", "closing", "gone"}]
      /\ user \in [Streams -> {"no", "call", "closed"}]
  BY DEF TypeOK
<1>2. CASE NewReturned(s, res)
  BY <1>1, <1>2 DEF NewReturned
<1>3. CASE Refreshed(s, res)
  BY <1>1, <1>3 DEF Refreshed
<1>4. CASE KeepaliveClosed(s)
  BY <1>1, <1>4 DEF KeepaliveClosed
<1>5. CASE Closed(s)
  BY <1>1, <1>5 DEF Closed
<1> QED
  BY <1>2, <1>3, <1>4, <1>5 DEF CallReturns

LEMMA LateTypes ==
  ASSUME TypeOK, NEW s \in Streams, NEW who, Forget(s, who)
  PROVE  /\ requests' \subseteq Request /\ router' \in Seq(Incoming)
         /\ mail' \subseteq Incoming /\ sending' \subseteq Streams \X Callers
<1> DEFINE late(r) == IF r.s = s /\ r.who = who THEN [r EXCEPT !.who = "nobody"] ELSE r
<1>1. \A r \in Request : late(r) \in Request
  BY DEF Request
<1>2. \A r \in Incoming : late(r) \in Incoming
  BY DEF Incoming
<1>3. requests' = {late(r) : r \in requests} /\ router' = [k \in DOMAIN router |-> late(router[k])]
  BY DEF Forget
<1>4. requests \subseteq Request /\ router \in Seq(Incoming)
  BY DEF TypeOK
<1> HIDE DEF late
<1>5. requests' \subseteq Request
  BY <1>1, <1>3, <1>4
<1>6. router' \in Seq(Incoming)
  BY <1>2, <1>3, <1>4
<1>7. mail' \subseteq Incoming /\ sending' \subseteq Streams \X Callers
  BY DEF Forget, TypeOK
<1> QED
  BY <1>5, <1>6, <1>7

\* What TypeOK says of the buffers, and of a step that leaves them alone.
Buffers == buffer \in [Streams -> Seq(Values)] /\ \A s \in Streams : Len(buffer[s]) <= cap[s]

LEMMA SameBuffers ==
  ASSUME TypeOK, UNCHANGED <<buffer, cap>>
  PROVE  Buffers'
BY DEF TypeOK, Buffers

LEMMA SendTypes ==
  ASSUME TypeOK, NEW s \in Streams, NEW who \in Callers,
         NEW op \in {"create", "refresh", "delete"}, Send(s, op, who)
  PROVE  requests' \subseteq Request /\ sending' \subseteq Streams \X Callers
BY DEF TypeOK, Send, Request

LEMMA InitType == Init => TypeOK
<1> SUFFICES ASSUME Init PROVE TypeOK
  OBVIOUS
<1>1. \A s \in Streams : cap[s] \in Nat /\ buffer[s] = <<>>
  BY StreamsAssumption DEF Init
<1>2. Buffers
  BY <1>1 DEF Init, Buffers
<1>3. /\ requests \subseteq Request /\ router \in Seq(Incoming)
      /\ mail \subseteq Incoming /\ sending \subseteq Streams \X Callers
  BY DEF Init
<1>4. lost \in [Streams -> SUBSET Values]
  BY DEF Init
<1> QED
  BY <1>4, <1>2, <1>3, BoundAssumption DEF Init, TypeOK, Buffers

-----------------------------------------------------------------------------
LEMMA TypeInv ==
  ASSUME TypeOK, Next
  PROVE  TypeOK'
<1>0. \A n \in Capacities : n \in Nat
  BY StreamsAssumption
<1> USE BoundAssumption, <1>0
<1>1. ASSUME NEW s \in Streams, New(s)
      PROVE  TypeOK'
  <2>0. Buffers'
    BY <1>1, SameBuffers DEF New, Calls, channel
  <2>1. CASE client /\ new' = [new EXCEPT ![s] = "call"] /\ UNCHANGED <<ctx, ka, user>>
             /\ Send(s, "create", "new")
    <3>1. requests' \subseteq Request /\ sending' \subseteq Streams \X Callers
      BY <2>1, SendTypes DEF Callers
    <3> QED
      BY <1>1, <2>1, <2>0, <3>1 DEF TypeOK, Buffers, New, Calls, channel, device
  <2>2. QED
    BY <1>1, <2>1 DEF New, Calls
<1>2. ASSUME NEW s \in Streams, Sticky(s)
      PROVE  TypeOK'
  <2>1. sticky' \in [Streams -> 0 .. MaxValues]
    BY <1>2 DEF TypeOK, Sticky, PushSticky
  <2>2. Buffers'
    <3>1. CASE sticky[s] = 0
      BY <1>2, <3>1, SameBuffers DEF Sticky, PushSticky
    <3>2. CASE sticky[s] # 0
      <4>1. /\ sticky[s] \in Values /\ buffer[s] \in Seq(Values) /\ cap[s] \in Nat
            /\ Len(buffer[s]) < cap[s] /\ cap' = cap
            /\ buffer' = [buffer EXCEPT ![s] = Append(buffer[s], sticky[s])]
        BY <1>2, <3>2 DEF TypeOK, Sticky, PushSticky, Values
      <4>2. /\ Append(buffer[s], sticky[s]) \in Seq(Values)
            /\ Len(Append(buffer[s], sticky[s])) <= cap[s]
        BY <4>1
      <4> QED
        BY <4>1, <4>2 DEF TypeOK, Buffers
    <3> QED
      BY <3>1, <3>2
  <2> QED
    BY <1>2, <2>1, <2>2 DEF TypeOK, Buffers, Sticky, network, device
<1>3. ASSUME NEW s \in Streams, Subscribe(s)
      PROVE  TypeOK'
  BY <1>3 DEF TypeOK, Subscribe, network, device
<1>4. ASSUME NEW s \in Streams, Close(s)
      PROVE  TypeOK'
  <2>0. Buffers'
    BY <1>4, SameBuffers DEF Close, Calls, channel
  <2>1. CASE CallReturns(s, "close", "closed") /\ UNCHANGED <<requests, sending>>
    BY <1>4, <2>1, <2>0, ReturnTypes DEF TypeOK, Buffers, Close, Calls, channel, device
  <2>2. CASE Send(s, "delete", "close") /\ user' = [user EXCEPT ![s] = "call"]
             /\ UNCHANGED <<ctx, new, ka>>
    <3>1. requests' \subseteq Request /\ sending' \subseteq Streams \X Callers
      BY <2>2, SendTypes DEF Callers
    <3> QED
      BY <1>4, <2>2, <2>0, <3>1 DEF TypeOK, Buffers, Close, Calls, channel, device
  <2>3. QED
    BY <1>4, <2>1, <2>2 DEF Close, Calls
<1>5. ASSUME NEW s \in Streams, Tick(s)
      PROVE  TypeOK'
  <2>0. Buffers'
    BY <1>5, SameBuffers DEF Tick, Calls, channel
  <2>3. UNCHANGED <<client, channel, listening, router, mail, lost, device>>
    BY <1>5 DEF Tick, Calls
  <2>4. ticks' \in [Streams -> 0 .. MaxTicks]
    <3>1. ticks \in [Streams -> 0 .. MaxTicks]
      BY DEF TypeOK
    <3>2. ticks[s] < MaxTicks /\ ticks' = [ticks EXCEPT ![s] = @ + 1]
      BY <1>5 DEF Tick
    <3> QED
      BY <3>1, <3>2
  <2>1. CASE CallReturns(s, "keepalive", "closed") /\ UNCHANGED <<requests, sending>>
    BY <2>1, <2>0, <2>3, <2>4, ReturnTypes DEF TypeOK, Buffers, channel, device
  <2>2. CASE Send(s, "refresh", "keepalive") /\ ka' = [ka EXCEPT ![s] = "call"]
             /\ UNCHANGED <<ctx, new, user>>
    <3>1. requests' \subseteq Request /\ sending' \subseteq Streams \X Callers
      BY <2>2, SendTypes DEF Callers
    <3> QED
      BY <2>2, <2>0, <2>3, <2>4, <3>1 DEF TypeOK, Buffers, channel, device
  <2>5. QED
    BY <1>5, <2>1, <2>2 DEF Tick, Calls
<1>6. ASSUME NEW s \in Streams, KeepaliveCloses(s)
      PROVE  TypeOK'
  <2>0. Buffers'
    BY <1>6, SameBuffers DEF KeepaliveCloses, Calls, channel
  <2>3. UNCHANGED <<client, channel, listening, router, mail, lost, device, ticks>>
    BY <1>6 DEF KeepaliveCloses, Calls
  <2>1. CASE CallReturns(s, "closing", "closed") /\ UNCHANGED <<requests, sending>>
    BY <2>1, <2>0, <2>3, ReturnTypes DEF TypeOK, Buffers, channel, device
  <2>2. CASE Send(s, "delete", "closing") /\ ka' = [ka EXCEPT ![s] = "closing"]
             /\ UNCHANGED <<ctx, new, user>>
    <3>1. requests' \subseteq Request /\ sending' \subseteq Streams \X Callers
      BY <2>2, SendTypes DEF Callers
    <3> QED
      BY <2>2, <2>0, <2>3, <3>1 DEF TypeOK, Buffers, channel, device
  <2>4. QED
    BY <1>6, <2>1, <2>2 DEF KeepaliveCloses, Calls
<1>7. ASSUME NEW s \in Streams, NEW who \in Callers, TimesOut(s, who)
      PROVE  TypeOK'
  <2>1. CallReturns(s, who, "timeout") /\ Forget(s, who)
        /\ UNCHANGED <<client, channel, listening, lost, device, ticks>>
    BY <1>7 DEF TimesOut
  <2> QED
    BY <2>1, ReturnTypes, LateTypes DEF TypeOK, channel, device
<1>8. ASSUME NEW s \in Streams, Read(s)
      PROVE  TypeOK'
  <2>1. buffer[s] \in Seq(Values) /\ buffer[s] # <<>>
    BY <1>8 DEF TypeOK, Read
  <2>2. Head(buffer[s]) \in Values /\ Tail(buffer[s]) \in Seq(Values)
        /\ Len(Tail(buffer[s])) = Len(buffer[s]) - 1
    BY <2>1, TailElements
  <2> QED
    <3>1. cap[s] \in Nat /\ Len(buffer[s]) \in Nat /\ Len(buffer[s]) <= cap[s]
      BY <2>1 DEF TypeOK
    <3>2. Len(Tail(buffer[s])) <= cap[s]
      BY <2>2, <3>1
    <3>3. Buffers'
      BY <1>8, <2>2, <3>2 DEF TypeOK, Buffers, Read
    <3>4. last' \in [Streams -> 0 .. MaxValues]
      BY <1>8, <2>2 DEF TypeOK, Read, Values
    <3> QED
      BY <1>8, <3>3, <3>4 DEF TypeOK, Buffers, Read, stages, network, device
<1>9. ASSUME NEW s \in Streams, Quit(s) \/ Expire(s)
      PROVE  TypeOK'
  <2>1. CASE Quit(s)
    BY <2>1 DEF TypeOK, Quit, stages, network, device, channel
  <2>2. CASE Expire(s)
    BY <2>2 DEF TypeOK, Expire, stages, network, device, channel
  <2> QED
    BY <1>9, <2>1, <2>2
<1>10. ASSUME NEW s \in Streams, PublishValue(s)
       PROVE  TypeOK'
  <2>1. value' \in [Streams -> 0 .. MaxValues]
    <3>1. value \in [Streams -> 0 .. MaxValues] /\ value[s] < MaxValues
          /\ value' = [value EXCEPT ![s] = value[s] + 1]
      BY <1>10 DEF TypeOK, PublishValue
    <3>2. value[s] + 1 \in 0 .. MaxValues
      BY <3>1, BoundAssumption
    <3> QED
      BY <3>1, <3>2
  <2>2. \A ok \in BOOLEAN : [s |-> s, who |-> "stream", ok |-> ok, value |-> value'[s]] \in Incoming
    BY <2>1 DEF Incoming
  <2>3. router' \in Seq(Incoming)
    <3>1. router \in Seq(Incoming)
      BY DEF TypeOK
    <3>2. \/ router' = router
          \/ \E ok \in BOOLEAN :
               router' = Append(router, [s |-> s, who |-> "stream", ok |-> ok, value |-> value'[s]])
      BY <1>10 DEF PublishValue
    <3>3. CASE router' = router
      BY <3>1, <3>3
    <3>4. ASSUME NEW e \in Incoming, router' = Append(router, e)
          PROVE  router' \in Seq(Incoming)
      BY <3>1, <3>4
    <3> QED
      BY <2>2, <3>2, <3>3, <3>4
  <2>4. lost' \in [Streams -> SUBSET Values]
    <3>1. lost \in [Streams -> SUBSET Values] /\ value'[s] \in Values
      BY <2>1 DEF TypeOK, Values
    <3>2. lost' = lost \/ lost' = [lost EXCEPT ![s] = lost[s] \cup {value'[s]}]
      BY <1>10 DEF PublishValue
    <3> QED
      BY <3>1, <3>2
  <2>5. /\ UNCHANGED <<client, stages, channel, listening, requests, sending, mail, remote, ticks>>
        /\ Buffers'
    BY <1>10, SameBuffers DEF PublishValue, channel
  <2> QED
    BY <2>5, <2>1, <2>3, <2>4 DEF TypeOK, Buffers, stages, channel
<1>11. ASSUME NEW r \in requests, Serve(r)
       PROVE  TypeOK'
  <2>1. r \in Request
    BY DEF TypeOK
  <2>2. remote' \in [Streams -> {"none", "alive", "gone"}]
    BY <1>11, <2>1 DEF TypeOK, Serve, Request
  <2>3. \A b \in BOOLEAN, v \in 0 .. MaxValues :
           [s |-> r.s, who |-> r.who, ok |-> b, value |-> v] \in Incoming
    BY <2>1 DEF Incoming, Request
  <2>4. (r.op = "create" \/ remote[r.s] = "alive") \in BOOLEAN
    OBVIOUS
  <2>5. (IF r.op = "create" THEN value[r.s] ELSE 0) \in 0 .. MaxValues
    BY <2>1 DEF TypeOK, Request
  <2>6. router' \in Seq(Incoming)
    <3>0. router \in Seq(Incoming)
      BY DEF TypeOK
    <3> DEFINE ok == r.op = "create" \/ remote[r.s] = "alive"
               v == IF r.op = "create" THEN value[r.s] ELSE 0
    <3>1. [s |-> r.s, who |-> r.who, ok |-> ok, value |-> v] \in Incoming
      BY <2>3, <2>4, <2>5
    <3>2. \/ router' = Append(router, [s |-> r.s, who |-> r.who, ok |-> ok, value |-> v])
          \/ router' = router
      BY <1>11 DEF Serve
    <3> DEFINE e == [s |-> r.s, who |-> r.who, ok |-> ok, value |-> v]
    <3> HIDE DEF e, ok, v
    <3>3. e \in Incoming /\ (router' = Append(router, e) \/ router' = router)
      BY <3>1, <3>2 DEF e
    <3> QED
      BY <3>0, <3>3
  <2> QED
    BY <1>11, <2>2, <2>6, SameBuffers DEF TypeOK, Buffers, Serve, stages, channel
<1>12. ASSUME RouteAnswer
       PROVE  TypeOK'
  <2>1. Head(router) \in Incoming /\ router' \in Seq(Incoming)
    BY <1>12, TailElements DEF RouteAnswer, TypeOK
  <2>2. mail' \subseteq Incoming
    BY <1>12, <2>1 DEF RouteAnswer, TypeOK
  <2>3. /\ UNCHANGED <<client, stages, channel, listening, lost, requests, sending, device, ticks>>
        /\ Buffers'
    BY <1>12, SameBuffers DEF RouteAnswer, channel
  <2> QED
    BY <2>1, <2>2, <2>3 DEF TypeOK, Buffers, stages, channel, device
<1>13. ASSUME RouteValue
       PROVE  TypeOK'
  <2>1. Head(router) \in Incoming /\ router' \in Seq(Incoming)
    BY <1>13, TailElements DEF RouteValue, TypeOK
  <2>2. Head(router).s \in Streams /\ Head(router).value \in 0 .. MaxValues
    BY <2>1 DEF Incoming
  <2>3. lost' \in [Streams -> SUBSET Values]
    <3>1. CASE UNCHANGED lost
      BY <3>1 DEF TypeOK
    <3>2. CASE Undecodable(Head(router).s, Head(router).value)
      BY <2>2, <3>2 DEF TypeOK, Undecodable, Values
    <3> QED
      BY <1>13, <3>1, <3>2 DEF RouteValue
  <2> QED
    <3> DEFINE x == Head(router).s
               v == Head(router).value
    <3>1. x \in Streams /\ v \in Values
      BY <2>2 DEF Values
    <3>2. /\ \/ Len(buffer[x]) < cap[x] /\ buffer' = [buffer EXCEPT ![x] = Append(@, v)] /\ last' = last
             \/ last' = [last EXCEPT ![x] = v] /\ buffer' = buffer
             \/ UNCHANGED <<buffer, last>>
          /\ cap' = cap
      BY <1>13 DEF RouteValue, Handle, Undecodable
    <3> HIDE DEF x, v
    <3>3. last' \in [Streams -> 0 .. MaxValues]
      BY ZenonT(60), <3>1, <3>2 DEF TypeOK, Values
    <3>4. Buffers'
      <4>1. CASE buffer' = buffer
        BY <4>1, <3>2, SameBuffers
      <4>2. CASE Len(buffer[x]) < cap[x] /\ buffer' = [buffer EXCEPT ![x] = Append(@, v)]
        <5>1. buffer[x] \in Seq(Values) /\ cap[x] \in Nat
          BY <3>1 DEF TypeOK
        <5>2. Append(buffer[x], v) \in Seq(Values) /\ Len(Append(buffer[x], v)) <= cap[x]
          BY <3>1, <4>2, <5>1
        <5> QED
          BY <3>1, <3>2, <4>2, <5>2 DEF TypeOK, Buffers
      <4> QED
        BY <3>2, <4>1, <4>2
    <3> QED
      BY <1>13, <2>1, <2>3, <3>3, <3>4 DEF TypeOK, Buffers, RouteValue, stages, device
<1>14. ASSUME Disconnect
       PROVE  TypeOK'
  <2>1. router' \in Seq(Incoming) /\ UNCHANGED <<buffer, cap>>
    BY <1>14 DEF Disconnect, channel
  <2>2. lost' \in [Streams -> SUBSET Values]
    <3>1. \A k \in DOMAIN router : router[k] \in Incoming
      BY Elements DEF TypeOK
    <3>2. \A s \in Streams : lost[s] \cup {router[k].value : k \in Routed(s)} \subseteq Values
      <4>1. \A k \in DOMAIN router : router[k].value \in Values
        BY <3>1 DEF Incoming, Values
      <4>2. \A s \in Streams : lost[s] \subseteq Values /\ Routed(s) \subseteq DOMAIN router
        BY DEF TypeOK, Routed
      <4> QED
        BY <4>1, <4>2
    <3> QED
      BY <1>14, <3>2 DEF Disconnect
  <2> QED
    BY <1>14, <2>1, <2>2, SameBuffers DEF TypeOK, Buffers, Disconnect, channel, device
<1>15. ASSUME NEW s \in Streams, NEW who \in Callers, Acknowledge(s, who)
       PROVE  TypeOK'
  <2>1. /\ UNCHANGED <<client, stages, channel, listening, lost, requests, router, mail, device, ticks>>
        /\ Buffers' /\ sending' \subseteq Streams \X Callers
    BY <1>15, SameBuffers DEF Acknowledge, channel, TypeOK
  <2> QED
    BY <2>1 DEF TypeOK, Buffers, stages, channel, device
<1>16. ASSUME NEW s \in Streams, NEW who \in Callers, SendFails(s, who)
       PROVE  TypeOK'
  <2>1. CallReturns(s, who, "closed") /\ Forget(s, who)
        /\ UNCHANGED <<client, channel, listening, lost, device, ticks>>
    BY <1>16 DEF SendFails
  <2> QED
    BY <2>1, ReturnTypes, LateTypes DEF TypeOK, channel, device
<1>17. ASSUME NEW r \in mail, Answered(r)
       PROVE  TypeOK'
  <2>1. r.s \in Streams /\ r.value \in 0 .. MaxValues
    BY DEF TypeOK, Incoming
  <2>2. /\ \E res : CallReturns(r.s, r.who, res)
        /\ Forget(r.s, r.who)
        /\ UNCHANGED <<client, subs, cap, buffer, reader, last, listening, lost, device, ticks>>
    BY <1>17 DEF Answered
  <2>3. sticky' \in [Streams -> 0 .. MaxValues]
    BY <1>17, <2>1 DEF Answered, TypeOK
  <2> QED
    BY <2>1, <2>2, <2>3, ReturnTypes, LateTypes DEF TypeOK, device
<1>18. ASSUME NEW s \in Streams, Listen(s)
       PROVE  TypeOK'
  <2>1. /\ UNCHANGED <<client, stages, channel, lost, requests, sending, router, mail, device, ticks>>
        /\ Buffers' /\ listening' \in [Streams -> BOOLEAN]
    BY <1>18, SameBuffers DEF Listen, channel, TypeOK
  <2> QED
    BY <2>1 DEF TypeOK, Buffers, stages, channel, device
<1> QED
  BY <1>1, <1>2, <1>3, <1>4, <1>5, <1>6, <1>7, <1>8, <1>9, <1>10, <1>11, <1>12, <1>13, <1>14, <1>15,
     <1>16, <1>17, <1>18 DEF Next, Creating, Route

-----------------------------------------------------------------------------
(***************************************************************************)
(* The calls under way: whose request, acknowledgement or answer is still  *)
(* to come waits.  Late answers are for nobody.                            *)
(***************************************************************************)
Op(who) == IF who = "new" THEN "create" ELSE IF who = "keepalive" THEN "refresh" ELSE "delete"

CallInv ==
  /\ \A r \in requests : r.who \in Callers => Waits(r.s, r.who) /\ r.op = Op(r.who)
  /\ \A k \in DOMAIN router : router[k].who \in Callers => Waits(router[k].s, router[k].who)
  /\ \A r \in mail : r.who \in Callers /\ Waits(r.s, r.who)
  /\ \A s \in Streams, who \in Callers : <<s, who>> \in sending => Waits(s, who)

\* Nobody uses a stream before it is open, and a keepalive that ended leaves a
\* stream that is over.
PlaceInv ==
  \A s \in Streams :
    /\ ka[s] # "none" \/ user[s] # "no" \/ reader[s] # "none" \/ listening[s] => new[s] = "open"
    /\ ka[s] \in {"return", "closing", "gone"} => ctx[s] = FALSE

\* Where a call may return from, when it was sent and when it was not.
Ready(s, who) ==
  /\ who = "new" => new[s] = "call"
  /\ who = "keepalive" => ka[s] \in {"wait", "call"}
  /\ who = "closing" => ka[s] \in {"wait", "return", "closing"}
  /\ who = "close" => new[s] = "open"

\* A call that returns ends no other wait.
OthersWait(s, who) ==
  \A t \in Streams, w \in Callers : (t # s \/ w # who) /\ Waits(t, w) => Waits(t, w)'
AllWait == \A t \in Streams, w \in Callers : Waits(t, w) => Waits(t, w)'

LEMMA ReturnKeepsWaits ==
  ASSUME TypeOK, PlaceInv, NEW s \in Streams, NEW who, NEW res,
         CallReturns(s, who, res), Ready(s, who)
  PROVE  OthersWait(s, who)
BY DEF TypeOK, PlaceInv, CallReturns, Ready, OthersWait, Waits, NewReturned, Refreshed, Closed,
       KeepaliveClosed, stages

LEMMA Addressed ==
  ASSUME TypeOK
  PROVE  /\ \A r \in requests : r \in Request /\ r.s \in Streams
         /\ \A k \in DOMAIN router : router[k] \in Incoming /\ router[k].s \in Streams
         /\ \A r \in mail : r \in Incoming /\ r.s \in Streams
<1>1. requests \subseteq Request /\ router \in Seq(Incoming) /\ mail \subseteq Incoming
  BY DEF TypeOK
<1>2. \A k \in DOMAIN router : router[k] \in Incoming
  BY <1>1
<1> QED
  BY <1>1, <1>2 DEF Request, Incoming

LEMMA CallsKept ==
  ASSUME TypeOK, CallInv, UNCHANGED <<requests, router, mail>>, sending' \subseteq sending, AllWait
  PROVE  CallInv'
BY Addressed DEF CallInv, AllWait

LEMMA CallsSent ==
  ASSUME TypeOK, CallInv, UNCHANGED <<router, mail>>, AllWait, NEW s \in Streams,
         NEW who \in Callers, Send(s, Op(who), who), Waits(s, who)'
  PROVE  CallInv'
<1> DEFINE e == [s |-> s, op |-> Op(who), who |-> who]
<1>1. /\ e.s = s /\ e.who = who /\ e.op = Op(who) /\ requests' = requests \cup {e}
      /\ sending' = sending \cup {<<s, who>>} /\ router' = router /\ mail' = mail
  BY DEF Send
<1> HIDE DEF e
<1> QED
  BY <1>1, Addressed DEF CallInv, AllWait

LEMMA CallsForgotten ==
  ASSUME TypeOK, CallInv, NEW s \in Streams, NEW who \in Callers, Forget(s, who), OthersWait(s, who)
  PROVE  CallInv'
<1>1. \A r \in requests : r.s \in Streams /\ r \in Request
  BY Addressed
<1>2. \A k \in DOMAIN router : router[k].s \in Streams /\ router[k] \in Incoming
  BY Addressed
<1> DEFINE late(r) == IF r.s = s /\ r.who = who THEN [r EXCEPT !.who = "nobody"] ELSE r
<1>3. requests' = {late(r) : r \in requests} /\ router' = [k \in DOMAIN router |-> late(router[k])]
  BY DEF Forget
<1>4. "nobody" \notin Callers
  BY DEF Callers
<1>5. \A r \in Request : late(r).who \in Callers => late(r) = r /\ ~(r.s = s /\ r.who = who)
  BY <1>4 DEF Request
<1>6. \A r \in Incoming : late(r).who \in Callers => late(r) = r /\ ~(r.s = s /\ r.who = who)
  BY <1>4 DEF Incoming
<1> HIDE DEF late
<1>7. \A r \in requests' : r.who \in Callers => r \in requests /\ ~(r.s = s /\ r.who = who)
  BY <1>1, <1>3, <1>5
<1>8. \A k \in DOMAIN router' : /\ k \in DOMAIN router
                                /\ router'[k].who \in Callers =>
                                     router'[k] = router[k] /\ ~(router[k].s = s /\ router[k].who = who)
  BY <1>2, <1>3, <1>6
<1>9. \A r \in mail' : r \in mail /\ r.s \in Streams /\ ~(r.s = s /\ r.who = who)
  BY Addressed DEF Forget
<1>10. \A z \in Streams, w \in Callers :
         <<z, w>> \in sending' => <<z, w>> \in sending /\ (z # s \/ w # who)
  BY DEF Forget
<1> QED
  BY <1>1, <1>2, <1>7, <1>8, <1>9, <1>10 DEF CallInv, OthersWait

\* A message that comes is for nobody or a stream, or answers one who waits.
LEMMA CallsAppended ==
  ASSUME TypeOK, CallInv, AllWait, requests' \subseteq requests, UNCHANGED <<mail, sending>>,
         NEW e, e.who \in Callers => e.s \in Streams /\ Waits(e.s, e.who),
         router' = router \/ router' = Append(router, e)
  PROVE  CallInv'
<1> DEFINE n == Len(router) + 1
<1>1. /\ DOMAIN router' \subseteq DOMAIN router \cup {n} /\ n \notin DOMAIN router
      /\ n \in DOMAIN router' => router'[n] = e
      /\ \A k \in DOMAIN router : router'[k] = router[k]
  <2>1. router \in Seq(Incoming)
    BY DEF TypeOK
  <2>2. router \in Seq(Incoming \cup {e}) /\ e \in Incoming \cup {e}
    BY <2>1
  <2> QED
    BY <2>2, AppendElements
<1> HIDE DEF n
<1>2. \A k \in DOMAIN router' : (k \in DOMAIN router /\ router'[k] = router[k]) \/ router'[k] = e
  BY <1>1
<1> QED
  BY <1>2, Addressed DEF CallInv, AllWait

LEMMA CallsServed ==
  ASSUME TypeOK, CallInv, NEW r \in requests, Serve(r)
  PROVE  CallInv'
<1>1. AllWait
  BY DEF Serve, stages, AllWait, Waits
<1> DEFINE ok == r.op = "create" \/ remote[r.s] = "alive"
           e == [s |-> r.s, who |-> r.who, ok |-> ok, value |-> IF r.op = "create" THEN value[r.s] ELSE 0]
<1>2. (router' = router \/ router' = Append(router, e)) /\ requests' \subseteq requests
      /\ UNCHANGED <<mail, sending>>
  BY DEF Serve
<1>3. e.s = r.s /\ e.who = r.who /\ r.s \in Streams
  BY Addressed
<1> HIDE DEF e
<1>4. e.who \in Callers => e.s \in Streams /\ Waits(e.s, e.who)
  BY <1>3 DEF CallInv
<1> QED
  BY <1>1, <1>2, <1>4, CallsAppended

\* The first message of the router is gone, perhaps to the call it answers.
LEMMA CallsRouted ==
  ASSUME TypeOK, CallInv, AllWait, UNCHANGED <<requests, sending>>, router # <<>>,
         router' = Tail(router),
         mail' = mail \/ (Head(router).who \in Callers /\ mail' = mail \cup {Head(router)})
  PROVE  CallInv'
<1>1. /\ 1 \in DOMAIN router /\ Head(router) = router[1]
      /\ \A k \in DOMAIN router' : k + 1 \in DOMAIN router /\ router'[k] = router[k + 1]
  BY TailElements DEF TypeOK
<1>2. \A k \in DOMAIN router' : router'[k].who \in Callers =>
         router'[k].s \in Streams /\ Waits(router'[k].s, router'[k].who)
  BY <1>1, Addressed DEF CallInv
<1>3. \A r \in mail' : r.who \in Callers /\ r.s \in Streams /\ Waits(r.s, r.who)
  BY <1>1, Addressed DEF CallInv
<1> QED
  BY <1>2, <1>3, Addressed DEF CallInv, AllWait

LEMMA WaitReady ==
  ASSUME PlaceInv, NEW s \in Streams, NEW who, Waits(s, who)
  PROVE  Ready(s, who)
BY DEF Ready, Waits, PlaceInv

LEMMA CallStep ==
  ASSUME TypeOK, CallInv, PlaceInv, Next
  PROVE  CallInv'
<1>1. ASSUME NEW s \in Streams, New(s)
      PROVE  CallInv'
  <2>1. /\ new[s] = "idle" /\ new' = [new EXCEPT ![s] = "call"] /\ UNCHANGED <<ka, user, router, mail>>
        /\ Send(s, "create", "new")
    BY <1>1 DEF New, Calls
  <2>2. AllWait
    BY <2>1 DEF TypeOK, AllWait, Waits
  <2>3. Waits(s, "new")'
    BY <2>1 DEF TypeOK, Waits
  <2> QED
    BY <2>1, <2>2, <2>3, CallsSent DEF Op, Callers
<1>2. ASSUME NEW s \in Streams, Sticky(s) \/ Subscribe(s) \/ Read(s) \/ Quit(s) \/ Expire(s)
      PROVE  CallInv'
  <2>1. AllWait
    <3>1. CASE Sticky(s)
      BY <3>1 DEF Sticky, AllWait, Waits, TypeOK
    <3>2. CASE Subscribe(s)
      <4>1. /\ new[s] = "subscribe" /\ new' = [new EXCEPT ![s] = "open"] /\ user' = user
            /\ ka' = [ka EXCEPT ![s] = "wait"] /\ ka[s] = "none"
        BY <3>2 DEF Subscribe, PlaceInv
      <4> QED
        BY <4>1 DEF AllWait, Waits, TypeOK
    <3>3. CASE Read(s) \/ Quit(s) \/ Expire(s)
      BY <3>3 DEF Read, Quit, Expire, stages, AllWait, Waits
    <3> QED
      BY <1>2, <3>1, <3>2, <3>3
  <2>2. UNCHANGED <<requests, router, mail, sending>>
    BY <1>2 DEF Sticky, Subscribe, Read, Quit, Expire, network
  <2> QED
    BY <2>1, <2>2, CallsKept
<1>3. ASSUME NEW s \in Streams, NEW who \in {"close", "keepalive", "closing"},
             CallReturns(s, who, "closed"), UNCHANGED <<requests, router, mail, sending>>, Ready(s, who),
             ~Waits(s, who)
      PROVE  CallInv'
  <2>1. OthersWait(s, who)
    BY <1>3, ReturnKeepsWaits
  <2>2. AllWait
    BY <1>3, <2>1 DEF AllWait, OthersWait
  <2> QED
    BY <1>3, <2>2, CallsKept
<1>4. ASSUME NEW s \in Streams, Close(s)
      PROVE  CallInv'
  <2>1. ~Waits(s, "close") /\ Ready(s, "close") /\ UNCHANGED <<router, mail>>
    BY <1>4 DEF Close, Calls, Waits, Ready
  <2>2. CASE CallReturns(s, "close", "closed") /\ UNCHANGED <<requests, sending>>
    BY <1>3, <2>1, <2>2
  <2>3. CASE Send(s, "delete", "close") /\ user' = [user EXCEPT ![s] = "call"]
             /\ UNCHANGED <<ctx, new, ka>>
    <3>1. AllWait /\ Waits(s, "close")'
      BY <2>3 DEF TypeOK, AllWait, Waits
    <3> QED
      BY <2>1, <2>3, <3>1, CallsSent DEF Op, Callers
  <2> QED
    BY <1>4, <2>2, <2>3 DEF Close, Calls
<1>5. ASSUME NEW s \in Streams, Tick(s)
      PROVE  CallInv'
  <2>1. ~Waits(s, "keepalive") /\ Ready(s, "keepalive") /\ UNCHANGED <<router, mail>> /\ ka[s] = "wait"
    BY <1>5 DEF Tick, Calls, Waits, Ready
  <2>2. CASE CallReturns(s, "keepalive", "closed") /\ UNCHANGED <<requests, sending>>
    BY <1>3, <2>1, <2>2
  <2>3. CASE Send(s, "refresh", "keepalive") /\ ka' = [ka EXCEPT ![s] = "call"]
             /\ UNCHANGED <<ctx, new, user>>
    <3>1. AllWait /\ Waits(s, "keepalive")'
      BY <2>1, <2>3 DEF TypeOK, AllWait, Waits
    <3> QED
      BY <2>1, <2>3, <3>1, CallsSent DEF Op, Callers
  <2> QED
    BY <1>5, <2>2, <2>3 DEF Tick, Calls
<1>6. ASSUME NEW s \in Streams, KeepaliveCloses(s)
      PROVE  CallInv'
  <2>1. ~Waits(s, "closing") /\ Ready(s, "closing") /\ UNCHANGED <<router, mail>> /\ ka[s] \in {"wait", "return"}
    BY <1>6 DEF KeepaliveCloses, KeepaliveEndsWith, Calls, Waits, Ready
  <2>2. CASE CallReturns(s, "closing", "closed") /\ UNCHANGED <<requests, sending>>
    BY <1>3, <2>1, <2>2
  <2>3. CASE Send(s, "delete", "closing") /\ ka' = [ka EXCEPT ![s] = "closing"]
             /\ UNCHANGED <<ctx, new, user>>
    <3>1. AllWait /\ Waits(s, "closing")'
      BY <2>1, <2>3 DEF TypeOK, AllWait, Waits
    <3> QED
      BY <2>1, <2>3, <3>1, CallsSent DEF Op, Callers
  <2> QED
    BY <1>6, <2>2, <2>3 DEF KeepaliveCloses, Calls
<1>7. ASSUME NEW s \in Streams, NEW who \in Callers, TimesOut(s, who)
      PROVE  CallInv'
  <2>1. Waits(s, who) /\ Forget(s, who) /\ CallReturns(s, who, "timeout")
    BY <1>7 DEF TimesOut
  <2>2. OthersWait(s, who)
    BY <2>1, WaitReady, ReturnKeepsWaits
  <2> QED
    BY <2>1, <2>2, CallsForgotten
<1>8. ASSUME NEW s \in Streams, PublishValue(s)
      PROVE  CallInv'
  <2>1. AllWait /\ UNCHANGED <<requests, mail, sending>>
    BY <1>8 DEF PublishValue, stages, AllWait, Waits
  <2>2. PICK ok : \/ router' = router
                  \/ router' = Append(router, [s |-> s, who |-> "stream", ok |-> ok, value |-> value'[s]])
    BY <1>8 DEF PublishValue
  <2> DEFINE e == [s |-> s, who |-> "stream", ok |-> ok, value |-> value'[s]]
  <2>3. e.who \notin Callers
    BY DEF Callers
  <2> HIDE DEF e
  <2> QED
    BY <2>1, <2>2, <2>3, CallsAppended DEF e
<1>9. ASSUME RouteAnswer
      PROVE  CallInv'
  <2>1. /\ router # <<>> /\ router' = Tail(router) /\ UNCHANGED <<requests, sending, new, ka, user>>
        /\ mail' = mail \/ (Head(router).who # "nobody" /\ mail' = mail \cup {Head(router)})
    BY <1>9 DEF RouteAnswer, stages
  <2>2. Head(router) \in Incoming /\ Head(router).who # "stream"
    BY <1>9, <2>1, TailElements DEF RouteAnswer, IsAnswer, TypeOK
  <2>3. Head(router).who # "nobody" => Head(router).who \in Callers
    BY <2>2 DEF Incoming
  <2>4. AllWait
    BY <2>1 DEF AllWait, Waits
  <2> QED
    BY <2>1, <2>3, <2>4, CallsRouted
<1>10. ASSUME RouteValue
       PROVE  CallInv'
  <2>1. router # <<>> /\ router' = Tail(router) /\ UNCHANGED <<requests, sending, mail, new, ka, user>>
    BY <1>10 DEF RouteValue, stages
  <2>2. AllWait
    BY <2>1 DEF AllWait, Waits
  <2> QED
    BY <2>1, <2>2, CallsRouted
<1>11. ASSUME Disconnect
       PROVE  CallInv'
  <2>1. router' = <<>> /\ UNCHANGED <<requests, sending, mail, new, ka, user>>
    BY <1>11 DEF Disconnect
  <2>2. DOMAIN router' = {} /\ requests' = requests /\ mail' = mail /\ sending' = sending
    BY <2>1
  <2>3. AllWait
    BY <2>1 DEF AllWait, Waits
  <2> QED
    BY <2>2, <2>3, Addressed DEF CallInv, AllWait
<1>12. ASSUME NEW s \in Streams, NEW who \in Callers, Acknowledge(s, who) \/ Listen(s)
       PROVE  CallInv'
  <2>1. UNCHANGED <<requests, router, mail, new, ka, user>> /\ sending' \subseteq sending
    BY <1>12 DEF Acknowledge, Listen, stages
  <2>2. AllWait
    BY <2>1 DEF AllWait, Waits
  <2> QED
    BY <2>1, <2>2, CallsKept
<1>13. ASSUME NEW s \in Streams, NEW who \in Callers, SendFails(s, who)
       PROVE  CallInv'
  <2>1. Waits(s, who) /\ Forget(s, who) /\ CallReturns(s, who, "closed")
    BY <1>13 DEF SendFails, CallInv
  <2>2. OthersWait(s, who)
    BY <2>1, WaitReady, ReturnKeepsWaits
  <2> QED
    BY <2>1, <2>2, CallsForgotten
<1>14. ASSUME NEW r \in mail, Answered(r)
       PROVE  CallInv'
  <2>1. /\ r.s \in Streams /\ r.who \in Callers /\ Waits(r.s, r.who) /\ Forget(r.s, r.who)
        /\ \E res : CallReturns(r.s, r.who, res)
    BY <1>14, Addressed DEF Answered, CallInv
  <2>2. OthersWait(r.s, r.who)
    BY <2>1, WaitReady, ReturnKeepsWaits
  <2> QED
    BY <2>1, <2>2, CallsForgotten
<1> QED
  BY <1>1, <1>2, <1>4, <1>5, <1>6, <1>7, <1>8, <1>9, <1>10, <1>11, <1>12, <1>13, <1>14, CallsServed
     DEF Next, Creating, Route, Callers

LEMMA PlaceStep ==
  ASSUME TypeOK, CallInv, PlaceInv, Next
  PROVE  PlaceInv'
<1>1. ASSUME NEW s \in Streams, NEW who, NEW res, CallReturns(s, who, res), Ready(s, who),
             UNCHANGED <<reader, listening>>
      PROVE  PlaceInv'
  <2>1. CASE who = "new" /\ NewReturned(s, res)
    BY <1>1, <2>1 DEF TypeOK, PlaceInv, Ready, NewReturned
  <2>2. CASE who = "keepalive" /\ Refreshed(s, res)
    <3>1. new[s] = "open" /\ UNCHANGED <<new, user, reader, listening>>
      BY <1>1, <2>2 DEF PlaceInv, Ready, Refreshed
    <3>2. CASE ka' = [ka EXCEPT ![s] = "wait"] /\ UNCHANGED ctx
      BY <3>1, <3>2 DEF TypeOK, PlaceInv
    <3>3. CASE ka' = [ka EXCEPT ![s] = "return"] /\ ctx' = [ctx EXCEPT ![s] = FALSE]
      BY <3>1, <3>3 DEF TypeOK, PlaceInv
    <3> QED
      BY <2>2, <3>2, <3>3 DEF Refreshed
  <2>3. CASE who = "closing" /\ KeepaliveClosed(s)
    BY <1>1, <2>3 DEF TypeOK, PlaceInv, Ready, KeepaliveClosed
  <2>4. CASE who = "close" /\ Closed(s)
    BY <1>1, <2>4 DEF TypeOK, PlaceInv, Ready, Closed
  <2> QED
    BY <1>1, <2>1, <2>2, <2>3, <2>4 DEF CallReturns
<1>2. ASSUME NEW s \in Streams, New(s) \/ Sticky(s) \/ Subscribe(s) \/ Read(s) \/ Quit(s) \/ Expire(s) \/ PublishValue(s)
      PROVE  PlaceInv'
  <2>1. CASE New(s)
    BY <2>1 DEF TypeOK, PlaceInv, New, Calls, channel
  <2>2. CASE Sticky(s)
    BY <2>2 DEF TypeOK, PlaceInv, Sticky, network
  <2>3. CASE Subscribe(s)
    BY <2>3 DEF TypeOK, PlaceInv, Subscribe, network
  <2>4. CASE Read(s) \/ Quit(s)
    BY <2>4 DEF TypeOK, PlaceInv, Read, Quit, stages, network
  <2>5. CASE Expire(s) \/ PublishValue(s)
    BY <2>5 DEF TypeOK, PlaceInv, Expire, PublishValue, stages, network, channel
  <2> QED
    BY <1>2, <2>1, <2>2, <2>3, <2>4, <2>5
<1>4. ASSUME NEW s \in Streams, Close(s)
      PROVE  PlaceInv'
  <2>1. UNCHANGED <<reader, listening>> /\ new[s] = "open"
    BY <1>4 DEF Close, Calls, channel
  <2>2. CASE CallReturns(s, "close", "closed")
    BY <1>1, <2>1, <2>2 DEF Ready
  <2>3. CASE user' = [user EXCEPT ![s] = "call"] /\ UNCHANGED <<ctx, new, ka>>
    BY <2>1, <2>3 DEF TypeOK, PlaceInv
  <2> QED
    BY <1>4, <2>2, <2>3 DEF Close, Calls
<1>5. ASSUME NEW s \in Streams, Tick(s)
      PROVE  PlaceInv'
  <2>1. UNCHANGED <<reader, listening>> /\ ka[s] = "wait"
    BY <1>5 DEF Tick, Calls, channel
  <2>2. CASE CallReturns(s, "keepalive", "closed")
    BY <1>1, <2>1, <2>2 DEF Ready
  <2>3. CASE ka' = [ka EXCEPT ![s] = "call"] /\ UNCHANGED <<ctx, new, user>>
    BY <2>1, <2>3 DEF TypeOK, PlaceInv
  <2> QED
    BY <1>5, <2>2, <2>3 DEF Tick, Calls
<1>6. ASSUME NEW s \in Streams, KeepaliveCloses(s)
      PROVE  PlaceInv'
  <2>1. UNCHANGED <<reader, listening>> /\ ka[s] \in {"wait", "return"} /\ ctx[s] = FALSE
    BY <1>6 DEF KeepaliveCloses, KeepaliveEndsWith, Calls, channel, PlaceInv, TypeOK
  <2>2. CASE CallReturns(s, "closing", "closed")
    BY <1>1, <2>1, <2>2 DEF Ready
  <2>3. CASE ka' = [ka EXCEPT ![s] = "closing"] /\ UNCHANGED <<ctx, new, user>>
    BY <2>1, <2>3 DEF TypeOK, PlaceInv
  <2> QED
    BY <1>6, <2>2, <2>3 DEF KeepaliveCloses, Calls
<1>7. ASSUME NEW s \in Streams, NEW who \in Callers, TimesOut(s, who)
      PROVE  PlaceInv'
  BY <1>1, <1>7, WaitReady DEF TimesOut, channel
<1>8. ASSUME NEW r \in requests, Serve(r)
      PROVE  PlaceInv'
  BY <1>8 DEF PlaceInv, Serve, stages, channel
<1>9. ASSUME RouteAnswer
      PROVE  PlaceInv'
  BY <1>9 DEF PlaceInv, RouteAnswer, stages, channel
<1>10. ASSUME RouteValue
       PROVE  PlaceInv'
  BY <1>10 DEF PlaceInv, RouteValue, stages
<1>11. ASSUME Disconnect
       PROVE  PlaceInv'
  BY <1>11 DEF TypeOK, PlaceInv, Disconnect, channel
<1>12. ASSUME NEW s \in Streams, NEW who \in Callers, Acknowledge(s, who)
       PROVE  PlaceInv'
  BY <1>12 DEF PlaceInv, Acknowledge, stages, channel
<1>13. ASSUME NEW s \in Streams, NEW who \in Callers, SendFails(s, who)
       PROVE  PlaceInv'
  <2>1. Waits(s, who) /\ CallReturns(s, who, "closed") /\ UNCHANGED <<reader, listening>>
    BY <1>13 DEF SendFails, CallInv, channel
  <2> QED
    BY <1>1, <2>1, WaitReady
<1>14. ASSUME NEW r \in mail, Answered(r)
       PROVE  PlaceInv'
  <2>1. /\ r.s \in Streams /\ Waits(r.s, r.who) /\ UNCHANGED <<reader, listening>>
        /\ \E res : CallReturns(r.s, r.who, res)
    BY <1>14, Addressed DEF Answered
  <2> QED
    BY <1>1, <2>1, WaitReady
<1>15. ASSUME NEW s \in Streams, Listen(s)
       PROVE  PlaceInv'
  BY <1>15 DEF TypeOK, PlaceInv, Listen, stages, channel
<1> QED
  BY <1>2, <1>4, <1>5, <1>6, <1>7, <1>8, <1>9, <1>10, <1>11, <1>12, <1>13, <1>14, <1>15
     DEF Next, Creating, Route

-----------------------------------------------------------------------------
(***************************************************************************)
(* What the device has of a stream: nothing before the one "create" is     *)
(* handled, and for ever nothing after it expired or was deleted.  So a    *)
(* keepalive that is refused met a stream that is gone.                    *)
(***************************************************************************)
RemoteInv ==
  /\ \A r \in requests : r.op = "create" => new[r.s] \in {"call", "failed"} /\ remote[r.s] = "none"
  /\ \A q, r \in requests : q.s = r.s /\ q.op = "create" /\ r.op = "create" => q = r
  /\ \A k \in DOMAIN router :
       /\ router[k].who = "new" => router[k].ok = TRUE /\ remote[router[k].s] # "none"
       /\ router[k].who = "keepalive" /\ router[k].ok = FALSE => remote[router[k].s] = "gone"
  /\ \A r \in mail : /\ r.who = "new" => r.ok = TRUE /\ remote[r.s] # "none"
                     /\ r.who = "keepalive" /\ r.ok = FALSE => remote[r.s] = "gone"
  /\ \A s \in Streams : /\ new[s] \in {"sticky", "subscribe", "open"} => remote[s] # "none"
                        /\ new[s] = "idle" => remote[s] = "none"

CreatesKept ==
  /\ \A r \in requests' : r.op = "create" => \E q \in requests : q.op = "create" /\ q.s = r.s
  /\ \A q, r \in requests' : q.s = r.s /\ q.op = "create" /\ r.op = "create" => q = r
AnswersKept ==
  /\ \A k \in DOMAIN router' :
       router'[k].who \in {"nobody", "stream"} \/ \E j \in DOMAIN router : router'[k] = router[j]
  /\ \A r \in mail' : r \in mail \/ \E j \in DOMAIN router : r = router[j]
RemoteKept ==
  \A t \in Streams : /\ remote'[t] = "none" <=> remote[t] = "none"
                     /\ remote[t] = "gone" => remote'[t] = "gone"
NewKept ==
  \A t \in Streams : \/ new'[t] = new[t]
                     \/ remote[t] # "none" /\ new'[t] \in {"sticky", "subscribe", "open"}
                     \/ new[t] = "call" /\ new'[t] = "failed"

LEMMA RemoteInvKept ==
  ASSUME TypeOK, RemoteInv, CreatesKept, AnswersKept, RemoteKept, NewKept
  PROVE  RemoteInv'
<1>1. ASSUME NEW r \in requests', r.op = "create"
      PROVE  new'[r.s] \in {"call", "failed"} /\ remote'[r.s] = "none"
  <2>1. PICK q \in requests : q.op = "create" /\ q.s = r.s
    BY <1>1 DEF CreatesKept
  <2>2. q.s \in Streams /\ new[q.s] \in {"call", "failed"} /\ remote[q.s] = "none"
    BY <2>1, Addressed DEF RemoteInv
  <2> QED
    BY <2>1, <2>2 DEF RemoteKept, NewKept
<1>2. \A q, r \in requests' : q.s = r.s /\ q.op = "create" /\ r.op = "create" => q = r
  BY DEF CreatesKept
<1>3. ASSUME NEW k \in DOMAIN router', router'[k].who \in {"new", "keepalive"}
      PROVE  /\ router'[k].who = "new" => router'[k].ok = TRUE /\ remote'[router'[k].s] # "none"
             /\ router'[k].who = "keepalive" /\ router'[k].ok = FALSE => remote'[router'[k].s] = "gone"
  <2>1. PICK j \in DOMAIN router : router'[k] = router[j]
    BY <1>3 DEF AnswersKept
  <2>2. router[j].s \in Streams
    BY Addressed
  <2> QED
    BY <2>1, <2>2 DEF RemoteInv, RemoteKept
<1>4. \A s \in Streams : /\ new'[s] \in {"sticky", "subscribe", "open"} => remote'[s] # "none"
                         /\ new'[s] = "idle" => remote'[s] = "none"
  BY DEF RemoteInv, RemoteKept, NewKept
<1>5. ASSUME NEW r \in mail'
      PROVE  /\ r.who = "new" => r.ok = TRUE /\ remote'[r.s] # "none"
             /\ r.who = "keepalive" /\ r.ok = FALSE => remote'[r.s] = "gone"
  <2>1. r \in mail \/ \E j \in DOMAIN router : r = router[j]
    BY DEF AnswersKept
  <2>2. r.s \in Streams
    BY <2>1, Addressed
  <2> QED
    BY <2>1, <2>2 DEF RemoteInv, RemoteKept
<1> QED
  BY <1>1, <1>2, <1>3, <1>4, <1>5 DEF RemoteInv

LEMMA SameCreates ==
  ASSUME RemoteInv, \A r \in requests' : r.op = "create" => r \in requests
  PROVE  CreatesKept
BY DEF CreatesKept, RemoteInv

LEMMA LateCreates ==
  ASSUME TypeOK, RemoteInv, NEW s, NEW who, Forget(s, who)
  PROVE  CreatesKept /\ AnswersKept
<1> DEFINE late(r) == IF r.s = s /\ r.who = who THEN [r EXCEPT !.who = "nobody"] ELSE r
<1>1. requests' = {late(r) : r \in requests} /\ router' = [k \in DOMAIN router |-> late(router[k])]
  BY DEF Forget
<1>2. \A r \in Request : late(r).s = r.s /\ late(r).op = r.op
  BY DEF Request
<1>3. \A r \in Incoming : late(r) = r \/ late(r).who = "nobody"
  BY DEF Incoming
<1> HIDE DEF late
<1>4. ASSUME NEW r \in requests'
      PROVE  \E q \in requests : r = late(q) /\ q.op = r.op /\ q.s = r.s
  BY <1>1, <1>2, Addressed
<1>5. CreatesKept
  BY <1>4 DEF CreatesKept, RemoteInv
<1>6. AnswersKept
  <2>1. mail' \subseteq mail
    BY DEF Forget
  <2> QED
    BY <2>1, <1>1, <1>3, Addressed DEF AnswersKept
<1> QED
  BY <1>5, <1>6

\* What a call other than that of New does to the creation: nothing.
LEMMA ReturnKeepsNew ==
  ASSUME TypeOK, NEW s \in Streams, NEW who, NEW res, CallReturns(s, who, res), Ready(s, who),
         who = "new" => res \in {"timeout", "refused", "closed"} \/ (res = "ok" /\ remote[s] # "none")
  PROVE  NewKept
<1>1. CASE who = "new" /\ NewReturned(s, res)
  <2>1. new[s] = "call" /\ new \in [Streams -> {"idle", "call", "sticky", "subscribe", "open", "failed"}]
    BY <1>1 DEF Ready, TypeOK
  <2>2. CASE res = "ok" /\ remote[s] # "none"
    <3>1. \/ new' = [new EXCEPT ![s] = "sticky"]
          \/ new' = [new EXCEPT ![s] = "open"]
      BY <1>1, <2>2 DEF NewReturned
    <3> QED
      BY <2>1, <2>2, <3>1 DEF NewKept
  <2>3. CASE res \in {"timeout", "refused", "closed"}
    <3>1. new' = [new EXCEPT ![s] = "failed"]
      BY <1>1, <2>3 DEF NewReturned
    <3> QED
      BY <2>1, <3>1 DEF NewKept
  <2> QED
    BY <1>1, <2>2, <2>3
<1>2. CASE new' = new
  BY <1>2 DEF NewKept
<1> QED
  BY <1>1, <1>2 DEF CallReturns, Refreshed, Closed, KeepaliveClosed, stages

LEMMA RemoteStep ==
  ASSUME TypeOK, CallInv, PlaceInv, RemoteInv, Next
  PROVE  RemoteInv'
<1>1. ASSUME NEW s \in Streams, New(s)
      PROVE  RemoteInv'
  <2>1. /\ new[s] = "idle" /\ new' = [new EXCEPT ![s] = "call"] /\ UNCHANGED <<router, mail, remote>>
        /\ Send(s, "create", "new")
    BY <1>1 DEF New, Calls, device
  <2> DEFINE e == [s |-> s, op |-> "create", who |-> "new"]
  <2>2. e.s = s /\ requests' = requests \cup {e}
    BY <2>1 DEF Send
  <2> HIDE DEF e
  <2>3. \A r \in requests : r.op = "create" => r.s # s
    BY <2>1 DEF RemoteInv
  <2>4. \A t \in Streams : t # s => new'[t] = new[t]
    BY <2>1 DEF TypeOK
  <2>5. new'[s] = "call" /\ remote[s] = "none" /\ remote' = remote
    BY <2>1 DEF TypeOK, RemoteInv
  <2> QED
    BY <2>1, <2>2, <2>3, <2>4, <2>5, Addressed DEF RemoteInv
<1>2. ASSUME NEW s \in Streams, Sticky(s) \/ Subscribe(s)
      PROVE  RemoteInv'
  <2>1. UNCHANGED <<requests, router, mail, remote>>
    BY <1>2 DEF Sticky, Subscribe, network, device
  <2>2. NewKept
    <3>1. /\ remote[s] # "none"
          /\ \/ new' = [new EXCEPT ![s] = "subscribe"]
             \/ new' = [new EXCEPT ![s] = "open"]
      BY <1>2 DEF RemoteInv, Sticky, Subscribe
    <3> QED
      BY <3>1 DEF TypeOK, NewKept
  <2>3. CreatesKept
    BY <2>1, SameCreates
  <2> QED
    BY <2>1, <2>2, <2>3, RemoteInvKept DEF AnswersKept, RemoteKept
<1>3. ASSUME NEW s \in Streams, Read(s) \/ Quit(s) \/ Expire(s)
      PROVE  RemoteInv'
  <2>1. UNCHANGED <<requests, router, mail, new>>
    BY <1>3 DEF Read, Quit, Expire, network, stages
  <2>2. RemoteKept
    <3>1. CASE Read(s)
      BY <3>1 DEF TypeOK, Read, RemoteKept, device
    <3>2. CASE Quit(s)
      BY <3>2 DEF TypeOK, Quit, RemoteKept, device
    <3>3. CASE Expire(s)
      BY <3>3 DEF TypeOK, Expire, RemoteKept, device
    <3> QED
      BY <1>3, <3>1, <3>2, <3>3
  <2>3. CreatesKept
    BY <2>1, SameCreates
  <2> QED
    BY <2>1, <2>2, <2>3, RemoteInvKept DEF AnswersKept, NewKept
<1>4. ASSUME NEW s \in Streams, Close(s) \/ Tick(s) \/ KeepaliveCloses(s)
      PROVE  RemoteInv'
  <2>1. UNCHANGED <<router, mail, remote>>
    BY <1>4 DEF Close, Tick, KeepaliveCloses, Calls, device
  <2>2. new' = new
    BY <1>4 DEF Close, Tick, KeepaliveCloses, Calls, CallReturns, Refreshed, Closed, KeepaliveClosed, stages
  <2>3. \A r \in requests' : r.op = "create" => r \in requests
    BY <1>4 DEF Close, Tick, KeepaliveCloses, Calls, Send
  <2>4. CreatesKept
    BY <2>3, SameCreates
  <2> QED
    BY <2>1, <2>2, <2>4, RemoteInvKept DEF AnswersKept, NewKept, RemoteKept
<1>5. ASSUME NEW s \in Streams, NEW who \in Callers, TimesOut(s, who)
      PROVE  RemoteInv'
  <2>1. Waits(s, who) /\ Forget(s, who) /\ CallReturns(s, who, "timeout") /\ remote' = remote
    BY <1>5 DEF TimesOut, device
  <2>2. NewKept
    BY <2>1, WaitReady, ReturnKeepsNew
  <2>3. CreatesKept /\ AnswersKept
    BY <2>1, LateCreates
  <2> QED
    BY <2>1, <2>2, <2>3, RemoteInvKept DEF RemoteKept
<1>6. ASSUME NEW s \in Streams, PublishValue(s)
      PROVE  RemoteInv'
  <2>1. UNCHANGED <<requests, mail, remote, new>>
    BY <1>6 DEF PublishValue, stages
  <2>2. PICK ok : \/ router' = router
                  \/ router' = Append(router, [s |-> s, who |-> "stream", ok |-> ok, value |-> value'[s]])
    BY <1>6 DEF PublishValue
  <2> DEFINE e == [s |-> s, who |-> "stream", ok |-> ok, value |-> value'[s]]
  <2>3. router \in Seq(Incoming \cup {e}) /\ e \in Incoming \cup {e} /\ e.who = "stream"
        /\ (router' = router \/ router' = Append(router, e))
    BY <2>2 DEF TypeOK
  <2> HIDE DEF e
  <2>4. AnswersKept
    BY <2>1, <2>3, AppendElements DEF AnswersKept
  <2>5. CreatesKept
    BY <2>1, SameCreates
  <2> QED
    BY <2>1, <2>4, <2>5, RemoteInvKept DEF NewKept, RemoteKept
<1>7. ASSUME NEW r \in requests, Serve(r)
      PROVE  RemoteInv'
  <2>1. r \in Request /\ r.s \in Streams /\ remote \in [Streams -> {"none", "alive", "gone"}]
    BY Addressed DEF TypeOK
  <2> DEFINE ok == r.op = "create" \/ remote[r.s] = "alive"
             e == [s |-> r.s, who |-> r.who, ok |-> ok, value |-> IF r.op = "create" THEN value[r.s] ELSE 0]
  <2>2. /\ requests' = requests \ {r} /\ new' = new /\ mail' = mail
        /\ remote' = [remote EXCEPT ![r.s] = IF r.op = "create" THEN "alive"
                                             ELSE IF r.op = "delete" /\ ok THEN "gone" ELSE @]
        /\ router' \in {router, Append(router, e)}
    BY <1>7 DEF Serve, stages
  <2>3. e.s = r.s /\ e.who = r.who /\ e.ok = ok /\ ok \in BOOLEAN
    OBVIOUS
  <2>4. \A t \in Streams : t # r.s => remote'[t] = remote[t]
    BY <2>1, <2>2
  <2>5. \/ remote'[r.s] = remote[r.s]
        \/ r.op = "create" /\ remote'[r.s] = "alive"
        \/ remote[r.s] = "alive" /\ remote'[r.s] = "gone"
    BY <2>1, <2>2
  <2>6. r.op = "create" => remote'[r.s] = "alive"
    BY <2>1, <2>2
  <2>7. /\ r.who = "new" => ok = TRUE /\ remote'[r.s] # "none"
        /\ r.who = "keepalive" /\ ok = FALSE => remote'[r.s] = "gone"
    <3>1. r.who = "new" => r.op = "create"
      BY DEF CallInv, Op, Callers
    <3>2. r.who = "keepalive" => remote[r.s] # "none"
      BY <2>1 DEF CallInv, PlaceInv, RemoteInv, Waits, Callers
    <3> QED
      BY <2>1, <2>5, <2>6, <3>1, <3>2
  <2>8. /\ DOMAIN router' \subseteq DOMAIN router \cup {Len(router) + 1}
        /\ \A k \in DOMAIN router' : router'[k] = e \/ (k \in DOMAIN router /\ router'[k] = router[k])
    <3>1. router \in Seq(Incoming \cup {e}) /\ e \in Incoming \cup {e}
      BY DEF TypeOK
    <3> HIDE DEF e
    <3> QED
      BY <2>2, <3>1, AppendElements
  <2> HIDE DEF e, ok
  <2>9. \A k \in DOMAIN router' :
          /\ router'[k].who = "new" => router'[k].ok = TRUE /\ remote'[router'[k].s] # "none"
          /\ router'[k].who = "keepalive" /\ router'[k].ok = FALSE => remote'[router'[k].s] = "gone"
    <3>1. ASSUME NEW k \in DOMAIN router, router'[k] = router[k]
          PROVE  /\ router'[k].who = "new" => router'[k].ok = TRUE /\ remote'[router'[k].s] # "none"
                 /\ router'[k].who = "keepalive" /\ router'[k].ok = FALSE => remote'[router'[k].s] = "gone"
      <4>1. router[k].s \in Streams
        BY Addressed
      <4>2. CASE router[k].s # r.s
        BY <2>4, <3>1, <4>1, <4>2 DEF RemoteInv
      <4>3. CASE router[k].s = r.s
        <5>1. r.op = "create" => remote[r.s] = "none"
          BY DEF RemoteInv
        <5> QED
          BY <2>5, <3>1, <4>1, <4>3, <5>1 DEF RemoteInv
      <4> QED
        BY <4>2, <4>3
    <3> QED
      BY <2>3, <2>7, <2>8, <3>1
  <2>10. \A q \in requests' : q.op = "create" =>
            q.s \in Streams /\ q \in requests /\ remote'[q.s] = "none"
    <3>1. \A q \in requests' : q.op = "create" => q \in requests /\ q # r /\ q.s \in Streams
      BY <2>2, Addressed
    <3>2. \A q \in requests' : q.op = "create" => remote[q.s] = "none"
      BY <3>1 DEF RemoteInv
    <3>3. \A q \in requests' : q.op = "create" /\ q.s = r.s => r.op # "create"
      BY <3>1 DEF RemoteInv
    <3> QED
      BY <2>4, <2>5, <3>1, <3>2, <3>3
  <2>11. \A s \in Streams : /\ new[s] \in {"sticky", "subscribe", "open"} => remote'[s] # "none"
                            /\ new[s] = "idle" => remote'[s] = "none"
    <3>1. r.op = "create" => new[r.s] \in {"call", "failed"}
      BY DEF RemoteInv
    <3> QED
      BY <2>1, <2>4, <2>5, <3>1 DEF RemoteInv
  <2>12. ASSUME NEW q \in mail'
         PROVE  /\ q.who = "new" => q.ok = TRUE /\ remote'[q.s] # "none"
                /\ q.who = "keepalive" /\ q.ok = FALSE => remote'[q.s] = "gone"
    <3>1. q \in mail /\ q.s \in Streams
      BY <2>2, Addressed
    <3>2. r.op = "create" => remote[r.s] = "none"
      BY DEF RemoteInv
    <3>3. remote'[q.s] = remote[q.s] \/ q.s = r.s
      BY <2>4, <3>1
    <3> QED
      BY <2>5, <3>1, <3>2, <3>3 DEF RemoteInv
  <2> QED
    BY <2>2, <2>9, <2>10, <2>11, <2>12 DEF RemoteInv
<1>8. ASSUME RouteAnswer
      PROVE  RemoteInv'
  <2>1. UNCHANGED <<requests, remote, new>>
    BY <1>8 DEF RouteAnswer, stages, device
  <2>2. AnswersKept
    <3>1. /\ 1 \in DOMAIN router /\ Head(router) = router[1] /\ router' = Tail(router)
          /\ \A k \in DOMAIN router' : k + 1 \in DOMAIN router /\ router'[k] = router[k + 1]
      BY <1>8, TailElements DEF RouteAnswer, TypeOK
    <3>2. mail' \subseteq mail \cup {Head(router)}
      BY <1>8 DEF RouteAnswer
    <3> QED
      BY <3>1, <3>2 DEF AnswersKept
  <2>3. CreatesKept
    BY <2>1, SameCreates
  <2> QED
    BY <2>1, <2>2, <2>3, RemoteInvKept DEF NewKept, RemoteKept
<1>9. ASSUME RouteValue
      PROVE  RemoteInv'
  <2>1. UNCHANGED <<requests, mail, remote, new>>
    BY <1>9 DEF RouteValue, stages, device
  <2>2. AnswersKept
    BY <1>9, TailElements DEF RouteValue, TypeOK, AnswersKept
  <2>3. CreatesKept
    BY <2>1, SameCreates
  <2> QED
    BY <2>1, <2>2, <2>3, RemoteInvKept DEF NewKept, RemoteKept
<1>10. ASSUME Disconnect
       PROVE  RemoteInv'
  <2>1. UNCHANGED <<requests, mail, remote, new>> /\ DOMAIN router' = {}
    BY <1>10 DEF Disconnect, device
  <2>2. CreatesKept
    BY <2>1, SameCreates
  <2> QED
    BY <2>1, <2>2, RemoteInvKept DEF AnswersKept, NewKept, RemoteKept
<1>11. ASSUME NEW s \in Streams, NEW who \in Callers, Acknowledge(s, who) \/ Listen(s)
       PROVE  RemoteInv'
  <2>1. UNCHANGED <<requests, router, mail, remote, new>>
    BY <1>11 DEF Acknowledge, Listen, stages, device
  <2>2. CreatesKept
    BY <2>1, SameCreates
  <2> QED
    BY <2>1, <2>2, RemoteInvKept DEF AnswersKept, NewKept, RemoteKept
<1>12. ASSUME NEW s \in Streams, NEW who \in Callers, SendFails(s, who)
       PROVE  RemoteInv'
  <2>1. Waits(s, who) /\ Forget(s, who) /\ CallReturns(s, who, "closed") /\ remote' = remote
    BY <1>12 DEF SendFails, CallInv, device
  <2>2. NewKept
    BY <2>1, WaitReady, ReturnKeepsNew
  <2>3. CreatesKept /\ AnswersKept
    BY <2>1, LateCreates
  <2> QED
    BY <2>1, <2>2, <2>3, RemoteInvKept DEF RemoteKept
<1>13. ASSUME NEW r \in mail, Answered(r)
       PROVE  RemoteInv'
  <2> DEFINE res == IF r.ok THEN "ok" ELSE "refused"
  <2>1. /\ r.s \in Streams /\ Waits(r.s, r.who) /\ Forget(r.s, r.who)
        /\ CallReturns(r.s, r.who, res) /\ remote' = remote
    BY <1>13, Addressed DEF Answered, device
  <2>2. r.who = "new" => res = "ok" /\ remote[r.s] # "none"
    BY DEF RemoteInv
  <2> HIDE DEF res
  <2>3. NewKept
    BY <2>1, <2>2, WaitReady, ReturnKeepsNew
  <2>4. CreatesKept /\ AnswersKept
    BY <2>1, LateCreates
  <2> QED
    BY <2>1, <2>3, <2>4, RemoteInvKept DEF RemoteKept
<1> QED
  BY <1>1, <1>2, <1>3, <1>4, <1>5, <1>6, <1>7, <1>8, <1>9, <1>10, <1>11, <1>12, <1>13
     DEF Next, Creating, Route, Callers

-----------------------------------------------------------------------------
\* What a stream may die of does not go away again.
Reason(s) == client = FALSE \/ user[s] = "closed" \/ remote[s] = "gone"

LEMMA DiesReason ==
  ASSUME TypeOK
  PROVE  OnlyRefusedDies <=> \A s \in Streams : ctx[s] = FALSE => Reason(s)
<1>1. client \in BOOLEAN /\ \A s \in Streams : ctx[s] \in BOOLEAN
  BY DEF TypeOK
<1> QED
  BY <1>1 DEF OnlyRefusedDies, Reason

LEMMA ReasonStays ==
  ASSUME TypeOK, CallInv, PlaceInv, RemoteInv, Next, NEW s \in Streams, Reason(s)
  PROVE  Reason(s)'
<1>1. client = FALSE => client' = FALSE
  BY ZenonT(60) DEF Next, Creating, Route, New, Close, Tick, KeepaliveCloses, Calls, TimesOut, Sticky, Subscribe,
         Read, Quit, Expire, PublishValue, Serve, RouteAnswer, RouteValue, Disconnect,
         Acknowledge, SendFails, Answered, Listen
<1>2. ASSUME NEW t \in Streams, NEW who, NEW res, CallReturns(t, who, res), user[s] = "closed"
      PROVE  user'[s] = "closed"
  BY <1>2 DEF TypeOK, CallReturns, NewReturned, Refreshed, Closed, KeepaliveClosed
<1>3. ASSUME user[s] = "closed"
      PROVE  user'[s] = "closed"
  <2>1. ASSUME NEW t \in Streams, New(t) \/ Close(t) \/ Tick(t) \/ KeepaliveCloses(t)
        PROVE  user'[s] = "closed"
    <3>1. \/ \E who, res : CallReturns(t, who, res)
          \/ user' = user
          \/ user[t] = "no" /\ user' = [user EXCEPT ![t] = "call"]
      BY <2>1 DEF New, Close, Tick, KeepaliveCloses, Calls
    <3> QED
      BY <1>2, <1>3, <3>1 DEF TypeOK
  <2>2. ASSUME NEW t \in Streams, NEW who, TimesOut(t, who)
        PROVE  user'[s] = "closed"
    BY <1>2, <1>3, <2>2 DEF TimesOut
  <2>3. ASSUME NEW r \in mail, Answered(r)
        PROVE  user'[s] = "closed"
    BY <1>2, <1>3, <2>3, Addressed DEF Answered
  <2>4. ASSUME NEW t \in Streams, NEW who, SendFails(t, who)
        PROVE  user'[s] = "closed"
    BY <1>2, <1>3, <2>4 DEF SendFails
  <2> QED
    BY <1>3, <2>1, <2>2, <2>3, <2>4
       DEF Next, Creating, Route, Sticky, Subscribe, Read, Quit, Expire, PublishValue, Serve,
           RouteAnswer, RouteValue, Disconnect, Acknowledge, Listen, stages
<1>4. ASSUME remote[s] = "gone"
      PROVE  remote'[s] = "gone"
  <2>1. ASSUME NEW r \in requests, Serve(r)
        PROVE  remote'[s] = "gone"
    <3>1. r.op = "create" => remote[r.s] = "none"
      BY DEF RemoteInv
    <3> QED
      BY <1>4, <2>1, <3>1, Addressed DEF Serve, TypeOK
  <2>2. ASSUME NEW t \in Streams, Expire(t)
        PROVE  remote'[s] = "gone"
    BY <1>4, <2>2 DEF Expire, TypeOK
  <2> QED
    BY ZenonT(60), <1>4, <2>1, <2>2
       DEF Next, Creating, Route, New, Close, Tick, KeepaliveCloses, Calls, TimesOut, Sticky, Subscribe,
           Read, Quit, PublishValue, RouteAnswer, RouteValue, Disconnect, Acknowledge, SendFails,
           Answered, Listen, device
<1> QED
  BY <1>1, <1>3, <1>4 DEF Reason

LEMMA DiesStep ==
  ASSUME TypeOK, CallInv, PlaceInv, RemoteInv, OnlyRefusedDies, Next
  PROVE  OnlyRefusedDies'
<1> SUFFICES ASSUME NEW s \in Streams, ctx'[s] = FALSE
             PROVE  Reason(s)'
  <2>1. TypeOK'
    BY TypeInv
  <2>2. (TypeOK => (OnlyRefusedDies <=> \A s \in Streams : ctx[s] = FALSE => Reason(s)))'
    BY DiesReason, PTL
  <2> QED
    BY <2>1, <2>2
<1>1. CASE ctx[s] = FALSE
  <2>1. Reason(s)
    BY <1>1, DiesReason
  <2> QED
    BY <2>1, ReasonStays
<1>2. CASE ctx[s] # FALSE
  \* A call that ends the context of s: it was refused, or the client is over,
  \* or it is that of Close.
  <2>1. ASSUME NEW t \in Streams, NEW who, NEW res, CallReturns(t, who, res), Ready(t, who),
               res = "closed" => client' = FALSE,
               who = "keepalive" => res \in {"ok", "timeout", "closed"} \/ remote'[t] = "gone",
               who = "closing" => ctx[t] = FALSE
        PROVE  Reason(s)'
    <3>1. CASE who = "keepalive" /\ Refreshed(t, res)
      <4>1. res \notin {"ok", "timeout"} /\ ctx' = [ctx EXCEPT ![t] = FALSE]
        BY <1>2, <3>1 DEF Refreshed, TypeOK
      <4>2. s = t
        BY <1>2, <4>1 DEF TypeOK
      <4> QED
        BY <2>1, <3>1, <4>1, <4>2 DEF Reason
    <3>2. CASE who = "closing" /\ KeepaliveClosed(t)
      BY <1>2, <2>1, <3>2 DEF KeepaliveClosed, TypeOK
    <3>3. CASE who = "close" /\ Closed(t)
      BY <1>2, <2>1, <3>3 DEF Closed, TypeOK, Reason
    <3> QED
      BY <1>2, <2>1, <3>1, <3>2, <3>3 DEF CallReturns, NewReturned
  <2>2. ASSUME NEW t \in Streams, New(t) \/ Close(t) \/ Tick(t) \/ KeepaliveCloses(t)
        PROVE  Reason(s)'
    <3>1. \E who : CallReturns(t, who, "closed") /\ client' = FALSE
      BY <1>2, <2>2 DEF New, Close, Tick, KeepaliveCloses, Calls, TypeOK
    <3> QED
      BY <3>1 DEF Reason
  <2>3. ASSUME NEW t \in Streams, NEW who \in Callers, TimesOut(t, who)
        PROVE  Reason(s)'
    <3>1. Waits(t, who) /\ CallReturns(t, who, "timeout")
      BY <2>3 DEF TimesOut
    <3>2. who = "closing" => ctx[t] = FALSE
      BY <3>1 DEF Waits, PlaceInv
    <3> QED
      BY <2>1, <3>1, <3>2, WaitReady
  <2>4. ASSUME NEW r \in mail, Answered(r)
        PROVE  Reason(s)'
    <3> DEFINE res == IF r.ok THEN "ok" ELSE "refused"
    <3>1. /\ r.s \in Streams /\ r \in Incoming /\ Waits(r.s, r.who)
          /\ CallReturns(r.s, r.who, res) /\ remote' = remote
      BY <2>4, Addressed DEF Answered, device
    <3>2. r.who = "closing" => ctx[r.s] = FALSE
      BY <3>1 DEF Waits, PlaceInv
    <3>3. r.who = "keepalive" => res = "ok" \/ remote[r.s] = "gone"
      BY <3>1 DEF RemoteInv, Incoming
    <3>4. res # "closed"
      OBVIOUS
    <3> HIDE DEF res
    <3> QED
      BY <2>1, <3>1, <3>2, <3>3, <3>4, WaitReady
  <2>5. ASSUME Disconnect
        PROVE  Reason(s)'
    BY <2>5 DEF Disconnect, Reason
  <2>6. ASSUME NEW t \in Streams, NEW who, SendFails(t, who)
        PROVE  Reason(s)'
    BY <2>6 DEF SendFails, Reason, TypeOK
  <2> QED
    BY <1>2, <2>2, <2>3, <2>4, <2>5, <2>6
       DEF Next, Creating, Route, Sticky, Subscribe, Read, Quit, Expire, PublishValue, Serve,
           RouteAnswer, RouteValue, Acknowledge, Listen, stages
<1> QED
  BY <1>1, <1>2

-----------------------------------------------------------------------------
CallsInv == TypeOK /\ CallInv /\ PlaceInv /\ RemoteInv /\ OnlyRefusedDies

LEMMA CallsInit == Init => CallsInv
<1> SUFFICES ASSUME Init PROVE CallsInv
  OBVIOUS
<1>1. TypeOK
  BY InitType
<1>2. CallInv
  BY DEF Init, CallInv
<1>3. PlaceInv
  BY DEF Init, PlaceInv
<1>4. RemoteInv
  BY DEF Init, RemoteInv
<1>5. OnlyRefusedDies
  BY DEF Init, OnlyRefusedDies
<1> QED
  BY <1>1, <1>2, <1>3, <1>4, <1>5 DEF CallsInv

LEMMA CallsNext == CallsInv /\ [Next]_vars => CallsInv'
<1> SUFFICES ASSUME CallsInv, [Next]_vars PROVE CallsInv'
  OBVIOUS
<1>1. CASE Next
  BY <1>1, TypeInv, CallStep, PlaceStep, RemoteStep, DiesStep DEF CallsInv
<1>2. CASE UNCHANGED vars
  <2>1. TypeOK' /\ PlaceInv'
    BY <1>2 DEF vars, CallsInv, TypeOK, PlaceInv
  <2>2. AllWait
    BY <1>2 DEF vars, AllWait, Waits
  <2>3. CallInv'
    BY <1>2, <2>2, CallsKept DEF vars, CallsInv
  <2>4. RemoteInv' /\ OnlyRefusedDies'
    BY <1>2 DEF vars, CallsInv, RemoteInv, OnlyRefusedDies
  <2> QED
    BY <2>1, <2>3, <2>4 DEF CallsInv
<1> QED
  BY <1>1, <1>2

(***************************************************************************)
(* The calls of all streams, their places and what the device has of them  *)
(* fit together: the inductive invariant.                                  *)
(***************************************************************************)
THEOREM Invariance == Spec => []CallsInv
BY CallsInit, CallsNext, PTL DEF Spec

(***************************************************************************)
(* Of keepalives, timeouts and late answers no stream dies: its context    *)
(* ends with the client, by Close, or when the device has it no more       *)
(* (stream_sub.go:117).                                                    *)
(***************************************************************************)
THEOREM OnlyRefusedDiesHolds == Spec => []OnlyRefusedDies
<1>1. CallsInv => OnlyRefusedDies
  BY DEF CallsInv
<1> QED
  BY <1>1, Invariance, PTL

-----------------------------------------------------------------------------
(***************************************************************************)
(* The values on their way.  Where the values come from: nothing is read   *)
(* before the stream is open, and the buffer has at most the sticky value  *)
(* by then.                                                                *)
(***************************************************************************)
Bounds ==
  \A s \in Streams :
    /\ sticky[s] <= value[s] /\ last[s] <= value[s]
    /\ \A k \in DOMAIN buffer[s] : 0 < buffer[s][k] /\ buffer[s][k] <= value[s]
    /\ new[s] # "open" => last[s] = 0 /\ Len(buffer[s]) <= 1
    /\ new[s] \notin {"open", "subscribe"} => buffer[s] = <<>>

RoutedInv ==
  /\ \A k \in DOMAIN router :
       /\ router[k].value <= value[router[k].s]
       /\ router[k].who = "stream" => new[router[k].s] = "open" /\ 0 < router[k].value
  /\ \A r \in mail : r.value <= value[r.s]

ValuesInv == CallsInv /\ Bounds /\ RoutedInv /\ InOrder

LEMMA Numbers ==
  ASSUME TypeOK, NEW s \in Streams
  PROVE  /\ last[s] \in Nat /\ value[s] \in Nat /\ sticky[s] \in Nat
         /\ Len(buffer[s]) \in Nat /\ DOMAIN buffer[s] = 1 .. Len(buffer[s])
         /\ buffer[s] \in Seq(Values) /\ \A k \in DOMAIN buffer[s] : k \in Nat /\ buffer[s][k] \in Nat
         /\ \A k \in Routed(s) : k \in Nat /\ k \in DOMAIN router /\ router[k].value \in Nat
<1>1. 0 .. MaxValues \subseteq Nat
  BY BoundAssumption
<1>2. last[s] \in Nat /\ value[s] \in Nat /\ sticky[s] \in Nat
  BY <1>1 DEF TypeOK
<1>3. buffer[s] \in Seq(Values) /\ Values \subseteq Nat
  BY <1>1 DEF TypeOK, Values
<1>4. /\ Len(buffer[s]) \in Nat /\ DOMAIN buffer[s] = 1 .. Len(buffer[s])
      /\ \A k \in DOMAIN buffer[s] : k \in Nat /\ buffer[s][k] \in Nat
  BY <1>3, Elements
<1>5. \A k \in DOMAIN router : k \in Nat /\ router[k].value \in Nat
  <2>1. router \in Seq(Incoming)
    BY DEF TypeOK
  <2>2. \A k \in DOMAIN router : k \in Nat /\ router[k] \in Incoming
    BY <2>1, Elements
  <2> QED
    BY <1>1, <2>2 DEF Incoming
<1> QED
  BY <1>2, <1>3, <1>4, <1>5 DEF Routed

\* The messages of a stream, d places further in the router.
Shifted(t, d) ==
  /\ \A k \in Routed(t)' : k + d \in Routed(t) /\ router[k + d].value = router'[k].value
  /\ \A j \in Routed(t) : j - d \in Routed(t)' /\ router'[j - d].value = router[j].value

LEMMA PendingKept ==
  ASSUME TypeOK, NEW t \in Streams, NEW d \in {0, 1}, Shifted(t, d), buffer'[t] = buffer[t]
  PROVE  Pending(t)' = Pending(t)
BY DEF Pending, Shifted

LEMMA OrderedKept ==
  ASSUME TypeOK, TypeOK', NEW t \in Streams, NEW d \in {0, 1}, Shifted(t, d),
         buffer'[t] = buffer[t], last'[t] = last[t], Ordered(t)
  PROVE  Ordered(t)'
<1>1. Pending(t)' = Pending(t)
  BY PendingKept
<1>2. \A j \in Routed(t) : j \in Nat
  BY Numbers
<1>3. \A j \in Routed(t)' : j \in Nat
  <2>1. \A j \in DOMAIN router' : j \in Nat
    BY DEF TypeOK
  <2> QED
    BY <2>1 DEF Routed
<1>4. \A j, k \in Routed(t)' : j < k => router'[j].value < router'[k].value
  <2>1. ASSUME NEW j \in Routed(t)', NEW k \in Routed(t)', j < k
        PROVE  router'[j].value < router'[k].value
    <3>1. j + d < k + d
      BY <1>3, <2>1
    <3> QED
      BY <3>1 DEF Shifted, Ordered
  <2> QED
    BY <2>1
<1>5. \A j \in DOMAIN buffer'[t], k \in Routed(t)' : buffer'[t][j] < router'[k].value
  BY DEF Shifted, Ordered
<1> QED
  BY <1>1, <1>4, <1>5 DEF Ordered


\* How New goes on, but for Subscribe: what is open stays open, and a subscriber
\* stream is not opened by a call that returns.
NewOn ==
  \A t \in Streams :
    /\ new[t] \in {"open", "subscribe"} => new'[t] = new[t]
    /\ new'[t] = "open" /\ t \in subs => new[t] = "open"

LEMMA ReturnNewOn ==
  ASSUME TypeOK, NEW s \in Streams, NEW who, NEW res, CallReturns(s, who, res), Ready(s, who)
  PROVE  NewOn
<1>1. CASE who = "new" /\ NewReturned(s, res)
  <2>1. new[s] = "call" /\ new \in [Streams -> {"idle", "call", "sticky", "subscribe", "open", "failed"}]
    BY <1>1 DEF Ready, TypeOK
  <2>2. CASE s \in subs
    <3>1. new' = [new EXCEPT ![s] = "failed"] \/ new' = [new EXCEPT ![s] = "sticky"]
      BY <1>1, <2>2 DEF NewReturned
    <3> QED
      BY <2>1, <3>1 DEF NewOn
  <2>3. CASE s \notin subs
    <3>1. new' = [new EXCEPT ![s] = "failed"] \/ new' = [new EXCEPT ![s] = "open"]
      BY <1>1, <2>3 DEF NewReturned
    <3> QED
      BY <2>1, <2>3, <3>1 DEF NewOn
  <2> QED
    BY <2>2, <2>3
<1>2. CASE new' = new
  BY <1>2 DEF NewOn
<1> QED
  BY <1>1, <1>2 DEF CallReturns, Refreshed, Closed, KeepaliveClosed

\* A step that leaves the values where they are, up to places in the router.
LEMMA ValuesKept ==
  ASSUME TypeOK, TypeOK', Bounds, RoutedInv, InOrder, NewOn,
         UNCHANGED <<subs, buffer, last, lost, value>>,
         \A t \in Streams : sticky'[t] <= value[t],
         \A k \in DOMAIN router' : router'[k].value <= value[router'[k].s],
         \A r \in mail' : r.value <= value[r.s],
         NEW d \in {0, 1}, \A t \in Streams : Shifted(t, d)
  PROVE  Bounds' /\ RoutedInv' /\ InOrder'
<1>1. Bounds'
  BY DEF Bounds, NewOn
<1>2. RoutedInv'
  <2>1. ASSUME NEW k \in DOMAIN router', router'[k].who = "stream"
        PROVE  new'[router'[k].s] = "open" /\ 0 < router'[k].value
    <3>1. PICK t \in Streams : t = router'[k].s
      <4>1. router' \in Seq(Incoming)
        BY DEF TypeOK
      <4>2. router'[k] \in Incoming
        BY <4>1, Elements
      <4> QED
        BY <4>2 DEF Incoming
    <3>2. k \in Routed(t)'
      BY <2>1, <3>1 DEF Routed
    <3>3. k + d \in Routed(t) /\ router[k + d].value = router'[k].value
      BY <3>1, <3>2 DEF Shifted
    <3>4. new[t] = "open" /\ 0 < router'[k].value
      BY <3>3 DEF Routed, RoutedInv
    <3> QED
      BY <3>1, <3>4 DEF NewOn
  <2> QED
    BY <2>1 DEF RoutedInv
<1>3. \A t \in Streams : Pending(t)' = Pending(t) /\ Missing(t)' = Missing(t)
  BY PendingKept DEF Missing
<1>4. InOrder'
  <2>1. ASSUME NEW s \in subs
        PROVE  Missing(s)' = {} /\ (new'[s] = "open" => Ordered(s)')
    <3>1. s \in Streams /\ (new'[s] = "open" => new[s] = "open")
      BY <2>1 DEF TypeOK, NewOn
    <3>2. new'[s] = "open" => Ordered(s)'
      BY <3>1, OrderedKept DEF InOrder
    <3> QED
      BY <1>3, <3>1, <3>2 DEF InOrder
  <2> QED
    BY <2>1 DEF InOrder
<1> QED
  BY <1>1, <1>2, <1>4

\* The router by itself: as it was, with late answers, with one answer more, or
\* without the first one.
LEMMA SameRouter ==
  ASSUME TypeOK, router' = router
  PROVE  \A t \in Streams : Shifted(t, 0)
<1>1. \A t \in Streams : \A k \in Routed(t) : k \in Nat
  BY Numbers
<1>2. \A t \in Streams : Routed(t)' = Routed(t)
  BY DEF Routed
<1>3. \A k \in Nat : k + 0 = k /\ k - 0 = k
  OBVIOUS
<1> QED
  BY <1>1, <1>2, <1>3 DEF Shifted

LEMMA LateRouter ==
  ASSUME TypeOK, NEW s, NEW who \in Callers, Forget(s, who)
  PROVE  /\ \A t \in Streams : Shifted(t, 0)
         /\ DOMAIN router' = DOMAIN router
         /\ \A k \in DOMAIN router : router'[k].s = router[k].s /\ router'[k].value = router[k].value
<1> DEFINE late(r) == IF r.s = s /\ r.who = who THEN [r EXCEPT !.who = "nobody"] ELSE r
<1>1. router' = [k \in DOMAIN router |-> late(router[k])]
  BY DEF Forget
<1>2. \A r \in Incoming : /\ late(r).s = r.s /\ late(r).value = r.value
                          /\ late(r).who = "stream" <=> r.who = "stream"
  BY DEF Incoming, Callers
<1> HIDE DEF late
<1>3. \A k \in DOMAIN router : /\ router'[k].s = router[k].s /\ router'[k].value = router[k].value
                               /\ router'[k].who = "stream" <=> router[k].who = "stream"
  BY <1>1, <1>2, Addressed
<1>4. \A t \in Streams : Routed(t)' = Routed(t)
  BY <1>1, <1>3 DEF Routed
<1>5. \A t \in Streams : \A k \in Routed(t) : k \in Nat /\ k + 0 = k /\ k - 0 = k
  BY Numbers
<1>6. \A t \in Streams : \A k \in Routed(t) : router'[k].value = router[k].value
  BY <1>3 DEF Routed
<1> QED
  BY <1>1, <1>3, <1>4, <1>5, <1>6 DEF Shifted

LEMMA LongerRouter ==
  ASSUME TypeOK, NEW e, router' = Append(router, e), NEW t \in Streams,
         ~(e.s = t /\ e.who = "stream")
  PROVE  Shifted(t, 0)
<1>1. router \in Seq(Incoming \cup {e}) /\ e \in Incoming \cup {e}
  BY DEF TypeOK
<1>2. /\ DOMAIN router' = DOMAIN router \cup {Len(router) + 1}
      /\ router'[Len(router) + 1] = e /\ Len(router) + 1 \notin DOMAIN router
      /\ \A k \in DOMAIN router : router'[k] = router[k]
  BY <1>1, AppendElements
<1>3. Routed(t)' = Routed(t)
  BY <1>2 DEF Routed
<1>4. \A k \in Routed(t) : k \in Nat /\ k + 0 = k /\ k - 0 = k
  BY Numbers
<1>5. \A k \in Routed(t) : router'[k] = router[k]
  BY <1>2 DEF Routed
<1> QED
  BY <1>3, <1>4, <1>5 DEF Shifted

LEMMA ShorterRouter ==
  ASSUME TypeOK, router # <<>>, router' = Tail(router), NEW t \in Streams,
         ~(Head(router).s = t /\ Head(router).who = "stream")
  PROVE  Shifted(t, 1)
<1>1. /\ router \in Seq(Incoming) /\ Head(router) = router[1] /\ Len(router) \in Nat
      /\ DOMAIN router = 1 .. Len(router) /\ DOMAIN router' = 1 .. Len(router) - 1
      /\ \A k \in DOMAIN router' : router'[k] = router[k + 1]
  BY DEF TypeOK
<1>2. \A k \in Routed(t)' : k + 1 \in Routed(t) /\ router[k + 1] = router'[k]
  BY <1>1 DEF Routed
<1>3. ASSUME NEW j \in Routed(t)
      PROVE  j - 1 \in Routed(t)' /\ router'[j - 1] = router[j]
  <2>1. j \in 1 .. Len(router) /\ j # 1 /\ router[j].s = t /\ router[j].who = "stream"
    BY <1>1 DEF Routed
  <2>2. j - 1 \in 1 .. Len(router) - 1 /\ (j - 1) + 1 = j
    BY <1>1, <2>1
  <2>3. j - 1 \in DOMAIN router' /\ router'[j - 1] = router[j]
    BY <1>1, <2>2
  <2> QED
    BY <2>1, <2>3 DEF Routed
<1> QED
  BY <1>2, <1>3 DEF Shifted


\* The steps that leave the values alone.
LEMMA QuietSteps ==
  ASSUME TypeOK, TypeOK', CallInv, PlaceInv, RemoteInv, Bounds, RoutedInv, InOrder
  PROVE  /\ \A s \in Streams :
              New(s) \/ Close(s) \/ Tick(s) \/ KeepaliveCloses(s) \/ Quit(s) \/ Expire(s) \/ Listen(s)
                => Bounds' /\ RoutedInv' /\ InOrder'
         /\ \A s \in Streams, who \in Callers :
              TimesOut(s, who) \/ SendFails(s, who) \/ Acknowledge(s, who)
                => Bounds' /\ RoutedInv' /\ InOrder'
         /\ \A r \in requests : Serve(r) => Bounds' /\ RoutedInv' /\ InOrder'
         /\ \A r \in mail : Answered(r) => Bounds' /\ RoutedInv' /\ InOrder'
         /\ RouteAnswer => Bounds' /\ RoutedInv' /\ InOrder'
<1> DEFINE Q == Bounds' /\ RoutedInv' /\ InOrder'
<1>0. /\ \A t \in Streams : sticky[t] <= value[t]
      /\ \A k \in DOMAIN router : router[k].value <= value[router[k].s]
      /\ \A r \in mail : r.value <= value[r.s]
  BY DEF Bounds, RoutedInv
<1>1. ASSUME NEW s \in Streams,
             New(s) \/ Close(s) \/ Tick(s) \/ KeepaliveCloses(s) \/ Quit(s) \/ Expire(s) \/ Listen(s)
      PROVE  Q
  <2>1. UNCHANGED <<subs, buffer, last, lost, value, sticky, router, mail>>
    <3>1. CASE New(s) \/ Close(s) \/ Tick(s) \/ KeepaliveCloses(s)
      BY <3>1 DEF New, Close, Tick, KeepaliveCloses, Calls, channel, device
    <3>2. CASE Quit(s)
      BY <3>2 DEF Quit, network, device
    <3>3. CASE Expire(s)
      BY <3>3 DEF Expire, network, channel
    <3>4. CASE Listen(s)
      BY <3>4 DEF Listen, channel, device
    <3> QED
      BY <1>1, <3>1, <3>2, <3>3, <3>4
  <2>2. NewOn
    <3>1. CASE New(s)
      <4>1. new[s] = "idle" /\ new' = [new EXCEPT ![s] = "call"]
        BY <3>1 DEF New, Calls
      <4> QED
        BY <4>1 DEF TypeOK, NewOn
    <3>2. CASE Close(s) \/ Tick(s) \/ KeepaliveCloses(s) \/ Quit(s) \/ Expire(s) \/ Listen(s)
      <4>1. new' = new
        BY <3>2 DEF Close, Tick, KeepaliveCloses, Calls, CallReturns, Refreshed, Closed, KeepaliveClosed,
                    Quit, Expire, Listen, stages
      <4> QED
        BY <4>1 DEF NewOn
    <3> QED
      BY <1>1, <3>1, <3>2
  <2>3. \A t \in Streams : Shifted(t, 0)
    BY <2>1, SameRouter
  <2> QED
    BY <1>0, <2>1, <2>2, <2>3, ValuesKept
<1>2. ASSUME NEW s \in Streams, NEW who \in Callers, TimesOut(s, who) \/ SendFails(s, who)
      PROVE  Q
  <2>1. /\ Waits(s, who) /\ Forget(s, who) /\ \E res : CallReturns(s, who, res)
        /\ UNCHANGED <<subs, buffer, last, lost, value, sticky>>
    BY <1>2 DEF TimesOut, SendFails, CallInv, channel, device
  <2>2. NewOn
    BY <2>1, WaitReady, ReturnNewOn
  <2>3. /\ \A t \in Streams : Shifted(t, 0)
        /\ DOMAIN router' = DOMAIN router
        /\ \A k \in DOMAIN router : router'[k].s = router[k].s /\ router'[k].value = router[k].value
    BY <2>1, LateRouter
  <2>4. mail' \subseteq mail
    BY <2>1 DEF Forget
  <2> QED
    BY <1>0, <2>1, <2>2, <2>3, <2>4, ValuesKept
<1>3. ASSUME NEW r \in requests, Serve(r)
      PROVE  Q
  <2> DEFINE ok == r.op = "create" \/ remote[r.s] = "alive"
             e == [s |-> r.s, who |-> r.who, ok |-> ok, value |-> IF r.op = "create" THEN value[r.s] ELSE 0]
  <2>1. /\ UNCHANGED <<subs, buffer, last, lost, value, sticky, new, mail>>
        /\ router' \in {router, Append(router, e)}
    BY <1>3 DEF Serve, channel, stages
  <2>2. r \in Request /\ r.s \in Streams
    BY Addressed
  <2>3. e.s = r.s /\ e.who # "stream" /\ e.value <= value[r.s]
    BY <2>2, Numbers DEF Request, Callers
  <2>5. NewOn
    BY <2>1 DEF NewOn
  <2> HIDE DEF e, ok
  <2>6. \A t \in Streams : Shifted(t, 0)
    BY <2>1, <2>3, SameRouter, LongerRouter
  <2>7. \A k \in DOMAIN router' : router'[k].value <= value[router'[k].s]
    <3>1. router \in Seq(Incoming \cup {e}) /\ e \in Incoming \cup {e}
      BY DEF TypeOK
    <3>2. \A k \in DOMAIN router' : (k \in DOMAIN router /\ router'[k] = router[k]) \/ router'[k] = e
      BY <2>1, <3>1, AppendElements
    <3> QED
      BY <1>0, <2>3, <3>2
  <2>8. \A t \in Streams : sticky'[t] <= value[t]
    BY <1>0, <2>1
  <2>9. UNCHANGED <<subs, buffer, last, lost, value>> /\ \A q \in mail' : q.value <= value[q.s]
    BY <1>0, <2>1
  <2> QED
    BY <2>9, <2>5, <2>6, <2>7, <2>8, ValuesKept
<1>4. ASSUME RouteAnswer
      PROVE  Q
  <2>1. /\ router # <<>> /\ IsAnswer(Head(router)) /\ router' = Tail(router)
        /\ mail' \subseteq mail \cup {Head(router)}
        /\ UNCHANGED <<subs, new, buffer, last, lost, value, sticky>>
    BY <1>4 DEF RouteAnswer, channel, stages, device
  <2>2. 1 \in DOMAIN router /\ Head(router) = router[1]
    BY <2>1, TailElements DEF TypeOK
  <2>3. \A t \in Streams : Shifted(t, 1)
    BY <2>1, ShorterRouter DEF IsAnswer
  <2>4. \A k \in DOMAIN router' : router'[k].value <= value[router'[k].s]
    <3>1. router \in Seq(Incoming)
      BY DEF TypeOK
    <3> QED
      BY <1>0, <2>1, <3>1, TailElements
  <2>5. \A r \in mail' : r.value <= value[r.s]
    BY <1>0, <2>1, <2>2
  <2>6. NewOn
    BY <2>1 DEF NewOn
  <2> QED
    BY <1>0, <2>1, <2>3, <2>4, <2>5, <2>6, ValuesKept
<1>5. ASSUME NEW r \in mail, Answered(r)
      PROVE  Q
  <2>1. /\ r.s \in Streams /\ r.who \in Callers /\ Waits(r.s, r.who) /\ Forget(r.s, r.who)
        /\ \E res : CallReturns(r.s, r.who, res)
        /\ UNCHANGED <<subs, buffer, last, lost, value>>
    BY <1>5, Addressed DEF Answered, CallInv, device
  <2>2. \A t \in Streams : sticky'[t] <= value[t]
    <3>1. sticky' = sticky \/ sticky' = [sticky EXCEPT ![r.s] = r.value]
      BY <1>5 DEF Answered
    <3>2. sticky \in [Streams -> 0 .. MaxValues]
      BY DEF TypeOK
    <3> QED
      BY <1>0, <2>1, <3>1, <3>2
  <2>3. /\ \A t \in Streams : Shifted(t, 0)
        /\ DOMAIN router' = DOMAIN router
        /\ \A k \in DOMAIN router : router'[k].s = router[k].s /\ router'[k].value = router[k].value
    BY <2>1, LateRouter
  <2>4. NewOn
    BY <2>1, WaitReady, ReturnNewOn
  <2>5. mail' \subseteq mail
    BY <2>1 DEF Forget
  <2> QED
    BY <1>0, <2>1, <2>2, <2>3, <2>4, <2>5, ValuesKept
<1>6. ASSUME NEW s \in Streams, NEW who \in Callers, Acknowledge(s, who)
      PROVE  Q
  <2>1. UNCHANGED <<subs, new, buffer, last, lost, value, sticky, router, mail>>
    BY <1>6 DEF Acknowledge, channel, stages, device
  <2>2. NewOn
    BY <2>1 DEF NewOn
  <2>3. \A t \in Streams : Shifted(t, 0)
    BY <2>1, SameRouter
  <2> QED
    BY <1>0, <2>1, <2>2, <2>3, ValuesKept
<1> QED
  BY <1>1, <1>2, <1>3, <1>4, <1>5, <1>6

\* The sticky value goes into the empty buffer of a stream that is not open.
LEMMA StickyStep ==
  ASSUME TypeOK, TypeOK', PlaceInv, Bounds, RoutedInv, InOrder, NEW s \in Streams, Sticky(s)
  PROVE  Bounds' /\ RoutedInv' /\ InOrder'
<1>1. /\ new[s] = "sticky" /\ new' = [new EXCEPT ![s] = "subscribe"]
      /\ sticky' = [sticky EXCEPT ![s] = 0]
      /\ UNCHANGED <<subs, last, lost, value, router, mail>>
  BY DEF Sticky, PushSticky, network, device
<1>2. buffer[s] = <<>> /\ last[s] = 0 /\ sticky[s] <= value[s]
  BY <1>1 DEF Bounds, TypeOK
<1>3. \A t \in Streams : t # s => buffer'[t] = buffer[t] /\ new'[t] = new[t] /\ sticky'[t] = sticky[t]
  BY <1>1 DEF TypeOK, Sticky, PushSticky
<1>4. new'[s] = "subscribe" /\ sticky'[s] = 0
  BY <1>1 DEF TypeOK
<1>5. Len(buffer'[s]) <= 1 /\ \A k \in DOMAIN buffer'[s] : 0 < buffer'[s][k] /\ buffer'[s][k] <= value[s]
  <2>1. CASE sticky[s] = 0
    BY <1>2, <2>1 DEF Sticky, PushSticky
  <2>2. CASE sticky[s] # 0
    <3>1. buffer'[s] = <<sticky[s]>>
      BY <1>2, <2>2 DEF TypeOK, Sticky, PushSticky
    <3>2. 0 < sticky[s]
      BY <2>2, Numbers
    <3> QED
      BY <1>2, <3>1, <3>2
  <2> QED
    BY <2>1, <2>2
<1>6. Bounds'
  <2>1. \A t \in Streams : t # s =>
          /\ sticky'[t] <= value'[t] /\ last'[t] <= value'[t]
          /\ \A k \in DOMAIN buffer'[t] : 0 < buffer'[t][k] /\ buffer'[t][k] <= value'[t]
          /\ new'[t] # "open" => last'[t] = 0 /\ Len(buffer'[t]) <= 1
          /\ new'[t] \notin {"open", "subscribe"} => buffer'[t] = <<>>
    BY <1>1, <1>3 DEF Bounds
  <2>2. sticky'[s] <= value'[s] /\ last'[s] <= value'[s] /\ last'[s] = 0
    BY <1>1, <1>2, <1>4, Numbers DEF Bounds
  <2> QED
    BY <1>1, <1>4, <1>5, <2>1, <2>2 DEF Bounds
<1>7. RoutedInv'
  BY <1>1, <1>3, Addressed DEF RoutedInv
<1>8. \A t \in Streams : t # s => Pending(t)' = Pending(t) /\ Missing(t)' = Missing(t) /\ (Ordered(t) => Ordered(t)')
  <2>1. \A t \in Streams : Shifted(t, 0)
    BY <1>1, SameRouter
  <2>2. ASSUME NEW t \in Streams, t # s
        PROVE  Pending(t)' = Pending(t) /\ (Ordered(t) => Ordered(t)')
    BY <1>1, <1>3, <2>1, <2>2, PendingKept, OrderedKept
  <2> QED
    BY <1>1, <2>2 DEF Missing
<1>9. Missing(s)' \subseteq Missing(s)
  <2>1. Pending(s) \subseteq Pending(s)'
    BY <1>1, <1>2 DEF Pending, Routed
  <2> QED
    BY <1>1, <2>1 DEF Missing
<1>10. InOrder'
  <2>1. \A t \in subs : t \in Streams
    BY DEF TypeOK
  <2> QED
    BY <1>1, <1>3, <1>4, <1>8, <1>9, <2>1 DEF InOrder
<1> QED
  BY <1>6, <1>7, <1>10


\* A step about one stream is a step about that stream.
Untouched(t) ==
  /\ buffer'[t] = buffer[t] /\ last'[t] = last[t] /\ lost'[t] = lost[t] /\ value'[t] = value[t]
  /\ new'[t] = new[t] /\ sticky'[t] = sticky[t]

LEMMA OthersKept ==
  ASSUME TypeOK, TypeOK', InOrder, subs' = subs, NEW s \in Streams, NEW d \in {0, 1},
         \A t \in Streams : t # s => Shifted(t, d) /\ Untouched(t),
         s \in subs => Missing(s)' = {},
         s \in subs /\ new'[s] = "open" => Ordered(s)'
  PROVE  InOrder'
<1>1. \A t \in subs : t \in Streams
  BY DEF TypeOK
<1>2. ASSUME NEW t \in Streams, t # s
      PROVE  /\ Missing(t)' = Missing(t)
             /\ Ordered(t) => Ordered(t)'
  <2>1. Shifted(t, d) /\ Untouched(t)
    BY <1>2
  <2>2. Pending(t)' = Pending(t)
    BY <2>1, PendingKept DEF Untouched
  <2>3. Ordered(t) => Ordered(t)'
    BY <2>1, OrderedKept DEF Untouched
  <2> QED
    BY <2>1, <2>2, <2>3 DEF Missing, Untouched
<1> QED
  BY <1>1, <1>2 DEF InOrder, Untouched

LEMMA SubscribeStep ==
  ASSUME TypeOK, TypeOK', PlaceInv, Bounds, RoutedInv, InOrder, NEW s \in Streams, Subscribe(s)
  PROVE  Bounds' /\ RoutedInv' /\ InOrder'
<1>1. /\ new[s] = "subscribe" /\ new' = [new EXCEPT ![s] = "open"]
      /\ UNCHANGED <<subs, last, lost, value, router, mail, buffer, sticky>>
  BY DEF Subscribe, network, device
<1>2. last[s] = 0 /\ Len(buffer[s]) <= 1 /\ \A k \in DOMAIN buffer[s] : 0 < buffer[s][k] /\ buffer[s][k] <= value[s]
  BY <1>1 DEF Bounds
<1>3. Routed(s) = {}
  BY <1>1 DEF Routed, RoutedInv
<1>4. new'[s] = "open"
  BY <1>1 DEF TypeOK
<1>5. \A t \in Streams : t # s => Untouched(t)
  BY <1>1 DEF TypeOK, Untouched
<1>6. Bounds'
  BY <1>1, <1>4, <1>5 DEF Bounds, Untouched
<1>7. RoutedInv'
  BY <1>1, <1>4, <1>5, Addressed DEF RoutedInv, Untouched
<1>8. s \in subs => Missing(s)' = {}
  <2>1. Missing(s)' = Missing(s)
    BY <1>1 DEF Missing, Pending, Routed
  <2> QED
    BY <2>1 DEF InOrder
<1>9. Ordered(s)'
  <2>1. Routed(s)' = {} /\ buffer' = buffer /\ last' = last
    BY <1>1, <1>3 DEF Routed
  <2>2. \A j, k \in DOMAIN buffer[s] : ~(j < k)
    BY <1>2, Numbers
  <2> QED
    BY <1>2, <2>1, <2>2 DEF Ordered, Pending
<1>10. \A t \in Streams : Shifted(t, 0)
  BY <1>1, SameRouter
<1> QED
  BY <1>1, <1>5, <1>6, <1>7, <1>8, <1>9, <1>10, OthersKept

\* What is read is the first value that waits, and all others are greater.
LEMMA ReadStep ==
  ASSUME TypeOK, TypeOK', PlaceInv, Bounds, RoutedInv, InOrder, NEW s \in Streams, Read(s)
  PROVE  Bounds' /\ RoutedInv' /\ InOrder'
<1>1. /\ last' = [last EXCEPT ![s] = Head(buffer[s])] /\ buffer' = [buffer EXCEPT ![s] = Tail(@)]
      /\ UNCHANGED <<subs, new, lost, value, router, mail, sticky>>
      /\ buffer[s] # <<>> /\ new[s] = "open"
  BY DEF Read, stages, network, device, PlaceInv
<1>2. /\ buffer[s] \in Seq(Values) /\ Len(buffer[s]) \in Nat /\ DOMAIN buffer[s] = 1 .. Len(buffer[s])
      /\ \A k \in DOMAIN buffer[s] : k \in Nat /\ buffer[s][k] \in Nat
  BY Numbers
<1>3. buffer'[s] = Tail(buffer[s]) /\ last'[s] = Head(buffer[s])
  BY <1>1 DEF TypeOK
<1>4. /\ 1 \in DOMAIN buffer[s] /\ last'[s] = buffer[s][1]
      /\ DOMAIN buffer'[s] = 1 .. Len(buffer[s]) - 1
      /\ \A k \in DOMAIN buffer'[s] : k \in Nat /\ k + 1 \in DOMAIN buffer[s] /\ buffer'[s][k] = buffer[s][k + 1]
  <2> DEFINE q == buffer[s]
  <2>1. q \in Seq(Values) /\ q # <<>>
    BY <1>1, <1>2
  <2>2. buffer'[s] = Tail(q) /\ last'[s] = Head(q)
    BY <1>3
  <2> HIDE DEF q
  <2>3. /\ 1 \in DOMAIN q /\ Head(q) = q[1] /\ DOMAIN Tail(q) = 1 .. Len(q) - 1
        /\ \A k \in DOMAIN Tail(q) : k \in Nat /\ k + 1 \in DOMAIN q /\ Tail(q)[k] = q[k + 1]
    BY <2>1, TailElements
  <2>4. /\ 1 \in DOMAIN q /\ last'[s] = q[1] /\ DOMAIN buffer'[s] = 1 .. Len(q) - 1
        /\ \A k \in DOMAIN buffer'[s] : k \in Nat /\ k + 1 \in DOMAIN q /\ buffer'[s][k] = q[k + 1]
    BY <2>2, <2>3
  <2> QED
    BY <2>4 DEF q
<1>5. \A t \in Streams : t # s => Untouched(t)
  BY <1>1 DEF TypeOK, Untouched
<1>6. Bounds'
  <2>1. /\ last'[s] <= value'[s] /\ sticky'[s] <= value'[s]
        /\ \A k \in DOMAIN buffer'[s] : 0 < buffer'[s][k] /\ buffer'[s][k] <= value'[s]
        /\ new'[s] = "open"
    BY <1>1, <1>4 DEF Bounds
  <2> QED
    BY <1>5, <2>1 DEF Bounds, Untouched
<1>7. RoutedInv'
  BY <1>1 DEF RoutedInv
<1>8. Routed(s)' = Routed(s)
  BY <1>1 DEF Routed
<1>9. ASSUME s \in subs
      PROVE  /\ Pending(s)' = Pending(s) \ {last'[s]} /\ Ordered(s)'
             /\ Missing(s)' \subseteq Missing(s)
  <2>1. Ordered(s)
    BY <1>1, <1>9 DEF InOrder
  <2>2. \A k \in DOMAIN buffer'[s] : buffer'[s][k] # last'[s] /\ last'[s] < buffer'[s][k]
    <3>1. \A k \in DOMAIN buffer'[s] : 1 < k + 1
      BY <1>4
    <3>2. \A k \in DOMAIN buffer'[s] : buffer[s][1] < buffer[s][k + 1]
      BY <1>4, <2>1, <3>1 DEF Ordered
    <3> QED
      BY <1>2, <1>4, <3>2
  <2>3. \A k \in Routed(s) : last'[s] < router[k].value /\ router[k].value # last'[s]
    <3>1. \A k \in Routed(s) : buffer[s][1] < router[k].value
      BY <1>4, <2>1 DEF Ordered
    <3> QED
      BY <1>2, <1>4, <3>1, Numbers
  <2>4. \A k \in DOMAIN buffer[s] : k = 1 \/ (k - 1 \in DOMAIN buffer'[s] /\ buffer'[s][k - 1] = buffer[s][k])
    BY <1>2, <1>4
  <2>5. Pending(s)' = Pending(s) \ {last'[s]}
    <3>1. Pending(s)' = {buffer'[s][k] : k \in DOMAIN buffer'[s]} \cup {router[k].value : k \in Routed(s)}
      BY <1>1, <1>8 DEF Pending
    <3>2. {buffer'[s][k] : k \in DOMAIN buffer'[s]} = {buffer[s][k] : k \in DOMAIN buffer[s]} \ {last'[s]}
      BY <1>4, <2>2, <2>4
    <3>3. {router[k].value : k \in Routed(s)} = {router[k].value : k \in Routed(s)} \ {last'[s]}
      BY <2>3
    <3> QED
      BY <3>1, <3>2, <3>3 DEF Pending
  <2>6. Ordered(s)'
    <3>1. \A j, k \in DOMAIN buffer'[s] : j < k => buffer'[s][j] < buffer'[s][k]
      <4>1. ASSUME NEW j \in DOMAIN buffer'[s], NEW k \in DOMAIN buffer'[s], j < k
            PROVE  buffer'[s][j] < buffer'[s][k]
        <5>1. j + 1 < k + 1
          BY <1>4, <4>1
        <5> QED
          BY <1>4, <2>1, <5>1 DEF Ordered
      <4> QED
        BY <4>1
    <3>2. \A j, k \in Routed(s)' : j < k => router'[j].value < router'[k].value
      BY <1>1, <1>8, <2>1 DEF Ordered
    <3>3. \A j \in DOMAIN buffer'[s], k \in Routed(s)' : buffer'[s][j] < router'[k].value
      BY <1>1, <1>4, <1>8, <2>1 DEF Ordered
    <3>4. \A v \in Pending(s)' : last'[s] < v
      BY <1>1, <1>8, <2>2, <2>3 DEF Pending
    <3> QED
      BY <3>1, <3>2, <3>3, <3>4 DEF Ordered
  <2>7. \A w \in Missing(s)' : last'[s] < w /\ w \in Nat
    BY Numbers, <1>1, <1>2, <1>4 DEF Missing
  <2>8. last[s] < last'[s] /\ last[s] \in Nat /\ last'[s] \in Nat
    <3>1. buffer[s][1] \in Pending(s)
      BY <1>4 DEF Pending
    <3> QED
      BY <1>2, <1>4, <2>1, <3>1, Numbers DEF Ordered
  <2>9. ASSUME NEW w \in Missing(s)'
        PROVE  w \in Missing(s)
    <3>1. w \in 1 .. value[s] \ lost[s] /\ w \notin Pending(s)'
      BY <1>1 DEF Missing
    <3>2. last'[s] < w /\ w \in Nat
      BY <2>7
    <3>3. last[s] < w /\ w # last'[s]
      BY <2>8, <3>2
    <3>4. w \notin Pending(s)
      BY <2>5, <3>1, <3>3
    <3> QED
      BY <3>1, <3>3, <3>4 DEF Missing
  <2> QED
    BY <2>5, <2>6, <2>9
<1>10. \A t \in Streams : Shifted(t, 0)
  BY <1>1, SameRouter
<1>11. s \in subs => Missing(s)' = {} /\ Ordered(s)'
  BY <1>9 DEF InOrder
<1> QED
  BY <1>1, <1>5, <1>6, <1>7, <1>10, <1>11, OthersKept


LEMMA PendingBound ==
  ASSUME TypeOK, Bounds, RoutedInv, NEW s \in Streams
  PROVE  \A v \in Pending(s) : v \in Nat /\ v <= value[s]
<1>1. \A k \in DOMAIN buffer[s] : buffer[s][k] \in Nat /\ buffer[s][k] <= value[s]
  BY Numbers DEF Bounds
<1>2. \A k \in Routed(s) : router[k].value \in Nat /\ router[k].value <= value[s]
  <2>1. \A k \in Routed(s) : k \in DOMAIN router /\ router[k].s = s /\ router[k].value \in Nat
    BY Numbers DEF Routed
  <2> QED
    BY <2>1 DEF RoutedInv
<1> QED
  BY <1>1, <1>2 DEF Pending

\* What is published is greater than all before it; it is on its way, or lost.
LEMMA PublishStep ==
  ASSUME TypeOK, TypeOK', PlaceInv, Bounds, RoutedInv, InOrder, NEW s \in Streams, PublishValue(s)
  PROVE  Bounds' /\ RoutedInv' /\ InOrder'
<1> DEFINE n == Len(router) + 1
           m == value[s] + 1
<1>1. /\ s \in subs /\ value' = [value EXCEPT ![s] = @ + 1]
      /\ UNCHANGED <<subs, new, last, buffer, mail, sticky>>
  BY DEF PublishValue, stages, channel
<1>2. value[s] \in Nat /\ value'[s] = m /\ m \in Nat /\ value[s] < m
  BY <1>1, Numbers DEF TypeOK
<1>3. \A t \in Streams : t # s => value'[t] = value[t] /\ Untouched(t)
  <2>1. \A t \in Streams : t # s => lost'[t] = lost[t]
    <3>1. lost \in [Streams -> SUBSET Values]
      BY DEF TypeOK
    <3>2. lost' = lost \/ lost' = [lost EXCEPT ![s] = @ \cup {value'[s]}]
      BY DEF PublishValue
    <3> QED
      BY <3>1, <3>2
  <2> QED
    BY <1>1, <2>1 DEF TypeOK, Untouched
<1>4. Bounds'
  <2>1. /\ last'[s] <= value'[s] /\ sticky'[s] <= value'[s]
        /\ \A k \in DOMAIN buffer'[s] : 0 < buffer'[s][k] /\ buffer'[s][k] <= value'[s]
    <3>1. last[s] <= m /\ sticky[s] <= m
      BY <1>2, Numbers DEF Bounds
    <3>2. \A k \in DOMAIN buffer[s] : 0 < buffer[s][k] /\ buffer[s][k] <= m
      <4>1. \A k \in DOMAIN buffer[s] : buffer[s][k] \in Nat
        BY Numbers
      <4>2. \A k \in DOMAIN buffer[s] : 0 < buffer[s][k] /\ buffer[s][k] <= value[s]
        BY DEF Bounds
      <4> HIDE DEF m
      <4> QED
        BY <1>2, <4>1, <4>2
    <3> QED
      BY <1>1, <1>2, <3>1, <3>2
  <2> QED
    BY <1>1, <1>3, <2>1 DEF Bounds
<1>5. \A v \in Pending(s) : v \in Nat /\ v <= value[s]
  BY PendingBound
<1>8. \A q \in mail' : q.value <= value'[q.s]
  <2>1. ASSUME NEW q \in mail
        PROVE  q.value <= value'[q.s]
    <3>1. q.s \in Streams /\ q.value \in Nat /\ q.value <= value[q.s]
      BY Addressed, BoundAssumption DEF Incoming, RoutedInv
    <3>2. CASE q.s = s
      BY <1>2, <3>1, <3>2
    <3>3. CASE q.s # s
      BY <1>3, <3>1, <3>3
    <3> QED
      BY <3>2, <3>3
  <2> QED
    BY <1>1, <2>1
<1>6. ASSUME listening[s] = TRUE, UNCHANGED lost, NEW ok \in BOOLEAN,
             router' = Append(router, [s |-> s, who |-> "stream", ok |-> ok, value |-> m])
      PROVE  Bounds' /\ RoutedInv' /\ InOrder'
  <2> DEFINE e == [s |-> s, who |-> "stream", ok |-> ok, value |-> m]
  <2>1. router' = Append(router, e)
    BY <1>6
  <2>2. e.s = s /\ e.who = "stream" /\ e.value = m
    OBVIOUS
  <2>3. router \in Seq(Incoming \cup {e}) /\ e \in Incoming \cup {e}
    BY DEF TypeOK
  <2> HIDE DEF e
  <2>4. /\ n \in Nat /\ DOMAIN router' = DOMAIN router \cup {n} /\ router'[n] = e /\ n \notin DOMAIN router
        /\ \A k \in DOMAIN router : k < n /\ router'[k] = router[k]
    BY <2>1, <2>3, AppendElements
  <2> HIDE DEF n, m
  <2>5. new[s] = "open" /\ Missing(s) = {}
    BY <1>1, <1>6 DEF PlaceInv, InOrder
  <2>6. Ordered(s)
    BY <1>1, <2>5 DEF InOrder
  <2>7. Routed(s)' = Routed(s) \cup {n} /\ n \notin Routed(s)
    BY <2>2, <2>4 DEF Routed
  <2>8. \A k \in Routed(s) : k < n /\ router'[k] = router[k] /\ router[k].value < m /\ router[k].value \in Nat
    <3>1. \A k \in Routed(s) : k \in DOMAIN router /\ router[k].value \in Pending(s)
      BY DEF Routed, Pending
    <3> QED
      BY <1>2, <1>5, <2>4, <3>1
  <2>9. \A k \in DOMAIN buffer[s] : buffer[s][k] < m
    <3>1. \A k \in DOMAIN buffer[s] : buffer[s][k] \in Pending(s)
      BY DEF Pending
    <3> QED
      BY <1>2, <1>5, <3>1
  <2>10. Pending(s)' = Pending(s) \cup {m}
    <3>1. {router'[k].value : k \in Routed(s)'} = {router[k].value : k \in Routed(s)} \cup {m}
      BY <2>2, <2>4, <2>7, <2>8
    <3> QED
      BY <1>1, <3>1 DEF Pending
  <2>11. Missing(s)' = {}
    <3>1. ASSUME NEW w \in Missing(s)'
          PROVE  FALSE
      <4>1. w \in 1 .. m \ lost[s] /\ w > last[s] /\ w \notin Pending(s) /\ w # m
        BY <1>1, <1>2, <1>6, <2>10, <3>1 DEF Missing
      <4>2. w \in 1 .. value[s] \ lost[s]
        BY <1>2, <4>1 DEF m
      <4> QED
        BY <2>5, <4>1, <4>2 DEF Missing
    <3> QED
      BY <3>1
  <2>12. Ordered(s)'
    <3>1. \A j, k \in Routed(s)' : j < k => router'[j].value < router'[k].value
      <4>1. ASSUME NEW j \in Routed(s)', NEW k \in Routed(s)', j < k
            PROVE  router'[j].value < router'[k].value
        <5>1. j \in Nat /\ k \in Nat
          BY <2>4, <2>7, Numbers
        <5>2. j # n
          BY <2>4, <2>7, <2>8, <4>1, <5>1
        <5>3. CASE k = n
          BY <2>2, <2>4, <2>7, <2>8, <5>2, <5>3
        <5>4. CASE k # n
          BY <2>6, <2>7, <2>8, <4>1, <5>2, <5>4 DEF Ordered
        <5> QED
          BY <5>3, <5>4
      <4> QED
        BY <4>1
    <3>2. \A j \in DOMAIN buffer[s], k \in Routed(s)' : buffer[s][j] < router'[k].value
      BY <2>2, <2>4, <2>6, <2>7, <2>8, <2>9 DEF Ordered
    <3>3. last[s] < m
      BY <1>2, Numbers DEF Bounds, m
    <3>4. \A v \in Pending(s)' : last[s] < v
      BY <2>6, <2>10, <3>3 DEF Ordered
    <3> QED
      BY <1>1, <2>6, <3>1, <3>2, <3>4 DEF Ordered
  <2>13. \A t \in Streams : t # s => Shifted(t, 0)
    BY <2>1, <2>2, LongerRouter
  <2>14. InOrder'
    BY <1>1, <1>3, <2>11, <2>12, <2>13, OthersKept
  <2>15. RoutedInv'
    <3>1. /\ router'[n].value <= value'[router'[n].s]
          /\ new'[router'[n].s] = "open" /\ 0 < router'[n].value
      <4>1. router'[n].value = m /\ router'[n].s = s /\ new'[s] = "open"
        BY <1>1, <2>2, <2>4, <2>5
      <4>2. value'[s] = m /\ m <= m /\ 0 < m
        BY <1>2 DEF m
      <4> QED
        BY <4>1, <4>2
    <3>2. ASSUME NEW k \in DOMAIN router
          PROVE  /\ router'[k].value <= value'[router'[k].s]
                 /\ router'[k].who = "stream" =>
                      new'[router'[k].s] = "open" /\ 0 < router'[k].value
      <4>1. router[k].s \in Streams /\ router[k].value \in 0 .. MaxValues /\ router'[k] = router[k]
        BY <2>4, Addressed DEF Incoming
      <4>2. router[k].value <= value[router[k].s] /\ router[k].value \in Nat
        BY <4>1, BoundAssumption DEF RoutedInv
      <4>3. router[k].value <= value'[router[k].s]
        <5>1. CASE router[k].s = s
          BY <1>2, <4>2, <5>1
        <5>2. CASE router[k].s # s
          BY <1>3, <4>1, <4>2, <5>2
        <5> QED
          BY <5>1, <5>2
      <4> QED
        BY <1>1, <4>1, <4>3 DEF RoutedInv
    <3> QED
      BY <1>8, <2>4, <3>1, <3>2 DEF RoutedInv
  <2> QED
    BY <1>4, <2>14, <2>15
<1>7. ASSUME lost' = [lost EXCEPT ![s] = @ \cup {m}], router' = router
      PROVE  Bounds' /\ RoutedInv' /\ InOrder'
  <2>1. lost'[s] = lost[s] \cup {m}
    BY <1>7 DEF TypeOK
  <2>2. \A t \in Streams : Shifted(t, 0)
    BY <1>7, SameRouter
  <2>3. Pending(s)' = Pending(s)
    BY <1>1, <2>2, PendingKept
  <2>4. Missing(s)' = {}
    <3>1. ASSUME NEW w \in Missing(s)'
          PROVE  FALSE
      <4>1. w \in 1 .. m \ lost[s] /\ w > last[s] /\ w \notin Pending(s) /\ w # m
        BY <1>1, <1>2, <2>1, <2>3, <3>1 DEF Missing
      <4>2. w \in 1 .. value[s] \ lost[s]
        BY <1>2, <4>1
      <4> QED
        BY <1>1, <4>1, <4>2 DEF Missing, InOrder
    <3> QED
      BY <3>1
  <2>5. new'[s] = "open" => Ordered(s)'
    BY <1>1, <2>2, OrderedKept DEF InOrder
  <2>6. InOrder'
    BY <1>1, <1>3, <2>2, <2>4, <2>5, OthersKept
  <2>7. RoutedInv'
    <3>1. \A k \in DOMAIN router : router[k].s \in Streams /\ router[k].value \in Nat
      BY Addressed, BoundAssumption DEF Incoming
    <3>2. \A t \in Streams : value[t] \in Nat /\ value'[t] \in Nat /\ value[t] <= value'[t]
      BY <1>2, <1>3, Numbers
    <3> HIDE DEF m
    <3> QED
      BY <1>1, <1>7, <1>8, <3>1, <3>2 DEF RoutedInv
  <2> QED
    BY <1>4, <2>6, <2>7
<1> QED
  BY <1>2, <1>6, <1>7 DEF PublishValue, TypeOK


\* A value goes from the router into the buffer, or to the reader, or is lost.
LEMMA RouteValueStep ==
  ASSUME TypeOK, TypeOK', PlaceInv, Bounds, RoutedInv, InOrder, RouteValue
  PROVE  Bounds' /\ RoutedInv' /\ InOrder'
<1>1. /\ router \in Seq(Incoming) /\ router # <<>> /\ router' = Tail(router)
      /\ Head(router).who = "stream"
      /\ UNCHANGED <<subs, new, value, mail, sticky, cap>>
  BY DEF RouteValue, IsAnswer, TypeOK, stages, device
<1>2. /\ 1 \in DOMAIN router /\ Head(router) = router[1] /\ Head(router) \in Incoming
      /\ Len(router) \in Nat /\ DOMAIN router = 1 .. Len(router) /\ DOMAIN router' = 1 .. Len(router) - 1
      /\ \A k \in DOMAIN router' : k \in Nat /\ k + 1 \in DOMAIN router /\ router'[k] = router[k + 1]
  BY <1>1, TailElements, Elements
<1>3. PICK s \in Streams : s = Head(router).s
  BY <1>2 DEF Incoming
<1>4. PICK v \in Nat : v = Head(router).value
  BY <1>2, BoundAssumption DEF Incoming
<1>5. /\ new[s] = "open" /\ 0 < v /\ v <= value[s]
      /\ 1 \in Routed(s) /\ router[1].value = v
  BY <1>1, <1>2, <1>3, <1>4 DEF RoutedInv, Routed
<1>6. \/ buffer' = [buffer EXCEPT ![s] = Append(buffer[s], v)] /\ UNCHANGED <<last, lost>>
      \/ cap[s] = 0 /\ last' = [last EXCEPT ![s] = v] /\ UNCHANGED <<buffer, lost>>
      \/ lost' = [lost EXCEPT ![s] = @ \cup {v}] /\ UNCHANGED <<buffer, last>>
  BY <1>3, <1>4 DEF RouteValue, Handle, Undecodable
<1>7. \A t \in Streams : t # s => Untouched(t)
  <2>1. /\ buffer \in [Streams -> Seq(Values)] /\ last \in [Streams -> 0 .. MaxValues]
        /\ lost \in [Streams -> SUBSET Values]
    BY DEF TypeOK
  <2>2. \A t \in Streams : t # s => buffer'[t] = buffer[t] /\ last'[t] = last[t] /\ lost'[t] = lost[t]
    <3>1. CASE buffer' = [buffer EXCEPT ![s] = Append(buffer[s], v)] /\ UNCHANGED <<last, lost>>
      BY <2>1, <3>1
    <3>2. CASE last' = [last EXCEPT ![s] = v] /\ UNCHANGED <<buffer, lost>>
      BY <2>1, <3>2
    <3>3. CASE lost' = [lost EXCEPT ![s] = @ \cup {v}] /\ UNCHANGED <<buffer, last>>
      BY <2>1, <3>3
    <3> QED
      BY <1>6, <3>1, <3>2, <3>3
  <2> QED
    BY <1>1, <2>2 DEF Untouched
<1>8. \A t \in Streams : t # s => Shifted(t, 1)
  BY <1>1, <1>3, ShorterRouter
<1>9. RoutedInv'
  BY <1>1, <1>2 DEF RoutedInv
<1>10. /\ buffer[s] \in Seq(Values) /\ Len(buffer[s]) \in Nat /\ DOMAIN buffer[s] = 1 .. Len(buffer[s])
       /\ \A k \in DOMAIN buffer[s] : k \in Nat /\ buffer[s][k] \in Nat
  BY Numbers
<1>11. \A k \in Routed(s)' : k \in Nat /\ k + 1 \in Routed(s) /\ 1 < k + 1 /\ router'[k] = router[k + 1]
  BY <1>2 DEF Routed
<1>12. \A j \in Routed(s) : j \in Nat /\ (j = 1 \/ (j - 1 \in Routed(s)' /\ router'[j - 1] = router[j]))
  <2>1. ASSUME NEW j \in Routed(s), j # 1
        PROVE  j - 1 \in Routed(s)' /\ router'[j - 1] = router[j]
    <3>1. j - 1 \in DOMAIN router' /\ (j - 1) + 1 = j
      BY <1>2, <2>1 DEF Routed
    <3>2. router'[j - 1] = router[j]
      BY <1>2, <3>1
    <3> QED
      BY <3>1, <3>2 DEF Routed
  <2> QED
    BY <2>1, Numbers
<1>13. s \in subs => Ordered(s) /\ Missing(s) = {}
  BY <1>5 DEF InOrder
<1>14. CASE buffer' = [buffer EXCEPT ![s] = Append(buffer[s], v)] /\ UNCHANGED <<last, lost>>
  <2> DEFINE n == Len(buffer[s]) + 1
  <2>1. buffer'[s] = Append(buffer[s], v)
    BY <1>14 DEF TypeOK
  <2>2. buffer[s] \in Seq(Nat)
    BY <1>10
  <2>3. /\ n \in Nat /\ DOMAIN buffer'[s] = DOMAIN buffer[s] \cup {n} /\ n \notin DOMAIN buffer[s]
        /\ buffer'[s][n] = v /\ \A k \in DOMAIN buffer[s] : k < n /\ buffer'[s][k] = buffer[s][k]
    BY <2>1, <2>2, AppendElements
  <2> HIDE DEF n
  <2>4. Bounds'
    <3>1. \A k \in DOMAIN buffer'[s] : 0 < buffer'[s][k] /\ buffer'[s][k] <= value[s]
      BY <1>5, <2>3 DEF Bounds
    <3> QED
      BY <1>1, <1>5, <1>7, <1>14, <3>1 DEF Bounds, Untouched
  <2>5. Pending(s)' = Pending(s)
    <3>1. \A w : (\E k \in DOMAIN buffer'[s] : buffer'[s][k] = w)
                   <=> w = v \/ \E k \in DOMAIN buffer[s] : buffer[s][k] = w
      BY <2>3
    <3>2. \A w : (\E k \in Routed(s) : router[k].value = w)
                   <=> w = v \/ \E k \in Routed(s)' : router'[k].value = w
      <4>1. ASSUME NEW k \in Routed(s)
            PROVE  router[k].value = v \/ \E j \in Routed(s)' : router'[j].value = router[k].value
        BY <1>5, <1>12
      <4>2. ASSUME NEW k \in Routed(s)'
            PROVE  \E j \in Routed(s) : router[j].value = router'[k].value
        BY <1>11
      <4>3. \E k \in Routed(s) : router[k].value = v
        BY <1>5
      <4> QED
        BY <4>1, <4>2, <4>3
    <3>3. \A w : w \in Pending(s)' <=> w \in Pending(s)
      <4> SUFFICES ASSUME NEW w PROVE w \in Pending(s)' <=> w \in Pending(s)
        OBVIOUS
      <4>1. w \in Pending(s) <=> \/ \E k \in DOMAIN buffer[s] : buffer[s][k] = w
                                \/ \E k \in Routed(s) : router[k].value = w
        BY DEF Pending
      <4>2. w \in Pending(s)' <=> \/ \E k \in DOMAIN buffer'[s] : buffer'[s][k] = w
                                 \/ \E k \in Routed(s)' : router'[k].value = w
        BY DEF Pending
      <4> QED
        BY <3>1, <3>2, <4>1, <4>2
    <3> QED
      BY <3>3
  <2>6. Missing(s)' = Missing(s)
    BY <1>1, <1>14, <2>5 DEF Missing
  <2>7. ASSUME s \in subs
        PROVE  Ordered(s)'
    <3>0. Ordered(s)
      BY <1>13, <2>7
    <3>1. \A j, k \in DOMAIN buffer'[s] : j < k => buffer'[s][j] < buffer'[s][k]
      <4>1. ASSUME NEW j \in DOMAIN buffer'[s], NEW k \in DOMAIN buffer'[s], j < k
            PROVE  buffer'[s][j] < buffer'[s][k]
        <5>1. j # n
          BY <1>10, <2>3, <4>1
        <5>2. CASE k = n
          BY <1>5, <2>3, <3>0, <5>1, <5>2 DEF Ordered
        <5>3. CASE k # n
          BY <2>3, <3>0, <4>1, <5>1, <5>3 DEF Ordered
        <5> QED
          BY <5>2, <5>3
      <4> QED
        BY <4>1
    <3>2. \A j, k \in Routed(s)' : j < k => router'[j].value < router'[k].value
      <4>1. ASSUME NEW j \in Routed(s)', NEW k \in Routed(s)', j < k
            PROVE  router'[j].value < router'[k].value
        <5>1. j + 1 < k + 1
          BY <1>11, <4>1
        <5> QED
          BY <1>11, <3>0, <5>1 DEF Ordered
      <4> QED
        BY <4>1
    <3>3. \A j \in DOMAIN buffer'[s], k \in Routed(s)' : buffer'[s][j] < router'[k].value
      BY <1>5, <1>11, <2>3, <3>0 DEF Ordered
    <3>4. \A w \in Pending(s)' : last'[s] < w
      BY <1>14, <2>5, <3>0 DEF Ordered
    <3> QED
      BY <3>1, <3>2, <3>3, <3>4 DEF Ordered
  <2>8. InOrder'
    BY <1>1, <1>7, <1>8, <1>13, <2>6, <2>7, OthersKept
  <2> QED
    BY <1>9, <2>4, <2>8
<1>15. CASE cap[s] = 0 /\ last' = [last EXCEPT ![s] = v] /\ UNCHANGED <<buffer, lost>>
  <2>1. last'[s] = v
    BY <1>15 DEF TypeOK
  <2>2. DOMAIN buffer[s] = {}
    BY <1>10, <1>15 DEF TypeOK
  <2>3. Bounds'
    BY <1>1, <1>5, <1>7, <1>15, <2>1 DEF Bounds, Untouched
  <2>4. ASSUME s \in subs
        PROVE  Ordered(s)' /\ Missing(s)' \subseteq Missing(s)
    <3>0. Ordered(s)
      BY <1>13, <2>4
    <3>1. \A k \in Routed(s)' : v < router'[k].value
      BY <1>5, <1>11, <3>0 DEF Ordered
    <3>2. \A j, k \in Routed(s)' : j < k => router'[j].value < router'[k].value
      <4>1. ASSUME NEW j \in Routed(s)', NEW k \in Routed(s)', j < k
            PROVE  router'[j].value < router'[k].value
        <5>1. j + 1 < k + 1
          BY <1>11, <4>1
        <5> QED
          BY <1>11, <3>0, <5>1 DEF Ordered
      <4> QED
        BY <4>1
    <3>3. \A w \in Pending(s)' : last'[s] < w
      BY <1>15, <2>1, <2>2, <3>1 DEF Pending
    <3>4. Ordered(s)'
      BY <1>15, <2>2, <3>2, <3>3 DEF Ordered
    <3>5. \A w \in Pending(s) : w = v \/ w \in Pending(s)'
      BY <1>5, <1>12, <1>15, <2>2 DEF Pending
    <3>7. last[s] < v
      BY <1>5, <3>0 DEF Ordered, Pending
    <3>8. ASSUME NEW w \in Missing(s)'
          PROVE  w \in Missing(s)
      <4>1. w \in 1 .. value[s] \ lost[s] /\ w > v /\ w \notin Pending(s)'
        BY <1>1, <1>15, <2>1, <3>8 DEF Missing
      <4>2. w > last[s] /\ w # v
        BY <1>4, <3>7, <4>1, Numbers
      <4> QED
        BY <3>5, <4>1, <4>2 DEF Missing
    <3> QED
      BY <3>4, <3>8
  <2>5. InOrder'
    BY <1>1, <1>7, <1>8, <1>13, <2>4, OthersKept
  <2> QED
    BY <1>9, <2>3, <2>5
<1>16. CASE lost' = [lost EXCEPT ![s] = @ \cup {v}] /\ UNCHANGED <<buffer, last>>
  <2>1. lost'[s] = lost[s] \cup {v}
    BY <1>16 DEF TypeOK
  <2>2. Bounds'
    BY <1>1, <1>16 DEF Bounds
  <2>3. Pending(s)' \subseteq Pending(s) /\ \A w \in Pending(s) : w = v \/ w \in Pending(s)'
    <3>1. \A w \in Pending(s)' : w \in Pending(s)
      BY <1>11, <1>16 DEF Pending
    <3>2. \A w \in Pending(s) : w = v \/ w \in Pending(s)'
      BY <1>5, <1>12, <1>16 DEF Pending
    <3> QED
      BY <3>1, <3>2
  <2>4. Missing(s)' \subseteq Missing(s)
    <3>1. ASSUME NEW w \in Missing(s)'
          PROVE  w \in Missing(s)
      <4>1. w \in 1 .. value[s] \ lost[s] /\ w # v /\ w > last[s] /\ w \notin Pending(s)'
        BY <1>1, <1>16, <2>1, <3>1 DEF Missing
      <4> QED
        BY <2>3, <4>1 DEF Missing
    <3> QED
      BY <3>1
  <2>5. ASSUME s \in subs
        PROVE  Ordered(s)'
    <3>0. Ordered(s)
      BY <1>13, <2>5
    <3>1. \A j, k \in Routed(s)' : j < k => router'[j].value < router'[k].value
      <4>1. ASSUME NEW j \in Routed(s)', NEW k \in Routed(s)', j < k
            PROVE  router'[j].value < router'[k].value
        <5>1. j + 1 < k + 1
          BY <1>11, <4>1
        <5> QED
          BY <1>11, <3>0, <5>1 DEF Ordered
      <4> QED
        BY <4>1
    <3>2. \A j \in DOMAIN buffer'[s], k \in Routed(s)' : buffer'[s][j] < router'[k].value
      BY <1>11, <1>16, <3>0 DEF Ordered
    <3>3. \A w \in Pending(s)' : last'[s] < w
      BY <1>16, <2>3, <3>0 DEF Ordered
    <3> QED
      BY <1>16, <3>0, <3>1, <3>2, <3>3 DEF Ordered
  <2>6. InOrder'
    BY <1>1, <1>7, <1>8, <1>13, <2>4, <2>5, OthersKept
  <2> QED
    BY <1>9, <2>2, <2>6
<1> QED
  BY <1>6, <1>14, <1>15, <1>16

\* What was in the router is lost with the connection; it comes after what is in
\* the buffers.
LEMMA DisconnectStep ==
  ASSUME TypeOK, TypeOK', Bounds, RoutedInv, InOrder, Disconnect
  PROVE  Bounds' /\ RoutedInv' /\ InOrder'
<1>1. DOMAIN router' = {} /\ UNCHANGED <<subs, new, value, sticky, buffer, last, mail>>
  BY DEF Disconnect, channel, device
<1>2. Bounds' /\ RoutedInv'
  BY <1>1 DEF Bounds, RoutedInv
<1>3. \A s \in Streams : Routed(s)' = {}
  BY <1>1 DEF Routed
<1>4. ASSUME NEW s \in subs
      PROVE  Missing(s)' = {} /\ (new'[s] = "open" => Ordered(s)')
  <2>1. s \in Streams
    BY DEF TypeOK
  <2>2. Pending(s)' = {buffer[s][k] : k \in DOMAIN buffer[s]} /\ Pending(s)' \subseteq Pending(s)
    BY <1>1, <1>3, <2>1 DEF Pending
  <2>3. lost'[s] = lost[s] \cup {router[k].value : k \in Routed(s)}
    BY <2>1 DEF Disconnect
  <2>4. Missing(s)' \subseteq Missing(s)
    BY <1>1, <2>2, <2>3 DEF Missing, Pending
  <2>5. new[s] = "open" => Ordered(s)'
    BY <1>1, <1>3, <2>1, <2>2 DEF Ordered, InOrder
  <2> QED
    BY <1>1, <2>4, <2>5 DEF InOrder
<1> QED
  BY <1>1, <1>2, <1>4 DEF InOrder

-----------------------------------------------------------------------------
LEMMA ValuesInit == Init => ValuesInv
<1> SUFFICES ASSUME Init PROVE ValuesInv
  OBVIOUS
<1>1. CallsInv
  BY CallsInit
<1>2. Bounds /\ RoutedInv
  BY DEF Init, Bounds, RoutedInv
<1>3. InOrder
  <2>1. ASSUME NEW s \in subs
        PROVE  Missing(s) = {} /\ new[s] # "open"
    <3>1. value[s] = 0 /\ new[s] = "idle"
      BY <2>1 DEF Init
    <3> QED
      BY <3>1 DEF Missing
  <2> QED
    BY <2>1 DEF InOrder
<1> QED
  BY <1>1, <1>2, <1>3 DEF ValuesInv

LEMMA ValuesNext == ValuesInv /\ [Next]_vars => ValuesInv'
<1> SUFFICES ASSUME ValuesInv, [Next]_vars PROVE ValuesInv'
  OBVIOUS
<1>1. CallsInv'
  BY CallsNext DEF ValuesInv
<1>2. TypeOK /\ CallInv /\ PlaceInv /\ RemoteInv /\ Bounds /\ RoutedInv /\ InOrder /\ TypeOK'
  BY <1>1 DEF ValuesInv, CallsInv
<1>3. CASE Next
  <2>1. Bounds' /\ RoutedInv' /\ InOrder'
    BY <1>2, <1>3, QuietSteps, StickyStep, SubscribeStep, ReadStep, PublishStep, RouteValueStep,
       DisconnectStep DEF Next, Creating, Route
  <2> QED
    BY <1>1, <2>1 DEF ValuesInv
<1>4. CASE UNCHANGED vars
  <2>1. Bounds' /\ RoutedInv'
    BY <1>2, <1>4 DEF vars, Bounds, RoutedInv
  <2>2. InOrder'
    BY <1>2, <1>4 DEF vars, InOrder, Ordered, Missing, Pending, Routed
  <2> QED
    BY <1>1, <2>1, <2>2 DEF ValuesInv
<1> QED
  BY <1>3, <1>4

(***************************************************************************)
(* The values of a stream, from the sticky payload and the publications    *)
(* through the router and the buffer to the reader: the inductive          *)
(* invariant.  A value may be lost before the handler, or not decode.      *)
(***************************************************************************)
THEOREM ValuesInvariance == Spec => []ValuesInv
BY ValuesInit, ValuesNext, PTL DEF Spec

(***************************************************************************)
(* A reader sees published values in order, the sticky one first; of those *)
(* that reach the handler and decode none is dropped, and the buffers keep *)
(* their capacities (stream_sub.go:57, 71-101).  What the network loses,   *)
(* with QoS 0, is not asked for.                                           *)
(***************************************************************************)
THEOREM ReceivedHolds == Spec => []Received
<1>1. ValuesInv => Received
  BY DEF ValuesInv, CallsInv, Received
<1> QED
  BY <1>1, ValuesInvariance, PTL

-----------------------------------------------------------------------------
(* Who can hold the router up.                                             *)

\* A subscriber stream that is open has had a reader, and only subscriber streams
\* are routed values.
ReadersInv ==
  /\ \A s \in subs : new[s] = "open" => reader[s] # "none"
  /\ \A s \in Streams \ subs : Routed(s) = {}

\* The sticky value never waits for a reader, only for a buffer there is not; and
\* a value at the head of the router has room, or a reader who has one to read or
\* takes it out of the hand, or one who quit.
OnlyQuitHolds ==
  /\ \A s \in Streams : new[s] = "sticky" => buffer[s] = <<>>
  /\ router # <<>> /\ ~IsAnswer(Head(router)) =>
       LET s == Head(router).s
       IN  \/ Len(buffer[s]) < cap[s] \/ reader[s] = "quit"
           \/ reader[s] = "reads" /\ (cap[s] = 0 \/ buffer[s] # <<>>)

LEMMA ReadersStep ==
  ASSUME CallsInv, ReadersInv, [Next]_vars
  PROVE  ReadersInv'
<1>1. TypeOK /\ CallInv /\ PlaceInv
  BY DEF CallsInv
<1>2. subs \subseteq Streams
  BY <1>1 DEF TypeOK
<1>3. ASSUME UNCHANGED <<subs, reader>>, NewOn PROVE \A s \in subs' : new'[s] = "open" => reader'[s] # "none"
  BY <1>2, <1>3 DEF NewOn, ReadersInv
<1>4. ASSUME UNCHANGED subs, NEW d \in {0, 1}, \A t \in Streams \ subs : Shifted(t, d)
      PROVE  \A s \in Streams \ subs' : Routed(s)' = {}
  BY <1>4 DEF ReadersInv, Shifted
<1>5. ASSUME UNCHANGED <<subs, router>> PROVE \A s \in Streams \ subs' : Routed(s)' = {}
  BY <1>5 DEF ReadersInv, Routed
<1>6. ASSUME NEW s \in Streams, New(s) \/ Close(s) \/ Tick(s) \/ KeepaliveCloses(s)
      PROVE  ReadersInv'
  <2>1. UNCHANGED <<subs, reader, router>>
    BY <1>6 DEF New, Close, Tick, KeepaliveCloses, Calls, channel
  <2>2. NewOn
    <3>1. CASE New(s)
      <4>1. new[s] = "idle" /\ new' = [new EXCEPT ![s] = "call"]
        BY <3>1 DEF New, Calls
      <4> QED BY <1>1, <4>1 DEF TypeOK, NewOn
    <3>2. CASE Close(s) \/ Tick(s) \/ KeepaliveCloses(s)
      <4>1. new' = new
        BY <3>2 DEF Close, Tick, KeepaliveCloses, Calls, CallReturns, Refreshed, Closed,
          KeepaliveClosed, stages
      <4> QED BY <4>1 DEF NewOn
    <3> QED BY <1>6, <3>1, <3>2
  <2> QED BY <1>3, <1>5, <2>1, <2>2 DEF ReadersInv
<1>7. ASSUME NEW s \in Streams, NEW who \in Callers, TimesOut(s, who) \/ SendFails(s, who)
      PROVE  ReadersInv'
  <2>1. /\ Waits(s, who) /\ Forget(s, who) /\ \E res : CallReturns(s, who, res)
        /\ UNCHANGED <<subs, reader>>
    BY <1>1, <1>7 DEF TimesOut, SendFails, CallInv, channel
  <2>2. NewOn
    BY <1>1, <2>1, WaitReady, ReturnNewOn
  <2>3. \A t \in Streams : Shifted(t, 0)
    BY <1>1, <2>1, LateRouter
  <2> QED BY <1>3, <1>4, <2>1, <2>2, <2>3 DEF ReadersInv
<1>8. ASSUME NEW r \in requests, Serve(r) PROVE ReadersInv'
  <2> DEFINE e == [s |-> r.s, who |-> r.who, ok |-> r.op = "create" \/ remote[r.s] = "alive",
                   value |-> IF r.op = "create" THEN value[r.s] ELSE 0]
  <2>1. UNCHANGED <<subs, reader, new>> /\ router' \in {router, Append(router, e)}
    BY <1>8 DEF Serve, channel, stages
  <2>2. e.who # "stream"
    BY <1>1, Addressed DEF Request, Callers
  <2>3. NewOn
    BY <2>1 DEF NewOn
  <2> HIDE DEF e
  <2>4. \A t \in Streams : Shifted(t, 0)
    BY <1>1, <2>1, <2>2, SameRouter, LongerRouter
  <2> QED BY <1>3, <1>4, <2>1, <2>3, <2>4 DEF ReadersInv
<1>9. CASE RouteAnswer
  <2>1. /\ router # <<>> /\ IsAnswer(Head(router)) /\ router' = Tail(router)
        /\ UNCHANGED <<subs, reader, new>>
    BY <1>9 DEF RouteAnswer, channel, stages
  <2>2. NewOn
    BY <2>1 DEF NewOn
  <2>3. \A t \in Streams : Shifted(t, 1)
    BY <1>1, <2>1, ShorterRouter DEF IsAnswer
  <2> QED BY <1>3, <1>4, <2>1, <2>2, <2>3 DEF ReadersInv
<1>10. CASE RouteValue
  <2>1. router # <<>> /\ router' = Tail(router) /\ UNCHANGED <<subs, reader, new>>
    BY <1>10 DEF RouteValue, stages
  <2>2. NewOn
    BY <2>1 DEF NewOn
  <2>3. \A t \in Streams \ subs : ~(Head(router).s = t /\ Head(router).who = "stream")
    <3>1. 1 \in DOMAIN router /\ Head(router) = router[1]
      BY <1>1, <2>1, TailElements DEF TypeOK
    <3> QED BY <3>1 DEF ReadersInv, Routed
  <2>4. \A t \in Streams \ subs : Shifted(t, 1)
    BY <1>1, <2>1, <2>3, ShorterRouter
  <2> QED BY <1>3, <1>4, <2>1, <2>2, <2>4 DEF ReadersInv
<1>11. ASSUME NEW s \in Streams, Sticky(s) \/ Read(s) \/ Expire(s) \/ Listen(s)
       PROVE  ReadersInv'
  <2>1. UNCHANGED <<subs, reader, router>>
    BY <1>11 DEF Sticky, Read, Expire, Listen, network, channel
  <2>2. new' = new \/ (new[s] = "sticky" /\ new' = [new EXCEPT ![s] = "subscribe"])
    BY <1>11 DEF Sticky, Read, Expire, Listen, stages
  <2>3. NewOn
    BY <1>1, <2>2 DEF NewOn, TypeOK
  <2> QED BY <1>3, <1>5, <2>1, <2>3 DEF ReadersInv
<1>12. ASSUME NEW s \in Streams, Subscribe(s) PROVE ReadersInv'
  <2>1. /\ new' = [new EXCEPT ![s] = "open"] /\ reader' = [reader EXCEPT ![s] = "reads"]
        /\ UNCHANGED <<subs, router>>
    BY <1>12 DEF Subscribe, network
  <2>2. \A t \in subs : new'[t] = "open" => reader'[t] # "none"
    BY <1>1, <1>2, <2>1 DEF TypeOK, ReadersInv
  <2> QED BY <1>5, <2>1, <2>2 DEF ReadersInv
<1>13. ASSUME NEW s \in Streams, Quit(s) PROVE ReadersInv'
  <2>1. reader' = [reader EXCEPT ![s] = "quit"] /\ UNCHANGED <<subs, new, router>>
    BY <1>13 DEF Quit, stages, network
  <2>2. \A t \in subs : new'[t] = "open" => reader'[t] # "none"
    BY <1>1, <1>2, <2>1 DEF TypeOK, ReadersInv
  <2> QED BY <1>5, <2>1, <2>2 DEF ReadersInv
<1>14. ASSUME NEW s \in Streams, PublishValue(s) PROVE ReadersInv'
  <2>0. PICK ok : \/ router' = router
                  \/ router' = Append(router, [s |-> s, who |-> "stream", ok |-> ok, value |-> value'[s]])
    BY <1>14 DEF PublishValue
  <2> DEFINE e == [s |-> s, who |-> "stream", ok |-> ok, value |-> value'[s]]
  <2>1. s \in subs /\ UNCHANGED <<subs, reader, new>> /\ router' \in {router, Append(router, e)}
    BY <1>14, <2>0 DEF PublishValue, stages, channel
  <2>2. NewOn
    BY <2>1 DEF NewOn
  <2>3. \A t \in Streams \ subs : ~(e.s = t /\ e.who = "stream")
    BY <2>1
  <2> HIDE DEF e
  <2>4. \A t \in Streams \ subs : Shifted(t, 0)
    BY <1>1, <2>1, <2>3, SameRouter, LongerRouter
  <2> QED BY <1>3, <1>4, <2>1, <2>2, <2>4 DEF ReadersInv
<1>15. CASE Disconnect
  <2>1. router' = <<>> /\ UNCHANGED <<subs, reader, new>>
    BY <1>15 DEF Disconnect, channel
  <2>2. NewOn
    BY <2>1 DEF NewOn
  <2>3. \A t \in Streams : Routed(t)' = {}
    BY <2>1 DEF Routed
  <2> QED BY <1>3, <2>1, <2>2, <2>3 DEF ReadersInv
<1>16. CASE UNCHANGED vars
  <2>1. UNCHANGED <<subs, reader, new, router>>
    BY <1>16 DEF vars
  <2> QED BY <1>5, <2>1 DEF ReadersInv
<1>17. ASSUME NEW s \in Streams, NEW who \in Callers, Acknowledge(s, who) PROVE ReadersInv'
  <2>1. UNCHANGED <<subs, reader, new, router>>
    BY <1>17 DEF Acknowledge, channel, stages
  <2>2. NewOn
    BY <2>1 DEF NewOn
  <2> QED BY <1>3, <1>5, <2>1, <2>2 DEF ReadersInv
<1>18. ASSUME NEW r \in mail, Answered(r) PROVE ReadersInv'
  <2>1. /\ r.s \in Streams /\ r.who \in Callers /\ Waits(r.s, r.who) /\ Forget(r.s, r.who)
        /\ \E res : CallReturns(r.s, r.who, res)
        /\ UNCHANGED <<subs, reader>>
    BY <1>1, <1>18, Addressed DEF Answered, CallInv
  <2>2. NewOn
    BY <1>1, <2>1, WaitReady, ReturnNewOn
  <2>3. \A t \in Streams : Shifted(t, 0)
    BY <1>1, <2>1, LateRouter
  <2> QED BY <1>3, <1>4, <2>1, <2>2, <2>3 DEF ReadersInv
<1> QED
  BY <1>6, <1>7, <1>8, <1>9, <1>10, <1>11, <1>12, <1>13, <1>14, <1>15, <1>16, <1>17, <1>18
     DEF Next, Creating, Route

(***************************************************************************)
(* While readers read, nothing holds the router up for ever: what is at    *)
(* its head is an answer, which is taken, or a value for a stream with     *)
(* room, or for one whose reader can make room, or has quit.  New holds    *)
(* nothing up either: the sticky value meets an empty buffer, since the    *)
(* subscription comes after it (stream_sub.go:57).  This is the safety     *)
(* half of RouterMoves and NewReturns.                                     *)
(***************************************************************************)
THEOREM RouterNotStuck == Spec => []OnlyQuitHolds
<1>1. Init => ReadersInv
  BY DEF Init, ReadersInv, Routed
<1>2. CallsInv /\ ReadersInv /\ [Next]_vars => ReadersInv'
  BY ReadersStep
<1>3. ValuesInv /\ ReadersInv => OnlyQuitHolds
  <2> SUFFICES ASSUME ValuesInv, ReadersInv PROVE OnlyQuitHolds
    OBVIOUS
  <2>1. TypeOK /\ Bounds /\ RoutedInv /\ Received
    BY DEF ValuesInv, CallsInv, Received
  <2>2. \A s \in Streams : new[s] = "sticky" => buffer[s] = <<>>
    BY <2>1 DEF Bounds
  <2>3. ASSUME router # <<>>, ~IsAnswer(Head(router)), NEW s, s = Head(router).s
        PROVE  \/ Len(buffer[s]) < cap[s] \/ reader[s] = "quit"
               \/ reader[s] = "reads" /\ (cap[s] = 0 \/ buffer[s] # <<>>)
    <3>1. 1 \in DOMAIN router /\ Head(router) = router[1] /\ Head(router) \in Incoming
      BY <2>1, <2>3, TailElements, Elements DEF TypeOK
    <3>2. s \in Streams /\ router[1].who = "stream" /\ new[s] = "open" /\ 1 \in Routed(s)
      BY <2>1, <2>3, <3>1 DEF IsAnswer, Incoming, RoutedInv, Routed
    <3>3. s \in subs /\ reader[s] # "none"
      BY <3>2 DEF ReadersInv
    <3>4. reader[s] \in {"none", "reads", "quit"} /\ cap[s] \in Nat
      BY <2>1, <3>2, StreamsAssumption DEF TypeOK
    <3>5. cap[s] = 0 \/ buffer[s] # <<>> \/ Len(buffer[s]) < cap[s]
      BY <3>4
    <3> QED BY <3>3, <3>4, <3>5
  <2> QED BY <2>2, <2>3 DEF OnlyQuitHolds
<1> QED BY <1>1, <1>2, <1>3, Invariance, ValuesInvariance, PTL DEF Spec
=============================================================================
