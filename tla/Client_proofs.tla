---------------------------- MODULE Client_proofs ----------------------------
(***************************************************************************)
(* Two MQTT clients of one Client never run at once, and from the first on *)
(* the context of an earlier connection is cancelled before another is     *)
(* made, for every number of calls and of connections.                     *)
(***************************************************************************)
EXTENDS Client, TLAPS

\* Where Connect and Disconnect are decides which connection the fields name
\* and what is left of it.
Places ==
  /\ app = "idle" => calling = "none"
  /\ app = "context" => calling = "Connect"
  /\ calling = "Connect" /\ app \in {"state", "drop", "stop", "context"}
       => ctx < MaxConnects
  /\ app \in {"state", "drop", "stop", "subscribe", "login"} => mqtt # 0
  /\ app = "dial" => ctx # 0
  /\ app \in {"stop", "context"} /\ mqtt # 0 => ctx \notin live
  /\ app \in {"context", "dial"} =>
       \A g \in Connections : link[g] \notin {"up", "down"}

\* Only the newest connection can run, and every Connect that was refused left
\* its connection without an MQTT client.
Links ==
  /\ \A g \in Connections : link[g] \in {"up", "down"} => g = ctx
  /\ \A g \in Connections : g > mqtt => link[g] = "none"
  /\ mqtt # 0 => link[mqtt] # "none"

IInv == TypeOK /\ Places /\ Links /\ OneMqttClient /\ EarlierCancelled

\* Giving up the messages of a connection leaves the calls well formed.
LEMMA BreakTyped ==
  ASSUME TypeOK, NEW g, Break(g)
  PROVE  call' \in [Calls -> [kind : Kinds, over : BOOLEAN, at : CallStates,
            bus : 0 .. ctx, ctx : 0 .. ctx, via : 0 .. mqtt]]
  BY DEF TypeOK, Break, CallStates

THEOREM InitInvariant == Init => IInv
<1> SUFFICES ASSUME Init PROVE IInv
    OBVIOUS
<1>1. call \in [Calls -> [kind : Kinds, over : BOOLEAN, at : CallStates,
                        bus : 0 .. ctx, ctx : 0 .. ctx, via : 0 .. mqtt]]
  <2>1. ASSUME NEW r \in [kind : Kinds, over : {FALSE}, at : {"new"}, bus : {0},
                         ctx : {0}, via : {0}]
        PROVE  r \in [kind : Kinds, over : BOOLEAN, at : CallStates,
                     bus : 0 .. 0, ctx : 0 .. 0, via : 0 .. 0]
    <3>1. r.over \in BOOLEAN /\ r.at \in CallStates
          BY DEF CallStates
    <3>2. r.bus \in 0 .. 0 /\ r.ctx \in 0 .. 0 /\ r.via \in 0 .. 0
          OBVIOUS
    <3> QED BY <3>1, <3>2
  <2>2. ctx = 0 /\ mqtt = 0
        BY DEF Init
  <2>3. \A c \in Calls : call[c] \in [kind : Kinds, over : BOOLEAN, at : CallStates,
                                    bus : 0 .. 0, ctx : 0 .. 0, via : 0 .. 0]
        BY <2>1 DEF Init
  <2>4. call = [c \in Calls |-> call[c]]
        BY DEF Init
  <2> QED BY <2>2, <2>3, <2>4
<1>2. TypeOK
      BY <1>1, ConnectsAssumption DEF Init, TypeOK, Connections
<1> QED BY <1>2 DEF Init, IInv, Places, Links, OneMqttClient, EarlierCancelled,
          Connections

\* Every step of the client, of the MQTT library and of a call preserves it.
THEOREM StepInvariant == IInv /\ [Next]_vars => IInv'
<1> USE ConnectsAssumption DEF IInv, Connections
<1> SUFFICES ASSUME IInv, [Next]_vars
             PROVE  IInv'
    OBVIOUS
<1>1. CASE Connect
      BY <1>1 DEF Connect, TypeOK, Places, Links, OneMqttClient, EarlierCancelled,
        fields, mqttVars, callVars
<1>2. CASE Disconnect
      BY <1>2 DEF Disconnect, TypeOK, Places, Links, OneMqttClient, EarlierCancelled,
        fields, mqttVars, callVars
<1>3. CASE DisconnectState
      BY <1>3 DEF DisconnectState, Goto, TypeOK, Places, Links, OneMqttClient,
        EarlierCancelled, mqttVars, callVars
<1>4. CASE DisconnectCancel
      BY <1>4 DEF DisconnectCancel, Goto, TypeOK, Places, Links, OneMqttClient,
        EarlierCancelled, fields, mqttVars, callVars
<1>5. CASE DisconnectStop
  <2> USE <1>5 DEF DisconnectStop, Goto, Return, fields
  <2>1. mqtt \in Connections
        BY DEF TypeOK, Places
  <2>2. TypeOK'
        BY BreakTyped, <2>1 DEF TypeOK
  <2>3. \A g \in Connections : link'[g] \notin {"up", "down"}
        BY <2>1 DEF TypeOK, OneMqttClient
  <2>4. Places' /\ Links' /\ OneMqttClient' /\ EarlierCancelled'
        BY <2>3 DEF Places, Links, OneMqttClient, EarlierCancelled
  <2> QED BY <2>2, <2>4
<1>6. CASE NewContext
  <2> USE <1>6 DEF NewContext, Goto, mqttVars, callVars
  <2>1. ctx < MaxConnects /\ (mqtt # 0 => ctx \notin live)
        BY DEF Places
  <2>2. ctx' = ctx + 1 /\ ctx \in Nat /\ live' = live \cup {ctx'}
        BY <2>1 DEF TypeOK
  <2>3. call' \in [Calls -> [kind : Kinds, over : BOOLEAN, at : CallStates,
            bus : 0 .. ctx', ctx : 0 .. ctx', via : 0 .. mqtt']]
        BY <2>2 DEF TypeOK
  <2>4. TypeOK'
        BY <2>1, <2>2, <2>3 DEF TypeOK
  <2>5. Places' /\ Links' /\ OneMqttClient' /\ EarlierCancelled'
        BY <2>1, <2>2 DEF TypeOK, Places, Links, OneMqttClient, EarlierCancelled
  <2> QED BY <2>4, <2>5
<1>7. CASE DialSucceeds
  <2> USE <1>7 DEF DialSucceeds, Goto, callVars
  <2>1. ctx \in Connections /\ mqtt' = ctx /\ mqtt \in 0 .. ctx
        BY DEF TypeOK, Places
  <2>2. call' \in [Calls -> [kind : Kinds, over : BOOLEAN, at : CallStates,
            bus : 0 .. ctx', ctx : 0 .. ctx', via : 0 .. mqtt']]
        BY <2>1 DEF TypeOK
  <2>3. TypeOK'
        BY <2>1, <2>2 DEF TypeOK
  <2>4. Places' /\ Links' /\ OneMqttClient' /\ EarlierCancelled'
        BY <2>1 DEF TypeOK, Places, Links, OneMqttClient, EarlierCancelled
  <2> QED BY <2>3, <2>4
<1>8. CASE DialFails
  <2> USE <1>8 DEF DialFails, Return, callVars
  <2>1. ctx \in Connections /\ mqtt' = ctx /\ mqtt \in 0 .. ctx
        BY DEF TypeOK, Places
  <2>2. call' \in [Calls -> [kind : Kinds, over : BOOLEAN, at : CallStates,
            bus : 0 .. ctx', ctx : 0 .. ctx', via : 0 .. mqtt']]
        BY <2>1 DEF TypeOK
  <2>3. subscribed = {}
        BY DEF TypeOK, Places
  <2>4. TypeOK'
        BY <2>1, <2>2, <2>3 DEF TypeOK
  <2>5. Places' /\ Links' /\ OneMqttClient' /\ EarlierCancelled'
        BY <2>1 DEF TypeOK, Places, Links, OneMqttClient, EarlierCancelled
  <2> QED BY <2>4, <2>5
<1>9. CASE Subscribe
  <2>1. mqtt \in Connections
        BY <1>9 DEF Subscribe, TypeOK, Places
  <2> QED BY <1>9, <2>1 DEF Subscribe, Goto, TypeOK, Places, Links, OneMqttClient,
            EarlierCancelled, fields, callVars
<1>10. CASE LoginSucceeds
      BY <1>10 DEF LoginSucceeds, Goto, TypeOK, Places, Links, OneMqttClient,
        EarlierCancelled, fields, mqttVars, callVars
<1>11. CASE ConnectFails \/ ConnectRefused
      BY <1>11 DEF ConnectFails, ConnectRefused, Return, TypeOK, Places, Links, OneMqttClient,
        EarlierCancelled, fields, mqttVars, callVars
<1>12. CASE SetConnected
      BY <1>12 DEF SetConnected, Return, TypeOK, Places, Links, OneMqttClient,
        EarlierCancelled, mqttVars, callVars
<1>13. ASSUME NEW g \in Connections, LoseConnection(g)
       PROVE  IInv'
  <2> USE <1>13 DEF LoseConnection, fields, appVars
  <2>1. lost' \subseteq [of : Connections, at : {"state", "cancel"}]
        BY DEF TypeOK
  <2>2. TypeOK'
        BY <2>1, BreakTyped DEF TypeOK
  <2>3. Places' /\ Links' /\ OneMqttClient' /\ EarlierCancelled'
        BY DEF TypeOK, Places, Links, OneMqttClient, EarlierCancelled
  <2> QED BY <2>2, <2>3
<1>14. ASSUME NEW g \in Connections, Reconnect(g)
       PROVE  IInv'
      BY <1>14 DEF Reconnect, TypeOK, Places, Links, OneMqttClient, EarlierCancelled,
        fields, appVars, callVars
<1>15. ASSUME NEW h \in lost, LostState(h)
       PROVE  IInv'
  <2> USE <1>15 DEF LostState, mqttVars, appVars, callVars
  <2>1. lost' \subseteq [of : Connections, at : {"state", "cancel"}]
        BY DEF TypeOK
  <2> QED BY <2>1 DEF TypeOK, Places, Links, OneMqttClient, EarlierCancelled
<1>16. ASSUME NEW h \in lost, LostCancel(h)
       PROVE  IInv'
      BY <1>16 DEF LostCancel, TypeOK, Places, Links, OneMqttClient, EarlierCancelled,
        fields, mqttVars, appVars, callVars
<1>17. ASSUME NEW c \in Calls,
              \/ Call(c) \/ ContextEnds(c) \/ Send(c) \/ Wait(c)
              \/ SendAcknowledged(c) \/ SendClosed(c) \/ SendFails(c)
              \/ SendGivenUp(c) \/ Answered(c) \/ WaitEnds(c) \/ Receive(c)
       PROVE  IInv'
  <2>1. UNCHANGED <<fields, live, mqttVars, appVars, lost>>
        BY <1>17 DEF Call, ContextEnds, Send, Wait, SendAcknowledged, SendClosed,
          SendFails, SendGivenUp, Answered, WaitEnds, Receive
  <2>2. call' \in [Calls -> [kind : Kinds, over : BOOLEAN, at : CallStates,
            bus : 0 .. ctx, ctx : 0 .. ctx, via : 0 .. mqtt]]
    <3> DEFINE Typed == [kind : Kinds, over : BOOLEAN, at : CallStates,
            bus : 0 .. ctx, ctx : 0 .. ctx, via : 0 .. mqtt]
    <3>1. call \in [Calls -> Typed] /\ ctx \in 0 .. ctx /\ mqtt \in 0 .. mqtt
          BY DEF TypeOK
    <3>2. CASE call' = call
      <4>1. call' \in [Calls -> Typed]
        <5> HIDE DEF Typed
        <5> QED BY <3>1, <3>2
      <4> QED BY <4>1
    <3>3. ASSUME NEW at \in CallStates, NEW g \in 0 .. ctx, NEW v \in 0 .. mqtt,
                 call' = [call EXCEPT ![c].at = at, ![c].ctx = g, ![c].via = v]
          PROVE  call' \in [Calls -> Typed]
          BY <3>1, <3>3, ZenonT(60)
    <3>4. CASE Call(c)
      <4>1. PICK at \in {"send", "register"} :
              call' = [call EXCEPT ![c].at = at, ![c].bus = ctx]
            BY <3>4 DEF Call
      <4> QED BY <3>1, <4>1, ZenonT(60) DEF CallStates
    <3>5. CASE Send(c)
      <4>1. PICK at \in {"ack", "broken"} :
              call' = [call EXCEPT ![c].at = at, ![c].ctx = ctx, ![c].via = mqtt]
            BY <3>5 DEF Send
      <4> QED BY <3>1, <3>3, <4>1 DEF CallStates
    <3>6. CASE Wait(c)
      <4>1. call' = [call EXCEPT ![c].at = "wait", ![c].ctx = ctx]
            BY <3>6 DEF Wait
      <4>2. "wait" \in CallStates
            BY DEF CallStates
      <4> QED BY <3>1, <4>1, <4>2, ZenonT(60)
    <3>7. CASE SendAcknowledged(c) \/ SendClosed(c) \/ SendFails(c)
                 \/ SendGivenUp(c) \/ Answered(c) \/ WaitEnds(c)
      <4>1. PICK at \in CallStates : call' = [call EXCEPT ![c].at = at]
            BY <3>7 DEF SendAcknowledged, SendClosed, SendFails, SendGivenUp,
              Answered, WaitEnds, Close, To, CallStates
      <4> QED BY <3>1, <4>1
    <3>8. CASE Receive(c)
          BY <3>2, <3>8 DEF Receive
    <3>9. CASE ContextEnds(c)
          BY <3>1, <3>9 DEF ContextEnds
    <3> QED BY <1>17, <3>4, <3>5, <3>6, <3>7, <3>8, <3>9
  <2>3. mailbox' \subseteq Calls
        BY <1>17 DEF Call, ContextEnds, Send, Wait, SendAcknowledged, SendClosed,
          SendFails, SendGivenUp, Answered, WaitEnds, Receive, Close, TypeOK
  <2> QED BY <2>1, <2>2, <2>3 DEF TypeOK, Places, Links, OneMqttClient,
            EarlierCancelled, fields, mqttVars, appVars
<1>18. CASE UNCHANGED vars
      BY <1>18 DEF vars, fields, mqttVars, appVars, callVars, TypeOK, Places,
        Links, OneMqttClient, EarlierCancelled
<1> QED
    BY <1>1, <1>2, <1>3, <1>4, <1>5, <1>6, <1>7, <1>8, <1>9, <1>10, <1>11,
      <1>12, <1>13, <1>14, <1>15, <1>16, <1>17, <1>18
    DEF Next, Connecting, Lost, Calling

\* The strengthening holds in every reachable state.
THEOREM Invariance == Spec => []IInv
  BY InitInvariant, StepInvariant, PTL DEF Spec

\* The fields stay in their ranges: no connection is named before it is made,
\* and only a connection that is up is subscribed.
THEOREM TypeCorrect == Spec => []TypeOK
  BY Invariance, PTL DEF IInv

\* Connect disconnects the MQTT client it replaces before it dials: two with
\* the same client id never run at once.
THEOREM OneRuns == Spec => []OneMqttClient
  BY Invariance, PTL DEF IInv

\* Connect cancels the context it replaces, with what was derived from it, from
\* the first MQTT client on; a context that is left alive never had one.
THEOREM OthersCancelled == Spec => []EarlierCancelled
  BY Invariance, PTL DEF IInv

-----------------------------------------------------------------------------
(* What the liveness properties rest on: a lost connection has a handler    *)
(* that will see to it, and a call has always a way to go on.               *)

\* The handler of a connection that went down has not yet cancelled a context
\* that is still alive.
Watched ==
  \A g \in Connections : link[g] = "down" /\ g \in live => \E h \in lost : h.of = g

\* The places at which an answer is taken for the call.
Expecting == {"ack", "broken", "register", "wait"}

\* A message that waits for its acknowledgement is with the MQTT client that the
\* field names, which is connected; and only a call that expects an answer has one.
Attended ==
  \A c \in Calls :
    /\ call[c].at = "ack" => call[c].via = mqtt /\ mqtt # 0 /\ link[mqtt] = "up"
    /\ c \in mailbox => call[c].at \in Expecting

LEMMA WatchedStep ==
  ASSUME IInv, Watched, [Next]_vars
  PROVE  Watched'
<1> USE DEF IInv, Connections
<1>1. ASSUME link' = link, lost' = lost, live' \subseteq live PROVE Watched'
  BY <1>1 DEF Watched
<1>2. CASE \/ Connect \/ Disconnect \/ DisconnectState \/ DisconnectCancel
           \/ Subscribe \/ LoginSucceeds \/ ConnectFails \/ ConnectRefused \/ SetConnected \/ UNCHANGED vars
  <2>1. link' = link /\ lost' = lost /\ live' \subseteq live
    BY <1>2 DEF Connect, Disconnect, DisconnectState, DisconnectCancel, Subscribe,
      LoginSucceeds, ConnectFails, ConnectRefused, SetConnected, mqttVars, vars
  <2> QED BY <1>1, <2>1
<1>3. CASE \E c \in Calls :
             Call(c) \/ ContextEnds(c) \/ Calling(c) \/ SendAcknowledged(c) \/ Receive(c)
  <2>1. link' = link /\ lost' = lost /\ live' = live
    BY <1>3 DEF Call, ContextEnds, Calling, Send, Wait, SendAcknowledged, SendClosed,
      SendFails, SendGivenUp, Answered, WaitEnds, Receive, mqttVars
  <2> QED BY <1>1, <2>1
<1>4. CASE NewContext
  <2>1. \A g \in Connections : link'[g] # "down"
    BY <1>4 DEF NewContext, Places, mqttVars
  <2> QED BY <2>1 DEF Watched
<1>5. CASE DialSucceeds \/ DialFails \/ DisconnectStop
  <2>1. /\ lost' = lost /\ live' = live
        /\ \A g \in Connections : link'[g] = "down" => link[g] = "down"
    BY <1>5 DEF DialSucceeds, DialFails, DisconnectStop, TypeOK
  <2> QED BY <2>1 DEF Watched
<1>6. ASSUME NEW g \in Connections, LoseConnection(g) PROVE Watched'
  <2> DEFINE handler == [of |-> g, at |-> "state"]
  <2>1. /\ live' = live /\ lost' = lost \cup {handler}
        /\ \A k \in Connections : k # g => link'[k] = link[k]
    BY <1>6 DEF LoseConnection, TypeOK
  <2>2. handler.of = g
    OBVIOUS
  <2> HIDE DEF handler
  <2> QED BY <2>1, <2>2 DEF Watched
<1>7. ASSUME NEW g \in Connections, Reconnect(g) PROVE Watched'
  <2>1. /\ live' = live /\ lost' = lost
        /\ \A k \in Connections : link'[k] = "down" => link[k] = "down"
    BY <1>7 DEF Reconnect, TypeOK
  <2> QED BY <2>1 DEF Watched
<1>8. ASSUME NEW h \in lost, LostState(h) PROVE Watched'
  <2> DEFINE next == [h EXCEPT !.at = "cancel"]
  <2>1. link' = link /\ live' = live /\ lost' = (lost \ {h}) \cup {next}
    BY <1>8 DEF LostState, mqttVars
  <2>2. next.of = h.of
    BY DEF TypeOK
  <2> HIDE DEF next
  <2>3. ASSUME NEW k \in lost PROVE \E j \in lost' : j.of = k.of
    BY <2>1, <2>2
  <2> QED BY <2>1, <2>3 DEF Watched
<1>9. ASSUME NEW h \in lost, LostCancel(h) PROVE Watched'
  <2>1. link' = link /\ live' = live \ {ctx}
    BY <1>9 DEF LostCancel, mqttVars
  <2>2. \A g \in Connections : link[g] = "down" => g \notin live'
    BY <2>1 DEF Links
  <2> QED BY <2>1, <2>2 DEF Watched
<1> QED BY <1>2, <1>3, <1>4, <1>5, <1>6, <1>7, <1>8, <1>9 DEF Next, Connecting, Lost

\* A connection that is lost is not forgotten: as long as its context lives, the
\* handler that will cancel it is on its way, whatever Connect, Disconnect and the
\* handlers of other losses do meanwhile (connectionLostHandler of client.go).
\* This is the safety half of LossNoticed.
THEOREM LossWatched == Spec => []Watched
<1>1. Init => Watched
  BY DEF Init, Watched
<1>2. IInv /\ Watched /\ [Next]_vars => Watched'
  BY WatchedStep
<1> QED BY <1>1, <1>2, Invariance, PTL DEF Spec

\* What a step does to the calls, in a form the proofs can use.
LEMMA CallTyped ==
  ASSUME IInv
  PROVE  /\ call = [c \in Calls |-> call[c]]
         /\ \A c \in Calls :
              /\ call[c] \in [kind : Kinds, over : BOOLEAN, at : CallStates,
                              bus : 0 .. ctx, ctx : 0 .. ctx, via : 0 .. mqtt]
              /\ call[c].at \in CallStates
BY DEF IInv, TypeOK

LEMMA CallMoves ==
  ASSUME IInv, NEW c \in Calls, NEW at, To(c, at)
  PROVE  /\ \A o \in Calls : o # c => call'[o] = call[o]
         /\ call'[c].at = at /\ call'[c].via = call[c].via
<1>1. call' = [call EXCEPT ![c].at = at]
  BY DEF To
<1>2. \A o \in Calls : o # c => call'[o] = call[o]
  BY <1>1, CallTyped
<1>3. call'[c] = [call[c] EXCEPT !.at = at]
  BY <1>1, CallTyped
<1>4. [call[c] EXCEPT !.at = at].at = at /\ [call[c] EXCEPT !.at = at].via = call[c].via
  BY CallTyped, ZenonT(60)
<1> QED BY <1>2, <1>3, <1>4

\* The states a call goes through, and the order in which it goes.
Rank == [new |-> 6, send |-> 5, ack |-> 4, broken |-> 3, register |-> 2, wait |-> 1,
         answered |-> 0, timeout |-> 0, closed |-> 0, failed |-> 0]

Before(a, b) == Rank[a] > Rank[b]

LEMMA RankFacts ==
  /\ \A a \in CallStates : Rank[a] \in 0 .. 6 /\ (Rank[a] = 0 <=> a \in Ended)
  /\ Before("new", "send") /\ Before("new", "register")
  /\ Before("send", "ack") /\ Before("send", "broken")
  /\ Before("ack", "broken") /\ Before("ack", "register") /\ Before("register", "wait")
  /\ \A a \in CallStates \ Ended, b \in Ended : Before(a, b)
BY DEF CallStates, Ended, Rank, Before

\* Where a step of its own takes a call.
Hops(c) ==
  /\ \A o \in Calls : o # c => call'[o] = call[o]
  /\ Before(call[c].at, call'[c].at)
  /\ call'[c].at = "ack" => call'[c].via = mqtt /\ mqtt # 0 /\ link[mqtt] = "up"
  /\ \/ mailbox' = mailbox /\ call'[c].at \in Expecting
     \/ mailbox' = mailbox /\ c \notin mailbox
     \/ mailbox' = mailbox \ {c}

Steps(c) == Calling(c) \/ SendAcknowledged(c) \/ Call(c)

LEMMA CallHops ==
  ASSUME IInv, Attended, NEW c \in Calls, Steps(c)
  PROVE  Hops(c)
<1>1. CASE Call(c)
  <2>1. PICK at \in {"send", "register"} :
          call' = [call EXCEPT ![c].at = at, ![c].bus = ctx]
    BY <1>1 DEF Call
  <2>2. \A o \in Calls : o # c => call'[o] = call[o]
    BY <2>1, CallTyped
  <2>3. call'[c] = [call[c] EXCEPT !.at = at, !.bus = ctx]
    BY <2>1, CallTyped, ZenonT(60)
  <2>4. call'[c].at = at
    BY <2>3, CallTyped, ZenonT(60)
  <2>5. call[c].at = "new" /\ mailbox' = mailbox
    BY <1>1 DEF Call
  <2>6. c \notin mailbox
    BY <2>5 DEF Attended, Expecting
  <2> QED BY <2>2, <2>4, <2>5, <2>6, RankFacts DEF Hops
<1>2. CASE Send(c)
  <2>1. PICK at \in {"ack", "broken"} :
          /\ at = "ack" => link[mqtt] = "up"
          /\ call' = [call EXCEPT ![c].at = at, ![c].ctx = ctx, ![c].via = mqtt]
    BY <1>2 DEF Send
  <2>2. \A o \in Calls : o # c => call'[o] = call[o]
    BY <2>1, CallTyped
  <2>3. call'[c] = [call[c] EXCEPT !.at = at, !.ctx = ctx, !.via = mqtt]
    BY <2>1, CallTyped, ZenonT(60)
  <2>4. call'[c].at = at /\ call'[c].via = mqtt
    BY <2>3, CallTyped, ZenonT(60)
  <2>5. call[c].at = "send" /\ mailbox' = mailbox /\ mqtt # 0
    BY <1>2 DEF Send
  <2> QED BY <2>1, <2>2, <2>4, <2>5, RankFacts DEF Hops, Expecting
<1>3. CASE Wait(c)
  <2>1. call' = [call EXCEPT ![c].at = "wait", ![c].ctx = ctx]
    BY <1>3 DEF Wait
  <2>2. \A o \in Calls : o # c => call'[o] = call[o]
    BY <2>1, CallTyped
  <2>3. call'[c] = [call[c] EXCEPT !.at = "wait", !.ctx = ctx]
    BY <2>1, CallTyped, ZenonT(60)
  <2>4. call'[c].at = "wait"
    BY <2>3, CallTyped, ZenonT(60)
  <2>5. call[c].at = "register" /\ mailbox' = mailbox
    BY <1>3 DEF Wait
  <2> QED BY <2>2, <2>4, <2>5, RankFacts DEF Hops, Expecting
<1>4. CASE SendAcknowledged(c)
  <2>1. To(c, "register") /\ call[c].at = "ack" /\ mailbox' = mailbox
    BY <1>4 DEF SendAcknowledged
  <2> QED BY <2>1, CallMoves, RankFacts DEF Hops, Expecting
<1>5. CASE SendClosed(c) \/ SendFails(c) \/ SendGivenUp(c) \/ Answered(c) \/ WaitEnds(c)
  <2>1. PICK at \in Ended : Close(c, at)
    BY <1>5 DEF SendClosed, SendFails, SendGivenUp, Answered, WaitEnds, Ended
  <2>2. call[c].at \in CallStates \ Ended
    BY <1>5 DEF SendClosed, SendFails, SendGivenUp, Answered, WaitEnds, CallStates, Ended
  <2>3. at # "ack" /\ To(c, at) /\ mailbox' = mailbox \ {c}
    BY <2>1 DEF Ended, Close
  <2>4. /\ \A o \in Calls : o # c => call'[o] = call[o]
        /\ call'[c].at = at
    BY <2>3, CallMoves
  <2> QED BY <2>2, <2>3, <2>4, RankFacts DEF Hops
<1> QED BY <1>1, <1>2, <1>3, <1>4, <1>5 DEF Steps, Calling

\* A connection that goes down takes the calls that wait on it along.
LEMMA BreakFacts ==
  ASSUME IInv, NEW g, Break(g), NEW c \in Calls
  PROVE  /\ call'[c].at = IF call[c].at = "ack" /\ call[c].via = g THEN "broken" ELSE call[c].at
         /\ call'[c].via = call[c].via
<1>1. call'[c] = IF call[c].at = "ack" /\ call[c].via = g
                   THEN [call[c] EXCEPT !.at = "broken"] ELSE call[c]
  BY DEF Break
<1>2. /\ [call[c] EXCEPT !.at = "broken"].at = "broken"
      /\ [call[c] EXCEPT !.at = "broken"].via = call[c].via
  BY CallTyped, ZenonT(60)
<1> QED BY <1>1, <1>2

LEMMA AttendedStep ==
  ASSUME IInv, Attended, [Next]_vars
  PROVE  Attended'
<1>1. CASE \/ Connect \/ Disconnect \/ DisconnectState \/ DisconnectCancel \/ NewContext
           \/ Subscribe \/ LoginSucceeds \/ ConnectFails \/ ConnectRefused \/ SetConnected \/ UNCHANGED vars
           \/ \E h \in lost : Lost(h)
  <2>1. call' = call /\ mailbox' = mailbox /\ mqtt' = mqtt /\ link' = link
    BY <1>1 DEF Connect, Disconnect, DisconnectState, DisconnectCancel, NewContext, Subscribe,
      LoginSucceeds, ConnectFails, ConnectRefused, SetConnected, Lost, LostState, LostCancel,
      mqttVars, fields, callVars, vars
  <2> QED BY <2>1 DEF Attended
<1>2. CASE DialSucceeds \/ DialFails
  <2>1. call' = call /\ mailbox' = mailbox
    BY <1>2 DEF DialSucceeds, DialFails, callVars
  <2>2. \A c \in Calls : call[c].at # "ack"
    <3>1. app = "dial"
      BY <1>2 DEF DialSucceeds, DialFails
    <3>2. \A g \in Connections : link[g] # "up"
      BY <3>1 DEF IInv, Places
    <3>3. mqtt # 0 => mqtt \in Connections
      BY ConnectsAssumption DEF IInv, TypeOK, Connections
    <3> QED BY <3>2, <3>3 DEF Attended
  <2> QED BY <2>1, <2>2 DEF Attended

<1>3. ASSUME NEW g \in Connections, link' = [link EXCEPT ![g] = link'[g]], Break(g),
             mailbox' = mailbox, mqtt' = mqtt
      PROVE  Attended'
  <2> SUFFICES ASSUME NEW c \in Calls
               PROVE  /\ call'[c].at = "ack" => call'[c].via = mqtt /\ mqtt # 0 /\ link'[mqtt] = "up"
                      /\ c \in mailbox => call'[c].at \in Expecting
    BY <1>3 DEF Attended
  <2>1. /\ call'[c].at = IF call[c].at = "ack" /\ call[c].via = g THEN "broken" ELSE call[c].at
        /\ call'[c].via = call[c].via
    BY <1>3, BreakFacts
  <2>2. ASSUME call'[c].at = "ack" PROVE call'[c].via = mqtt /\ mqtt # 0 /\ link'[mqtt] = "up"
    <3>1. call[c].at = "ack" /\ call[c].via # g
      BY <2>1, <2>2
    <3>2. call[c].via = mqtt /\ mqtt # 0 /\ link[mqtt] = "up" /\ mqtt # g
      BY <3>1 DEF Attended
    <3>3. link'[mqtt] = link[mqtt]
      BY <1>3, <3>2, ConnectsAssumption DEF IInv, TypeOK, Connections
    <3> QED BY <2>1, <3>2, <3>3
  <2>3. c \in mailbox => call'[c].at \in Expecting
    BY <2>1 DEF Attended, Expecting
  <2> QED BY <2>2, <2>3
<1>4. CASE DisconnectStop
  <2>1. mqtt \in Connections
    BY <1>4, ConnectsAssumption DEF DisconnectStop, IInv, TypeOK, Places, Connections
  <2>2. link' = [link EXCEPT ![mqtt] = link'[mqtt]] /\ Break(mqtt) /\ mailbox' = mailbox /\ mqtt' = mqtt
    BY <1>4, <2>1 DEF DisconnectStop, fields, IInv, TypeOK
  <2> QED BY <1>3, <2>1, <2>2
<1>5. ASSUME NEW g \in Connections, LoseConnection(g) PROVE Attended'
  <2>1. link' = [link EXCEPT ![g] = link'[g]] /\ Break(g) /\ mailbox' = mailbox /\ mqtt' = mqtt
    BY <1>5 DEF LoseConnection, fields, IInv, TypeOK
  <2> QED BY <1>3, <2>1
<1>6. ASSUME NEW g \in Connections, Reconnect(g) PROVE Attended'
  <2>1. call' = call /\ mailbox' = mailbox /\ mqtt' = mqtt
    BY <1>6 DEF Reconnect, fields, callVars
  <2>2. \A k \in Connections : link[k] = "up" => link'[k] = "up"
    BY <1>6 DEF Reconnect, IInv, TypeOK
  <2>3. mqtt # 0 => mqtt \in Connections
    BY ConnectsAssumption DEF IInv, TypeOK, Connections
  <2> QED BY <2>1, <2>2, <2>3 DEF Attended
<1>7. ASSUME NEW c \in Calls, Steps(c) PROVE Attended'
  <2>1. Hops(c) /\ mqtt' = mqtt /\ link' = link
    BY <1>7, CallHops DEF Steps, Call, Calling, Send, Wait, SendAcknowledged, SendClosed,
      SendFails, SendGivenUp, Answered, WaitEnds, fields, mqttVars
  <2> QED BY <2>1 DEF Hops, Attended
<1>8. ASSUME NEW c \in Calls, ContextEnds(c) PROVE Attended'
  <2>1. /\ call' = [call EXCEPT ![c].over = TRUE]
        /\ mailbox' = mailbox /\ mqtt' = mqtt /\ link' = link
    BY <1>8 DEF ContextEnds, fields, mqttVars
  <2>2. ASSUME NEW o \in Calls PROVE call'[o].at = call[o].at /\ call'[o].via = call[o].via
    <3>1. call'[o] = IF o = c THEN [call[o] EXCEPT !.over = TRUE] ELSE call[o]
      BY <2>1, CallTyped
    <3>2. [call[o] EXCEPT !.over = TRUE].at = call[o].at /\ [call[o] EXCEPT !.over = TRUE].via = call[o].via
      BY CallTyped, ZenonT(60)
    <3> QED BY <3>1, <3>2
  <2> QED BY <2>1, <2>2 DEF Attended
<1>9. ASSUME NEW c \in Calls, Receive(c) PROVE Attended'
  <2>1. /\ call' = call /\ mqtt' = mqtt /\ link' = link
        /\ mailbox' \subseteq mailbox \cup {c} /\ call[c].at \in Expecting
    BY <1>9 DEF Receive, fields, mqttVars, Expecting
  <2> QED BY <2>1 DEF Attended
<1> QED BY <1>1, <1>2, <1>4, <1>5, <1>6, <1>7, <1>8, <1>9 DEF Next, Connecting, Steps

\* A message waits for its acknowledgement only while the MQTT client it went to
\* is the one of the field and connected: every connection that ends, lost or
\* closed, gives its messages up.  So FairSpec asks the broker for nothing but to
\* acknowledge over a connection it has; and no answer is kept for a call that
\* returned (sendMessageWithContext, Call and Subscriber.Close in defer).
THEOREM CallsAttended == Spec => []Attended
<1>1. Init => Attended
  <2> SUFFICES ASSUME Init, NEW c \in Calls, call[c].at = "ack" PROVE FALSE
    BY DEF Init, Attended
  <2>1. call[c].at \in {"new"}
    BY DEF Init
  <2> QED BY <2>1
<1>2. IInv /\ Attended /\ [Next]_vars => Attended'
  BY AttendedStep
<1> QED BY <1>1, <1>2, Invariance, PTL DEF Spec

\* A call is never taken back, and its own steps and the acknowledgement take it on.
Advances ==
  \A c \in Calls :
    /\ Steps(c) => Before(call[c].at, call'[c].at)
    /\ call'[c].at = call[c].at \/ Before(call[c].at, call'[c].at)

LEMMA AdvancesStep ==
  ASSUME IInv, Attended, [Next]_vars
  PROVE  Advances
<1>1. \A c \in Calls : Steps(c) => Hops(c)
  BY CallHops
<1>2. \A c \in Calls : Hops(c) =>
         \A o \in Calls : call'[o].at = call[o].at \/ Before(call[o].at, call'[o].at)
  BY DEF Hops
<1>3. CASE call' = call
  BY <1>1, <1>3 DEF Advances, Hops
<1>4. CASE \E c \in Calls : Steps(c)
  BY <1>1, <1>2, <1>4 DEF Advances, Hops
<1>5. ASSUME NEW g, Break(g) PROVE Advances
  <2>1. \A c \in Calls : call'[c].at = call[c].at \/ (call[c].at = "ack" /\ call'[c].at = "broken")
    BY <1>5, BreakFacts
  <2>2. \A c \in Calls : call'[c].at = call[c].at \/ Before(call[c].at, call'[c].at)
    BY <2>1, RankFacts
  <2> QED BY <1>1, <2>2 DEF Advances, Hops
<1>6. ASSUME NEW c \in Calls, ContextEnds(c) PROVE Advances
  <2>1. call' = [call EXCEPT ![c].over = TRUE]
    BY <1>6 DEF ContextEnds
  <2>2. ASSUME NEW o \in Calls PROVE call'[o].at = call[o].at
    <3>1. call'[o] = IF o = c THEN [call[o] EXCEPT !.over = TRUE] ELSE call[o]
      BY <2>1, CallTyped
    <3>2. [call[o] EXCEPT !.over = TRUE].at = call[o].at
      BY CallTyped, ZenonT(60)
    <3> QED BY <3>1, <3>2
  <2> QED BY <1>1, <2>2 DEF Advances, Hops
<1>7. CASE UNCHANGED vars
  BY <1>3, <1>7 DEF vars, callVars
<1>8. CASE Connect \/ Disconnect \/ Connecting
  <2>1. call' = call \/ Break(mqtt)
    BY <1>8 DEF Connect, Disconnect, Connecting, DisconnectState, DisconnectCancel, DisconnectStop,
      NewContext, DialSucceeds, DialFails, Subscribe, LoginSucceeds, ConnectFails,
      ConnectRefused, SetConnected, callVars
  <2> QED BY <1>3, <1>5, <2>1
<1>9. CASE \/ \E g \in Connections : LoseConnection(g) \/ Reconnect(g)
           \/ \E h \in lost : Lost(h)
           \/ \E c \in Calls : Receive(c)
  <2>1. call' = call \/ \E g \in Connections : Break(g)
    BY <1>9 DEF LoseConnection, Reconnect, Lost, LostState, LostCancel, Receive, callVars
  <2> QED BY <1>3, <1>5, <2>1
<1> QED BY <1>4, <1>6, <1>7, <1>8, <1>9 DEF Next, Steps

\* A call that was made goes only forward, in at most five steps of its own, from
\* sending to waiting to one of its ends, and stays there, whatever happens to the
\* connection meanwhile: no loss, Disconnect or second answer makes a call send or
\* wait again.  With CallsAttended this is the safety half of CallsReturn.
THEOREM CallsGoForward == Spec => [][Advances]_vars
<1>1. IInv /\ Attended /\ [Next]_vars => [Advances]_vars
  BY AdvancesStep
<1> QED BY <1>1, Invariance, CallsAttended, PTL DEF Spec
=============================================================================
