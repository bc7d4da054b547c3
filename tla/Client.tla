------------------------------- MODULE Client -------------------------------
(***************************************************************************)
(* The client's connection and its calls: client.go, messages.go and the   *)
(* calls and waits of methods.go.  One goroutine of the application calls  *)
(* Connect and Disconnect, others make calls; the MQTT library runs the    *)
(* handler of lost connections in a goroutine of its own, whenever it      *)
(* comes to it.  All share the fields of Client without a lock, so every   *)
(* access is a step.                                                       *)
(*                                                                         *)
(* Connection g is what the g-th Connect makes: a context, a bus (ps) and  *)
(* an MQTT client, which the fields ctx and mqtt name; 0 is nil.           *)
(***************************************************************************)
EXTENDS Integers, FiniteSets

CONSTANTS
  Calls,         \* the calls that are made
  MaxConnects    \* bound on the number of Connects

ASSUME ConnectsAssumption == MaxConnects \in Nat

Connections == 1 .. MaxConnects

VARIABLES
  state,        \* c.connectionState
  ctx,          \* c.ctx, c.cancelFunc and c.ps: those of this connection
  mqtt,         \* c.client: that of this connection
  live,         \* connections whose context is not cancelled
  link,         \* connection -> state of its MQTT client
  subscribed,   \* connections subscribed to the response topic
  app,          \* where the application's goroutine is in ...
  calling,      \* ... Connect, Disconnect or "none"
  lost,         \* running connectionLostHandlers: [of, at]
  call,         \* call -> [at, bus, ctx, via], see CallStates
  mailbox       \* calls whose channel holds their answer

fields  == <<state, ctx, mqtt>>
mqttVars == <<link, subscribed>>
appVars == <<app, calling>>
callVars == <<call, mailbox>>
vars == <<fields, live, mqttVars, appVars, lost, callVars>>

(***************************************************************************)
(* A call: "send" before the MQTT Publish, "ack" until it is acknowledged  *)
(* ("broken" once it cannot be), "wait" for the answer, then how it ended. *)
(* bus is the connection whose bus its subscriber is on, ctx that of the   *)
(* context it is looking at, via that of the MQTT client it was sent with. *)
(* WaitOne sends nothing and only waits.  A call WithContext has a context *)
(* of its caller, which is over some time; Syscall makes such calls.       *)
(***************************************************************************)
Kinds == {"Call", "CallWithContext", "WaitOne", "WaitOneWithContext"}
WithContext == {"CallWithContext", "WaitOneWithContext"}
Sending == {"Call", "CallWithContext"}
CallStates == {"new", "send", "ack", "broken", "register", "wait",
               "answered", "timeout", "closed", "failed"}
Ended == {"answered", "timeout", "closed", "failed"}

TypeOK ==
  /\ state \in {"Disconnected", "Connected"}
  /\ ctx \in 0 .. MaxConnects /\ mqtt \in 0 .. ctx
  /\ live \subseteq 1 .. ctx
  /\ link \in [Connections -> {"none", "up", "down", "closed"}]
  /\ subscribed \subseteq {g \in Connections : link[g] = "up"}
  /\ app \in {"idle", "state", "drop", "stop", "context", "dial", "subscribe",
              "login", "connected"}
  /\ calling \in {"none", "Connect", "Disconnect"}
  /\ lost \subseteq [of : Connections, at : {"state", "cancel"}]
  /\ call \in [Calls -> [kind : Kinds, over : BOOLEAN, at : CallStates,
                       bus : 0 .. ctx, ctx : 0 .. ctx, via : 0 .. mqtt]]
  /\ mailbox \subseteq Calls

Init ==
  /\ state = "Disconnected" /\ ctx = 0 /\ mqtt = 0 /\ live = {}
  /\ link = [g \in Connections |-> "none"] /\ subscribed = {}
  /\ app = "idle" /\ calling = "none" /\ lost = {}
  /\ call \in [Calls -> [kind : Kinds, over : {FALSE}, at : {"new"},
                       bus : {0}, ctx : {0}, via : {0}]]
  /\ mailbox = {}

-----------------------------------------------------------------------------
(* Connect and Disconnect. *)

Return == app' = "idle" /\ calling' = "none"
Goto(place) == app' = place /\ UNCHANGED calling

\* Mutant: Connect leaves the old MQTT client alone.
ConnectOver ==
  /\ app = "idle" /\ state = "Disconnected" /\ ctx < MaxConnects
  /\ calling' = "Connect" /\ app' = "context"
  /\ UNCHANGED <<fields, live, mqttVars, lost, callVars>>

\* A Connect when Connected is refused and changes nothing.  An earlier MQTT
\* client is disconnected first.
Connect ==
  /\ app = "idle" /\ state = "Disconnected" /\ ctx < MaxConnects
  /\ calling' = "Connect"
  /\ app' = IF mqtt # 0 THEN "state" ELSE "context"
  /\ UNCHANGED <<fields, live, mqttVars, lost, callVars>>

\* Unacknowledged messages of an MQTT client that goes down are given up.
Break(g) ==
  call' = [c \in Calls |->
             IF call[c].at = "ack" /\ call[c].via = g
               THEN [call[c] EXCEPT !.at = "broken"] ELSE call[c]]

\* Before the first MQTT client there is nothing to disconnect: Disconnect, and a
\* call that sends, would use a nil client.
Disconnect ==
  /\ app = "idle" /\ mqtt # 0
  /\ calling' = "Disconnect" /\ app' = "state"
  /\ UNCHANGED <<fields, live, mqttVars, lost, callVars>>

DisconnectState ==
  /\ app = "state" /\ Goto("drop")
  /\ state' = "Disconnected"
  /\ UNCHANGED <<ctx, mqtt, live, mqttVars, lost, callVars>>

\* Mutant: the context is left to the connection lost handler.
DisconnectKeeps ==
  /\ app = "drop" /\ Goto("stop")
  /\ UNCHANGED <<fields, live, mqttVars, lost, callVars>>

DisconnectCancel ==
  /\ app = "drop" /\ Goto("stop")
  /\ live' = live \ {ctx}
  /\ UNCHANGED <<fields, mqttVars, lost, callVars>>

DisconnectStop ==
  /\ app = "stop"
  /\ link' = [link EXCEPT ![mqtt] = "closed"] /\ Break(mqtt)
  /\ subscribed' = subscribed \ {mqtt}
  /\ IF calling = "Connect" THEN Goto("context") ELSE Return
  /\ UNCHANGED <<fields, live, lost, mailbox>>

NewContext ==
  /\ app = "context" /\ Goto("dial")
  /\ ctx' = ctx + 1 /\ live' = live \cup {ctx'}
  /\ UNCHANGED <<state, mqtt, mqttVars, lost, callVars>>

\* The options may be refused (SkipLogin without a SessionID), or no session id be
\* had: Connect returns, its context alive, its MQTT client never made.
ConnectRefused ==
  /\ app = "dial" /\ Return
  /\ UNCHANGED <<fields, live, mqttVars, lost, callVars>>

DialSucceeds ==
  /\ app = "dial" /\ Goto("subscribe")
  /\ mqtt' = ctx /\ link' = [link EXCEPT ![ctx] = "up"]
  /\ UNCHANGED <<state, ctx, live, subscribed, lost, callVars>>

DialFails ==
  /\ app = "dial" /\ Return
  /\ mqtt' = ctx /\ link' = [link EXCEPT ![ctx] = "closed"]
  /\ UNCHANGED <<state, ctx, live, subscribed, lost, callVars>>

\* Mutant: the error of the subscription's token is not looked at.
SubscribeUnchecked ==
  /\ app = "subscribe" /\ Goto("login")
  /\ subscribed' = subscribed \cup {mqtt}
  /\ UNCHANGED <<fields, live, link, lost, callVars>>

Subscribe ==
  /\ app = "subscribe" /\ link[mqtt] = "up" /\ Goto("login")
  /\ subscribed' = subscribed \cup {mqtt}
  /\ UNCHANGED <<fields, live, link, lost, callVars>>

\* A login that is not skipped is a Call; it is answered while the connection
\* is up and the context is not cancelled.
LoginSucceeds ==
  /\ app = "login" /\ Goto("connected")
  /\ mqtt \in subscribed /\ ctx \in live
  /\ UNCHANGED <<fields, live, mqttVars, lost, callVars>>

\* The errors of Subscribe and login are returned; nothing is undone.
ConnectFails ==
  /\ app \in {"subscribe", "login"} /\ Return
  /\ UNCHANGED <<fields, live, mqttVars, lost, callVars>>

SetConnected ==
  /\ app = "connected" /\ Return
  /\ state' = "Connected"
  /\ UNCHANGED <<ctx, mqtt, live, mqttVars, lost, callVars>>

-----------------------------------------------------------------------------
(* The MQTT library. *)

\* Mutant: nobody is told of a lost connection.
LoseConnectionSilently(g) ==
  /\ link[g] = "up"
  /\ link' = [link EXCEPT ![g] = "down"] /\ Break(g)
  /\ subscribed' = subscribed \ {g}
  /\ UNCHANGED <<fields, live, appVars, lost, mailbox>>

LoseConnection(g) ==
  /\ link[g] = "up"
  /\ link' = [link EXCEPT ![g] = "down"] /\ Break(g)
  /\ subscribed' = subscribed \ {g}
  /\ lost' = lost \cup {[of |-> g, at |-> "state"]}
  /\ UNCHANGED <<fields, live, appVars, mailbox>>

\* It reconnects by itself until it is disconnected, with a clean session:
\* the subscription to the response topic is gone.
Reconnect(g) ==
  /\ link[g] = "down"
  /\ link' = [link EXCEPT ![g] = "up"]
  /\ UNCHANGED <<fields, live, subscribed, appVars, lost, callVars>>

LostState(h) ==
  /\ h.at = "state"
  /\ state' = "Disconnected"
  /\ lost' = (lost \ {h}) \cup {[h EXCEPT !.at = "cancel"]}
  /\ UNCHANGED <<ctx, mqtt, live, mqttVars, appVars, callVars>>

\* It calls c.cancelFunc, whatever that is by now.
LostCancel(h) ==
  /\ h.at = "cancel"
  /\ live' = live \ {ctx}
  /\ lost' = lost \ {h}
  /\ UNCHANGED <<fields, mqttVars, appVars, callVars>>

-----------------------------------------------------------------------------
(* A call. *)

To(c, at) == call' = [call EXCEPT ![c].at = at]
Close(c, at) == To(c, at) /\ mailbox' = mailbox \ {c}

\* The subscriber is made on the bus of the moment.
Call(c) ==
  /\ call[c].at = "new" /\ ctx # 0 /\ (call[c].kind \in Sending => mqtt # 0)
  /\ call' = [call EXCEPT ![c].at = IF call[c].kind \in Sending THEN "send" ELSE "register",
                          ![c].bus = ctx]
  /\ UNCHANGED <<fields, live, mqttVars, appVars, lost, mailbox>>

\* The caller's context is cancelled or reaches its deadline.
ContextEnds(c) ==
  /\ call[c].kind \in WithContext /\ ~call[c].over
  /\ call' = [call EXCEPT ![c].over = TRUE]
  /\ UNCHANGED <<fields, live, mqttVars, appVars, lost, mailbox>>

\* The message goes to the MQTT client of the moment, and c.ctx is looked at.
Send(c) ==
  /\ call[c].at = "send" /\ mqtt # 0
  /\ call' = [call EXCEPT ![c].at = IF link[mqtt] = "up" THEN "ack" ELSE "broken",
                          ![c].ctx = ctx, ![c].via = mqtt]
  /\ UNCHANGED <<fields, live, mqttVars, appVars, lost, mailbox>>

SendAcknowledged(c) ==
  /\ call[c].at = "ack"
  /\ To(c, "register")
  /\ UNCHANGED <<fields, live, mqttVars, appVars, lost, mailbox>>

SendClosed(c) ==
  /\ call[c].at \in {"ack", "broken"} /\ call[c].ctx \notin live
  /\ Close(c, "closed")
  /\ UNCHANGED <<fields, live, mqttVars, appVars, lost>>

\* The Publish of a lost or closed connection fails.
SendFails(c) ==
  /\ call[c].at = "broken"
  /\ Close(c, "failed")
  /\ UNCHANGED <<fields, live, mqttVars, appVars, lost>>

\* The deadline of the caller's context, or its cancellation.
SendGivenUp(c) ==
  /\ call[c].at \in {"ack", "broken"} /\ call[c].over
  /\ \E at \in {"timeout", "closed"} : Close(c, at)
  /\ UNCHANGED <<fields, live, mqttVars, appVars, lost>>

\* The context of the wait is made from c.ctx, which is read again.
Wait(c) ==
  /\ call[c].at = "register"
  /\ call' = [call EXCEPT ![c].at = "wait", ![c].ctx = ctx]
  /\ UNCHANGED <<fields, live, mqttVars, appVars, lost, mailbox>>

\* The answer is published on the bus of the moment; the subscriber's channel
\* holds one, so that a second answer is dropped.
Receive(c) ==
  /\ call[c].at \in {"ack", "broken", "register", "wait"}
  /\ mqtt \in subscribed
  /\ mailbox' = IF call[c].bus = ctx THEN mailbox \cup {c} ELSE mailbox
  /\ UNCHANGED <<fields, live, mqttVars, appVars, lost, call>>

Answered(c) ==
  /\ call[c].at = "wait" /\ c \in mailbox
  /\ Close(c, "answered")
  /\ UNCHANGED <<fields, live, mqttVars, appVars, lost>>

\* Mutant: the context of the wait has no deadline.
WaitEndsWhenCancelled(c) ==
  /\ call[c].at = "wait" /\ call[c].ctx \notin live
  /\ Close(c, "timeout")
  /\ UNCHANGED <<fields, live, mqttVars, appVars, lost>>

\* The timeout and a cancelled context, of the client or, where the goroutine of
\* contextWithCancel watches it, of the caller, end the wait with ErrTimeout.
WaitEnds(c) ==
  /\ call[c].at = "wait"
  /\ \/ call[c].kind \notin WithContext
     \/ call[c].over \/ call[c].ctx \notin live
  /\ Close(c, "timeout")
  /\ UNCHANGED <<fields, live, mqttVars, appVars, lost>>

-----------------------------------------------------------------------------
Connecting ==
  \/ DisconnectState \/ DisconnectCancel \/ DisconnectStop \/ NewContext
  \/ ConnectRefused \/ DialSucceeds \/ DialFails \/ Subscribe \/ LoginSucceeds \/ ConnectFails
  \/ SetConnected

Lost(h) == LostState(h) \/ LostCancel(h)

\* What a call does by itself once it is made.
Calling(c) ==
  \/ Send(c) \/ SendClosed(c) \/ SendFails(c) \/ SendGivenUp(c) \/ Wait(c)
  \/ Answered(c) \/ WaitEnds(c)

Next ==
  \/ Connect \/ Disconnect \/ Connecting
  \/ \E g \in Connections : LoseConnection(g) \/ Reconnect(g)
  \/ \E h \in lost : Lost(h)
  \/ \E c \in Calls : Call(c) \/ ContextEnds(c) \/ Calling(c) \/ SendAcknowledged(c) \/ Receive(c)

Spec == Init /\ [][Next]_vars

-----------------------------------------------------------------------------
(***************************************************************************)
(* Fairness: goroutines that can go on do, timers end waits, a context of  *)
(* a caller is over some time, and an MQTT operation of Connect ends one   *)
(* way or the other.  The broker acknowledges or not; that it does so with *)
(* the messages of Call, while the connection is up, is assumed.           *)
(***************************************************************************)
ClientFairness ==
  /\ WF_vars(Connecting)
  /\ \A g \in Connections :
       /\ WF_vars(\E h \in lost : h.of = g /\ LostState(h))
       /\ WF_vars(\E h \in lost : h.of = g /\ LostCancel(h))
  /\ \A c \in Calls : WF_vars(Calling(c)) /\ WF_vars(ContextEnds(c))

FairSpec ==
  /\ Spec /\ ClientFairness
  /\ \A c \in Calls : WF_vars(call[c].kind = "Call" /\ SendAcknowledged(c))

-----------------------------------------------------------------------------
(* Properties. *)

\* Two MQTT clients of one Client never run at once: they would have the same
\* client id, and the broker would throw out one for the other.
OneMqttClient == \A g \in Connections : link[g] \in {"up", "down"} => g = mqtt

\* From the first MQTT client on, the context of an earlier connection is
\* cancelled, with everything that was derived from it (calls, streams), before
\* another one is made.  Connects refused before that leave theirs alive: Connect
\* cancels a context only where there is an MQTT client to disconnect.
EarlierCancelled ==
  \A g \in live \ {ctx} : \A k \in 1 .. g : link[k] = "none"

\* When a connection is lost, its context is cancelled sooner or later.
LossNoticed ==
  \A g \in Connections : link[g] = "down" ~> g \notin live

\* A call that was made returns: a Call if the broker acknowledges its message,
\* one with a context of its caller whatever the broker does.
CallsReturn ==
  \A c \in Calls : call[c].at # "new" ~> call[c].at \in Ended
=============================================================================
