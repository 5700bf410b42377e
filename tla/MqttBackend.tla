---------------------------- MODULE MqttBackend -----------------------------
(***************************************************************************)
(* The MQTT backend, backend/mqttpubsub/backend.go, on top of the paho     *)
(* client, vendor/github.com/eclipse/paho.mqtt.golang, with the options    *)
(* the backend sets and the calls it makes: clean session, automatic       *)
(* reconnect, messages in order, QoS 0.                                    *)
(*                                                                         *)
(* Goroutines and what stands for each:                                    *)
(*   SubscribeGatewayTX,  Caller (the registry calls them under its lock,  *)
(*   UnSubscribeGatewayTX   one at a time)                                 *)
(*   onConnected          one of Reconnectors per connection made          *)
(*   publish              one element of Pumps per caller of publish       *)
(*   paho incoming and    inbound, the packets read but not yet looked at, *)
(*     alllogic             and holding, the message being queued          *)
(*   paho router          delivering, the message in txPacketHandler       *)
(*   the broker           session, the topics of the current connection    *)
(* A topic gateway/<mac>/tx is represented by its MAC.                     *)
(***************************************************************************)
EXTENDS Naturals, Sequences

CONSTANTS
    MACs,          \* gateways
    Caller,        \* (Un)SubscribeGatewayTX as an owner of a token
    Reconnectors,  \* bound of the model on onConnected goroutines at one time
    Pumps,         \* the callers of publish
    Depth,         \* MessageChannelDepth, the room in incomingPubChan
    InboundBound,  \* bound of the model on packets in transit to the client
    MayLose        \* whether connections break

Owners == {Caller} \cup Reconnectors

ASSUME OwnersAssumption == Caller \notin Reconnectors /\ Owners \cap MACs = {}

ASSUME BoundsAssumption == Depth \in Nat \ {0} /\ InboundBound \in Nat

ASSUME MayLoseAssumption == MayLose \in BOOLEAN

VARIABLES
    subscribed,  \* b.gateways
    at,          \* where each owner is in its call
    call,        \* what Caller was asked to do, while it does it
    token,       \* the token each owner waits for
    conn,        \* the connection to the broker
    session,     \* the topics the broker has for this connection
    inbound,     \* in transit: a MAC is a PUBLISH, an owner its (UN)SUBACK
    holding,     \* the message alllogic is sending to incomingPubChan
    incoming,    \* incomingPubChan
    delivering,  \* the message whose callback the router is running
    pub          \* where each pump is in publish

callVars   == <<at, call, token>>
brokerVars == <<conn, session>>
routerVars == <<incoming, delivering>>
mqttVars   == <<subscribed, callVars, brokerVars, inbound, holding, routerVars,
                pub>>

Call == [op : {"subscribe", "unsubscribe"}, mac : MACs]

MqttTypeOK ==
    /\ subscribed \subseteq MACs
    /\ at \in [Owners -> {"idle", "lock", "route", "delete", "wait"}]
    /\ call \subseteq Call
    /\ token \in [Owners -> {"none", "queued", "sent", "acked", "ok", "error"}]
    /\ conn \in {"up", "lost", "down"}
    /\ session \subseteq MACs
    /\ inbound \in Seq(MACs \cup Owners) /\ Len(inbound) <= InboundBound
    /\ holding \subseteq MACs
    /\ incoming \in Seq(MACs) /\ Len(incoming) <= Depth
    /\ delivering \subseteq MACs
    /\ pub \in [Pumps -> {"idle", "queued", "hung"}]

(* NewBackend returned: the connection is up and its onConnected is about  *)
(* to run.                                                                 *)
MqttInit ==
    /\ subscribed = {}
    /\ \E r \in Reconnectors :
          at = [o \in Owners |-> IF o = r THEN "lock" ELSE "idle"]
    /\ call = {}
    /\ token = [o \in Owners |-> "none"]
    /\ conn = "up"
    /\ session = {}
    /\ inbound = <<>>
    /\ holding = {}
    /\ incoming = <<>>
    /\ delivering = {}
    /\ pub = [p \in Pumps |-> "idle"]

-----------------------------------------------------------------------------
(* b.mutex: an owner is inside its section from "route" on.                *)

Inside(o) == at[o] \in {"route", "delete", "wait"}

(* The MACs Caller was asked to subscribe to, or to unsubscribe from.      *)
Asked(op) == {c.mac : c \in {d \in call : d.op = op}}

(* A set of topics after the request o is making: its own topic for        *)
(* Caller, all of b.gateways for an onConnected.                           *)
Applied(o, topics) ==
    IF o = Caller
        THEN (topics \cup Asked("subscribe")) \ Asked("unsubscribe")
        ELSE topics \cup subscribed

CallStep == UNCHANGED <<brokerVars, inbound, holding, routerVars, pub>>

Begin(op, m) ==
    /\ at[Caller] = "idle"
    /\ at' = [at EXCEPT ![Caller] = "lock"]
    /\ call' = {[op |-> op, mac |-> m]}
    /\ UNCHANGED <<subscribed, token>>
    /\ CallStep

Lock ==
    /\ at[Caller] = "lock"
    /\ \A r \in Reconnectors : ~Inside(r)
    /\ at' = [at EXCEPT ![Caller] = "route"]
    /\ UNCHANGED <<subscribed, call, token>>
    /\ CallStep

(* Mutation of RLock: the map is read without the lock.                    *)
RLock_Unlocked(r) ==
    /\ at[r] = "lock"
    /\ at' = [at EXCEPT ![r] = IF subscribed = {} THEN "idle" ELSE "route"]
    /\ UNCHANGED <<subscribed, call, token>>
    /\ CallStep

(* onConnected: nothing to do without known gateways.                      *)
RLock(r) ==
    /\ at[r] = "lock"
    /\ ~Inside(Caller)
    /\ at' = [at EXCEPT ![r] = IF subscribed = {} THEN "idle" ELSE "route"]
    /\ UNCHANGED <<subscribed, call, token>>
    /\ CallStep

(* paho's Subscribe and SubscribeMultiple: addRoute takes the router's     *)
(* lock, which the router keeps while a callback runs; then the packet is  *)
(* queued, connected or not.                                               *)
AddRoute(o) ==
    /\ at[o] = "route"
    /\ o = Caller => Asked("subscribe") # {}
    /\ delivering = {}
    /\ at' = [at EXCEPT ![o] = "wait"]
    /\ token' = [token EXCEPT ![o] = "queued"]
    /\ UNCHANGED <<subscribed, call>>
    /\ CallStep

(* paho's Unsubscribe queues the packet first and removes the route after. *)
QueueUnsubscribe ==
    /\ at[Caller] = "route"
    /\ Asked("unsubscribe") # {}
    /\ at' = [at EXCEPT ![Caller] = "delete"]
    /\ token' = [token EXCEPT ![Caller] = "queued"]
    /\ UNCHANGED <<subscribed, call>>
    /\ CallStep

DeleteRoute ==
    /\ at[Caller] = "delete"
    /\ delivering = {}
    /\ at' = [at EXCEPT ![Caller] = "wait"]
    /\ UNCHANGED <<subscribed, call, token>>
    /\ CallStep

Done ==
    /\ at' = [at EXCEPT ![Caller] = "idle"]
    /\ token' = [token EXCEPT ![Caller] = "none"]
    /\ call' = {}

(* Mutation of CallSucceeds: SubscribeGatewayTX does not note its gateway. *)
CallSucceeds_NotesNothing ==
    /\ at[Caller] = "wait" /\ token[Caller] = "ok"
    /\ subscribed' = subscribed \ Asked("unsubscribe")
    /\ Done
    /\ CallStep

(* (Un)SubscribeGatewayTX notes the outcome in b.gateways and returns nil. *)
CallSucceeds ==
    /\ at[Caller] = "wait" /\ token[Caller] = "ok"
    /\ subscribed' = Applied(Caller, subscribed)
    /\ Done
    /\ CallStep

CallFails ==
    /\ at[Caller] = "wait" /\ token[Caller] = "error"
    /\ Done
    /\ UNCHANGED subscribed
    /\ CallStep

(* Mutation of Resubscribed: the loop has no way out.                      *)
Resubscribed_Forever(r) ==
    /\ token[r] \in {"ok", "error"}
    /\ at' = [at EXCEPT ![r] = "route"]
    /\ token' = [token EXCEPT ![r] = "none"]
    /\ UNCHANGED <<subscribed, call>>
    /\ CallStep

(* onConnected returns, or sleeps a second and tries again.                *)
Resubscribed(r) ==
    /\ token[r] \in {"ok", "error"}
    /\ at' = [at EXCEPT ![r] = IF token[r] = "ok" THEN "idle" ELSE "route"]
    /\ token' = [token EXCEPT ![r] = "none"]
    /\ UNCHANGED <<subscribed, call>>
    /\ CallStep

-----------------------------------------------------------------------------
(* paho and the broker.                                                    *)

(* outgoing gives the packet an id and writes it; on a broken connection   *)
(* the write fails, but the token has its id.                              *)
WriteSubscribe(o) ==
    /\ token[o] = "queued"
    /\ conn \in {"up", "lost"}
    /\ token' = [token EXCEPT ![o] = "sent"]
    /\ UNCHANGED <<subscribed, at, call, brokerVars, inbound, holding,
                   routerVars, pub>>

(* The broker grants and answers.                                          *)
BrokerSubscribes(o) ==
    /\ token[o] = "sent"
    /\ conn = "up"
    /\ Len(inbound) < InboundBound
    /\ token' = [token EXCEPT ![o] = "acked"]
    /\ inbound' = Append(inbound, o)
    /\ session' = Applied(o, session)
    /\ UNCHANGED <<subscribed, at, call, conn, holding, routerVars, pub>>

BrokerPublishes ==
    /\ conn = "up"
    /\ Len(inbound) < InboundBound
    /\ \E m \in session : inbound' = Append(inbound, m)
    /\ UNCHANGED <<subscribed, callVars, brokerVars, holding, routerVars, pub>>

(* alllogic completes the token of a SUBACK without a look at its codes.   *)
TakeSuback ==
    /\ holding = {}
    /\ inbound # <<>> /\ Head(inbound) \in Owners
    /\ token' = [token EXCEPT ![Head(inbound)] = "ok"]
    /\ inbound' = Tail(inbound)
    /\ UNCHANGED <<subscribed, at, call, brokerVars, holding, routerVars, pub>>

TakePublish ==
    /\ holding = {}
    /\ inbound # <<>> /\ Head(inbound) \in MACs
    /\ holding' = {Head(inbound)}
    /\ inbound' = Tail(inbound)
    /\ UNCHANGED <<subscribed, callVars, brokerVars, routerVars, pub>>

(* Mutation of Enqueue: the channel has no limit.                          *)
Enqueue_Unbounded ==
    /\ \E m \in holding : incoming' = Append(incoming, m)
    /\ holding' = {}
    /\ UNCHANGED <<subscribed, callVars, brokerVars, inbound, delivering, pub>>

(* alllogic waits here, and for nothing else, while the channel is full.   *)
Enqueue ==
    /\ Len(incoming) < Depth
    /\ \E m \in holding : incoming' = Append(incoming, m)
    /\ holding' = {}
    /\ UNCHANGED <<subscribed, callVars, brokerVars, inbound, delivering, pub>>

(* Bound of the model: there is room for the onConnected to come.          *)
ConnectionBreaks ==
    /\ MayLose
    /\ conn = "up"
    /\ \E r \in Reconnectors : at[r] = "idle"
    /\ conn' = "lost"
    /\ UNCHANGED <<subscribed, callVars, session, inbound, holding, routerVars,
                   pub>>

(* internalConnLost: waits for the workers, then fails the tokens that     *)
(* have an id.  Packets still queued wait for the next connection.         *)
CleanUp ==
    /\ conn = "lost"
    /\ holding = {}
    /\ conn' = "down"
    /\ token' = [o \in Owners |-> IF token[o] \in {"sent", "acked"}
                                     THEN "error" ELSE token[o]]
    /\ session' = {}
    /\ inbound' = <<>>
    /\ UNCHANGED <<subscribed, at, call, holding, routerVars, pub>>

Reconnect ==
    /\ conn = "down"
    /\ conn' = "up"
    /\ \E r \in Reconnectors :
          at[r] = "idle" /\ at' = [at EXCEPT ![r] = "lock"]
    /\ UNCHANGED <<subscribed, call, token, session, inbound, holding,
                   routerVars, pub>>

-----------------------------------------------------------------------------
(* Downlinks: paho's router and txPacketHandler.                           *)

RouterStep == UNCHANGED <<subscribed, callVars, brokerVars, inbound, holding,
                          pub>>

(* The router takes its read lock and calls the handler.                   *)
Dispatch ==
    /\ delivering = {}
    /\ incoming # <<>>
    /\ delivering' = {Head(incoming)}
    /\ incoming' = Tail(incoming)
    /\ RouterStep

(* A payload that is not JSON.                                             *)
DropDownlink ==
    /\ delivering # {}
    /\ delivering' = {}
    /\ UNCHANGED incoming
    /\ RouterStep

(* The handler's send on txPacketChan meets its receiver.                  *)
HandOverDownlink(m) ==
    /\ delivering = {m}
    /\ delivering' = {}
    /\ UNCHANGED incoming
    /\ RouterStep

-----------------------------------------------------------------------------
(* Uplinks: publish.                                                       *)

PubStep == UNCHANGED <<subscribed, callVars, brokerVars, inbound, holding,
                       routerVars>>

(* While paho reconnects, a QoS 0 publish returns nil at once.             *)
Publish(p) ==
    /\ pub[p] = "idle"
    /\ pub' = [pub EXCEPT ![p] = IF conn = "down" THEN "idle" ELSE "queued"]
    /\ PubStep

PublishWritten(p) ==
    /\ pub[p] = "queued"
    /\ conn = "up"
    /\ pub' = [pub EXCEPT ![p] = "idle"]
    /\ PubStep

(* outgoing has taken the packet and its write fails: a QoS 0 token has no *)
(* id, so nobody completes it.                                             *)
PublishLost(p) ==
    /\ pub[p] = "queued"
    /\ conn = "lost"
    /\ pub' = [pub EXCEPT ![p] = "hung"]
    /\ PubStep

-----------------------------------------------------------------------------
Paho ==
    \/ \E o \in Owners : WriteSubscribe(o) \/ BrokerSubscribes(o)
    \/ BrokerPublishes
    \/ TakeSuback
    \/ TakePublish
    \/ Enqueue
    \/ ConnectionBreaks
    \/ CleanUp
    \/ Reconnect
    \/ Dispatch
    \/ DropDownlink
    \/ \E p \in Pumps : PublishWritten(p) \/ PublishLost(p)

Backend ==
    \/ Lock
    \/ \E r \in Reconnectors : RLock(r) \/ Resubscribed(r)
    \/ \E o \in Owners : AddRoute(o)
    \/ QueueUnsubscribe
    \/ DeleteRoute

(* The backend with a well-behaved main.go around it: subscribe calls one  *)
(* at a time, pumps that publish, a TX pump that receives.                 *)
MqttNext ==
    \/ Paho
    \/ Backend
    \/ CallSucceeds
    \/ CallFails
    \/ \E m \in MACs : Begin("subscribe", m) \/ Begin("unsubscribe", m)
    \/ \E m \in MACs : HandOverDownlink(m)
    \/ \E p \in Pumps : Publish(p)

(* The goroutines run (WF).  The router's lock prefers its writers and the *)
(* broker's answers take their turn between its messages, so what finds    *)
(* them busy again and again gets through (SF).  paho keeps reconnecting.  *)
BackendFairness ==
    /\ WF_mqttVars(Lock)
    /\ \A r \in Reconnectors :
          WF_mqttVars(RLock(r)) /\ WF_mqttVars(Resubscribed(r))
    /\ WF_mqttVars(QueueUnsubscribe)
    /\ SF_mqttVars(DeleteRoute \/ \E o \in Owners : AddRoute(o))

PahoFairness ==
    /\ \A o \in Owners : WF_mqttVars(WriteSubscribe(o))
    /\ SF_mqttVars(\E o \in Owners : BrokerSubscribes(o))
    /\ WF_mqttVars(TakeSuback \/ TakePublish)
    /\ WF_mqttVars(Enqueue)
    /\ WF_mqttVars(CleanUp)
    /\ WF_mqttVars(Reconnect)
    /\ WF_mqttVars(Dispatch)
    /\ \A p \in Pumps : WF_mqttVars(PublishWritten(p) \/ PublishLost(p))

MqttSpec == MqttInit /\ [][MqttNext]_mqttVars

FairMqttSpec ==
    /\ MqttSpec
    /\ BackendFairness
    /\ PahoFairness
    /\ WF_mqttVars(CallSucceeds \/ CallFails)
    /\ WF_mqttVars(\E m \in MACs : HandOverDownlink(m))

-----------------------------------------------------------------------------
(* Once every onConnected has returned, the current connection has the     *)
(* topic of every gateway in b.gateways: no gateway falls between a        *)
(* SubscribeGatewayTX that was in flight when a connection broke and the   *)
(* onConnected of the next connection.                                     *)
AllTopicsRestored ==
    conn = "up" /\ (\A r \in Reconnectors : at[r] = "idle")
        => subscribed \subseteq session \cup Asked("unsubscribe")

(* The broker has no topic for this client but those in b.gateways and the *)
(* one being asked for: no downlink comes for a gateway that was dropped.  *)
NoStrayTopics == session \subseteq subscribed \cup {c.mac : c \in call}

(* b.mutex keeps SubscribeGatewayTX and onConnected apart.                 *)
MutexExcludes ==
    \A r \in Reconnectors : ~(Inside(Caller) /\ Inside(r))

(* On a connection that stays up, a call of SubscribeGatewayTX or of       *)
(* UnSubscribeGatewayTX returns, whatever the connections before it did to *)
(* its token and whatever onConnected goroutines they left behind.         *)
CallReturns ==
    <>[](conn = "up") => (at[Caller] = "lock" ~> at[Caller] = "idle")

(* A pump that publishes comes back for the next packet.                   *)
PublishReturns == \A p \in Pumps : pub[p] = "queued" ~> pub[p] = "idle"
=============================================================================
