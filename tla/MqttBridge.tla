----------------------------- MODULE MqttBridge ------------------------------
(***************************************************************************)
(* The bridge in MQTT mode: main.go's wiring of the gateway backend to the *)
(* MQTT backend.  A call from one into the other is one step of both:      *)
(*   onNew                 SubscribeGatewayTX, while the registry is locked *)
(*   onDelete              nothing (main.go's condition excludes MQTT)     *)
(*   RX and stats pumps    receive from the gateway backend, then publish  *)
(*   TX pump               receives from txPacketChan, then calls Send     *)
(* Shutdown and failing sockets are left to GatewayBackend.                *)
(***************************************************************************)
EXTENDS GatewayBackend

CONSTANTS
    Caller, Reconnectors, Depth, InboundBound, MayLose,
    RxPump, StatsPump  \* the two goroutines that publish

ASSUME SidesAssumption ==
    /\ Caller \notin Reconnectors
    /\ ({Caller} \cup Reconnectors) \cap MACs = {}
    /\ Depth \in Nat \ {0} /\ InboundBound \in Nat
    /\ MayLose \in BOOLEAN

VARIABLES subscribed, at, call, token, conn, session, inbound, holding,
          incoming, delivering, pub

M == INSTANCE MqttBackend WITH Pumps <- {RxPump, StatsPump}

mqttVars   == <<subscribed, at, call, token, conn, session, inbound, holding,
                incoming, delivering, pub>>
bridgeVars == <<vars, mqttVars>>

BridgeInit == Init /\ M!MqttInit

-----------------------------------------------------------------------------
(* Steps that concern one side only.                                       *)

GatewayAlone(h) ==
    \/ Receive(h)
    \/ Discard(h)
    \/ DecodePull(h)
    \/ SetKnown(h)
    \/ SendPullAck(h)
    \/ DecodePush(h)
    \/ SendPushAck(h)
    \/ EndRX(h)

CleanAlone ==
    \/ CleanupLock
    \/ CleanupKeep
    \/ CleanupExpired
    \/ CleanupEnds
    \/ CleanupWakes

SendAlone == TxLookup \/ TxUnknown \/ TxSend

SocketAlone == StartReader \/ StartSender \/ WriteUDP

-----------------------------------------------------------------------------
(* Steps of both sides.                                                    *)

(* onNew calls SubscribeGatewayTX ...                                      *)
Subscribe(h) == SetNew(h) /\ M!Begin("subscribe", Mac(h))

(* ... and passes its result on.                                           *)
Registered(h) == OnNewSucceeds(h) /\ M!CallSucceeds

(* Mutation of NotRegistered: onNew loses the error.                       *)
NotRegistered_Ignored(h) == OnNewSucceeds(h) /\ M!CallFails

NotRegistered(h) == OnNewFails(h) /\ M!CallFails

(* onDelete returns nil without a call.                                    *)
Forget == OnDeleteSucceeds /\ UNCHANGED mqttVars

PublishRX(h) == ForwardRX(h) /\ M!Publish(RxPump)

PublishStats(h) == ForwardStat(h) /\ M!Publish(StatsPump)

(* The TX pump takes a downlink from txPacketHandler and calls Send.       *)
PumpDownlink ==
    /\ TxAccept
    /\ \E m \in txJob' : M!HandOverDownlink(m)

BridgeNext ==
    \/ \E h \in Handlers :
          \/ GatewayAlone(h) /\ UNCHANGED mqttVars
          \/ Subscribe(h)
          \/ Registered(h)
          \/ NotRegistered(h)
          \/ PublishRX(h)
          \/ PublishStats(h)
    \/ (CleanAlone \/ SendAlone \/ SocketAlone \/ Tick) /\ UNCHANGED mqttVars
    \/ Forget
    \/ PumpDownlink
    \/ (M!Paho \/ M!Backend) /\ UNCHANGED vars

BridgeSpec == BridgeInit /\ [][BridgeNext]_bridgeVars

(* The fairness of the two sides; a joint step is fair when the side that  *)
(* waits in it is.                                                         *)
BridgeFairness ==
    /\ \A h \in Handlers :
          /\ WF_bridgeVars((Discard(h) \/ DecodePull(h) \/ DecodePush(h))
                              /\ UNCHANGED mqttVars)
          /\ SF_bridgeVars(\/ SetKnown(h) /\ UNCHANGED mqttVars
                           \/ Subscribe(h))
          /\ WF_bridgeVars(Registered(h) \/ NotRegistered(h))
          /\ SF_bridgeVars((SendPullAck(h) \/ SendPushAck(h))
                              /\ UNCHANGED mqttVars)
          /\ WF_bridgeVars(EndRX(h) /\ UNCHANGED mqttVars)
    /\ WF_bridgeVars(CleanAlone /\ UNCHANGED mqttVars)
    /\ WF_bridgeVars(Forget)
    /\ WF_bridgeVars(SocketAlone /\ UNCHANGED mqttVars)
    /\ SF_bridgeVars(SendAlone /\ UNCHANGED mqttVars)
    /\ WF_bridgeVars(PumpDownlink)
    /\ WF_bridgeVars(Tick /\ UNCHANGED mqttVars)
    /\ M!BackendFairness
    /\ M!PahoFairness

FairBridgeSpec == BridgeSpec /\ BridgeFairness

-----------------------------------------------------------------------------
(* A gateway the bridge has a route for is one the MQTT backend subscribes *)
(* for, now and on every connection to come: no registered gateway misses  *)
(* its downlinks because a subscription failed half way.                   *)
RegisteredIsSubscribed == DOMAIN gateways \subseteq subscribed

(* Once every onConnected has returned, the connection has the topic of    *)
(* every gateway the bridge has a route for, whatever connections broke,   *)
(* and at whatever point of onNew: a registered gateway gets its downlinks.*)
RoutesHaveTopics ==
    conn = "up" /\ (\A r \in Reconnectors : at[r] = "idle")
        => DOMAIN gateways \subseteq session

(* The subscription of a new gateway runs inside the registry's section    *)
(* that asked for it, so the two locks are always taken in this order.     *)
SubscribesInsideSection ==
    \A c \in call : \E h \in Handlers :
        holder = h /\ At(h, "onNew") /\ Mac(h) = c.mac

(* The topics the bridge is subscribed to are those of the gateways that   *)
(* are connected to it (docs/content/overview/_index.md).                  *)
OnlyConnectedSubscribed ==
    holder = Nobody => subscribed \subseteq DOMAIN gateways

(* With a broker that stays reachable, every PULL_DATA that is being       *)
(* handled is answered: the registry's lock, b.mutex, paho's router and    *)
(* txPacketChan do not wait for each other in a circle.                    *)
BridgeAnswersPull == <>[](conn = "up") => PullAnswered
=============================================================================
