---------------------------- MODULE BridgeProofs -----------------------------
(***************************************************************************)
(* Theorems about MqttBridge: the wiring of main.go makes every run of the *)
(* bridge a run of the gateway backend and a run of the MQTT backend, so   *)
(* that what is proved of either holds in the bridge; and the two sides    *)
(* agree on the gateways that get downlinks.                               *)
(***************************************************************************)
EXTENDS MqttBridge, DirectoryProofs

MP == INSTANCE MqttProofs WITH Pumps <- {RxPump, StatsPump}

(* The call in b.mutex is the one of the onNew in the registry's section.  *)
CallOfOnNew ==
    /\ \A h \in Handlers :
          At(h, "onNew") => call = {[op |-> "subscribe", mac |-> Mac(h)]}
    /\ (\A h \in Handlers : ~At(h, "onNew")) => call = {}

BridgeInv ==
    /\ Typed
    /\ LockMatchesSections
    /\ ~crashed
    /\ CallOfOnNew
    /\ RegisteredIsSubscribed

-----------------------------------------------------------------------------
(* Each step of the bridge is a step, or a stutter, of either side.        *)

LEMMA GatewayStep ==
    ASSUME ~crashed, BridgeNext
    PROVE  [Next]_vars /\ UNCHANGED crashed
  <1>1. ASSUME NEW h \in Handlers,
               \/ GatewayAlone(h)
               \/ Subscribe(h)
               \/ Registered(h)
               \/ NotRegistered(h)
               \/ PublishRX(h)
               \/ PublishStats(h)
        PROVE  Handle(h) /\ UNCHANGED crashed
    <2>1. Handle(h)
      BY <1>1 DEF GatewayAlone, Subscribe, Registered, NotRegistered, PublishRX,
                  PublishStats, Handle
    <2> QED
      BY <2>1 DEF Handle, Receive, Discard, DecodePull, SetKnown, SetNew,
                  OnNewSucceeds, OnNewFails, SendPullAck, DecodePush, SendPushAck,
                  ForwardStat, ForwardRX, EndRX, HandlerStep, lifeVars
  <1>2. CASE CleanAlone \/ Forget
    <2>1. Clean
      BY <1>2 DEF CleanAlone, Forget, Clean
    <2> QED
      BY <2>1 DEF Next, Clean, CleanupLock, CleanupKeep, CleanupExpired,
                  OnDeleteSucceeds, OnDeleteFails, CleanupEnds, CleanupWakes,
                  CleanerStep, lifeVars
  <1>3. CASE SendAlone \/ PumpDownlink
    <2>1. Transmit
      BY <1>3 DEF SendAlone, PumpDownlink, Transmit
    <2> QED
      BY <2>1 DEF Next, Transmit, TxAccept, TxLookup, TxUnknown, TxSend, TxStep,
                  lifeVars
  <1>4. CASE SocketAlone
    BY <1>4 DEF SocketAlone, Next, Socket, StartReader, StartSender, WriteUDP,
                SocketStep, lifeVars
  <1>5. CASE Tick
    BY <1>5 DEF Tick, Next, lifeVars
  <1>6. CASE UNCHANGED vars
    BY <1>6 DEF vars, lifeVars
  <1> QED
    BY <1>1, <1>2, <1>3, <1>4, <1>5, <1>6 DEF BridgeNext, Next

LEMMA MqttStep ==
    ASSUME Typed, BridgeNext
    PROVE  [M!MqttNext]_(M!mqttVars)
  <1>1. CASE UNCHANGED mqttVars
    BY <1>1 DEF mqttVars, M!mqttVars, M!callVars, M!brokerVars, M!routerVars
  <1>2. ASSUME NEW h \in Handlers, Subscribe(h)
        PROVE  M!MqttNext
    <2>1. Job(h) \in Arrivals
      BY <1>2 DEF Subscribe, SetNew, At, Typed, TasksAgree
    <2>2. Mac(h) \in MACs
      BY <2>1, ArrivalsAssumption DEF Mac, Arrival, Datagram
    <2> QED
      BY <1>2, <2>2 DEF Subscribe, M!MqttNext
  <1>3. ASSUME NEW h \in Handlers,
               Registered(h) \/ NotRegistered(h) \/ PublishRX(h) \/ PublishStats(h)
        PROVE  M!MqttNext
    BY <1>3 DEF Registered, NotRegistered, PublishRX, PublishStats, M!MqttNext
  <1>4. CASE PumpDownlink
    <2>1. txJob' \subseteq MACs
      BY <1>4, DownlinksAssumption DEF PumpDownlink, TxAccept
    <2> QED
      BY <1>4, <2>1 DEF PumpDownlink, M!MqttNext
  <1>5. CASE M!Paho \/ M!Backend
    BY <1>5 DEF M!MqttNext
  <1> QED
    BY <1>1, <1>2, <1>3, <1>4, <1>5 DEF BridgeNext, Forget

-----------------------------------------------------------------------------
(* The two sides agree.                                                    *)

(* A step in which no call begins or ends and no gateway enters.           *)
Quiet ==
    /\ UNCHANGED <<call, subscribed>>
    /\ DOMAIN gateways' \subseteq DOMAIN gateways
    /\ \A h \in Handlers : /\ At(h, "onNew")' <=> At(h, "onNew")
                           /\ At(h, "onNew") => Mac(h)' = Mac(h)

(* One in which the call of h does.                                        *)
Calling(h) == Subscribe(h) \/ Registered(h) \/ NotRegistered(h)

LEMMA HandlerQuiet ==
    ASSUME Typed, NEW h \in Handlers,
           GatewayAlone(h) \/ PublishRX(h) \/ PublishStats(h),
           UNCHANGED <<call, subscribed>>
    PROVE  Quiet
  <1>1. task \in [Handlers -> Task]
    BY DEF Typed, TypeOK
  <1>2. Handle(h)
    BY DEF GatewayAlone, PublishRX, PublishStats, Handle
  <1>3. ~SetNew(h) /\ ~OnNewSucceeds(h) /\ ~OnNewFails(h)
    BY DEF GatewayAlone, PublishRX, PublishStats, Receive, Discard, DecodePull,
           SetKnown, SendPullAck, DecodePush, SendPushAck, ForwardStat, ForwardRX,
           AtFrame, EndRX, SetNew, OnNewSucceeds, OnNewFails, At, Idle
  <1>4. ~At(h, "onNew") /\ ~At(h, "onNew")'
    BY <1>2, <1>3, OutsideTheLock
  <1>5. DOMAIN gateways' = DOMAIN gateways
    BY <1>2, <1>3, RegistryWrites
  <1>6. \A k \in Handlers : k # h => task'[k] = task[k]
    BY <1>2, HandlerIsLocal
  <1> QED
    BY <1>4, <1>5, <1>6 DEF Quiet, At, Mac, Job

LEMMA MqttQuiet ==
    ASSUME \/ M!Paho \/ M!Backend
           \/ M!Publish(RxPump) \/ M!Publish(StatsPump)
           \/ \E m \in MACs : M!HandOverDownlink(m)
    PROVE  UNCHANGED <<call, subscribed>>
  BY DEF M!Paho, M!Backend, M!WriteSubscribe, M!BrokerSubscribes,
         M!BrokerPublishes, M!TakeSuback, M!TakePublish, M!Enqueue,
         M!ConnectionBreaks, M!CleanUp, M!Reconnect, M!Dispatch, M!DropDownlink,
         M!PublishWritten, M!PublishLost, M!Lock, M!RLock, M!Resubscribed,
         M!AddRoute, M!QueueUnsubscribe, M!DeleteRoute, M!RouterStep, M!PubStep,
         M!callVars, M!CallStep, M!Publish, M!HandOverDownlink

LEMMA OthersQuiet ==
    ASSUME Typed, BridgeNext, \A h \in Handlers : ~Calling(h)
    PROVE  Quiet
  <1>1. ASSUME NEW h \in Handlers,
               \/ GatewayAlone(h) /\ UNCHANGED mqttVars
               \/ PublishRX(h)
               \/ PublishStats(h)
        PROVE  Quiet
    <2>1. UNCHANGED <<call, subscribed>>
      BY <1>1, MqttQuiet DEF mqttVars, PublishRX, PublishStats
    <2> QED
      BY <1>1, <2>1, HandlerQuiet
  <1>2. CASE (CleanAlone /\ UNCHANGED mqttVars) \/ Forget
    <2>1. Clean /\ UNCHANGED mqttVars
      BY <1>2 DEF CleanAlone, Forget, Clean
    <2> QED
      BY <2>1, CleanRegistry DEF Quiet, At, Mac, Job, mqttVars
  <1>3. CASE \/ (SendAlone \/ SocketAlone) /\ UNCHANGED mqttVars
             \/ PumpDownlink
    <2>1. Bystander
      BY <1>3 DEF SendAlone, SocketAlone, PumpDownlink, Bystander, Transmit, Socket
    <2>2. UNCHANGED <<task, gateways>>
      BY <2>1, BystanderIsLocal DEF registryVars
    <2>3. UNCHANGED <<call, subscribed>>
      BY <1>3 DEF PumpDownlink, mqttVars, M!HandOverDownlink, M!RouterStep,
                  M!callVars
    <2> QED
      BY <2>2, <2>3 DEF Quiet, At, Mac, Job
  <1>4. CASE Tick /\ UNCHANGED mqttVars
    BY <1>4, TickIsLocal DEF Quiet, At, Mac, Job, mqttVars
  <1>5. CASE (M!Paho \/ M!Backend) /\ UNCHANGED vars
    BY <1>5, MqttQuiet DEF Quiet, At, Mac, Job, vars, registryVars
  <1> QED
    BY <1>1, <1>2, <1>3, <1>4, <1>5 DEF BridgeNext, Calling

LEMMA AskedOfSubscribe ==
    ASSUME NEW m, call = {[op |-> "subscribe", mac |-> m]}
    PROVE  M!Asked("subscribe") = {m} /\ M!Asked("unsubscribe") = {}
  <1>1. {d \in call : d.op = "subscribe"} = call
    BY SMT
  <1>2. {d \in call : d.op = "unsubscribe"} = {}
    BY SMT
  <1>3. {c.mac : c \in call} = {m}
    BY SMT
  <1> QED
    BY <1>1, <1>2, <1>3 DEF M!Asked

LEMMA StepsAgree ==
    ASSUME BridgeInv, BridgeNext
    PROVE  CallOfOnNew' /\ RegisteredIsSubscribed'
  <1>1. task \in [Handlers -> Task]
    BY DEF BridgeInv, Typed, TypeOK
  <1>2. CASE Quiet
    <2>1. CallOfOnNew'
      BY <1>2 DEF BridgeInv, CallOfOnNew, Quiet
    <2> QED
      BY <1>2, <2>1 DEF BridgeInv, RegisteredIsSubscribed, Quiet
  <1>3. ASSUME NEW h \in Handlers, Subscribe(h)
        PROVE  CallOfOnNew' /\ RegisteredIsSubscribed'
    <2>1. /\ holder = Nobody
          /\ Mac(h)' = Mac(h)
          /\ \A k \in Handlers : k # h => task'[k] = task[k]
      BY <1>1, <1>3 DEF Subscribe, SetNew, Goto, Mac, Job, Task
    <2>2. \A k \in Handlers : ~At(k, "onNew")
      BY <2>1, ThreadsAssumption DEF BridgeInv, LockMatchesSections
    <2>3. At(h, "onNew")'
      BY <1>1, <1>3 DEF Subscribe, SetNew, Goto, At, Task
    <2>4. call' = {[op |-> "subscribe", mac |-> Mac(h)]}
      BY <1>3 DEF Subscribe, M!Begin
    <2>5. CallOfOnNew'
      BY <2>1, <2>2, <2>3, <2>4 DEF CallOfOnNew, At
    <2>6. UNCHANGED <<gateways, subscribed>>
      BY <1>3 DEF Subscribe, SetNew, M!Begin
    <2> QED
      BY <2>5, <2>6 DEF BridgeInv, RegisteredIsSubscribed
  <1>4. ASSUME NEW h \in Handlers, Registered(h) \/ NotRegistered(h)
        PROVE  CallOfOnNew' /\ RegisteredIsSubscribed'
    <2>1. Handle(h) /\ At(h, "onNew") /\ holder = h
      BY <1>4 DEF Registered, NotRegistered, OnNewSucceeds, OnNewFails, Handle,
                  BridgeInv, LockMatchesSections
    <2>2. ~At(h, "onNew")'
      BY <1>1, <1>4 DEF Registered, NotRegistered, OnNewSucceeds, OnNewFails,
                        Store, Return, Idle, At, Task
    <2>3. \A k \in Handlers : ~At(k, "onNew")'
      BY <2>1, <2>2, HandlerIsLocal DEF BridgeInv, LockMatchesSections, At
    <2>4. call' = {}
      BY <1>4 DEF Registered, NotRegistered, M!CallSucceeds, M!CallFails, M!Done
    <2>5. CallOfOnNew'
      BY <2>3, <2>4 DEF CallOfOnNew
    <2>6. CASE Registered(h)
      <3>1. call = {[op |-> "subscribe", mac |-> Mac(h)]}
        BY <2>1 DEF BridgeInv, CallOfOnNew
      <3>2. M!Asked("subscribe") = {Mac(h)} /\ M!Asked("unsubscribe") = {}
        BY <3>1, AskedOfSubscribe
      <3>3. subscribed' = subscribed \cup {Mac(h)}
        BY <2>6, <3>2 DEF Registered, M!CallSucceeds, M!Applied
      <3>4. DOMAIN gateways' \subseteq DOMAIN gateways \cup {Mac(h)}
        BY <2>1, RegistryWrites
      <3> QED
        BY <2>5, <3>3, <3>4 DEF BridgeInv, RegisteredIsSubscribed
    <2>7. CASE NotRegistered(h)
      BY <2>5, <2>7 DEF NotRegistered, OnNewFails, M!CallFails, BridgeInv,
                        RegisteredIsSubscribed
    <2> QED
      BY <1>4, <2>6, <2>7
  <1> QED
    BY <1>2, <1>3, <1>4, OthersQuiet DEF Calling, BridgeInv

-----------------------------------------------------------------------------
LEMMA InitBridgeInv == BridgeInit => BridgeInv
  <1> SUFFICES ASSUME BridgeInit PROVE BridgeInv
    OBVIOUS
  <1>1. Typed /\ LockMatchesSections
    BY InitTyped, InitLock DEF BridgeInit
  <1>2. ~crashed /\ DOMAIN gateways = {} /\ \A h \in Handlers : ~At(h, "onNew")
    BY DEF BridgeInit, Init, At, Idle
  <1>3. call = {}
    BY DEF BridgeInit, M!MqttInit
  <1> QED
    BY <1>1, <1>2, <1>3 DEF BridgeInv, CallOfOnNew, RegisteredIsSubscribed

LEMMA NextBridgeInv == BridgeInv /\ [BridgeNext]_bridgeVars => BridgeInv'
  <1> SUFFICES ASSUME BridgeInv, [BridgeNext]_bridgeVars PROVE BridgeInv'
    OBVIOUS
  <1>1. CASE BridgeNext
    <2>1. [Next]_vars /\ UNCHANGED crashed
      BY <1>1, GatewayStep DEF BridgeInv
    <2>2. Typed' /\ LockMatchesSections'
      BY <2>1, NextTyped, NextLock DEF BridgeInv
    <2> QED
      BY <1>1, <2>1, <2>2, StepsAgree DEF BridgeInv
  <1>2. CASE UNCHANGED bridgeVars
    <2>1. UNCHANGED vars /\ UNCHANGED <<call, subscribed>>
      BY <1>2 DEF bridgeVars, mqttVars
    <2>2. Typed' /\ LockMatchesSections'
      BY <2>1, NextTyped, NextLock DEF BridgeInv
    <2>3. UNCHANGED <<gateways, task, crashed>>
      BY <2>1 DEF vars, registryVars, lifeVars
    <2> QED
      BY <2>1, <2>2, <2>3
         DEF BridgeInv, CallOfOnNew, RegisteredIsSubscribed, At, Mac, Job
  <1> QED
    BY <1>1, <1>2

LEMMA BridgeInvariant == BridgeSpec => []BridgeInv
  BY InitBridgeInv, NextBridgeInv, PTL DEF BridgeSpec

(* A run of the bridge is a run of the gateway backend, with main.go's     *)
(* callbacks and pumps for its environment, and a run of the MQTT backend  *)
(* that is only ever asked to subscribe.                                   *)
THEOREM BridgeRunsBoth == BridgeSpec => Spec /\ M!MqttSpec
  <1>1. BridgeInit => Init /\ M!MqttInit
    BY DEF BridgeInit
  <1>2. BridgeInv /\ [BridgeNext]_bridgeVars
          => [Next]_vars /\ [M!MqttNext]_(M!mqttVars)
    <2>1. CASE UNCHANGED bridgeVars
      BY <2>1 DEF bridgeVars, mqttVars, M!mqttVars, M!callVars, M!brokerVars,
                  M!routerVars
    <2>2. ASSUME BridgeInv, BridgeNext
          PROVE  [Next]_vars /\ [M!MqttNext]_(M!mqttVars)
      BY <2>2, GatewayStep, MqttStep DEF BridgeInv
    <2> QED
      BY <2>1, <2>2
  <1> QED
    BY <1>1, <1>2, BridgeInvariant, PTL DEF BridgeSpec, Spec, M!MqttSpec

(* A gateway in the registry is in b.gateways.                             *)
THEOREM RoutesAreSubscribed == BridgeSpec => []RegisteredIsSubscribed
  <1>1. BridgeInv => RegisteredIsSubscribed
    BY DEF BridgeInv
  <1> QED
    BY <1>1, BridgeInvariant, PTL

(* A subscription in flight belongs to the handler that holds the          *)
(* registry's lock, for the gateway it is registering.                     *)
THEOREM CallsAreInSection == BridgeSpec => []SubscribesInsideSection
  <1>1. BridgeInv => SubscribesInsideSection
    BY DEF BridgeInv, LockMatchesSections, CallOfOnNew, SubscribesInsideSection
  <1> QED
    BY <1>1, BridgeInvariant, PTL

(* MP and M are instances of the same module: MqttProofs extends           *)
(* MqttBackend.                                                            *)
LEMMA SameSpec == M!MqttSpec => MP!MqttSpec
  <1>1. M!MqttInit => MP!MqttInit
    BY DEF M!MqttInit, MP!MqttInit, M!Owners, MP!Owners
  <1>2. M!mqttVars = MP!mqttVars /\ (M!mqttVars)' = (MP!mqttVars)'
    BY DEF M!mqttVars, M!callVars, M!brokerVars, M!routerVars, MP!mqttVars,
           MP!callVars, MP!brokerVars, MP!routerVars
  <1>3. M!MqttNext => MP!MqttNext
    BY DEF M!MqttNext, M!Paho, M!Backend, M!CallSucceeds, M!CallFails, M!Begin,
           M!HandOverDownlink, M!Publish, M!WriteSubscribe, M!BrokerSubscribes,
           M!BrokerPublishes, M!TakeSuback, M!TakePublish, M!Enqueue,
           M!ConnectionBreaks, M!CleanUp, M!Reconnect, M!Dispatch,
           M!DropDownlink, M!PublishWritten, M!PublishLost, M!Lock, M!RLock,
           M!Resubscribed, M!AddRoute, M!QueueUnsubscribe, M!DeleteRoute,
           M!RouterStep, M!PubStep, M!CallStep, M!callVars, M!brokerVars,
           M!routerVars, M!Owners, M!Inside, M!Asked, M!Applied, M!Done,
           MP!MqttNext, MP!Paho, MP!Backend, MP!CallSucceeds, MP!CallFails,
           MP!Begin, MP!HandOverDownlink, MP!Publish, MP!WriteSubscribe,
           MP!BrokerSubscribes, MP!BrokerPublishes, MP!TakeSuback,
           MP!TakePublish, MP!Enqueue, MP!ConnectionBreaks, MP!CleanUp,
           MP!Reconnect, MP!Dispatch, MP!DropDownlink, MP!PublishWritten,
           MP!PublishLost, MP!Lock, MP!RLock, MP!Resubscribed, MP!AddRoute,
           MP!QueueUnsubscribe, MP!DeleteRoute, MP!RouterStep, MP!PubStep,
           MP!CallStep, MP!callVars, MP!brokerVars, MP!routerVars, MP!Owners,
           MP!Inside, MP!Asked, MP!Applied, MP!Done
  <1>4. [M!MqttNext]_(M!mqttVars) => [MP!MqttNext]_(MP!mqttVars)
    BY <1>2, <1>3
  <1> QED
    BY <1>1, <1>4, PTL DEF M!MqttSpec, MP!MqttSpec

(* What MqttProofs shows of an MQTT backend holds of the one in the bridge.*)
LEMMA TopicsOfBridge == BridgeSpec => []M!AllTopicsRestored
  <1>1. MP!OwnersAssumption /\ MP!BoundsAssumption /\ MP!MayLoseAssumption
    BY SidesAssumption DEF MP!OwnersAssumption, MP!BoundsAssumption,
                           MP!MayLoseAssumption, MP!Owners
  <1>2. MP!MqttSpec => []MP!AllTopicsRestored
    BY <1>1, MP!TopicsAreRestored
  <1>3. MP!AllTopicsRestored => M!AllTopicsRestored
    BY DEF M!AllTopicsRestored, MP!AllTopicsRestored, M!Asked, MP!Asked
  <1> QED
    BY <1>2, <1>3, BridgeRunsBoth, SameSpec, PTL

(* With every onConnected done, the broker has the topic of every gateway  *)
(* in the registry.                                                        *)
THEOREM RegisteredHaveTopics == BridgeSpec => []RoutesHaveTopics
  <1>1. BridgeInv /\ M!AllTopicsRestored => RoutesHaveTopics
    <2> SUFFICES ASSUME BridgeInv, M!AllTopicsRestored, conn = "up",
                        \A r \in Reconnectors : at[r] = "idle"
                 PROVE  DOMAIN gateways \subseteq session
      BY DEF RoutesHaveTopics
    <2>1. M!Asked("unsubscribe") = {}
      <3>1. CASE call = {}
        BY <3>1 DEF M!Asked
      <3>2. CASE call # {}
        BY <3>2, AskedOfSubscribe DEF BridgeInv, CallOfOnNew
      <3> QED
        BY <3>1, <3>2
    <2> QED
      BY <2>1 DEF M!AllTopicsRestored, BridgeInv, RegisteredIsSubscribed
  <1> QED
    BY <1>1, BridgeInvariant, TopicsOfBridge, PTL

(* The bridge keeps the promise of the gateway backend: with onNew waiting *)
(* for the broker under the registry's lock, with callbacks that fail when *)
(* the connection breaks and with a router that waits for the TX pump, the *)
(* registry, the acknowledgements and the downlinks are still those of the *)
(* directory, and only expired gateways go.                                *)
THEOREM BridgeKeepsDirectory ==
    BridgeSpec => /\ KeepsDirectory
                  /\ EvictsOnlyExpired
                  /\ []NewGatewayStaysNew
                  /\ []WrittenIsJustified
  BY BridgeRunsBoth, ImplementsDirectory, EvictionCorrect, NewStaysNew,
     WritesJustified, PTL
=============================================================================
