----------------------------- MODULE MqttProofs ------------------------------
(***************************************************************************)
(* Theorems about MqttBackend: for every number of gateways, of onConnected*)
(* goroutines and of packets in transit, and for connections that break at *)
(* any point, b.mutex excludes, no topic is left over and none is missed.  *)
(***************************************************************************)
EXTENDS MqttBackend, TLAPS

(* A call of the Caller is known while it lasts, and there is one at most. *)
CallMatches ==
    /\ at[Caller] = "idle" <=> call = {}
    /\ \A c, d \in call : c = d

(* A goroutine that has a token is past addRoute.                          *)
TokenPlaces ==
    /\ \A r \in Reconnectors : token[r] # "none" => at[r] = "wait"
    /\ token[Caller] # "none" => at[Caller] \in {"delete", "wait"}

(* A SUBACK in transit is the only one of its goroutine, which waits.      *)
AcksAwaited ==
    \A i \in DOMAIN inbound : inbound[i] \in Owners =>
        /\ token[inbound[i]] = "acked"
        /\ \A j \in DOMAIN inbound : inbound[j] = inbound[i] => i = j

CallInv == MqttTypeOK /\ CallMatches /\ TokenPlaces /\ AcksAwaited

(* The steps outside paho that a call of (Un)SubscribeGatewayTX begins and *)
(* ends with.                                                              *)
Calls ==
    \/ CallSucceeds
    \/ CallFails
    \/ \E m \in MACs : Begin("subscribe", m) \/ Begin("unsubscribe", m)

-----------------------------------------------------------------------------
LEMMA InitCallInv == MqttInit => CallInv
  <1> SUFFICES ASSUME MqttInit PROVE CallInv
    OBVIOUS
  <1> USE OwnersAssumption, BoundsAssumption DEF Owners
  <1>1. PICK r \in Reconnectors :
            at = [o \in Owners |-> IF o = r THEN "lock" ELSE "idle"]
    BY DEF MqttInit
  <1>2. at[Caller] = "idle"
    BY <1>1
  <1>3. at \in [Owners -> {"idle", "lock", "route", "delete", "wait"}]
    BY <1>1
  <1>4. MqttTypeOK
    BY <1>3 DEF MqttInit, MqttTypeOK
  <1>5. CallMatches
    BY <1>2 DEF MqttInit, CallMatches
  <1>6. TokenPlaces /\ AcksAwaited
    BY DEF MqttInit, TokenPlaces, AcksAwaited
  <1> QED
    BY <1>4, <1>5, <1>6 DEF CallInv

(* Steps that leave the calls, their tokens and the topics alone.          *)
LEMMA RestKeepsCallInv ==
    ASSUME CallInv,
           \/ BrokerPublishes \/ TakePublish \/ Enqueue \/ ConnectionBreaks
           \/ Dispatch \/ DropDownlink
           \/ \E p \in Pumps : PublishWritten(p) \/ PublishLost(p) \/ Publish(p)
           \/ \E m \in MACs : HandOverDownlink(m)
    PROVE  CallInv'
  <1> USE BoundsAssumption
  <1> USE DEF CallInv, MqttTypeOK, CallMatches, TokenPlaces, AcksAwaited, callVars,
              brokerVars, routerVars, RouterStep, PubStep
  <1>0. Owners \cap MACs = {}
    BY OwnersAssumption
  <1>1. CASE BrokerPublishes
    BY <1>0, <1>1 DEF BrokerPublishes
  <1>2. CASE TakePublish
    BY <1>0, <1>2 DEF TakePublish
  <1>3. CASE Enqueue
    BY <1>3 DEF Enqueue
  <1>4. CASE ConnectionBreaks
    BY <1>4 DEF ConnectionBreaks
  <1>5. CASE Dispatch
    BY <1>5 DEF Dispatch
  <1>6. CASE DropDownlink
    BY <1>6 DEF DropDownlink
  <1>7. ASSUME NEW p \in Pumps, PublishWritten(p) \/ PublishLost(p) \/ Publish(p)
        PROVE  CallInv'
    BY <1>7 DEF PublishWritten, PublishLost, Publish
  <1>8. ASSUME NEW m \in MACs, HandOverDownlink(m)
        PROVE  CallInv'
    BY <1>8 DEF HandOverDownlink
  <1> QED
    BY <1>1, <1>2, <1>3, <1>4, <1>5, <1>6, <1>7, <1>8

LEMMA StepsKeepCallInv ==
    ASSUME CallInv,
           \/ Backend \/ Calls \/ CleanUp \/ Reconnect \/ TakeSuback
           \/ \E o \in Owners : WriteSubscribe(o) \/ BrokerSubscribes(o)
    PROVE  CallInv'
  <1> USE OwnersAssumption, BoundsAssumption
  <1> USE DEF CallInv, MqttTypeOK, CallMatches, TokenPlaces, AcksAwaited, callVars,
              brokerVars, routerVars, CallStep, Owners
  <1>1. CASE Lock
    BY <1>1 DEF Lock
  <1>2. ASSUME NEW r \in Reconnectors, RLock(r) PROVE CallInv'
    BY <1>2 DEF RLock
  <1>3. ASSUME NEW r \in Reconnectors, Resubscribed(r) PROVE CallInv'
    BY <1>3 DEF Resubscribed
  <1>4. ASSUME NEW o \in Owners, AddRoute(o) PROVE CallInv'
    BY <1>4 DEF AddRoute
  <1>5. CASE QueueUnsubscribe \/ DeleteRoute
    <2>1. CASE QueueUnsubscribe
      BY <2>1 DEF QueueUnsubscribe
    <2>2. CASE DeleteRoute
      BY <2>2 DEF DeleteRoute
    <2> QED
      BY <1>5, <2>1, <2>2
  <1>6. CASE CallSucceeds \/ CallFails
    <2>1. subscribed' \subseteq MACs
      BY <1>6 DEF CallSucceeds, CallFails, Applied, Asked, Call
    <2>2. CallMatches'
      BY <1>6 DEF CallSucceeds, CallFails, Done
    <2> QED
      BY <1>6, <2>1, <2>2 DEF CallSucceeds, CallFails, Done
  <1>7. ASSUME NEW op \in {"subscribe", "unsubscribe"}, NEW m \in MACs,
               Begin(op, m)
        PROVE  CallInv'
    <2>1. call' \subseteq Call /\ call' # {}
      BY <1>7 DEF Begin, Call
    <2> QED
      BY <1>7, <2>1 DEF Begin
  <1>8. CASE CleanUp
    BY <1>8 DEF CleanUp
  <1>9. CASE Reconnect
    BY <1>9 DEF Reconnect
  <1>10. CASE TakeSuback
    BY <1>10 DEF TakeSuback
  <1>11. ASSUME NEW o \in Owners, WriteSubscribe(o) PROVE CallInv'
    BY <1>11 DEF WriteSubscribe
  <1>12. ASSUME NEW o \in Owners, BrokerSubscribes(o) PROVE CallInv'
    BY <1>12 DEF BrokerSubscribes, Applied, Asked, Call
  <1> QED
    BY <1>1, <1>2, <1>3, <1>4, <1>5, <1>6, <1>7, <1>8, <1>9, <1>10, <1>11, <1>12
       DEF Backend, Calls

-----------------------------------------------------------------------------
(* The mutex.                                                              *)

LEMMA StepsExclude ==
    ASSUME CallInv, MutexExcludes, [MqttNext]_mqttVars
    PROVE  MutexExcludes'
  <1> USE OwnersAssumption DEF Owners
  <1>0. at \in [Owners -> {"idle", "lock", "route", "delete", "wait"}]
    BY DEF CallInv, MqttTypeOK
  <1>1. CASE at' = at
    BY <1>1 DEF MutexExcludes, Inside
  <1>2. CASE Lock
    BY <1>0, <1>2 DEF Lock, MutexExcludes, Inside
  <1>3. ASSUME NEW r \in Reconnectors, RLock(r) PROVE MutexExcludes'
    BY <1>0, <1>3 DEF RLock, MutexExcludes, Inside
  <1>4. ASSUME NEW r \in Reconnectors, Resubscribed(r) PROVE MutexExcludes'
    <2>1. Inside(r)
      BY <1>4 DEF Resubscribed, Inside, CallInv, TokenPlaces
    <2> QED
      BY <1>0, <1>4, <2>1 DEF Resubscribed, MutexExcludes, Inside
  <1>5. ASSUME NEW o \in Owners, AddRoute(o) PROVE MutexExcludes'
    BY <1>0, <1>5 DEF AddRoute, MutexExcludes, Inside
  <1>6. CASE QueueUnsubscribe \/ DeleteRoute
    BY <1>0, <1>6 DEF QueueUnsubscribe, DeleteRoute, MutexExcludes, Inside
  <1>7. CASE Calls
    BY <1>0, <1>7 DEF Calls, CallSucceeds, CallFails, Done, Begin, MutexExcludes,
                      Inside
  <1>8. CASE Reconnect
    BY <1>0, <1>8 DEF Reconnect, MutexExcludes, Inside
  <1>9. CASE Paho /\ ~Reconnect
    <2>1. at' = at
      BY <1>9 DEF Paho, WriteSubscribe, BrokerSubscribes, BrokerPublishes,
                  TakeSuback, TakePublish, Enqueue, ConnectionBreaks, CleanUp,
                  Dispatch, DropDownlink, PublishWritten, PublishLost,
                  RouterStep, PubStep, callVars
    <2> QED
      BY <1>1, <2>1
  <1>10. CASE UNCHANGED mqttVars
    BY <1>1, <1>10 DEF mqttVars, callVars
  <1>11. ASSUME NEW m \in MACs, HandOverDownlink(m) PROVE MutexExcludes'
    BY <1>1, <1>11 DEF HandOverDownlink, RouterStep, callVars
  <1>12. ASSUME NEW p \in Pumps, Publish(p) PROVE MutexExcludes'
    BY <1>1, <1>12 DEF Publish, PubStep, callVars
  <1> QED
    BY <1>2, <1>3, <1>4, <1>5, <1>6, <1>7, <1>8, <1>9, <1>10, <1>11, <1>12
       DEF MqttNext, Backend, Calls

-----------------------------------------------------------------------------
(* The topics.                                                             *)

(* A call whose token failed finds no topic at the broker, one that was    *)
(* granted its UNSUBSCRIBE does not find that topic.                       *)
CallersTopics ==
    /\ token[Caller] = "error" => session = {}
    /\ token[Caller] \in {"acked", "ok"}
          => session \cap Asked("unsubscribe") = {}

(* An onConnected that has yet to read b.gateways, or to have them granted.*)
Pending(r) ==
    \/ at[r] \in {"lock", "route"}
    \/ at[r] = "wait" /\ token[r] \in {"queued", "sent", "error"}

(* What the connection misses, some onConnected has still to ask for; what *)
(* a call asked of an earlier connection, one that reads b.gateways after  *)
(* the call.                                                               *)
RestoreInv ==
    conn = "up" =>
       /\ \/ subscribed \subseteq session \cup Asked("unsubscribe")
          \/ \E r \in Reconnectors : Pending(r)
       /\ token[Caller] \in {"acked", "ok"} =>
             \/ Asked("subscribe") \subseteq session
             \/ \E r \in Reconnectors : at[r] = "lock"
       /\ token[Caller] = "error" => \E r \in Reconnectors : at[r] = "lock"

TopicInv == NoStrayTopics /\ CallersTopics /\ RestoreInv

MqttInv == CallInv /\ MutexExcludes /\ TopicInv

LEMMA InitTopicInv == MqttInit => MutexExcludes /\ TopicInv
  <1> SUFFICES ASSUME MqttInit PROVE MutexExcludes /\ TopicInv
    OBVIOUS
  <1> USE OwnersAssumption DEF Owners
  <1>1. PICK r \in Reconnectors :
            at = [o \in Owners |-> IF o = r THEN "lock" ELSE "idle"]
    BY DEF MqttInit
  <1>2. MutexExcludes
    BY <1>1 DEF MutexExcludes, Inside
  <1>3. NoStrayTopics
    BY DEF MqttInit, NoStrayTopics
  <1>4. token[Caller] = "none" /\ subscribed = {}
    BY DEF MqttInit
  <1> QED
    BY <1>2, <1>3, <1>4 DEF TopicInv, CallersTopics, RestoreInv

LEMMA CallsMACs ==
    ASSUME call \subseteq Call
    PROVE  /\ {c.mac : c \in call} = Asked("subscribe") \cup Asked("unsubscribe")
           /\ call = {} => Asked("subscribe") = {} /\ Asked("unsubscribe") = {}
  BY DEF Asked, Call

(* Steps that leave the calls, the tokens and the topics alone.            *)
LEMMA FrameKeepsTopicInv ==
    ASSUME TopicInv, UNCHANGED <<subscribed, callVars, brokerVars>>
    PROVE  TopicInv'
  <1>1. Asked("subscribe")' = Asked("subscribe")
        /\ Asked("unsubscribe")' = Asked("unsubscribe")
    BY DEF Asked, callVars
  <1> QED
    BY <1>1 DEF TopicInv, NoStrayTopics, CallersTopics, RestoreInv, Pending,
                callVars, brokerVars

(* Steps of the goroutines, which leave the topics and b.gateways alone.   *)
LEMMA BackendKeepsTopicInv ==
    ASSUME CallInv, MutexExcludes, TopicInv, Backend
    PROVE  TopicInv'
  <1> USE OwnersAssumption DEF Owners
  <1>1. /\ at \in [Owners -> {"idle", "lock", "route", "delete", "wait"}]
        /\ token \in [Owners -> {"none", "queued", "sent", "acked", "ok", "error"}]
    BY DEF CallInv, MqttTypeOK
  <1>2. UNCHANGED <<subscribed, call, conn, session>>
    BY DEF Backend, Lock, RLock, Resubscribed, AddRoute, QueueUnsubscribe,
           DeleteRoute, CallStep, brokerVars
  <1>3. UNCHANGED <<Asked("subscribe"), Asked("unsubscribe")>>
    BY <1>2 DEF Asked
  <1>4. NoStrayTopics'
    BY <1>2 DEF TopicInv, NoStrayTopics
  <1>5. token'[Caller] \in {token[Caller], "queued"}
    BY <1>1 DEF Backend, Lock, RLock, Resubscribed, AddRoute, QueueUnsubscribe,
                DeleteRoute
  <1>6. CallersTopics'
    BY <1>2, <1>3, <1>5 DEF TopicInv, CallersTopics
  <1>7. CASE UNCHANGED token /\ \A r \in Reconnectors : at'[r] = at[r]
    BY <1>2, <1>3, <1>4, <1>6, <1>7 DEF TopicInv, RestoreInv, Pending
  <1>8. ASSUME NEW r \in Reconnectors, RLock(r) PROVE TopicInv'
    <2>1. token[Caller] = "none"
      BY <1>1, <1>8 DEF RLock, Inside, CallInv, TokenPlaces
    <2>2. subscribed = {} \/ Pending(r)'
      BY <1>1, <1>8 DEF RLock, Pending
    <2> QED
      BY <1>2, <1>4, <1>6, <1>8, <2>1, <2>2 DEF RLock, TopicInv, RestoreInv
  <1>9. ASSUME NEW r \in Reconnectors,
               Resubscribed(r) \/ AddRoute(r)
        PROVE  TopicInv'
    <2>1. at[r] # "lock"
      BY <1>9 DEF Resubscribed, AddRoute, CallInv, TokenPlaces
    <2>2. /\ token'[Caller] = token[Caller]
          /\ \A q \in Reconnectors \ {r} : at'[q] = at[q] /\ token'[q] = token[q]
      BY <1>1, <1>9 DEF Resubscribed, AddRoute
    <2>3. Pending(r) => Pending(r)'
      BY <1>1, <1>9 DEF Resubscribed, AddRoute, Pending, CallInv, TokenPlaces
    <2>4. /\ (\E q \in Reconnectors : Pending(q))
                => (\E q \in Reconnectors : Pending(q))'
          /\ (\E q \in Reconnectors : at[q] = "lock")
                => (\E q \in Reconnectors : at[q] = "lock")'
      BY <2>1, <2>2, <2>3 DEF Pending
    <2> QED
      BY <1>2, <1>3, <1>4, <1>6, <2>2, <2>4 DEF TopicInv, RestoreInv
  <1>10. CASE AddRoute(Caller) \/ QueueUnsubscribe
    <2>1. /\ token'[Caller] = "queued"
          /\ \A q \in Reconnectors : at'[q] = at[q] /\ token'[q] = token[q]
      BY <1>1, <1>10 DEF AddRoute, QueueUnsubscribe
    <2> QED
      BY <1>2, <1>3, <1>4, <1>6, <2>1 DEF TopicInv, RestoreInv, Pending
  <1>11. CASE Lock \/ DeleteRoute
    BY <1>1, <1>7, <1>11 DEF Lock, DeleteRoute
  <1> QED
    BY <1>8, <1>9, <1>10, <1>11 DEF Backend

(* Beginning and ending a call.                                            *)
LEMMA CallsKeepTopicInv ==
    ASSUME CallInv, MutexExcludes, TopicInv, Calls
    PROVE  TopicInv'
  <1> USE OwnersAssumption DEF Owners
  <1>1. /\ at \in [Owners -> {"idle", "lock", "route", "delete", "wait"}]
        /\ token \in [Owners -> {"none", "queued", "sent", "acked", "ok", "error"}]
        /\ call \subseteq Call
    BY DEF CallInv, MqttTypeOK
  <1>2. /\ UNCHANGED <<conn, session>>
        /\ token'[Caller] = "none"
        /\ \A q \in Reconnectors : at'[q] = at[q] /\ token'[q] = token[q]
    BY <1>1 DEF Calls, CallSucceeds, CallFails, Begin, Done, CallStep, brokerVars,
                CallInv, TokenPlaces
  <1>3. CallersTopics'
    BY <1>2 DEF CallersTopics
  <1>4. (\E q \in Reconnectors : Pending(q))
           => (\E q \in Reconnectors : Pending(q))'
    BY <1>2 DEF Pending
  <1>5. CASE \E m \in MACs : Begin("subscribe", m) \/ Begin("unsubscribe", m)
    <2>1. call = {} /\ UNCHANGED subscribed
      BY <1>5 DEF Begin, CallInv, CallMatches
    <2>2. Asked("unsubscribe") = {} /\ {c.mac : c \in call} = {}
      BY <2>1 DEF Asked
    <2> QED
      BY <1>2, <1>3, <1>4, <2>1, <2>2 DEF TopicInv, NoStrayTopics, RestoreInv
  <1>6. CASE CallSucceeds
    <2>1. /\ subscribed' = (subscribed \cup Asked("subscribe"))
                               \ Asked("unsubscribe")
          /\ session \cap Asked("unsubscribe") = {}
      BY <1>6 DEF CallSucceeds, Applied, TopicInv, CallersTopics
    <2>2. NoStrayTopics'
      BY <1>1, <1>2, <2>1, CallsMACs DEF TopicInv, NoStrayTopics
    <2>3. conn = "up" => \/ subscribed' \subseteq session
                         \/ \E q \in Reconnectors : Pending(q)
      BY <1>6, <2>1 DEF CallSucceeds, TopicInv, RestoreInv, Pending
    <2> QED
      BY <1>2, <1>3, <1>4, <2>2, <2>3 DEF TopicInv, RestoreInv
  <1>7. CASE CallFails
    <2>1. UNCHANGED subscribed /\ session = {}
      BY <1>7 DEF CallFails, TopicInv, CallersTopics
    <2>2. NoStrayTopics'
      BY <1>2, <2>1 DEF NoStrayTopics
    <2>3. conn = "up" => \E q \in Reconnectors : Pending(q)
      BY <1>7 DEF CallFails, TopicInv, RestoreInv, Pending
    <2> QED
      BY <1>2, <1>3, <1>4, <2>2, <2>3 DEF TopicInv, RestoreInv
  <1> QED
    BY <1>5, <1>6, <1>7 DEF Calls

(* A (UN)SUBSCRIBE on its way to the broker and back.                      *)
LEMMA TokensKeepTopicInv ==
    ASSUME CallInv, MutexExcludes, TopicInv,
           TakeSuback \/ \E o \in Owners : WriteSubscribe(o) \/ BrokerSubscribes(o)
    PROVE  TopicInv'
  <1> USE OwnersAssumption DEF Owners
  <1>1. /\ token \in [Owners -> {"none", "queued", "sent", "acked", "ok", "error"}]
        /\ call \subseteq Call
    BY DEF CallInv, MqttTypeOK
  <1>2. UNCHANGED <<subscribed, at, call, conn>>
    BY DEF TakeSuback, WriteSubscribe, BrokerSubscribes, brokerVars
  <1>3. UNCHANGED <<Asked("subscribe"), Asked("unsubscribe")>>
    BY <1>2 DEF Asked
  <1>4. CASE TakeSuback
    <2>1. PICK o \in Owners : token' = [token EXCEPT ![o] = "ok"]
                               /\ token[o] = "acked"
      <3>1. inbound # <<>> /\ inbound \in Seq(MACs \cup Owners)
        BY <1>4 DEF TakeSuback, CallInv, MqttTypeOK
      <3>2. 1 \in DOMAIN inbound /\ Head(inbound) = inbound[1]
        BY <3>1
      <3> QED
        BY <1>4, <3>2 DEF TakeSuback, CallInv, AcksAwaited
    <2>2. UNCHANGED session
      BY <1>4 DEF TakeSuback, brokerVars
    <2> QED
      BY <1>1, <1>2, <1>3, <2>1, <2>2
         DEF TopicInv, NoStrayTopics, CallersTopics, RestoreInv, Pending
  <1>5. ASSUME NEW o \in Owners, WriteSubscribe(o) PROVE TopicInv'
    <2>1. /\ token' = [token EXCEPT ![o] = "sent"] /\ token[o] = "queued"
          /\ UNCHANGED session
      BY <1>5 DEF WriteSubscribe, brokerVars
    <2> QED
      BY <1>1, <1>2, <1>3, <2>1
         DEF TopicInv, NoStrayTopics, CallersTopics, RestoreInv, Pending
  <1>6. ASSUME BrokerSubscribes(Caller) PROVE TopicInv'
    <2>1. /\ token'[Caller] = "acked"
          /\ \A q \in Reconnectors : token'[q] = token[q]
          /\ session' = (session \cup Asked("subscribe")) \ Asked("unsubscribe")
      BY <1>1, <1>6 DEF BrokerSubscribes, Applied
    <2>2. NoStrayTopics'
      BY <1>1, <1>2, <2>1, CallsMACs DEF TopicInv, NoStrayTopics
    <2>3. CallersTopics'
      BY <1>2, <1>3, <2>1 DEF CallersTopics
    <2>4. Asked("subscribe") \cap Asked("unsubscribe") = {}
      BY DEF CallInv, CallMatches, Asked
    <2>5. RestoreInv'
      BY <1>2, <1>3, <2>1, <2>4 DEF TopicInv, RestoreInv, Pending
    <2> QED
      BY <2>2, <2>3, <2>5 DEF TopicInv
  <1>7. ASSUME NEW r \in Reconnectors, BrokerSubscribes(r) PROVE TopicInv'
    <2>1. session' = session \cup subscribed
      BY <1>7 DEF BrokerSubscribes, Applied
    <2>2. token'[Caller] = token[Caller] /\ token[Caller] = "none"
      BY <1>1, <1>7 DEF BrokerSubscribes, CallInv, TokenPlaces, MutexExcludes, Inside
    <2> QED
      BY <1>2, <1>3, <2>1, <2>2
         DEF TopicInv, NoStrayTopics, CallersTopics, RestoreInv
  <1> QED
    BY <1>4, <1>5, <1>6, <1>7

(* A connection breaks, is cleaned up after and made again.                *)
LEMMA ConnectionsKeepTopicInv ==
    ASSUME CallInv, MutexExcludes, TopicInv,
           ConnectionBreaks \/ CleanUp \/ Reconnect
    PROVE  TopicInv'
  <1> USE OwnersAssumption DEF Owners
  <1>1. /\ at \in [Owners -> {"idle", "lock", "route", "delete", "wait"}]
        /\ token \in [Owners -> {"none", "queued", "sent", "acked", "ok", "error"}]
    BY DEF CallInv, MqttTypeOK
  <1>2. UNCHANGED <<subscribed, call>>
    BY DEF ConnectionBreaks, CleanUp, Reconnect, callVars
  <1>3. UNCHANGED Asked("unsubscribe")
    BY <1>2 DEF Asked
  <1>4. CASE ConnectionBreaks
    BY <1>2, <1>3, <1>4
       DEF ConnectionBreaks, callVars, TopicInv, NoStrayTopics, CallersTopics,
           RestoreInv
  <1>5. CASE CleanUp
    BY <1>2, <1>3, <1>5
       DEF CleanUp, TopicInv, NoStrayTopics, CallersTopics, RestoreInv
  <1>6. CASE Reconnect
    <2>1. PICK r \in Reconnectors : at' = [at EXCEPT ![r] = "lock"]
      BY <1>6 DEF Reconnect
    <2>2. Pending(r)' /\ at'[r] = "lock"
      BY <1>1, <2>1 DEF Pending
    <2> QED
      BY <1>2, <1>3, <1>6, <2>2
         DEF Reconnect, TopicInv, NoStrayTopics, CallersTopics, RestoreInv
  <1> QED
    BY <1>4, <1>5, <1>6

-----------------------------------------------------------------------------
LEMMA InitMqttInv == MqttInit => MqttInv
  BY InitCallInv, InitTopicInv DEF MqttInv

LEMMA StepsKeepMqttInv == MqttInv /\ [MqttNext]_mqttVars => MqttInv'
  <1> SUFFICES ASSUME MqttInv, [MqttNext]_mqttVars PROVE MqttInv'
    OBVIOUS
  <1> USE DEF MqttInv
  <1>1. MutexExcludes'
    BY StepsExclude
  <1>2. CASE Backend \/ Calls
    BY <1>1, <1>2, StepsKeepCallInv, BackendKeepsTopicInv, CallsKeepTopicInv
  <1>3. CASE TakeSuback \/ \E o \in Owners : WriteSubscribe(o) \/ BrokerSubscribes(o)
    BY <1>1, <1>3, StepsKeepCallInv, TokensKeepTopicInv
  <1>4. CASE CleanUp \/ Reconnect
    BY <1>1, <1>4, StepsKeepCallInv, ConnectionsKeepTopicInv
  <1>5. CASE ConnectionBreaks
    BY <1>1, <1>5, RestKeepsCallInv, ConnectionsKeepTopicInv
  <1>6. CASE \/ BrokerPublishes \/ TakePublish \/ Enqueue \/ Dispatch
             \/ DropDownlink
             \/ \E p \in Pumps : PublishWritten(p) \/ PublishLost(p) \/ Publish(p)
             \/ \E m \in MACs : HandOverDownlink(m)
    <2>1. UNCHANGED <<subscribed, callVars, brokerVars>>
      BY <1>6 DEF BrokerPublishes, TakePublish, Enqueue, Dispatch, DropDownlink,
                  PublishWritten, PublishLost, Publish, HandOverDownlink,
                  RouterStep, PubStep
    <2> QED
      BY <1>1, <1>6, <2>1, RestKeepsCallInv, FrameKeepsTopicInv
  <1>7. CASE UNCHANGED mqttVars
    <2>1. UNCHANGED <<subscribed, callVars, brokerVars, inbound, holding, incoming,
                      delivering, pub>>
      BY <1>7 DEF mqttVars, routerVars
    <2>2. CallInv'
      BY <2>1 DEF CallInv, MqttTypeOK, CallMatches, TokenPlaces, AcksAwaited,
                  callVars, brokerVars
    <2> QED
      BY <1>1, <2>1, <2>2, FrameKeepsTopicInv
  <1> QED
    BY <1>2, <1>3, <1>4, <1>5, <1>6, <1>7 DEF MqttNext, Paho, Calls

LEMMA MqttInvariant == MqttSpec => []MqttInv
  BY InitMqttInv, StepsKeepMqttInv, PTL DEF MqttSpec

(* Every variable has its type, in every state of the MQTT backend; the    *)
(* packets in transit and the messages queued stay within their bounds.    *)
THEOREM MqttTypesHold == MqttSpec => []MqttTypeOK
  <1>1. MqttInv => MqttTypeOK
    BY DEF MqttInv, CallInv
  <1> QED
    BY <1>1, MqttInvariant, PTL

(* b.mutex keeps (Un)SubscribeGatewayTX and every onConnected apart, also  *)
(* an onConnected that goes round its loop without letting go of the lock. *)
THEOREM MutexHolds == MqttSpec => []MutexExcludes
  <1>1. MqttInv => MutexExcludes
    BY DEF MqttInv
  <1> QED
    BY <1>1, MqttInvariant, PTL

(* The broker never has a topic of a gateway that b.gateways dropped.      *)
THEOREM TopicsAreKnown == MqttSpec => []NoStrayTopics
  <1>1. MqttInv => NoStrayTopics
    BY DEF MqttInv, TopicInv
  <1> QED
    BY <1>1, MqttInvariant, PTL

(* When the onConnected goroutines are done, the connection has the topic  *)
(* of every gateway in b.gateways, however many connections broke and at   *)
(* whatever point of a call.                                               *)
THEOREM TopicsAreRestored == MqttSpec => []AllTopicsRestored
  <1>1. MqttInv => AllTopicsRestored
    BY DEF MqttInv, TopicInv, RestoreInv, Pending, AllTopicsRestored
  <1> QED
    BY <1>1, MqttInvariant, PTL
=============================================================================
