-------------------------- MODULE DirectoryProofs ---------------------------
(***************************************************************************)
(* The gateway backend implements the directory: every one of its steps    *)
(* is a step of GatewayDirectory or leaves the directory as it is.         *)
(*                                                                         *)
(* Who matters, per directory step:                                        *)
(*   Learn         set, in both its forms                                  *)
(*   Owe           handlePushData, when it has decoded                     *)
(*   Acknowledge   the two sends of an acknowledgement                     *)
(*   Look, Ship    the lookup and the channel send of Send                 *)
(*   Leave         sendPackets, also when its write fails                  *)
(*   Forget        the delete of the cleanup (needs VictimsExpired)        *)
(*   Pass          a tick                                                  *)
(***************************************************************************)
EXTENDS GatewayBackendProofs

(* The acknowledgements the handlers owe, as the instance substitutes them.*)
Owing == [h \in Handlers |-> AckOwed(h)]

DirectoryStep == Directory!DirectoryNext \/ UNCHANGED Directory!directoryVars

(* Both modules extend SemtechPackets: their decoders and packets are the  *)
(* same.                                                                   *)
LEMMA SamePackets ==
    ASSUME NEW a, NEW m, NEW version, NEW address
    PROVE  /\ Directory!AcceptedPull(a) <=> AcceptedPull(a)
           /\ Directory!AcceptedPush(a) <=> AcceptedPush(a)
           /\ Directory!PullACKFor(a) = PullACKFor(a)
           /\ Directory!PushACKFor(a) = PushACKFor(a)
           /\ Directory!PullRespFor(m, version, address)
                = PullRespFor(m, version, address)
  BY DEF AcceptedPull, Directory!AcceptedPull,
         AcceptedPush, Directory!AcceptedPush,
         HasPacketType, Directory!HasPacketType,
         UnmarshalsAsPullData, Directory!UnmarshalsAsPullData,
         UnmarshalsAsPushData, Directory!UnmarshalsAsPushData,
         protocolSupported, Directory!protocolSupported,
         ProtocolVersion1, Directory!ProtocolVersion1,
         ProtocolVersion2, Directory!ProtocolVersion2,
         PushData, Directory!PushData, PullData, Directory!PullData,
         PushACK, Directory!PushACK, PullACK, Directory!PullACK,
         PullResp, Directory!PullResp,
         PullACKFor, Directory!PullACKFor, PushACKFor, Directory!PushACKFor,
         PullRespFor, Directory!PullRespFor

LEMMA OwingSame ==
    ASSUME \A h \in Handlers : task'[h].pc = task[h].pc
                               /\ task'[h].job = task[h].job
    PROVE  Owing' = Owing
  BY DEF Owing, AckOwed, At, Job

(* A step of handler h that leaves what the others do alone changes the    *)
(* debt of h only.                                                         *)
LEMMA OwingOne ==
    ASSUME NEW h \in Handlers,
           \A k \in Handlers : k # h => task'[k] = task[k]
    PROVE  Owing' = [Owing EXCEPT ![h] = AckOwed(h)']
  BY DEF Owing, AckOwed, At, Job

LEMMA InitDirectory == Init => Directory!DirectoryInit
  BY DEF Init, Directory!DirectoryInit, AckOwed, At, Idle

(* The store of set is the step that learns a route.                       *)
LEMMA StoreLearns ==
    ASSUME Typed, NEW h \in Handlers, task[h].pc \in {"lock", "onNew"},
           Store(h), UNCHANGED <<txOut, writing>>,
           \A k \in Handlers : k # h => task'[k] = task[k]
    PROVE  Directory!Learn(h)
  <1>1. Job(h) \in Arrivals /\ AcceptedPull(Job(h)) /\ task[h].stamp \in Ages
    BY DEF Typed, TypeOK, TasksAgree, At, Job, Task
  <1>2. AckOwed(h)' = {PullACKFor(Job(h))}
    <2>1. task'[h].pc = "ack" /\ task'[h].job = Job(h)
      BY DEF Store, Typed, TypeOK, Task, Job
    <2> QED
      BY <1>1, <2>1 DEF AckOwed, At, Job
  <1>3. Owing' = [Owing EXCEPT ![h] = {PullACKFor(Job(h))}]
    BY <1>2, OwingOne
  <1>4. gateways' = [m \in DOMAIN gateways \cup {Job(h).data.mac} |->
                        IF m = Job(h).data.mac
                            THEN [addr |-> Job(h).src,
                                  ver  |-> Job(h).data.ver,
                                  age  |-> task[h].stamp]
                            ELSE gateways[m]]
    BY DEF Store, NewRoute, Mac
  <1>5. /\ Directory!AcceptedPull(Job(h))
        /\ Directory!PullACKFor(Job(h)) = PullACKFor(Job(h))
    BY <1>1, SamePackets
  <1> QED
    BY <1>1, <1>3, <1>4, <1>5
       DEF Directory!Learn, Directory!Ages, Ages, Owing

LEMMA AckIsAcknowledge ==
    ASSUME Typed, NEW h \in Handlers, SendPullAck(h) \/ SendPushAck(h)
    PROVE  Directory!Acknowledge(h)
  <1>1. /\ At(h, "ack")
        /\ writing = {}
        /\ UNCHANGED <<gateways, txOut>>
        /\ ~At(h, "ack")'
    BY DEF SendPullAck, SendPushAck, SenderReceives, Return, Goto, Idle, At,
           Typed, TypeOK, Task, HandlerStep, registryVars, txVars
  <1>2. writing' = AckOwed(h) /\ AckOwed(h) # {}
    <2>1. ~(AcceptedPull(Job(h)) /\ AcceptedPush(Job(h)))
      BY DEF AcceptedPull, AcceptedPush, UnmarshalsAsPullData,
             UnmarshalsAsPushData, PullData, PushData
    <2> QED
      BY <1>1, <2>1 DEF SendPullAck, SendPushAck, AckOwed
  <1>3. Owing' = [Owing EXCEPT ![h] = {}]
    <2>1. \A k \in Handlers : k # h => task'[k] = task[k]
      BY HandlerIsLocal DEF Handle
    <2>2. AckOwed(h)' = {}
      BY <1>1 DEF AckOwed
    <2> QED
      BY <2>1, <2>2, OwingOne
  <1>4. Owing[h] = AckOwed(h)
    BY DEF Owing
  <1> QED
    BY <1>1, <1>2, <1>3, <1>4 DEF Directory!Acknowledge, Owing

LEMMA DecodePushOwes ==
    ASSUME Typed, NEW h \in Handlers, DecodePush(h)
    PROVE  Directory!Owe(h)
  <1>1. Job(h) \in Arrivals /\ AcceptedPush(Job(h))
    BY DEF DecodePush, Typed, TasksAgree, At
  <1>2. ~AcceptedPull(Job(h))
    BY <1>1 DEF AcceptedPull, AcceptedPush, UnmarshalsAsPullData,
                UnmarshalsAsPushData, PullData, PushData
  <1>3. task'[h].pc = "ack" /\ task'[h].job = Job(h)
    BY DEF DecodePush, Goto, Typed, TypeOK, Task, Job
  <1>4. AckOwed(h)' = {PushACKFor(Job(h))}
    BY <1>2, <1>3 DEF AckOwed, At, Job
  <1>5. Owing' = [Owing EXCEPT ![h] = {PushACKFor(Job(h))}]
    BY <1>4, OwingOne, HandlerIsLocal DEF Handle
  <1>6. UNCHANGED <<gateways, txOut, writing>>
    BY DEF DecodePush, HandlerStep, registryVars, txVars
  <1>7. /\ Directory!AcceptedPush(Job(h))
        /\ Directory!PushACKFor(Job(h)) = PushACKFor(Job(h))
    BY <1>1, SamePackets
  <1> QED
    BY <1>1, <1>5, <1>6, <1>7 DEF Directory!Owe, Owing

(* The other steps of a handler neither contract nor pay a debt.           *)
LEMMA QuietHandler ==
    ASSUME Typed, NEW h \in Handlers, Handle(h),
           ~SetKnown(h), ~OnNewSucceeds(h), ~DecodePush(h),
           ~SendPullAck(h), ~SendPushAck(h)
    PROVE  UNCHANGED Directory!directoryVars
  <1>1. UNCHANGED <<gateways, txOut, writing>>
    BY HandlerIsLocal, RegistryWrites
       DEF Handle, Receive, Discard, DecodePull, SetNew, OnNewFails,
           ForwardStat, ForwardRX, EndRX
  <1>2. ~At(h, "ack") /\ ~At(h, "ack")'
    <2>1. task \in [Handlers -> Task]
      BY DEF Typed, TypeOK
    <2>2. CASE Receive(h)
      BY <2>1, <2>2 DEF Receive, Idle, Started, At
    <2>3. CASE Discard(h) \/ OnNewFails(h) \/ EndRX(h)
      BY <2>1, <2>3 DEF Discard, OnNewFails, EndRX, Return, Idle, At
    <2>4. CASE DecodePull(h) \/ SetNew(h) \/ ForwardStat(h)
      BY <2>1, <2>4 DEF DecodePull, SetNew, ForwardStat, Goto, Task, At
    <2>5. CASE ForwardRX(h)
      BY <2>1, <2>5 DEF ForwardRX, AtFrame, Task, At
    <2> QED
      BY <2>2, <2>3, <2>4, <2>5 DEF Handle
  <1>3. Owing' = Owing
    <2>1. AckOwed(h) = {} /\ AckOwed(h)' = {}
      BY <1>2 DEF AckOwed
    <2> QED
      BY <2>1, HandlerIsLocal, OwingOne DEF Owing
  <1> QED
    BY <1>1, <1>3 DEF Directory!directoryVars, Owing

LEMMA HandleImplements ==
    ASSUME Typed, NEW h \in Handlers, Handle(h)
    PROVE  DirectoryStep
  <1>1. CASE SetKnown(h) \/ OnNewSucceeds(h)
    <2>1. /\ task[h].pc \in {"lock", "onNew"}
          /\ Store(h)
          /\ UNCHANGED <<txOut, writing>>
      BY <1>1 DEF SetKnown, OnNewSucceeds, At, HandlerStep, txVars
    <2>2. Directory!Learn(h)
      BY <2>1, StoreLearns, HandlerIsLocal
    <2> QED
      BY <2>2 DEF DirectoryStep, Directory!DirectoryNext
  <1>2. CASE SendPullAck(h) \/ SendPushAck(h)
    BY <1>2, AckIsAcknowledge DEF DirectoryStep, Directory!DirectoryNext
  <1>3. CASE DecodePush(h)
    BY <1>3, DecodePushOwes DEF DirectoryStep, Directory!DirectoryNext
  <1>4. CASE /\ ~SetKnown(h) /\ ~OnNewSucceeds(h) /\ ~DecodePush(h)
             /\ ~SendPullAck(h) /\ ~SendPushAck(h)
    BY <1>4, QuietHandler DEF DirectoryStep
  <1> QED
    BY <1>1, <1>2, <1>3, <1>4

LEMMA CleanImplements ==
    ASSUME VictimsExpired, Clean
    PROVE  DirectoryStep
  <1>1. Owing' = Owing /\ UNCHANGED <<txOut, writing>>
    BY CleanRegistry, OwingSame
  <1>2. CASE OnDeleteSucceeds
    <2>1. victim \in SUBSET {m \in DOMAIN gateways : gateways[m].age > Expiry}
      BY DEF VictimsExpired, Expired
    <2>2. gateways' = [m \in DOMAIN gateways \ victim |-> gateways[m]]
      BY <1>2 DEF OnDeleteSucceeds
    <2>3. Directory!Forget
      BY <1>1, <2>1, <2>2 DEF Directory!Forget, Owing
    <2> QED
      BY <2>3 DEF DirectoryStep, Directory!DirectoryNext
  <1>3. CASE ~OnDeleteSucceeds
    <2>1. UNCHANGED gateways
      BY <1>3 DEF Clean, CleanupLock, CleanupKeep, CleanupExpired,
                  OnDeleteFails, CleanupEnds, CleanupWakes, registryVars
    <2> QED
      BY <1>1, <2>1 DEF DirectoryStep, Directory!directoryVars, Owing
  <1> QED
    BY <1>2, <1>3

LEMMA TransmitImplements ==
    ASSUME Transmit
    PROVE  DirectoryStep
  <1>1. Owing' = Owing /\ UNCHANGED gateways
    BY BystanderIsLocal, OwingSame DEF Bystander, registryVars
  <1>2. CASE TxLookup
    <2>1. PICK m \in DOMAIN gateways :
             txOut' = {PullRespFor(m, gateways[m].ver, gateways[m].addr)}
      BY <1>2 DEF TxLookup
    <2>2. Directory!PullRespFor(m, gateways[m].ver, gateways[m].addr)
            = PullRespFor(m, gateways[m].ver, gateways[m].addr)
      BY SamePackets
    <2>3. UNCHANGED writing
      BY <1>2 DEF TxLookup
    <2>4. Directory!Look
      BY <1>1, <2>1, <2>2, <2>3 DEF Directory!Look, Owing
    <2> QED
      BY <2>4 DEF DirectoryStep, Directory!DirectoryNext
  <1>3. CASE TxSend
    <2>1. Directory!Ship
      BY <1>1, <1>3 DEF TxSend, SenderReceives, Directory!Ship, Owing
    <2> QED
      BY <2>1 DEF DirectoryStep, Directory!DirectoryNext
  <1>4. CASE TxAccept \/ TxUnknown
    BY <1>1, <1>4 DEF TxAccept, TxUnknown, DirectoryStep,
                      Directory!directoryVars, Owing
  <1> QED
    BY <1>2, <1>3, <1>4 DEF Transmit

LEMMA SocketImplements ==
    ASSUME Socket
    PROVE  DirectoryStep
  <1>1. Owing' = Owing /\ UNCHANGED gateways
    BY BystanderIsLocal, OwingSame DEF Bystander, registryVars
  <1>2. UNCHANGED txOut
    BY DEF Socket, StartReader, ReadFails, StartSender, WriteUDP, WriteFails,
           SenderEnds, SocketStep, txVars
  <1>3. writing' = {} \/ writing' = writing
    BY DEF Socket, StartReader, ReadFails, StartSender, WriteUDP, WriteFails,
           SenderEnds, socketVars
  <1>4. CASE writing' = {}
    BY <1>1, <1>2, <1>4
       DEF DirectoryStep, Directory!DirectoryNext, Directory!Leave, Owing
  <1>5. CASE writing' = writing
    BY <1>1, <1>2, <1>5 DEF DirectoryStep, Directory!directoryVars, Owing
  <1> QED
    BY <1>3, <1>4, <1>5

LEMMA CloseImplements ==
    ASSUME Close
    PROVE  DirectoryStep
  <1>1. Owing' = Owing /\ UNCHANGED gateways
    BY BystanderIsLocal, OwingSame DEF Bystander, registryVars
  <1>2. UNCHANGED <<txOut, writing>>
    BY DEF Close, CloseChan, CloseConn, CloseConnFails, CloseWaits, SendPanics,
           CloseStep, txVars, socketVars
  <1> QED
    BY <1>1, <1>2 DEF DirectoryStep, Directory!directoryVars, Owing

LEMMA TickImplements ==
    ASSUME Typed, Tick
    PROVE  DirectoryStep
  <1>1. Owing' = Owing /\ UNCHANGED <<txOut, writing>>
    BY TickIsLocal, OwingSame
  <1>2. Directory!Pass
    BY <1>1 DEF Tick, Older, Directory!Pass, Owing
  <1> QED
    BY <1>2 DEF DirectoryStep, Directory!DirectoryNext

LEMMA NextImplements ==
    ASSUME Typed, VictimsExpired, [Next]_vars
    PROVE  DirectoryStep
  <1>1. CASE Next
    BY <1>1, HandleImplements, CleanImplements, TransmitImplements,
       SocketImplements, CloseImplements, TickImplements DEF Next
  <1>2. CASE UNCHANGED vars
    <2>1. Owing' = Owing
      BY <1>2, OwingSame DEF vars
    <2> QED
      BY <1>2, <2>1 DEF DirectoryStep, Directory!directoryVars, Owing, vars,
                        registryVars, txVars, socketVars
  <1> QED
    BY <1>1, <1>2

(* For every set of gateways, handlers and datagrams, and every order of   *)
(* their steps, the backend of gateway/backend.go is a directory: what it  *)
(* acknowledges it has learned, what it writes it has looked up, what it   *)
(* forgets was silent for too long.                                        *)
THEOREM ImplementsDirectory == Spec => KeepsDirectory
  <1>1. Init => Directory!DirectoryInit
    BY InitDirectory
  <1>2. Init => Typed /\ LockMatchesSections /\ VictimsExpired
    BY InitTyped, InitLock DEF Init, VictimsExpired
  <1>3. Typed /\ LockMatchesSections /\ VictimsExpired /\ [Next]_vars
          => (Typed /\ LockMatchesSections /\ VictimsExpired)'
    BY NextTyped, NextLock, NextVictims
  <1>4. Typed /\ VictimsExpired /\ [Next]_vars
          => [Directory!DirectoryNext]_(Directory!directoryVars)
    BY NextImplements DEF DirectoryStep
  <1> QED
    BY <1>1, <1>2, <1>3, <1>4, PTL
       DEF Spec, KeepsDirectory, Directory!DirectorySpec
=============================================================================
