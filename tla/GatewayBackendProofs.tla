------------------------ MODULE GatewayBackendProofs ------------------------
(***************************************************************************)
(* Theorems about GatewayBackend, for every set of gateways, addresses,    *)
(* handlers and deliverable datagrams, every expiry and cleanup period,    *)
(* and every combination of faults.                                        *)
(*                                                                         *)
(* The invariants are proved in layers; each layer is inductive relative   *)
(* to those before it:                                                     *)
(*   TypeOK, TasksAgree    shape of the state; what a handler decoded      *)
(*   LockMatchesSections   who holds the lock                              *)
(*   NewGatewayStaysNew    needs the lock                                  *)
(*   VictimsExpired        needs the lock; gives EvictsOnlyExpired         *)
(*   RoutesJustified       needs TasksAgree; gives WrittenIsJustified      *)
(*   SenderHoldsPacket     alone; gives NothingInFlightAtReturn            *)
(***************************************************************************)
EXTENDS GatewayBackend, TLAPS

(* What a handler has decoded by the time it is at a given place.          *)
TasksAgree ==
    \A h \in Handlers :
        /\ ~At(h, "free") => Job(h) \in Arrivals
        /\ task[h].pc \in {"lock", "onNew"} => AcceptedPull(Job(h))
        /\ At(h, "ack") => AcceptedPull(Job(h)) \/ AcceptedPush(Job(h))
        /\ task[h].pc \in {"stat", "rx"} => AcceptedPush(Job(h))

(* Every gateway the cleanup is deleting is in the registry and expired,   *)
(* and those it has yet to visit are still there.                          *)
VictimsExpired ==
    /\ cleaner # "onDelete" => victim = {}
    /\ cleaner \notin {"scan", "onDelete"} => todo = {}
    /\ todo \cup victim \subseteq DOMAIN gateways
    /\ todo \cap victim = {}
    /\ \A m \in victim : Expired(m)

(* Every route, and every PULL_RESP on its way to the sender, is one its   *)
(* gateway asked for.                                                      *)
RoutesJustified ==
    /\ \A m \in DOMAIN gateways : \E a \in Arrivals :
          PullsFor(a, m, gateways[m].addr, gateways[m].ver)
    /\ \A p \in txOut : Justified(p)
    /\ \A p \in writing : Justified(p)

(* Only a running sendPackets has a packet, and after Close returned it    *)
(* has none either.                                                        *)
SenderHoldsPacket ==
    /\ writing # {} => sender = "running"
    /\ NothingInFlightAtReturn

-----------------------------------------------------------------------------
(* Shapes of the values the steps build.                                   *)

LEMMA OlderIsAge ==
    ASSUME NEW age \in Ages
    PROVE  Older(age) \in Ages
  BY TimeAssumption DEF Ages, Older

LEMMA IdleIsTask == Idle \in Task
  BY TimeAssumption DEF Idle, Task, Ages

LEMMA StartedIsTask ==
    ASSUME NEW a \in Arrivals
    PROVE  Started(a) \in Task
  BY TimeAssumption DEF Started, Task, Ages

LEMMA AcksArePackets ==
    ASSUME NEW a \in Arrivals
    PROVE  PullACKFor(a) \in Packet /\ PushACKFor(a) \in Packet
  BY ArrivalsAssumption
     DEF Arrival, Datagram, PullACKFor, PushACKFor, Packet, AckPacket

LEMMA PullRespIsPacket ==
    ASSUME NEW m \in MACs, NEW r \in Route
    PROVE  PullRespFor(m, r.ver, r.addr) \in PullRespPacket
  BY DEF Route, PullRespFor, PullRespPacket

-----------------------------------------------------------------------------
(* Layer 1: TypeOK and TasksAgree.                                         *)

Typed == TypeOK /\ TasksAgree

LEMMA InitTyped == Init => Typed
  <1> SUFFICES ASSUME Init PROVE Typed
    OBVIOUS
  <1>1. DOMAIN gateways = {} /\ gateways \in [DOMAIN gateways -> Route]
    BY DEF Init
  <1>2. task \in [Handlers -> Task]
    BY IdleIsTask DEF Init
  <1>3. TasksAgree
    BY DEF Init, TasksAgree, At, Idle
  <1>4. nap \in 0 .. Period
    BY TimeAssumption DEF Init
  <1> QED
    BY <1>1, <1>2, <1>3, <1>4 DEF Init, Typed, TypeOK

(* A step of handler h that sets its task to t keeps the tasks typed.      *)
LEMMA HandlerTyped ==
    ASSUME Typed, NEW h \in Handlers, NEW t \in Task,
           task' = [task EXCEPT ![h] = t],
           t.pc # "free" => t.job \in Arrivals,
           t.pc \in {"lock", "onNew"} => AcceptedPull(t.job),
           t.pc = "ack" => AcceptedPull(t.job) \/ AcceptedPush(t.job),
           t.pc \in {"stat", "rx"} => AcceptedPush(t.job)
    PROVE  task' \in [Handlers -> Task] /\ TasksAgree'
  BY DEF Typed, TypeOK, TasksAgree, At, Job

(* What Store does to the registry is well typed.                          *)
LEMMA StoreTyped ==
    ASSUME Typed, NEW h \in Handlers, task[h].pc \in {"lock", "onNew"},
           Store(h)
    PROVE  /\ DOMAIN gateways' \subseteq MACs
           /\ gateways' \in [DOMAIN gateways' -> Route]
           /\ task' \in [Handlers -> Task]
           /\ TasksAgree'
  <1>1. task[h] \in Task /\ Job(h) \in Arrivals /\ AcceptedPull(Job(h))
    BY DEF Typed, TypeOK, TasksAgree, At, Job
  <1>2. Mac(h) \in MACs /\ NewRoute(h) \in Route
    BY <1>1, ArrivalsAssumption
       DEF Arrival, Datagram, Mac, NewRoute, Job, Task, Route
  <1>3. DOMAIN gateways' = DOMAIN gateways \cup {Mac(h)}
    BY DEF Store
  <1>4. gateways' \in [DOMAIN gateways' -> Route]
    BY <1>2, <1>3 DEF Store, Typed, TypeOK
  <1>5. DOMAIN gateways' \subseteq MACs
    BY <1>2, <1>3 DEF Typed, TypeOK
  <1> DEFINE t == [task[h] EXCEPT !.pc = "ack", !.stamp = 0]
  <1>6. t \in Task
    <2>1. 0 \in Ages
      BY TimeAssumption DEF Ages
    <2> QED
      BY <1>1, <2>1 DEF Task
  <1>7. task' = [task EXCEPT ![h] = t]
    BY DEF Store, Typed, TypeOK
  <1>8. t.pc = "ack" /\ t.job = Job(h)
    BY <1>1 DEF Task, Job
  <1> HIDE DEF t
  <1> QED
    BY <1>1, <1>4, <1>5, <1>6, <1>7, <1>8, HandlerTyped

LEMMA HandleTyped ==
    ASSUME Typed, NEW h \in Handlers, Handle(h)
    PROVE  Typed'
  <1>t. task[h] \in Task /\ task \in [Handlers -> Task]
    BY DEF Typed, TypeOK
  <1>j. ~At(h, "free") => Job(h) \in Arrivals
    BY DEF Typed, TasksAgree
  <1>r. ASSUME Return(h) PROVE task' \in [Handlers -> Task] /\ TasksAgree'
    <2>1. task' = [task EXCEPT ![h] = Idle]
      BY <1>r DEF Return
    <2> QED
      BY <2>1, IdleIsTask, HandlerTyped DEF Idle
  <1>g. ASSUME NEW place \in {"lock", "onNew", "ack", "stat", "rx"},
               Goto(h, place), Job(h) \in Arrivals,
               place \in {"lock", "onNew"} => AcceptedPull(Job(h)),
               place = "ack" => AcceptedPush(Job(h)),
               place \in {"stat", "rx"} => AcceptedPush(Job(h))
        PROVE  task' \in [Handlers -> Task] /\ TasksAgree'
    <2>1. PICK t \in Task : t = [task[h] EXCEPT !.pc = place]
      BY <1>t DEF Task
    <2>2. task' = [task EXCEPT ![h] = t]
      BY <1>g, <1>t, <2>1 DEF Goto
    <2>3. t.pc = place /\ t.job = Job(h)
      BY <1>t, <2>1 DEF Task, Job
    <2> QED
      BY <1>g, <2>2, <2>3, HandlerTyped
  <1>1. CASE Receive(h)
    <2>1. PICK a \in Arrivals : task' = [task EXCEPT ![h] = Started(a)]
      BY <1>1 DEF Receive
    <2>2. task' \in [Handlers -> Task] /\ TasksAgree'
      BY <2>1, StartedIsTask, HandlerTyped DEF Started
    <2> QED
      BY <1>1, <2>2 DEF Receive, HandlerStep, registryVars, cleanerVars, txVars,
                        lifeVars, Typed, TypeOK
  <1>2. CASE Discard(h)
    BY <1>2, <1>r DEF Discard, HandlerStep, registryVars, cleanerVars, txVars,
                      lifeVars, Typed, TypeOK
  <1>3. CASE DecodePull(h)
    <2>1. task' \in [Handlers -> Task] /\ TasksAgree'
      BY <1>3, <1>g, <1>j DEF DecodePull, At
    <2> QED
      BY <1>3, <2>1 DEF DecodePull, HandlerStep, registryVars, cleanerVars,
                        txVars, lifeVars, Typed, TypeOK
  <1>4. CASE SetKnown(h)
    BY <1>4, StoreTyped DEF SetKnown, At, HandlerStep, cleanerVars, txVars,
                            lifeVars, Typed, TypeOK
  <1>5. CASE SetNew(h)
    <2>1. task' \in [Handlers -> Task] /\ TasksAgree'
      BY <1>5, <1>g, <1>j DEF SetNew, At, Typed, TasksAgree
    <2> QED
      BY <1>5, <2>1 DEF SetNew, HandlerStep, cleanerVars, txVars, lifeVars,
                        Typed, TypeOK
  <1>6. CASE OnNewSucceeds(h)
    BY <1>6, StoreTyped DEF OnNewSucceeds, At, HandlerStep, cleanerVars, txVars,
                            lifeVars, Typed, TypeOK
  <1>7. CASE OnNewFails(h)
    BY <1>7, <1>r DEF OnNewFails, HandlerStep, cleanerVars, txVars, lifeVars,
                      Typed, TypeOK
  <1>8. CASE SendPullAck(h)
    <2>1. writing' \subseteq Packet
      BY <1>8, <1>j, AcksArePackets DEF SendPullAck, At
    <2> QED
      BY <1>8, <1>r, <2>1 DEF SendPullAck, HandlerStep, registryVars,
                              cleanerVars, txVars, lifeVars, Typed, TypeOK
  <1>9. CASE DecodePush(h)
    <2>1. task' \in [Handlers -> Task] /\ TasksAgree'
      BY <1>9, <1>g, <1>j DEF DecodePush, At
    <2> QED
      BY <1>9, <2>1 DEF DecodePush, HandlerStep, registryVars, cleanerVars,
                        txVars, lifeVars, Typed, TypeOK
  <1>10. CASE SendPushAck(h)
    <2>1. writing' \subseteq Packet
      BY <1>10, <1>j, AcksArePackets DEF SendPushAck, At
    <2>2. task' \in [Handlers -> Task] /\ TasksAgree'
      BY <1>10, <1>g, <1>j DEF SendPushAck, At
    <2> QED
      BY <1>10, <2>1, <2>2 DEF SendPushAck, HandlerStep, registryVars,
                               cleanerVars, txVars, lifeVars, Typed, TypeOK
  <1>11. CASE ForwardStat(h)
    <2>1. task' \in [Handlers -> Task] /\ TasksAgree'
      BY <1>11, <1>g, <1>j DEF ForwardStat, At, Typed, TasksAgree
    <2> QED
      BY <1>11, <2>1 DEF ForwardStat, HandlerStep, registryVars, cleanerVars,
                         txVars, lifeVars, Typed, TypeOK
  <1>12. CASE ForwardRX(h)
    <2> DEFINE t == [task[h] EXCEPT !.next = @ + 1]
    <2>1. t \in Task
      <3>1. task[h].next + 1 \in Nat \ {0}
        BY <1>t DEF Task
      <3> QED
        BY <1>t, <3>1 DEF Task
    <2>2. task' = [task EXCEPT ![h] = t]
      BY <1>12, <1>t DEF ForwardRX
    <2>3. t.pc = "rx" /\ t.job = Job(h) /\ AcceptedPush(Job(h))
      BY <1>12, <1>t DEF Task, Job, ForwardRX, AtFrame, At, Typed, TasksAgree
    <2> HIDE DEF t
    <2>4. task' \in [Handlers -> Task] /\ TasksAgree'
      BY <1>12, <1>j, <2>1, <2>2, <2>3, HandlerTyped
         DEF ForwardRX, AtFrame, At
    <2> QED
      BY <1>12, <2>4 DEF ForwardRX, HandlerStep, registryVars, cleanerVars,
                         txVars, lifeVars, Typed, TypeOK
  <1>13. CASE EndRX(h)
    BY <1>13, <1>r DEF EndRX, HandlerStep, registryVars, cleanerVars, txVars,
                       lifeVars, Typed, TypeOK
  <1> QED
    BY <1>1, <1>2, <1>3, <1>4, <1>5, <1>6, <1>7, <1>8, <1>9, <1>10, <1>11,
       <1>12, <1>13 DEF Handle

(* The steps of the other goroutines leave every task alone.               *)
LEMMA SameTasksAgree == ASSUME TasksAgree, UNCHANGED task PROVE TasksAgree'
  BY DEF TasksAgree, At, Job

LEMMA CleanTyped == ASSUME Typed, Clean PROVE Typed'
  <1> USE DEF Typed, TypeOK, registryVars, cleanerVars, CleanerStep, txVars,
              socketVars, lifeVars
  <1>0. UNCHANGED task
    BY DEF Clean, CleanupLock, CleanupKeep, CleanupExpired, OnDeleteSucceeds,
           OnDeleteFails, CleanupEnds, CleanupWakes
  <1>t. TasksAgree'
    BY <1>0, SameTasksAgree
  <1>1. CASE CleanupLock
    BY <1>1, <1>t DEF CleanupLock
  <1>2. CASE CleanupKeep
    BY <1>2, <1>t DEF CleanupKeep
  <1>3. CASE CleanupExpired
    BY <1>3, <1>t DEF CleanupExpired
  <1>4. CASE OnDeleteSucceeds
    <2>1. /\ DOMAIN gateways' = DOMAIN gateways \ victim
          /\ gateways' \in [DOMAIN gateways' -> Route]
      BY <1>4 DEF OnDeleteSucceeds
    <2> QED
      BY <1>4, <1>t, <2>1 DEF OnDeleteSucceeds
  <1>5. CASE OnDeleteFails
    BY <1>5, <1>t, TimeAssumption DEF OnDeleteFails, Rest
  <1>6. CASE CleanupEnds
    BY <1>6, <1>t, TimeAssumption DEF CleanupEnds, Rest
  <1>7. CASE CleanupWakes
    BY <1>7, <1>t DEF CleanupWakes
  <1> QED
    BY <1>1, <1>2, <1>3, <1>4, <1>5, <1>6, <1>7 DEF Clean

LEMMA TransmitTyped == ASSUME Typed, Transmit PROVE Typed'
  <1> USE DEF Typed, TypeOK, registryVars, cleanerVars, TxStep, txVars,
              socketVars, lifeVars
  <1>0. UNCHANGED task
    BY DEF Transmit, TxAccept, TxLookup, TxUnknown, TxSend
  <1>t. TasksAgree'
    BY <1>0, SameTasksAgree
  <1>1. CASE TxAccept
    BY <1>1, <1>t DEF TxAccept
  <1>2. CASE TxLookup
    <2>1. PICK m \in txJob \cap DOMAIN gateways :
             txOut' = {PullRespFor(m, gateways[m].ver, gateways[m].addr)}
      BY <1>2 DEF TxLookup
    <2>2. m \in MACs /\ gateways[m] \in Route
      BY <2>1
    <2>3. txOut' \subseteq PullRespPacket
      BY <2>1, <2>2, PullRespIsPacket
    <2> QED
      BY <1>2, <1>t, <2>3 DEF TxLookup
  <1>3. CASE TxUnknown
    BY <1>3, <1>t DEF TxUnknown
  <1>4. CASE TxSend
    BY <1>4, <1>t DEF TxSend, Packet
  <1> QED
    BY <1>1, <1>2, <1>3, <1>4 DEF Transmit

LEMMA SocketTyped == ASSUME Typed, Socket PROVE Typed'
  <1>1. UNCHANGED <<registryVars, task, cleanerVars, txVars, lifeVars>>
    BY DEF Socket, StartReader, ReadFails, StartSender, WriteUDP, WriteFails,
           SenderEnds, SocketStep
  <1>2. /\ reader' \in {"starting", "running", "stopped"}
        /\ sender' \in {"starting", "running", "stopped"}
        /\ writing' \subseteq Packet
    BY DEF Typed, TypeOK, Socket, StartReader, ReadFails, StartSender, WriteUDP,
           WriteFails, SenderEnds
  <1> QED
    BY <1>1, <1>2, SameTasksAgree
       DEF Typed, TypeOK, registryVars, cleanerVars, txVars, lifeVars

LEMMA CloseTyped == ASSUME Typed, Close PROVE Typed'
  <1>1. UNCHANGED <<registryVars, task, cleanerVars, txVars, socketVars>>
    BY DEF Close, CloseChan, CloseConn, CloseConnFails, CloseWaits, SendPanics,
           CloseStep
  <1>2. /\ closing' \in {"open", "chanClosed", "connClosed", "failed",
                          "returned"}
        /\ crashed' \in BOOLEAN
    BY DEF Typed, TypeOK, Close, CloseChan, CloseConn, CloseConnFails,
           CloseWaits, SendPanics
  <1> QED
    BY <1>1, <1>2, SameTasksAgree
       DEF Typed, TypeOK, registryVars, cleanerVars, txVars, socketVars

LEMMA TickTyped == ASSUME Typed, Tick PROVE Typed'
  <1>1. /\ DOMAIN gateways' = DOMAIN gateways
        /\ gateways' \in [DOMAIN gateways' -> Route]
    <2>1. ASSUME NEW r \in Route
          PROVE  [r EXCEPT !.age = Older(@)] \in Route
      <3>1. Older(r.age) \in Ages
        BY OlderIsAge DEF Route
      <3> QED
        BY <3>1 DEF Route
    <2> QED
      BY <2>1 DEF Tick, Typed, TypeOK
  <1>2. ASSUME NEW h \in Handlers
        PROVE  /\ task'[h] \in Task
               /\ task'[h].pc = task[h].pc
               /\ task'[h].job = task[h].job
    <2>1. task[h] \in Task
      BY DEF Typed, TypeOK
    <2>2. Older(task[h].stamp) \in Ages
      BY <2>1, OlderIsAge DEF Task
    <2>3. /\ [task[h] EXCEPT !.stamp = Older(@)] \in Task
          /\ [task[h] EXCEPT !.stamp = Older(@)].pc = task[h].pc
          /\ [task[h] EXCEPT !.stamp = Older(@)].job = task[h].job
      BY <2>1, <2>2 DEF Task
    <2> QED
      BY <2>1, <2>3 DEF Tick
  <1>3. task' \in [Handlers -> Task]
    BY <1>2 DEF Tick
  <1>4. TasksAgree'
    BY <1>2 DEF Typed, TasksAgree, At, Job
  <1>5. nap' \in 0 .. Period
    BY TimeAssumption DEF Tick, Typed, TypeOK
  <1> QED
    BY <1>1, <1>3, <1>4, <1>5
       DEF Tick, Typed, TypeOK, txVars, socketVars, lifeVars

LEMMA NextTyped == ASSUME Typed, [Next]_vars PROVE Typed'
  <1>1. CASE Next
    BY <1>1, HandleTyped, CleanTyped, TransmitTyped, SocketTyped, CloseTyped,
       TickTyped DEF Next
  <1>2. CASE UNCHANGED vars
    BY <1>2, SameTasksAgree
       DEF Typed, TypeOK, vars, registryVars, cleanerVars, txVars, socketVars,
           lifeVars
  <1> QED
    BY <1>1, <1>2

(* Every reachable state has the types of TypeOK.                          *)
THEOREM TypeCorrect == Spec => []TypeOK
  <1>1. Typed => TypeOK
    BY DEF Typed
  <1> QED
    BY <1>1, InitTyped, NextTyped, PTL DEF Spec

-----------------------------------------------------------------------------
(* Layer 2: the lock.                                                      *)

(* What the steps of a handler have in common: only its own task changes,  *)
(* and the cleaner does not move.                                          *)
LEMMA HandlerIsLocal ==
    ASSUME Typed, NEW h \in Handlers, Handle(h)
    PROVE  /\ \A k \in Handlers : k # h => task'[k] = task[k]
           /\ UNCHANGED <<cleaner, todo, victim, txOut, txJob>>
  BY DEF Typed, TypeOK, Handle, Receive, Discard, DecodePull, SetKnown, SetNew,
         OnNewSucceeds, OnNewFails, SendPullAck, DecodePush, SendPushAck,
         ForwardStat, ForwardRX, EndRX, Goto, Return, Store, HandlerStep,
         cleanerVars, txVars

(* The handler steps that neither take the lock nor give it back.          *)
LEMMA OutsideTheLock ==
    ASSUME Typed, NEW h \in Handlers, Handle(h),
           ~SetNew(h), ~OnNewSucceeds(h), ~OnNewFails(h)
    PROVE  UNCHANGED holder /\ ~At(h, "onNew") /\ ~At(h, "onNew")'
  <1>1. task \in [Handlers -> Task]
    BY DEF Typed, TypeOK
  <1>2. CASE Receive(h)
    BY <1>1, <1>2 DEF Receive, At, Idle, Started, registryVars, HandlerStep
  <1>3. CASE Discard(h) \/ OnNewFails(h) \/ SendPullAck(h) \/ EndRX(h)
    BY <1>1, <1>3 DEF Discard, SendPullAck, EndRX, Return, At, Idle,
                      registryVars
  <1>4. CASE DecodePull(h) \/ DecodePush(h) \/ SendPushAck(h)
               \/ ForwardStat(h)
    BY <1>1, <1>4 DEF DecodePull, DecodePush, SendPushAck, ForwardStat, Goto,
                      At, Task, registryVars
  <1>5. CASE SetKnown(h)
    BY <1>1, <1>5 DEF SetKnown, Store, At, Task
  <1>6. CASE ForwardRX(h)
    BY <1>1, <1>6 DEF ForwardRX, AtFrame, At, Task, registryVars
  <1> QED
    BY <1>2, <1>3, <1>4, <1>5, <1>6 DEF Handle

LEMMA HandleLock ==
    ASSUME Typed, LockMatchesSections, NEW h \in Handlers, Handle(h)
    PROVE  LockMatchesSections'
  <1>1. task \in [Handlers -> Task]
    BY DEF Typed, TypeOK
  <1>2. CASE SetNew(h)
    <2>1. holder = Nobody /\ holder' = h /\ At(h, "onNew")'
      BY <1>1, <1>2 DEF SetNew, Goto, At, Task
    <2> QED
      BY <2>1, HandlerIsLocal, ThreadsAssumption DEF LockMatchesSections, At
  <1>3. CASE OnNewSucceeds(h) \/ OnNewFails(h)
    <2>1. holder = h /\ holder' = Nobody /\ ~At(h, "onNew")'
      BY <1>1, <1>3 DEF OnNewSucceeds, OnNewFails, Store, Return, Idle, At,
                        Task, LockMatchesSections
    <2> QED
      BY <2>1, HandlerIsLocal, ThreadsAssumption DEF LockMatchesSections, At
  <1>4. CASE ~SetNew(h) /\ ~OnNewSucceeds(h) /\ ~OnNewFails(h)
    BY <1>4, OutsideTheLock, HandlerIsLocal DEF LockMatchesSections, At
  <1> QED
    BY <1>2, <1>3, <1>4

LEMMA CleanLock ==
    ASSUME LockMatchesSections, Clean
    PROVE  LockMatchesSections' /\ UNCHANGED task
  BY ThreadsAssumption
     DEF LockMatchesSections, At, Clean, CleanupLock, CleanupKeep,
         CleanupExpired, OnDeleteSucceeds, OnDeleteFails, CleanupEnds,
         CleanupWakes, Rest, CleanerStep, registryVars

(* The goroutines that never write to the registry.                        *)
Bystander == Transmit \/ Socket \/ Close

LEMMA BystanderIsLocal ==
    ASSUME Bystander
    PROVE  UNCHANGED <<registryVars, task, cleanerVars>>
  BY DEF Bystander, Transmit, TxAccept, TxLookup, TxUnknown, TxSend, Socket,
         StartReader, ReadFails, StartSender, WriteUDP, WriteFails, SenderEnds,
         Close, CloseChan, CloseConn, CloseConnFails, CloseWaits, SendPanics,
         TxStep, SocketStep, CloseStep

LEMMA TickIsLocal ==
    ASSUME Typed, Tick
    PROVE  /\ DOMAIN gateways' = DOMAIN gateways
           /\ \A h \in Handlers :
                 task'[h].pc = task[h].pc /\ task'[h].job = task[h].job
           /\ UNCHANGED <<holder, cleaner, todo, victim, txOut, writing>>
  <1>1. ASSUME NEW h \in Handlers
        PROVE  task'[h].pc = task[h].pc /\ task'[h].job = task[h].job
    BY DEF Tick, Typed, TypeOK, Task
  <1> QED
    BY <1>1 DEF Tick, txVars, socketVars

LEMMA InitLock == Init => LockMatchesSections
  BY ThreadsAssumption DEF Init, LockMatchesSections, At, Idle

LEMMA NextLock ==
    ASSUME Typed, LockMatchesSections, [Next]_vars
    PROVE  LockMatchesSections'
  <1>1. ASSUME NEW h \in Handlers, Handle(h) PROVE LockMatchesSections'
    BY <1>1, HandleLock
  <1>2. CASE Clean
    BY <1>2, CleanLock
  <1>3. CASE Bystander
    BY <1>3, BystanderIsLocal
       DEF LockMatchesSections, At, registryVars, cleanerVars
  <1>4. CASE Tick
    BY <1>4, TickIsLocal DEF LockMatchesSections, At
  <1>5. CASE UNCHANGED vars
    BY <1>5 DEF LockMatchesSections, At, vars, registryVars, cleanerVars
  <1> QED
    BY <1>1, <1>2, <1>3, <1>4, <1>5 DEF Next, Bystander

(* The lock always belongs to the goroutine whose section is open.         *)
THEOREM LockCorrect == Spec => []LockMatchesSections
  <1>1. Init => Typed /\ LockMatchesSections
    BY InitTyped, InitLock
  <1>2. Typed /\ LockMatchesSections /\ [Next]_vars
          => (Typed /\ LockMatchesSections)'
    BY NextTyped, NextLock
  <1> QED
    BY <1>1, <1>2, PTL DEF Spec

-----------------------------------------------------------------------------
(* Layer 3: a gateway whose onNew is running is not in the registry.       *)

(* A handler writes to the registry in two steps only, and adds a gateway  *)
(* to it in one of them.                                                   *)
LEMMA RegistryWrites ==
    ASSUME NEW h \in Handlers, Handle(h)
    PROVE  /\ ~SetKnown(h) /\ ~OnNewSucceeds(h) => gateways' = gateways
           /\ ~OnNewSucceeds(h) => DOMAIN gateways' = DOMAIN gateways
           /\ DOMAIN gateways' \subseteq DOMAIN gateways \cup {Mac(h)}
           /\ DOMAIN gateways \subseteq DOMAIN gateways'
  <1>1. CASE SetKnown(h) \/ OnNewSucceeds(h)
    BY <1>1 DEF SetKnown, OnNewSucceeds, Store
  <1>2. CASE ~SetKnown(h) /\ ~OnNewSucceeds(h)
    <2>1. gateways' = gateways
      BY <1>2 DEF Handle, Receive, Discard, DecodePull, SetNew, OnNewFails,
                  SendPullAck, DecodePush, SendPushAck, ForwardStat, ForwardRX,
                  EndRX, registryVars
    <2> QED
      BY <1>2, <2>1
  <1> QED
    BY <1>1, <1>2

LEMMA HandleNew ==
    ASSUME Typed, LockMatchesSections, NewGatewayStaysNew,
           NEW h \in Handlers, Handle(h)
    PROVE  NewGatewayStaysNew'
  <1>1. task \in [Handlers -> Task]
    BY DEF Typed, TypeOK
  <1>2. CASE SetNew(h)
    <2>1. /\ Mac(h)' = Mac(h)
          /\ Mac(h) \notin DOMAIN gateways
          /\ UNCHANGED gateways
      BY <1>1, <1>2 DEF SetNew, Goto, Mac, Job, Task
    <2> QED
      BY <2>1, HandlerIsLocal DEF NewGatewayStaysNew, At, Mac, Job
  <1>3. CASE OnNewSucceeds(h)
    <2>1. holder = h /\ ~At(h, "onNew")'
      BY <1>1, <1>3 DEF OnNewSucceeds, Store, At, Task, LockMatchesSections
    <2>2. \A k \in Handlers : k # h => ~At(k, "onNew")'
      BY <2>1, HandlerIsLocal DEF LockMatchesSections, At
    <2> QED
      BY <2>1, <2>2 DEF NewGatewayStaysNew
  <1>4. CASE OnNewFails(h)
    <2>1. ~At(h, "onNew")' /\ UNCHANGED gateways
      BY <1>1, <1>4 DEF OnNewFails, Return, Idle, At
    <2> QED
      BY <2>1, HandlerIsLocal DEF NewGatewayStaysNew, At, Mac, Job
  <1>5. CASE ~SetNew(h) /\ ~OnNewSucceeds(h) /\ ~OnNewFails(h)
    BY <1>5, OutsideTheLock, RegistryWrites, HandlerIsLocal
       DEF NewGatewayStaysNew, At, Mac, Job
  <1> QED
    BY <1>2, <1>3, <1>4, <1>5

LEMMA CleanRegistry ==
    ASSUME Clean
    PROVE  /\ DOMAIN gateways' \subseteq DOMAIN gateways
           /\ \A m \in DOMAIN gateways' : gateways'[m] = gateways[m]
           /\ DOMAIN gateways \ DOMAIN gateways' \subseteq victim
           /\ UNCHANGED <<task, txOut, writing>>
  BY DEF Clean, CleanupLock, CleanupKeep, CleanupExpired, OnDeleteSucceeds,
         OnDeleteFails, CleanupEnds, CleanupWakes, CleanerStep, registryVars,
         txVars, socketVars

LEMMA NextNew ==
    ASSUME Typed, LockMatchesSections, NewGatewayStaysNew, [Next]_vars
    PROVE  NewGatewayStaysNew'
  <1> USE DEF NewGatewayStaysNew, At, Mac, Job
  <1>1. ASSUME NEW h \in Handlers, Handle(h) PROVE NewGatewayStaysNew'
    BY <1>1, HandleNew
  <1>2. CASE Clean
    BY <1>2, CleanRegistry
  <1>3. CASE Bystander
    BY <1>3, BystanderIsLocal DEF registryVars
  <1>4. CASE Tick
    BY <1>4, TickIsLocal
  <1>5. CASE UNCHANGED vars
    BY <1>5 DEF vars, registryVars
  <1> QED
    BY <1>1, <1>2, <1>3, <1>4, <1>5 DEF Next, Bystander

(* set decides once: between its check and its store nobody else adds the  *)
(* gateway.                                                                *)
THEOREM NewStaysNew == Spec => []NewGatewayStaysNew
  <1>1. Init => Typed /\ LockMatchesSections /\ NewGatewayStaysNew
    BY InitTyped, InitLock DEF Init, NewGatewayStaysNew
  <1>2. Typed /\ LockMatchesSections /\ NewGatewayStaysNew /\ [Next]_vars
          => (Typed /\ LockMatchesSections /\ NewGatewayStaysNew)'
    BY NextTyped, NextLock, NextNew
  <1> QED
    BY <1>1, <1>2, PTL DEF Spec

-----------------------------------------------------------------------------
(* Layer 4: the cleanup.                                                   *)

LEMMA HandleVictims ==
    ASSUME LockMatchesSections, VictimsExpired, Typed,
           NEW h \in Handlers, Handle(h)
    PROVE  VictimsExpired'
  <1>1. UNCHANGED <<cleaner, todo, victim>>
    BY HandlerIsLocal
  <1>2. CASE SetKnown(h) \/ OnNewSucceeds(h)
    <2>1. holder # Cleaner
      BY <1>2, ThreadsAssumption
         DEF SetKnown, OnNewSucceeds, LockMatchesSections
    <2>2. todo = {} /\ victim = {}
      BY <2>1 DEF LockMatchesSections, VictimsExpired
    <2> QED
      BY <1>1, <2>2 DEF VictimsExpired
  <1>3. CASE ~SetKnown(h) /\ ~OnNewSucceeds(h)
    BY <1>1, <1>3, RegistryWrites DEF VictimsExpired, Expired
  <1> QED
    BY <1>2, <1>3

LEMMA CleanVictims ==
    ASSUME VictimsExpired, Clean
    PROVE  VictimsExpired'
  BY DEF VictimsExpired, Expired, Clean, CleanupLock, CleanupKeep,
         CleanupExpired, OnDeleteSucceeds, OnDeleteFails, CleanupEnds,
         CleanupWakes, Rest, CleanerStep, registryVars

LEMMA TickVictims ==
    ASSUME Typed, VictimsExpired, Tick
    PROVE  VictimsExpired'
  <1>1. ASSUME NEW m \in victim PROVE Expired(m)'
    <2>1. m \in DOMAIN gateways /\ gateways[m] \in Route /\ Expired(m)
      BY DEF VictimsExpired, Typed, TypeOK
    <2>2. gateways'[m].age = Older(gateways[m].age)
      BY <2>1 DEF Tick, Route
    <2> QED
      BY <2>1, <2>2 DEF Expired, Older
  <1> QED
    BY <1>1, TickIsLocal DEF VictimsExpired

LEMMA NextVictims ==
    ASSUME Typed, LockMatchesSections, VictimsExpired, [Next]_vars
    PROVE  VictimsExpired'
  <1>1. ASSUME NEW h \in Handlers, Handle(h) PROVE VictimsExpired'
    BY <1>1, HandleVictims
  <1>2. CASE Clean
    BY <1>2, CleanVictims
  <1>3. CASE Bystander
    BY <1>3, BystanderIsLocal
       DEF VictimsExpired, Expired, registryVars, cleanerVars
  <1>4. CASE Tick
    BY <1>4, TickVictims
  <1>5. CASE UNCHANGED vars
    BY <1>5 DEF VictimsExpired, Expired, vars, registryVars, cleanerVars
  <1> QED
    BY <1>1, <1>2, <1>3, <1>4, <1>5 DEF Next, Bystander

(* Only a gateway that is expired at that very step leaves the registry.   *)
LEMMA NextEvicts ==
    ASSUME VictimsExpired, Typed, [Next]_vars
    PROVE  \A m \in DOMAIN gateways \ DOMAIN gateways' : Expired(m)
  <1>1. ASSUME NEW h \in Handlers, Handle(h)
        PROVE  DOMAIN gateways \subseteq DOMAIN gateways'
    BY <1>1, RegistryWrites
  <1>2. CASE Clean
    BY <1>2, CleanRegistry DEF VictimsExpired
  <1>3. CASE Bystander
    BY <1>3, BystanderIsLocal DEF registryVars
  <1>4. CASE Tick
    BY <1>4, TickIsLocal
  <1>5. CASE UNCHANGED vars
    BY <1>5 DEF vars, registryVars
  <1> QED
    BY <1>1, <1>2, <1>3, <1>4, <1>5 DEF Next, Bystander

(* The comparison with the limit and the delete are one decision, however  *)
(* long onDelete takes and whatever PULL_DATA arrives meanwhile.           *)
THEOREM EvictionCorrect == Spec => EvictsOnlyExpired
  <1>1. Init => Typed /\ LockMatchesSections /\ VictimsExpired
    BY InitTyped, InitLock DEF Init, VictimsExpired
  <1>2. Typed /\ LockMatchesSections /\ VictimsExpired /\ [Next]_vars
          => (Typed /\ LockMatchesSections /\ VictimsExpired)'
    BY NextTyped, NextLock, NextVictims
  <1>3. Typed /\ VictimsExpired /\ [Next]_vars
          => [\A m \in DOMAIN gateways \ DOMAIN gateways' : Expired(m)]_vars
    BY NextEvicts
  <1> QED
    BY <1>1, <1>2, <1>3, PTL DEF Spec, EvictsOnlyExpired

-----------------------------------------------------------------------------
(* Layer 5: where a packet may go.                                         *)

(* The route a handler stores is the one its PULL_DATA asks for.           *)
LEMMA NewRouteJustified ==
    ASSUME Typed, NEW h \in Handlers, task[h].pc \in {"lock", "onNew"}
    PROVE  /\ Job(h) \in Arrivals
           /\ PullsFor(Job(h), Mac(h), NewRoute(h).addr, NewRoute(h).ver)
  BY DEF Typed, TypeOK, TasksAgree, At, Job, Mac, NewRoute, PullsFor

LEMMA StoreJustified ==
    ASSUME Typed, RoutesJustified, NEW h \in Handlers,
           task[h].pc \in {"lock", "onNew"}, Store(h),
           NEW m \in DOMAIN gateways'
    PROVE  \E a \in Arrivals :
              PullsFor(a, m, gateways'[m].addr, gateways'[m].ver)
  <1>1. CASE m = Mac(h)
    <2>1. gateways'[m] = NewRoute(h)
      BY <1>1 DEF Store
    <2> QED
      BY <1>1, <2>1, NewRouteJustified
  <1>2. CASE m # Mac(h)
    <2>1. m \in DOMAIN gateways /\ gateways'[m] = gateways[m]
      BY <1>2 DEF Store
    <2> QED
      BY <2>1 DEF RoutesJustified
  <1> QED
    BY <1>1, <1>2

LEMMA HandleJustified ==
    ASSUME Typed, RoutesJustified, NEW h \in Handlers, Handle(h)
    PROVE  RoutesJustified'
  <1>1. UNCHANGED txOut
    BY HandlerIsLocal
  <1>2. CASE SetKnown(h) \/ OnNewSucceeds(h)
    <2>1. /\ task[h].pc \in {"lock", "onNew"}
          /\ Store(h)
          /\ UNCHANGED writing
      BY <1>2 DEF SetKnown, OnNewSucceeds, At
    <2>2. \A m \in DOMAIN gateways' : \E a \in Arrivals :
              PullsFor(a, m, gateways'[m].addr, gateways'[m].ver)
      BY <2>1, StoreJustified
    <2> QED
      BY <1>1, <2>1, <2>2 DEF RoutesJustified, Justified
  <1>3. CASE SendPullAck(h) \/ SendPushAck(h)
    <2>1. Job(h) \in Arrivals
      BY <1>3 DEF SendPullAck, SendPushAck, Typed, TasksAgree, At
    <2>2. \A p \in writing' : Justified(p)
      BY <1>3, <2>1 DEF SendPullAck, SendPushAck, Justified
    <2> QED
      BY <1>1, <1>3, <2>2, RegistryWrites
         DEF RoutesJustified, Justified, SendPullAck, SendPushAck, registryVars
  <1>4. CASE ~SetKnown(h) /\ ~OnNewSucceeds(h)
               /\ ~SendPullAck(h) /\ ~SendPushAck(h)
    <2>1. UNCHANGED writing
      BY <1>4 DEF Handle, Receive, Discard, DecodePull, SetNew, OnNewFails,
                  DecodePush, ForwardStat, ForwardRX, EndRX
    <2> QED
      BY <1>1, <1>4, <2>1, RegistryWrites DEF RoutesJustified, Justified
  <1> QED
    BY <1>2, <1>3, <1>4

LEMMA TransmitJustified ==
    ASSUME RoutesJustified, Transmit
    PROVE  RoutesJustified'
  <1>1. UNCHANGED gateways
    BY DEF Transmit, TxAccept, TxLookup, TxUnknown, TxSend, TxStep,
           registryVars
  <1>2. CASE TxLookup
    <2>1. PICK m \in txJob \cap DOMAIN gateways :
             txOut' = {PullRespFor(m, gateways[m].ver, gateways[m].addr)}
      BY <1>2 DEF TxLookup
    <2>2. Justified(PullRespFor(m, gateways[m].ver, gateways[m].addr))
      BY <2>1 DEF RoutesJustified, Justified, PullRespFor
    <2> QED
      BY <1>1, <1>2, <2>1, <2>2 DEF TxLookup, RoutesJustified, Justified
  <1>3. CASE TxAccept \/ TxUnknown \/ TxSend
    BY <1>1, <1>3 DEF TxAccept, TxUnknown, TxSend, RoutesJustified, Justified
  <1> QED
    BY <1>2, <1>3 DEF Transmit

LEMMA NextJustified ==
    ASSUME Typed, RoutesJustified, [Next]_vars
    PROVE  RoutesJustified'
  <1> USE DEF RoutesJustified, Justified
  <1>1. ASSUME NEW h \in Handlers, Handle(h) PROVE RoutesJustified'
    BY <1>1, HandleJustified
  <1>2. CASE Clean
    BY <1>2, CleanRegistry
  <1>3. CASE Transmit
    BY <1>3, TransmitJustified
  <1>4. CASE Socket
    BY <1>4 DEF Socket, StartReader, ReadFails, StartSender, WriteUDP,
                WriteFails, SenderEnds, SocketStep, registryVars, txVars
  <1>5. CASE Close
    BY <1>5 DEF Close, CloseChan, CloseConn, CloseConnFails, CloseWaits,
                SendPanics, CloseStep, registryVars, txVars, socketVars
  <1>6. CASE Tick
    <2>1. ASSUME NEW m \in DOMAIN gateways
          PROVE  /\ gateways'[m].addr = gateways[m].addr
                 /\ gateways'[m].ver = gateways[m].ver
      BY <1>6 DEF Tick, Typed, TypeOK, Route
    <2> QED
      BY <1>6, <2>1, TickIsLocal
  <1>7. CASE UNCHANGED vars
    BY <1>7 DEF vars, registryVars, txVars, socketVars
  <1> QED
    BY <1>1, <1>2, <1>3, <1>4, <1>5, <1>6, <1>7 DEF Next

(* Whatever sendPackets writes answers a datagram of the right type at its *)
(* source, or is a downlink to where, and in the version, the addressed    *)
(* gateway pulled.                                                         *)
THEOREM WritesJustified == Spec => []WrittenIsJustified
  <1>1. Init => Typed /\ RoutesJustified
    BY InitTyped DEF Init, RoutesJustified
  <1>2. Typed /\ RoutesJustified /\ [Next]_vars
          => (Typed /\ RoutesJustified)'
    BY NextTyped, NextJustified
  <1>3. RoutesJustified => WrittenIsJustified
    BY DEF RoutesJustified, WrittenIsJustified
  <1> QED
    BY <1>1, <1>2, <1>3, PTL DEF Spec

-----------------------------------------------------------------------------
(* Layer 6: Close waits for the packet being written.                      *)

LEMMA NextSenderHolds ==
    ASSUME SenderHoldsPacket, [Next]_vars
    PROVE  SenderHoldsPacket'
  <1> USE DEF SenderHoldsPacket, NothingInFlightAtReturn
  <1>1. ASSUME NEW h \in Handlers, Handle(h)
        PROVE  /\ UNCHANGED <<sender, closing>>
               /\ writing' = writing \/ SenderReceives
    BY <1>1 DEF Handle, Receive, Discard, DecodePull, SetKnown, SetNew,
                OnNewSucceeds, OnNewFails, SendPullAck, DecodePush,
                SendPushAck, ForwardStat, ForwardRX, EndRX, HandlerStep,
                lifeVars
  <1>2. ASSUME NEW h \in Handlers, Handle(h) PROVE SenderHoldsPacket'
    BY <1>1, <1>2 DEF SenderReceives
  <1>3. CASE Transmit
    BY <1>3 DEF Transmit, TxAccept, TxLookup, TxUnknown, TxSend, TxStep,
                SenderReceives, lifeVars
  <1>4. CASE Socket
    BY <1>4 DEF Socket, StartReader, ReadFails, StartSender, WriteUDP,
                WriteFails, SenderEnds, SocketStep, socketVars, lifeVars
  <1>5. CASE Close
    BY <1>5 DEF Close, CloseChan, CloseConn, CloseConnFails, CloseWaits,
                SendPanics, CloseStep, socketVars
  <1>6. CASE Clean \/ Tick \/ UNCHANGED vars
    BY <1>6 DEF Clean, CleanupLock, CleanupKeep, CleanupExpired,
                OnDeleteSucceeds, OnDeleteFails, CleanupEnds, CleanupWakes,
                CleanerStep, Tick, vars, socketVars, lifeVars
  <1> QED
    BY <1>2, <1>3, <1>4, <1>5, <1>6 DEF Next

(* Close never returns while a packet is between the channel and the       *)
(* socket, although wg counts the sender only once it runs.                *)
THEOREM CloseLetsGo == Spec => []NothingInFlightAtReturn
  <1>1. Init => SenderHoldsPacket
    BY DEF Init, SenderHoldsPacket, NothingInFlightAtReturn
  <1>2. SenderHoldsPacket => NothingInFlightAtReturn
    BY DEF SenderHoldsPacket
  <1> QED
    BY <1>1, <1>2, NextSenderHolds, PTL DEF Spec

=============================================================================
