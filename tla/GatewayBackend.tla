--------------------------- MODULE GatewayBackend ---------------------------
(***************************************************************************)
(* The Semtech UDP backend, gateway/backend.go.                            *)
(*                                                                         *)
(* Goroutines and what stands for each:                                    *)
(*   readPackets        reader                                             *)
(*   handlePacket       one element of Handlers per datagram being handled *)
(*   sendPackets        sender, with the packet it is writing in writing   *)
(*   cleanup loop       cleaner                                            *)
(*   caller of Send     txJob and txOut (the TX pump of main.go)           *)
(*   caller of Close    closing                                            *)
(*                                                                         *)
(* The channels rxChan, statsChan and udpSendChan are unbuffered, so a     *)
(* send is one step with its receive.  The RWMutex of the registry is      *)
(* holder: the goroutine inside a write section that spans a callback, or  *)
(* Nobody.  A section without a callback in it is one step.                *)
(*                                                                         *)
(* Time is relative: instead of the clock and lastSeen the model keeps the *)
(* age now - lastSeen, which the code only compares with one minute, so an *)
(* age stops growing at Expiry + 1 and time itself is unbounded.           *)
(***************************************************************************)
EXTENDS SemtechPackets

CONSTANTS
    Handlers,   \* the goroutines that can run handlePacket at one time
    Cleaner,    \* the cleanup goroutine, as a holder of the lock
    Nobody,     \* the holder of a free lock
    NoJob,      \* the job of a handler that is not running
    Arrivals,   \* the datagrams, with their source, the network can deliver
    Downlinks,  \* the gateways the application server addresses
    SkipCRC,    \* the skip-crc-check flag
    Expiry,     \* -gatewayCleanupDuration, in ticks
    Period,     \* the sleep between two cleanups, in ticks
    Faults,     \* what can fail: see FaultKinds
    MayClose    \* whether the program is asked to stop

(* "onNew", "onDelete": the callback returns an error.  "read", "write":   *)
(* ReadFromUDP or WriteToUDP fails while the socket is open.  "close":     *)
(* conn.Close fails.                                                       *)
FaultKinds == {"onNew", "onDelete", "read", "write", "close"}

ASSUME ThreadsAssumption ==
    Cleaner \notin Handlers /\ Nobody \notin Handlers /\ Nobody # Cleaner

ASSUME ArrivalsAssumption == Arrivals \subseteq Arrival /\ NoJob \notin Arrivals

ASSUME DownlinksAssumption == Downlinks \subseteq MACs

ASSUME TimeAssumption == Expiry \in Nat /\ Period \in Nat

ASSUME SettingsAssumption ==
    SkipCRC \in BOOLEAN /\ Faults \subseteq FaultKinds /\ MayClose \in BOOLEAN

VARIABLES
    gateways,   \* the registry: MAC -> address, version and age of its route
    holder,     \* who is inside a write section of the registry's lock
    task,       \* what each handler is doing: see Task
    cleaner,    \* where the cleanup goroutine is
    todo,       \* the MACs the running cleanup has not visited
    victim,     \* the MAC whose onDelete callback is running, if any
    nap,        \* ticks left of the cleanup goroutine's sleep
    txJob,      \* the downlink Send is looking up, if any
    txOut,      \* the PULL_RESP Send is handing to the sender, if any
    reader,     \* the state of readPackets
    sender,     \* the state of sendPackets
    writing,    \* the packet sendPackets is writing, if any
    closing,    \* how far Close has got
    crashed     \* a goroutine panicked: the process is gone

registryVars == <<gateways, holder>>
cleanerVars  == <<cleaner, todo, victim, nap>>
txVars       == <<txJob, txOut>>
socketVars   == <<reader, sender, writing>>
lifeVars     == <<closing, crashed>>
vars == <<registryVars, task, cleanerVars, txVars, socketVars, lifeVars>>

-----------------------------------------------------------------------------
Ages  == 0 .. (Expiry + 1)
Route == [addr : Addrs, ver : Nat, age : Ages]

Older(age) == IF age > Expiry THEN age ELSE age + 1

Expired(m) == gateways[m].age > Expiry

(* What each part of the backend leaves alone; a step changes the          *)
(* variables of its own part and those it names.                           *)
HandlerStep == UNCHANGED <<cleanerVars, txVars, reader, sender, lifeVars>>
CleanerStep == UNCHANGED <<task, txVars, socketVars, lifeVars>>
TxStep      == UNCHANGED <<registryVars, task, cleanerVars, reader,
                           sender, lifeVars>>
SocketStep  == UNCHANGED <<registryVars, task, cleanerVars, txVars,
                           lifeVars>>
CloseStep   == UNCHANGED <<registryVars, task, cleanerVars, txVars,
                           socketVars>>

(* A handler: where it is, the arrival it works on, the age of the         *)
(* time.Now() it took, the index of the rxpk it is at.                     *)
Task == [pc    : {"free", "start", "lock", "onNew", "ack", "stat", "rx"},
         job   : Arrivals \cup {NoJob},
         stamp : Ages,
         next  : Nat \ {0}]

Idle       == [pc |-> "free", job |-> NoJob, stamp |-> 0, next |-> 1]
(* Mutation of Started: the index starts one too early.                    *)
Started_FromZero(a) == [pc |-> "start", job |-> a, stamp |-> 0, next |-> 0]

Started(a) == [pc |-> "start", job |-> a, stamp |-> 0, next |-> 1]

TypeOK ==
    /\ DOMAIN gateways \subseteq MACs
    /\ gateways \in [DOMAIN gateways -> Route]
    /\ holder \in Handlers \cup {Cleaner, Nobody}
    /\ task \in [Handlers -> Task]
    /\ cleaner \in {"lock", "scan", "onDelete", "nap"}
    /\ todo \subseteq MACs
    /\ victim \subseteq MACs
    /\ nap \in 0 .. Period
    /\ txJob \subseteq Downlinks
    /\ txOut \subseteq PullRespPacket
    /\ reader \in {"starting", "running", "stopped"}
    /\ sender \in {"starting", "running", "stopped"}
    /\ writing \subseteq Packet
    /\ closing \in {"open", "chanClosed", "connClosed", "failed", "returned"}
    /\ crashed \in BOOLEAN

(* NewBackend: an empty registry and four goroutines about to run.         *)
Init ==
    /\ gateways = [m \in {} |-> {}]
    /\ holder = Nobody
    /\ task = [h \in Handlers |-> Idle]
    /\ cleaner = "lock"
    /\ todo = {}
    /\ victim = {}
    /\ nap = 0
    /\ txJob = {}
    /\ txOut = {}
    /\ reader = "starting"
    /\ sender = "starting"
    /\ writing = {}
    /\ closing = "open"
    /\ crashed = FALSE

-----------------------------------------------------------------------------
(* readPackets: one goroutine per datagram; any error ends the loop.       *)

SocketOpen == closing \in {"open", "chanClosed"}

StartReader ==
    /\ reader = "starting"
    /\ reader' = "running"
    /\ UNCHANGED <<sender, writing>>
    /\ SocketStep

Receive(h) ==
    /\ reader = "running"
    /\ SocketOpen
    /\ task[h] = Idle
    /\ \E a \in Arrivals : task' = [task EXCEPT ![h] = Started(a)]
    /\ UNCHANGED <<registryVars, writing>>
    /\ HandlerStep

(* Mutation of ReadFails: a failing read is tried again.                   *)
ReadFails_Retries ==
    /\ reader = "running"
    /\ ~SocketOpen \/ "read" \in Faults
    /\ UNCHANGED socketVars
    /\ SocketStep

ReadFails ==
    /\ reader = "running"
    /\ ~SocketOpen \/ "read" \in Faults
    /\ reader' = "stopped"
    /\ UNCHANGED <<sender, writing>>
    /\ SocketStep

-----------------------------------------------------------------------------
(* handlePacket.                                                           *)

At(h, place)   == task[h].pc = place
Goto(h, place) == task' = [task EXCEPT ![h].pc = place]
Return(h)      == task' = [task EXCEPT ![h] = Idle]

Job(h) == task[h].job
Mac(h) == Job(h).data.mac

(* Datagrams no decoder accepts, TX_ACKs (which are only logged) and types *)
(* the switch does not know.                                               *)
Discard(h) ==
    /\ At(h, "start")
    /\ ~AcceptedPull(Job(h)) /\ ~AcceptedPush(Job(h))
    /\ Return(h)
    /\ UNCHANGED <<registryVars, writing>>
    /\ HandlerStep

(* handlePullData up to the call of set: time.Now() is taken here (a stamp *)
(* of age 0), before the lock is.                                          *)
DecodePull(h) ==
    /\ At(h, "start")
    /\ AcceptedPull(Job(h))
    /\ Goto(h, "lock")
    /\ UNCHANGED <<registryVars, writing>>
    /\ HandlerStep

(* Mutation of NewRoute: only the address of a known route is replaced.    *)
NewRoute_OldVersion(h) ==
    [addr |-> Job(h).src,
     ver  |-> IF Mac(h) \in DOMAIN gateways THEN gateways[Mac(h)].ver
                                            ELSE Job(h).data.ver,
     age  |-> task[h].stamp]

NewRoute(h) ==
    [addr |-> Job(h).src, ver |-> Job(h).data.ver, age |-> task[h].stamp]

(* The last step of set: the new route, and the stamp is used up.          *)
Store(h) ==
    /\ gateways' = [m \in DOMAIN gateways \cup {Mac(h)} |->
                       IF m = Mac(h) THEN NewRoute(h) ELSE gateways[m]]
    /\ task' = [task EXCEPT ![h].pc = "ack", ![h].stamp = 0]

(* Mutation of SetKnown: the lock is not given back.                       *)
SetKnown_KeepsLock(h) ==
    /\ At(h, "lock")
    /\ holder = Nobody
    /\ Mac(h) \in DOMAIN gateways
    /\ Store(h)
    /\ holder' = h
    /\ UNCHANGED writing
    /\ HandlerStep

(* set, for a MAC the registry has: Lock, assign, Unlock.                  *)
SetKnown(h) ==
    /\ At(h, "lock")
    /\ holder = Nobody
    /\ Mac(h) \in DOMAIN gateways
    /\ Store(h)
    /\ UNCHANGED <<holder, writing>>
    /\ HandlerStep

(* Mutation of SetNew: onNew is called with the lock released.             *)
SetNew_Unlocked(h) ==
    /\ At(h, "lock")
    /\ holder = Nobody
    /\ Mac(h) \notin DOMAIN gateways
    /\ Goto(h, "onNew")
    /\ UNCHANGED <<registryVars, writing>>
    /\ HandlerStep

(* set, for a new MAC: Lock and call onNew, with the lock kept.            *)
SetNew(h) ==
    /\ At(h, "lock")
    /\ holder = Nobody
    /\ Mac(h) \notin DOMAIN gateways
    /\ holder' = h
    /\ Goto(h, "onNew")
    /\ UNCHANGED <<gateways, writing>>
    /\ HandlerStep

OnNewSucceeds(h) ==
    /\ At(h, "onNew")
    /\ Store(h)
    /\ holder' = Nobody
    /\ UNCHANGED writing
    /\ HandlerStep

(* Mutation of OnNewFails: the error return misses the Unlock.             *)
OnNewFails_KeepsLock(h) ==
    /\ At(h, "onNew")
    /\ "onNew" \in Faults
    /\ Return(h)
    /\ UNCHANGED <<registryVars, writing>>
    /\ HandlerStep

(* Mutation of OnNewFails: the error is logged and the PULL_DATA answered. *)
OnNewFails_StillAcks(h) ==
    /\ At(h, "onNew")
    /\ "onNew" \in Faults
    /\ Goto(h, "ack")
    /\ holder' = Nobody
    /\ UNCHANGED <<gateways, writing>>
    /\ HandlerStep

OnNewFails(h) ==
    /\ At(h, "onNew")
    /\ "onNew" \in Faults
    /\ Return(h)
    /\ holder' = Nobody
    /\ UNCHANGED <<gateways, writing>>
    /\ HandlerStep

(* sendPackets is waiting in its receive from udpSendChan.                 *)
SenderReceives == sender = "running" /\ writing = {} /\ closing = "open"

SendPullAck(h) ==
    /\ At(h, "ack")
    /\ AcceptedPull(Job(h))
    /\ SenderReceives
    /\ writing' = {PullACKFor(Job(h))}
    /\ Return(h)
    /\ UNCHANGED registryVars
    /\ HandlerStep

(* Mutation of DecodePush: the content is forwarded first.                 *)
DecodePush_ForwardsFirst(h) ==
    /\ At(h, "start")
    /\ AcceptedPush(Job(h))
    /\ Goto(h, "stat")
    /\ UNCHANGED <<registryVars, writing>>
    /\ HandlerStep

(* handlePushData up to the ack.                                           *)
DecodePush(h) ==
    /\ At(h, "start")
    /\ AcceptedPush(Job(h))
    /\ Goto(h, "ack")
    /\ UNCHANGED <<registryVars, writing>>
    /\ HandlerStep

SendPushAck(h) ==
    /\ At(h, "ack")
    /\ AcceptedPush(Job(h))
    /\ SenderReceives
    /\ writing' = {PushACKFor(Job(h))}
    /\ Goto(h, IF Job(h).data.stat THEN "stat" ELSE "rx")
    /\ UNCHANGED registryVars
    /\ HandlerStep

(* handleStat: the consumer of statsChan takes the statistics.             *)
ForwardStat(h) ==
    /\ At(h, "stat")
    /\ Goto(h, "rx")
    /\ UNCHANGED <<registryVars, writing>>
    /\ HandlerStep

Forwardable(frame) == frame = "good" \/ (frame = "badCRC" /\ SkipCRC)

Frames(h)      == Job(h).data.rxpk
NextFrame(h)   == Frames(h)[task[h].next]

(* Mutation of AtFrame: the last frame is missed.                          *)
AtFrame_ButLast(h) == At(h, "rx") /\ task[h].next < Len(Frames(h))

AtFrame(h)     == At(h, "rx") /\ task[h].next <= Len(Frames(h))

(* handleRXPacket: the consumer of rxChan takes the packet.                *)
ForwardRX(h) ==
    /\ AtFrame(h)
    /\ Forwardable(NextFrame(h))
    /\ task' = [task EXCEPT ![h].next = @ + 1]
    /\ UNCHANGED <<registryVars, writing>>
    /\ HandlerStep

(* Mutation of EndRX: a refused frame ends only its round of the loop.     *)
EndRX_OnlyRound(h) ==
    /\ At(h, "rx")
    /\ AtFrame(h) => ~Forwardable(NextFrame(h))
    /\ IF AtFrame(h) THEN task' = [task EXCEPT ![h].next = @ + 1] ELSE Return(h)
    /\ UNCHANGED <<registryVars, writing>>
    /\ HandlerStep

(* handleRXPacket returns an error, and handlePushData with it; or all is  *)
(* forwarded.                                                              *)
EndRX(h) ==
    /\ At(h, "rx")
    /\ AtFrame(h) => ~Forwardable(NextFrame(h))
    /\ Return(h)
    /\ UNCHANGED <<registryVars, writing>>
    /\ HandlerStep

-----------------------------------------------------------------------------
(* The cleanup goroutine.                                                  *)

CleanupLock ==
    /\ cleaner = "lock"
    /\ holder = Nobody
    /\ holder' = Cleaner
    /\ cleaner' = "scan"
    /\ todo' = DOMAIN gateways
    /\ UNCHANGED <<gateways, victim, nap>>
    /\ CleanerStep

CleanupKeep ==
    /\ cleaner = "scan"
    /\ \E m \in todo : ~Expired(m) /\ todo' = todo \ {m}
    /\ UNCHANGED <<registryVars, cleaner, victim, nap>>
    /\ CleanerStep

(* Mutation of CleanupExpired: onDelete is called with the lock released.  *)
CleanupExpired_Unlocked ==
    /\ cleaner = "scan"
    /\ \E m \in todo : Expired(m) /\ todo' = todo \ {m} /\ victim' = {m}
    /\ cleaner' = "onDelete"
    /\ holder' = Nobody
    /\ UNCHANGED <<gateways, nap>>
    /\ CleanerStep

CleanupExpired ==
    /\ cleaner = "scan"
    /\ \E m \in todo : Expired(m) /\ todo' = todo \ {m} /\ victim' = {m}
    /\ cleaner' = "onDelete"
    /\ UNCHANGED <<registryVars, nap>>
    /\ CleanerStep

(* Mutation of OnDeleteSucceeds: the callback stands in for the delete.    *)
OnDeleteSucceeds_KeepsRoute ==
    /\ cleaner = "onDelete"
    /\ victim' = {}
    /\ cleaner' = "scan"
    /\ UNCHANGED <<registryVars, todo, nap>>
    /\ CleanerStep

OnDeleteSucceeds ==
    /\ cleaner = "onDelete"
    /\ gateways' = [m \in DOMAIN gateways \ victim |-> gateways[m]]
    /\ victim' = {}
    /\ cleaner' = "scan"
    /\ UNCHANGED <<holder, todo, nap>>
    /\ CleanerStep

(* The end of cleanup: the deferred Unlock and the sleep.                  *)
Rest ==
    /\ holder' = Nobody
    /\ cleaner' = "nap"
    /\ nap' = Period
    /\ todo' = {}
    /\ victim' = {}

OnDeleteFails ==
    /\ cleaner = "onDelete"
    /\ "onDelete" \in Faults
    /\ Rest
    /\ UNCHANGED gateways
    /\ CleanerStep

CleanupEnds ==
    /\ cleaner = "scan"
    /\ todo = {}
    /\ Rest
    /\ UNCHANGED gateways
    /\ CleanerStep

CleanupWakes ==
    /\ cleaner = "nap"
    /\ nap = 0
    /\ cleaner' = "lock"
    /\ UNCHANGED <<registryVars, todo, victim, nap>>
    /\ CleanerStep

-----------------------------------------------------------------------------
(* Send and SendTXPK.  The caller makes one call at a time.                *)

TxAccept ==
    /\ txJob = {}
    /\ txOut = {}
    /\ \E m \in Downlinks : txJob' = {m}
    /\ UNCHANGED <<txOut, writing>>
    /\ TxStep

(* get: a read section, which waits for a write section to end.            *)
TxLookup ==
    /\ holder = Nobody
    /\ \E m \in txJob \cap DOMAIN gateways :
          txOut' = {PullRespFor(m, gateways[m].ver, gateways[m].addr)}
    /\ txJob' = {}
    /\ UNCHANGED writing
    /\ TxStep

(* Mutation of TxUnknown: the lookup is repeated until the gateway shows.  *)
TxUnknown_Retries ==
    /\ holder = Nobody
    /\ \E m \in txJob : m \notin DOMAIN gateways
    /\ UNCHANGED <<txVars, writing>>
    /\ TxStep

(* errGatewayDoesNotExist: the caller logs it and the downlink is gone.    *)
TxUnknown ==
    /\ holder = Nobody
    /\ \E m \in txJob : m \notin DOMAIN gateways
    /\ txJob' = {}
    /\ UNCHANGED <<txOut, writing>>
    /\ TxStep

TxSend ==
    /\ SenderReceives
    /\ txOut # {}
    /\ writing' = txOut
    /\ txOut' = {}
    /\ UNCHANGED txJob
    /\ TxStep

-----------------------------------------------------------------------------
(* sendPackets.                                                            *)

StartSender ==
    /\ sender = "starting"
    /\ sender' = "running"
    /\ UNCHANGED <<reader, writing>>
    /\ SocketStep

WriteUDP ==
    /\ writing # {}
    /\ SocketOpen
    /\ writing' = {}
    /\ UNCHANGED <<reader, sender>>
    /\ SocketStep

(* WriteToUDP returns an error: the loop, and with it the goroutine, ends. *)
WriteFails ==
    /\ writing # {}
    /\ ~SocketOpen \/ "write" \in Faults
    /\ writing' = {}
    /\ sender' = "stopped"
    /\ UNCHANGED reader
    /\ SocketStep

(* The range over a closed udpSendChan ends.                               *)
SenderEnds ==
    /\ sender = "running"
    /\ writing = {}
    /\ closing # "open"
    /\ sender' = "stopped"
    /\ UNCHANGED <<reader, writing>>
    /\ SocketStep

-----------------------------------------------------------------------------
(* Close, and what its closed channel does to the goroutines that send.    *)

CloseChan ==
    /\ MayClose
    /\ closing = "open"
    /\ closing' = "chanClosed"
    /\ UNCHANGED crashed
    /\ CloseStep

CloseConn ==
    /\ closing = "chanClosed"
    /\ closing' = "connClosed"
    /\ UNCHANGED crashed
    /\ CloseStep

CloseConnFails ==
    /\ closing = "chanClosed"
    /\ "close" \in Faults
    /\ closing' = "failed"
    /\ UNCHANGED crashed
    /\ CloseStep

(* Mutation of CloseWaits: the sender is not counted.                      *)
CloseWaits_ReaderOnly ==
    /\ closing = "connClosed"
    /\ reader # "running"
    /\ closing' = "returned"
    /\ UNCHANGED crashed
    /\ CloseStep

(* wg.Wait: the reader and the sender count from the wg.Add(1) they begin  *)
(* with to the wg.Done() they end with; the handlers never count.          *)
CloseWaits ==
    /\ closing = "connClosed"
    /\ reader # "running"
    /\ sender # "running"
    /\ closing' = "returned"
    /\ UNCHANGED crashed
    /\ CloseStep

(* A send on a closed channel panics, also one that was already waiting.   *)
SendPanics ==
    /\ closing # "open"
    /\ txOut # {} \/ \E h \in Handlers : At(h, "ack")
    /\ crashed' = TRUE
    /\ UNCHANGED closing
    /\ CloseStep

-----------------------------------------------------------------------------
(* One tick of the wall clock.                                             *)
Tick ==
    /\ gateways' = [m \in DOMAIN gateways |->
                       [gateways[m] EXCEPT !.age = Older(@)]]
    /\ task' = [h \in Handlers |->
                   IF task[h].pc \in {"lock", "onNew"}
                       THEN [task[h] EXCEPT !.stamp = Older(@)]
                       ELSE task[h]]
    /\ nap' = IF nap > 0 THEN nap - 1 ELSE 0
    /\ UNCHANGED <<holder, cleaner, todo, victim, txVars,
                   socketVars, lifeVars>>

Handle(h) ==
    \/ Receive(h)
    \/ Discard(h)
    \/ DecodePull(h)
    \/ SetKnown(h)
    \/ SetNew(h)
    \/ OnNewSucceeds(h)
    \/ OnNewFails(h)
    \/ SendPullAck(h)
    \/ DecodePush(h)
    \/ SendPushAck(h)
    \/ ForwardStat(h)
    \/ ForwardRX(h)
    \/ EndRX(h)

Clean ==
    \/ CleanupLock
    \/ CleanupKeep
    \/ CleanupExpired
    \/ OnDeleteSucceeds
    \/ OnDeleteFails
    \/ CleanupEnds
    \/ CleanupWakes

Transmit == TxAccept \/ TxLookup \/ TxUnknown \/ TxSend

Socket ==
    \/ StartReader
    \/ ReadFails
    \/ StartSender
    \/ WriteUDP
    \/ WriteFails
    \/ SenderEnds

Close ==
    \/ CloseChan
    \/ CloseConn
    \/ CloseConnFails
    \/ CloseWaits
    \/ SendPanics

Next ==
    /\ ~crashed
    /\ \/ \E h \in Handlers : Handle(h)
       \/ Clean
       \/ Transmit
       \/ Socket
       \/ Close
       \/ Tick

Spec == Init /\ [][Next]_vars

-----------------------------------------------------------------------------
(* Fairness.  The runtime schedules every goroutine, so an enabled step of *)
(* one is eventually taken (WF).  The RWMutex and the channel hand over in *)
(* arrival order (sync.Mutex in starvation mode, the channel's sudog       *)
(* queue), so a goroutine that keeps finding them busy gets its turn (SF). *)
(* Callbacks return.  Nothing is assumed of arrivals, of downlinks, of     *)
(* faults, of Close, nor here of the consumers of rxChan and statsChan.    *)

HandlerFairness(h) ==
    /\ WF_vars(Discard(h) \/ DecodePull(h) \/ DecodePush(h))
    /\ SF_vars(SetKnown(h) \/ SetNew(h))
    /\ WF_vars(OnNewSucceeds(h) \/ OnNewFails(h))
    /\ SF_vars(SendPullAck(h) \/ SendPushAck(h))
    /\ WF_vars(EndRX(h))

CleanerFairness ==
    /\ SF_vars(CleanupLock)
    /\ WF_vars(CleanupKeep \/ CleanupExpired \/ CleanupEnds \/ CleanupWakes)
    /\ WF_vars(OnDeleteSucceeds \/ OnDeleteFails)

SocketFairness ==
    /\ WF_vars(StartReader)
    /\ WF_vars(StartSender)
    /\ WF_vars(WriteUDP \/ WriteFails)
    /\ WF_vars(SenderEnds)

TxFairness == SF_vars(TxLookup \/ TxUnknown) /\ SF_vars(TxSend)

Fairness ==
    /\ WF_vars(Tick)
    /\ \A h \in Handlers : HandlerFairness(h)
    /\ CleanerFairness
    /\ SocketFairness
    /\ TxFairness

(* The pumps of main.go come back to receive.                              *)
ConsumersReceive ==
    \A h \in Handlers : WF_vars(ForwardStat(h)) /\ WF_vars(ForwardRX(h))

(* The goroutine that called Close goes on, and so does a reader whose     *)
(* socket was closed under it.                                             *)
CloseFairness ==
    /\ WF_vars(CloseConn \/ CloseConnFails)
    /\ WF_vars(CloseWaits)
    /\ WF_vars(~SocketOpen /\ ReadFails)

StalledConsumersSpec == Spec /\ Fairness
FairSpec             == Spec /\ Fairness /\ ConsumersReceive
ClosingSpec          == Spec /\ Fairness /\ CloseFairness

-----------------------------------------------------------------------------
(* Safety.                                                                 *)

(* The lock is held by exactly the goroutine that is inside a section with *)
(* a callback, and every way out of set and cleanup, errors included,      *)
(* gives it back.                                                          *)
LockMatchesSections ==
    /\ \A h \in Handlers : At(h, "onNew") <=> holder = h
    /\ cleaner \in {"scan", "onDelete"} <=> holder = Cleaner

(* While onNew runs for a gateway, the registry does not get that gateway  *)
(* from another handler: set's check and its store are one decision, and   *)
(* onNew is called once for each time a gateway enters the registry.       *)
NewGatewayStaysNew ==
    \A h \in Handlers : At(h, "onNew") => Mac(h) \notin DOMAIN gateways

(* a is a PULL_DATA by which gateway m asked for its downlinks at addr.    *)
PullsFor(a, m, addr, ver) ==
    /\ AcceptedPull(a)
    /\ a.data.mac = m
    /\ a.data.ver = ver
    /\ a.src = addr

(* What sendPackets may put on the wire: an acknowledgement that repeats   *)
(* version and token of a datagram of the right type to the address it     *)
(* came from, or a PULL_RESP to an address, in the protocol version, that  *)
(* the addressed gateway itself pulled with.                               *)
Justified(p) ==
    \/ \E a \in Arrivals : AcceptedPull(a) /\ p = PullACKFor(a)
    \/ \E a \in Arrivals : AcceptedPush(a) /\ p = PushACKFor(a)
    \/ /\ p.id = PullResp
       /\ \E a \in Arrivals : PullsFor(a, p.body, p.dst, p.ver)

(* Every packet the sender writes is justified, through all the hands the  *)
(* route passes (registry, lookup, channel) after the lock is given back.  *)
WrittenIsJustified == \A p \in writing : Justified(p)

(* A route leaves the registry only when its gateway has been silent for   *)
(* longer than the limit at that moment: no PULL_DATA slips in between the *)
(* comparison and the delete, however long onDelete takes.                 *)
EvictsOnlyExpired ==
    [][\A m \in DOMAIN gateways \ DOMAIN gateways' : Expired(m)]_vars

(* When Close returns without an error, sendPackets has let go of its last *)
(* packet and will not touch the closed socket again.                      *)
NothingInFlightAtReturn == closing = "returned" => writing = {}

-----------------------------------------------------------------------------
(* Refinement.                                                             *)

(* The acknowledgement a handler is waiting to hand to the sender.         *)
AckOwed(h) ==
    IF ~At(h, "ack") THEN {}
    ELSE IF AcceptedPull(Job(h)) THEN {PullACKFor(Job(h))}
    ELSE {PushACKFor(Job(h))}

Directory == INSTANCE GatewayDirectory WITH
    routes <- gateways,
    owed   <- [h \in Handlers |-> AckOwed(h)],
    out    <- txOut,
    wire   <- writing

(* The backend keeps the promises of the directory: a PULL_ACK leaves only *)
(* after set stored the route it confirms, whatever the callback, the lock *)
(* and the sender do in between; a downlink leaves for a route that was    *)
(* current at its lookup.                                                  *)
KeepsDirectory == Directory!DirectorySpec

-----------------------------------------------------------------------------
(* Liveness.                                                               *)

(* Every PULL_DATA that is being handled is answered on the socket, under  *)
(* contention for the lock and the channel, and even when the consumers of *)
(* the uplink channels have stopped receiving.                             *)
PullAnswered ==
    \A a \in {b \in Arrivals : AcceptedPull(b)} :
        (\E h \in Handlers : Job(h) = a) ~> PullACKFor(a) \in writing

(* A PUSH_DATA is acknowledged whether or not anybody takes its content.   *)
PushAcknowledged ==
    \A a \in {b \in Arrivals : AcceptedPush(b)} :
        (\E h \in Handlers : Job(h) = a /\ At(h, "start"))
            ~> PushACKFor(a) \in writing

(* The number of frames of a in front of the first that is refused.        *)
Acceptable(a) ==
    CHOOSE n \in 0 .. Len(a.data.rxpk) :
        /\ \A i \in 1 .. n : Forwardable(a.data.rxpk[i])
        /\ n < Len(a.data.rxpk) => ~Forwardable(a.data.rxpk[n + 1])

(* As long as the consumers of the uplink channels come back to receive,   *)
(* each frame of a PUSH_DATA is forwarded up to the first one that is      *)
(* refused (all of them if none is), and that one takes those behind it    *)
(* with it: an error ends the loop, not only its round.                    *)
FramesForwarded ==
    /\ ConsumersReceive =>
          \A h \in Handlers : \A a \in {b \in Arrivals : AcceptedPush(b)} :
             At(h, "start") /\ Job(h) = a
                ~> Job(h) = a /\ task[h].next = Acceptable(a) + 1
    /\ [](\A h \in Handlers : Job(h) # NoJob =>
             task[h].next <= Acceptable(Job(h)) + 1)

(* A gateway that stays silent is forgotten.                               *)
SilentForgotten ==
    \A m \in MACs :
        (m \in DOMAIN gateways /\ Expired(m))
            ~> (m \notin DOMAIN gateways \/ ~Expired(m))

(* Close returns, unless a send on the channel it closed ends the process: *)
(* wg.Wait does not wait for a goroutine that cannot finish.               *)
CloseReturns ==
    closing # "open" ~> (closing \in {"failed", "returned"} \/ crashed)

(* A downlink handed to Send leaves Send, on its way or refused, as long   *)
(* as the backend is not being closed.                                     *)
DownlinkLeavesSend ==
    \A m \in Downlinks :
        (m \in txJob) ~> ((txJob = {} /\ txOut = {}) \/ closing # "open")
=============================================================================
