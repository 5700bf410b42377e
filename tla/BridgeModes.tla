---------------------------- MODULE BridgeModes -----------------------------
(***************************************************************************)
(* The program of main.go in each of its modes: the start-up loop, the     *)
(* gateway backend, the pumps between it and the server's backend, and     *)
(* the content they carry.  The CoAP and HTTPS backends are modelled in    *)
(* full; of the MQTT backend only what its callers see (a call returns,    *)
(* with or without an error, or it does not), MqttBackend has the rest.    *)
(*                                                                         *)
(*   main        boot                                                      *)
(*   RX, stats pump   pump                                                 *)
(*   TX pump     carrying, and the Send of GatewayBackend                  *)
(*   SubscribeGatewayTX of CoAP, txPacketHandler of MQTT      incoming     *)
(*                                                                         *)
(* Shutdown is left to GatewayBackend.                                     *)
(***************************************************************************)
EXTENDS GatewayBackend, Conversions, FiniteSets

CONSTANTS
    Configurations, \* the sets of servers that may be configured
    RXPKs,          \* the elements of "rxpk" gateways send
    Stats,          \* the "stat" objects they send
    TXPKs,          \* the "txpk" objects servers send
    Fixed           \* the gateway CoAP downlinks go to, 0000080027000197

ASSUME ContentAssumption ==
    /\ \A j \in RXPKs : IsRXPK(j)
    /\ \A s \in Stats : IsStat(s)
    /\ \A j \in TXPKs : IsTXPK(j)
    /\ Fixed \in Downlinks

VARIABLES
    servers,    \* the servers given on the command line
    boot,       \* how far run() has got
    pump,       \* what the two uplink pumps do
    incoming,   \* the downlink waiting to be taken from txPacketChan
    carrying,   \* the downlink the TX pump is in Send with
    event       \* what the last step posted to the server or put in a
                \* PULL_RESP, and what that was made from

modeVars  == <<servers, boot, pump, incoming, carrying, event>>
modesVars == <<vars, modeVars>>

(* The backend that is made, and that the pumps use: the switch of the     *)
(* start-up loop and the conditions of the pumps have the same order.      *)
Mode ==
    IF "mqtt" \in servers THEN "mqtt"
    ELSE IF "coap" \in servers THEN "coap"
    ELSE IF "https" \in servers THEN "https"
    ELSE "none"

ModesInit ==
    /\ Init
    /\ servers \in Configurations
    /\ boot = "setup"
    /\ pump = [p \in {"rx", "stats"} |-> "free"]
    /\ incoming = {}
    /\ carrying = {}
    /\ event = {}

ModesTypeOK ==
    /\ servers \in Configurations
    /\ boot \in {"setup", "sleep", "bind", "running", "fatal"}
    /\ pump \in [{"rx", "stats"} -> {"free", "posting", "stuck"}]
    /\ Mode = "coap" => pump = [p \in {"rx", "stats"} |-> "free"]
    /\ Mode = "https" => incoming = {} /\ carrying = {}
    /\ \A p \in DOMAIN pump : pump[p] = "stuck" => Mode = "https"
    /\ Cardinality(carrying) <= 1 /\ carrying = {} <=> txJob = {}

-----------------------------------------------------------------------------
(* The start-up loop.                                                      *)

Boot(from, to) ==
    /\ boot = from
    /\ boot' = to
    /\ UNCHANGED <<vars, servers, pump, incoming, carrying, event>>

SetupSucceeds == Mode # "none" /\ Boot("setup", "bind")

(* NewBackend returns an error, or the switch has no case.  The CoAP       *)
(* backend has no errors to return.                                        *)
SetupFails == Mode # "coap" /\ Boot("setup", "sleep")

(* log.Fatalf, or the panic over a key pair.                               *)
SetupDies == Mode # "none" /\ Boot("setup", "fatal")

(* Mutation of Retry: the loop is left.                                    *)
Retry_Never == FALSE /\ Boot("sleep", "setup")

Retry == Boot("sleep", "setup")

Bind == Boot("bind", "running")

BindFails == Boot("bind", "fatal")

-----------------------------------------------------------------------------
(* The gateway backend by itself, once it runs.                            *)

Running == boot = "running"

Alone == event' = {} /\ UNCHANGED <<servers, boot, pump, incoming, carrying>>

HandlerAlone(h) ==
    /\ Running
    /\ \/ Receive(h)
       \/ Discard(h)
       \/ DecodePull(h)
       \/ SetKnown(h)
       \/ SetNew(h)
       \/ OnNewSucceeds(h)
       \/ Mode = "mqtt" /\ OnNewFails(h)
       \/ SendPullAck(h)
       \/ DecodePush(h)
       \/ SendPushAck(h)
       \/ EndRX(h)
    /\ Alone

CleanerAlone ==
    /\ Running
    /\ CleanupLock \/ CleanupKeep \/ CleanupExpired \/ CleanupEnds \/ CleanupWakes
    /\ Alone

SocketAlone == Running /\ (StartReader \/ StartSender \/ WriteUDP) /\ Alone

Passes == Running /\ Tick /\ Alone

(* Mutation of onDeleteCalls: the condition the right way round.           *)
onDeleteCalls_InMqttMode == "mqtt" \in servers

(* Whether onDelete calls UnSubscribeGatewayTX, of the MQTT backend.       *)
onDeleteCalls == "mqtt" \notin servers

(* What a panic leaves behind does not matter.                             *)
Panic == crashed' = TRUE /\ UNCHANGED <<registryVars, task, cleanerVars, txVars,
                                        socketVars, closing>>

Evict ==
    /\ Running
    /\ IF onDeleteCalls /\ "mqtt" \notin servers
       THEN cleaner = "onDelete" /\ Panic \* of a nil *mqttpubsub.Backend
       ELSE OnDeleteSucceeds
    /\ Alone

-----------------------------------------------------------------------------
(* The uplink pumps: PublishGatewayRX and PublishGatewayStats.             *)

Posted(kind, m, read, posted) ==
    event' = {[kind |-> kind, mac |-> m, read |-> read, posted |-> posted]}

(* Mutation of Publishes: the CoAP request is confirmable.                 *)
Publishes_Confirmable(p) ==
    /\ pump[p] = "free"
    /\ pump' = [pump EXCEPT ![p] = "posting"]
    /\ UNCHANGED <<servers, boot, incoming, carrying>>

(* publish: a CoAP request is not confirmable and Send does not wait for   *)
(* an answer; MQTT waits for its token and HTTPS for the response.         *)
Publishes(p) ==
    /\ pump[p] = "free"
    /\ pump' = [pump EXCEPT ![p] = IF Mode = "coap" THEN "free" ELSE "posting"]
    /\ UNCHANGED <<servers, boot, incoming, carrying>>

(* What the backend that is used posts of a packet.                        *)
PublishGatewayRX(p) ==
    IF Mode = "mqtt" THEN NewrxPacketBytes(p) ELSE newGatewayRX(p)

PublishGatewayStats(p) ==
    IF Mode = "mqtt" THEN NewstatsPacketBytes(p) ELSE newGatewayStats(p)

(* What of an rxpk GatewayBackend tells apart.                             *)
Kind(m, j) ==
    IF newRXPacketFromRXPK(m, j) = {} THEN "undecodable"
    ELSE IF j.stat = 1 THEN "good" ELSE "badCRC"

PublishRX(h) ==
    /\ Running
    /\ ForwardRX(h)
    /\ Publishes("rx")
    /\ \E j \in RXPKs : \E p \in newRXPacketFromRXPK(Mac(h), j) :
          /\ Kind(Mac(h), j) = NextFrame(h)
          /\ Posted("rx", p.MAC, j, PublishGatewayRX(p))

PublishStats(h) ==
    /\ Running
    /\ ForwardStat(h)
    /\ Publishes("stats")
    /\ \E s \in Stats :
          LET p == newGatewayStatsPacket(Mac(h), s)
          IN  Posted("stats", p.MAC, s, PublishGatewayStats(p))

(* publish returns: the token completes, or the response is no TXPK.       *)
PublishReturns ==
    /\ Running
    /\ \E p \in DOMAIN pump :
          pump[p] = "posting" /\ pump' = [pump EXCEPT ![p] = "free"]
    /\ event' = {}
    /\ UNCHANGED <<vars, servers, boot, incoming, carrying>>

(* The HTTPS response is a TXPK: it is sent to txPacketChan, from which    *)
(* nobody receives in this mode.                                           *)
PublishAnswered ==
    /\ Running
    /\ Mode = "https"
    /\ \E p \in DOMAIN pump :
          pump[p] = "posting" /\ pump' = [pump EXCEPT ![p] = "stuck"]
    /\ event' = {}
    /\ UNCHANGED <<vars, servers, boot, incoming, carrying>>

-----------------------------------------------------------------------------
(* Downlinks.                                                              *)

Arrives(m, j, packet) ==
    /\ incoming = {}
    /\ incoming' = {[mac |-> m, read |-> j, packet |-> packet]}
    /\ event' = {}
    /\ UNCHANGED <<vars, servers, boot, pump, carrying>>

(* SubscribeGatewayTX of the CoAP backend: a datagram that times out, does *)
(* not parse or is no TXPK is passed over.                                 *)
CoapDelivers ==
    /\ Running
    /\ Mode = "coap"
    /\ \E j \in TXPKs : \E t \in DecodeTXPK(j) : Arrives(Fixed, j, t)

(* ... one without a path is an index out of range.                        *)
CoapDeliversPathless ==
    /\ Running
    /\ Mode = "coap"
    /\ incoming = {}
    /\ Panic
    /\ Alone

(* Mutation of NilSubscriber: it is started with an MQTT server alone, too.*)
NilSubscriber_Always == Running /\ Mode = "mqtt" /\ Panic /\ Alone

(* run() starts the CoAP subscriber whenever there is a CoAP server, also  *)
(* when the backend that was made is the MQTT one.                         *)
NilSubscriber ==
    /\ Running
    /\ "coap" \in servers /\ Mode # "coap"
    /\ Panic
    /\ Alone

(* txPacketHandler of the MQTT backend.                                    *)
MqttDelivers ==
    /\ Running
    /\ Mode = "mqtt"
    /\ \E m \in Downlinks, j \in TXPKs : \E p \in txPacketHandler(m, j) :
          Arrives(p.MAC, j, p)

(* The TX pump.                                                            *)
PumpTakes ==
    /\ Running
    /\ TxAccept
    /\ txJob' = {d.mac : d \in incoming}
    /\ carrying' = incoming
    /\ incoming' = {}
    /\ event' = {}
    /\ UNCHANGED <<servers, boot, pump>>

(* Send of an MQTT downlink, SendTXPK of a CoAP one: the PULL_RESP.        *)
Sends ==
    /\ Running
    /\ TxLookup
    /\ \E d \in carrying :
          Posted("tx", d.mac, d.read,
                 MarshalTXPK(IF Mode = "mqtt" THEN newTXPKFromTXPacket(d.packet)
                             ELSE d.packet))
    /\ carrying' = {}
    /\ UNCHANGED <<servers, boot, pump, incoming>>

SendRefused ==
    /\ Running
    /\ TxUnknown
    /\ carrying' = {}
    /\ event' = {}
    /\ UNCHANGED <<servers, boot, pump, incoming>>

SendHandsOver == Running /\ TxSend /\ Alone

ModesNext ==
    /\ ~crashed
    /\ \/ SetupSucceeds
       \/ SetupFails
       \/ SetupDies
       \/ Retry
       \/ Bind
       \/ BindFails
       \/ \E h \in Handlers :
             \/ HandlerAlone(h)
             \/ PublishRX(h)
             \/ PublishStats(h)
       \/ CleanerAlone
       \/ SocketAlone
       \/ Passes
       \/ Evict
       \/ PublishReturns
       \/ PublishAnswered
       \/ CoapDelivers
       \/ CoapDeliversPathless
       \/ NilSubscriber
       \/ MqttDelivers
       \/ PumpTakes
       \/ Sends
       \/ SendRefused
       \/ SendHandsOver

ModesSpec == ModesInit /\ [][ModesNext]_modesVars

-----------------------------------------------------------------------------
(* Fairness, for the reasons given in GatewayBackend.  The server comes up *)
(* in the end: a set-up that is tried again and again succeeds or ends the *)
(* program.  Nothing is assumed of publish outside the CoAP mode (neither  *)
(* a token nor a response has to come), nor of downlinks and their pump.   *)

Step(A) == ~crashed /\ Running /\ A /\ Alone

StartFairness ==
    /\ SF_modesVars(SetupSucceeds \/ SetupDies)
    /\ WF_modesVars(Retry \/ Bind \/ BindFails)

(* The steps of a handler are at different places of its code.             *)
HandlersFairness(h) ==
    /\ SF_modesVars(Step(SetKnown(h) \/ SetNew(h)))
    /\ SF_modesVars(Step(SendPullAck(h) \/ SendPushAck(h)))
    /\ WF_modesVars(\/ Step(\/ Discard(h) \/ DecodePull(h) \/ DecodePush(h)
                            \/ OnNewSucceeds(h) \/ OnNewFails(h) \/ EndRX(h))
                    \/ ~crashed /\ (PublishRX(h) \/ PublishStats(h)))

CleanersFairness ==
    /\ SF_modesVars(Step(CleanupLock))
    /\ WF_modesVars(\/ Step(\/ CleanupKeep \/ CleanupExpired \/ CleanupEnds
                            \/ CleanupWakes)
                    \/ ~crashed /\ Evict)

ModesFairness ==
    /\ StartFairness
    /\ \A h \in Handlers : HandlersFairness(h)
    /\ CleanersFairness
    /\ WF_modesVars(Step(StartReader \/ StartSender \/ WriteUDP))
    /\ WF_modesVars(Step(Tick))

FairModesSpec == ModesSpec /\ ModesFairness

-----------------------------------------------------------------------------
(* Content.                                                                *)

UplinkKept(read, posted) ==
    /\ \A field \in {"chan", "stat", "rssi", "size", "data", "other"} :
          posted[field] = read[field]
    /\ posted.time = IF Mode # "mqtt" THEN TimeOf(read.time)
                     ELSE IF TimeOf(read.time) = ZeroTime THEN <<>>
                     ELSE <<read.time[1], 0>>
    /\ read.datr.text.form = "rate" =>
          posted.modu = "LORA" /\ posted.datr = read.datr
    /\ read.datr.kind = "number" =>
          /\ posted.datr = JsonText(RateText(0, 0))
          /\ posted.modu = IF Mode = "mqtt" THEN "FSK" ELSE "LORA"

(* What a server reads of an uplink is what the gateway said, but for four *)
(* things: in MQTT mode a time loses its fraction; outside it a missing    *)
(* time becomes one of year one; the bit rate of an FSK frame is lost in   *)
(* every mode; and outside MQTT mode such a frame is passed off as a LoRa  *)
(* one.                                                                    *)
UplinkKeepsContent ==
    \A e \in {x \in event : x.kind = "rx"} : UplinkKept(e.read, e.posted)

StatsKept(read, posted) ==
    IF Mode # "mqtt"
    THEN \A c \in Counters : posted[c] = read[c]
    ELSE (\A c \in Counters : read[c] < IntSize \div 2) =>
            /\ posted.rxnb = read.rxnb
            /\ posted.rxok = read.rxok
            /\ posted.txnb = read.dwnb
            /\ posted.txPacketsEmitted = read.txnb

(* The counters of a stat reach the server unchanged, on every build when  *)
(* they are posted as uint32; in MQTT mode as long as they fit an int,     *)
(* which on a 32-bit build they do for half their range, and under other   *)
(* names: "txnb" says how many downlinks came, not how many were emitted.  *)
StatsKeepCounters ==
    \A e \in {x \in event : x.kind = "stats"} : StatsKept(e.read, e.posted)

DownlinkKept(read, posted) ==
    /\ Mode = "coap" /\ read.datr # JsonText(NoText)
          /\ read.datr.num \in 0 .. (U32Size - 1)
          => posted = [read EXCEPT !.ipol = <<BoolOf(read.ipol)>>]
    /\ Mode = "mqtt" =>
          /\ posted.other = read.other
          /\ read.ipol # <<>> => posted.ipol = read.ipol
          /\ posted.data = Base64(read.data.bytes)
          /\ Within(read.powe, 0, 256) => posted.powe = read.powe
          /\ /\ read.datr.text = RateText(read.datr.text.sf, 125)
             /\ read.datr.text.sf < IntLimit
             => posted.datr = read.datr

(* A CoAP downlink reaches the gateway as the server wrote it, with a      *)
(* polarisation it may have left out.  Of an MQTT one the gateway gets the *)
(* data up to its first base64 error, with the size of that; a bandwidth   *)
(* of 125 whatever was asked for; a power modulo 256; no preamble, RF      *)
(* chain, time or CRC setting; and the polarisation the message names.     *)
DownlinkKeepsContent ==
    \A e \in {x \in event : x.kind = "tx"} :
        /\ Mode = "coap" => e.mac = Fixed
        /\ DownlinkKept(e.read, e.posted)

(* A LoRa downlink over MQTT that names no polarisation is sent with the   *)
(* default of the documentation, true.  txPacketHandler makes a pointer of *)
(* its bool, so newTXPKFromTXPacket never meets the nil it has a default   *)
(* for.                                                                    *)
UnsetIPolIsDefault ==
    \A e \in {x \in event : x.kind = "tx"} :
        Mode = "mqtt" /\ e.read.ipol = <<>> /\ e.posted.modu = "LORA"
            => e.posted.ipol = <<TRUE>>

-----------------------------------------------------------------------------
(* Life and death.                                                         *)

(* With no CoAP server configured the program panics only over a gateway   *)
(* that fell silent, and with an MQTT server not even then: there is no    *)
(* moment between the comparison with lastSeen and the call of onDelete at *)
(* which a ping comes too late.  With one it may panic at any time: on a   *)
(* message without a path, or, next to an MQTT server, because the         *)
(* subscriber runs on a nil *coap.Backend.                                 *)
AliveWhileHeard ==
    [][crashed' => \/ "coap" \in servers
                   \/ /\ "mqtt" \notin servers
                      /\ \E m \in DOMAIN gateways : Expired(m)]_modesVars

(* In CoAP and HTTPS mode one gateway that stays silent ends the program:  *)
(* onDelete calls a method of a nil *mqttpubsub.Backend.                   *)
SilentGatewayKills ==
    \A m \in MACs :
        (Mode \in {"coap", "https"} /\ m \in DOMAIN gateways /\ Expired(m))
            ~> (crashed \/ (m \in DOMAIN gateways /\ ~Expired(m)))

(* The acknowledgements of a program that lives do not depend on the       *)
(* server: not on a token that never completes, not on a response that     *)
(* blocks a pump for good.  (In MQTT mode a PULL_DATA may wait for onNew,  *)
(* which MqttBridge is about.)                                             *)
AcksOutlivePumps ==
    /\ \A a \in {b \in Arrivals : AcceptedPull(b)} :
          (Mode # "mqtt" /\ \E h \in Handlers : Job(h) = a)
              ~> (PullACKFor(a) \in writing \/ crashed)
    /\ \A a \in {b \in Arrivals : AcceptedPush(b)} :
          (\E h \in Handlers : Job(h) = a /\ At(h, "start"))
              ~> (PushACKFor(a) \in writing \/ crashed)

(* In CoAP mode nothing stalls an uplink: a PUSH_DATA all of whose frames  *)
(* are acceptable is posted to its last frame.                             *)
CoapUplinksFlow ==
    \A h \in Handlers : \A a \in {b \in Arrivals : AcceptedPush(b)} :
        (\A i \in DOMAIN a.data.rxpk : Forwardable(a.data.rxpk[i])) =>
            ((Mode = "coap" /\ At(h, "start") /\ Job(h) = a)
                ~> (crashed \/ (Job(h) = a /\ task[h].next = Len(Frames(h)) + 1)))

(* A program with a server to talk to gets past the start-up loop, or      *)
(* ends, once the server is there.                                         *)
StartsUp == boot = "setup" /\ Mode # "none" ~> boot \in {"running", "fatal"}
=============================================================================
