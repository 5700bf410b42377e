---------------------------- MODULE ModesProofs -----------------------------
(***************************************************************************)
(* What holds of the whole program in every mode, for every content and    *)
(* every width of int: the content of uplinks, statistics and downlinks,   *)
(* and what it takes to end the program when no CoAP server is configured. *)
(*                                                                         *)
(* The gateway backend inside the program takes the steps GatewayBackend   *)
(* allows it (BackendSteps), so its invariants hold here too; the last     *)
(* step before a panic is looked at by itself.                             *)
(***************************************************************************)
EXTENDS BridgeModes, GatewayBackendProofs, FiniteSetTheorems

-----------------------------------------------------------------------------
(* Widths.                                                                 *)

LEMMA Halves ==
    /\ U32Size \div 2 \in Nat /\ 2 * (U32Size \div 2) = U32Size
    /\ U32Size <= IntSize \div 2 \/ IntSize = U32Size
    /\ IntSize \in Nat /\ IntSize > 0
  <1>1. U32Size \div 2 \in Nat /\ 2 * (U32Size \div 2) = U32Size
    BY WidthAssumption, SMT
  <1>2. ASSUME NEW w \in Nat, NEW half \in Nat, w = 2 * half, half > 0
        PROVE  w <= (w * w) \div 2 /\ w * w \in Nat /\ w * w > 0
    <2>1. w * w = 2 * (half * w)
      BY <1>2, SMT
    <2>2. half * w \in Nat /\ half * w >= w
      BY <1>2, SMT
    <2> QED
      BY <1>2, <2>1, <2>2, SMT
  <1>3. U32Size \div 2 > 0
    BY <1>1, WidthAssumption, SMT
  <1> QED
    BY <1>1, <1>2, <1>3, WidthAssumption, SMT

(* A counter survives the way through int and back.                        *)
LEMMA CounterSurvives ==
    ASSUME NEW n \in 0 .. (U32Size - 1)
    PROVE  uint32(int(n)) = n
  <1>0. U32Size \in Nat /\ U32Size > 0 /\ n \in Nat /\ n < U32Size
    BY WidthAssumption, SMT
  <1>1. n % U32Size = n
    BY <1>0, SMT
  <1>2. (n - U32Size) % U32Size = n
    BY <1>0, SMT
  <1>3. CASE IntSize = U32Size
    BY <1>1, <1>2, <1>3, Zenon DEF uint32, int, Signed, Unsigned
  <1>4. CASE U32Size <= IntSize \div 2
    <2>1. n < IntSize \div 2 /\ n < IntSize
      BY <1>0, <1>4, Halves, SMT
    <2>2. n % IntSize = n
      BY <1>0, <2>1, Halves, SMT
    <2>3. int(n) = n
      BY <2>1, <2>2, Zenon DEF int, Signed
    <2> QED
      BY <1>1, <2>3, Zenon DEF uint32, Unsigned
  <1> QED
    BY <1>3, <1>4, Halves, Zenon

(* One that fits an int is left alone.                                     *)
LEMMA SmallCounter ==
    ASSUME NEW n \in 0 .. (U32Size - 1), n < IntSize \div 2
    PROVE  int(n) = n
  <1>1. n \in Nat /\ n < IntSize
    BY Halves, WidthAssumption, SMT
  <1>2. n % IntSize = n
    BY <1>1, Halves, SMT
  <1> QED
    BY <1>2, Zenon DEF int, Signed

(* Fields that the types of gw hold are left alone by the narrower ones.   *)
LEMMA Uint8Fits ==
    ASSUME NEW n, Within(n, 0, 256) PROVE uint8(n) = n
  BY SMT DEF Within, uint8, Unsigned

LEMMA Int8Fits ==
    ASSUME NEW n, Within(n, -128, 128) PROVE int8(n) = n
  BY SMT DEF Within, int8, Signed

LEMMA Int16Fits ==
    ASSUME NEW n, Within(n, -32768, 32768) PROVE int16(n) = n
  BY SMT DEF Within, int16, Signed

LEMMA Uint16Fits ==
    ASSUME NEW n, Within(n, 0, 65536) PROVE uint16(n) = n
  BY SMT DEF Within, uint16, Unsigned

-----------------------------------------------------------------------------
(* The steps of the program.                                               *)

(* A panic: the rest is as it was, and without a CoAP server it is         *)
(* onDelete's, called with no MQTT server either.                          *)
Panics ==
    /\ Panic
    /\ "coap" \in servers \/ ("mqtt" \notin servers /\ cleaner = "onDelete")

Posts == (\E h \in Handlers : PublishRX(h) \/ PublishStats(h)) \/ Sends

LEMMA BackendSteps ==
    ASSUME ModesNext
    PROVE  /\ servers' = servers
           /\ Panics \/ ([Next]_vars /\ crashed' = crashed)
  <1> USE DEF Alone, modeVars
  <1>1. ASSUME NEW h \in Handlers, HandlerAlone(h) \/ PublishRX(h) \/ PublishStats(h)
        PROVE  Handle(h) /\ crashed' = crashed /\ servers' = servers
    BY <1>1 DEF HandlerAlone, PublishRX, PublishStats, Publishes, Handle,
         Receive, Discard, DecodePull, SetKnown, SetNew, OnNewSucceeds, OnNewFails,
         SendPullAck, DecodePush, SendPushAck, ForwardStat, ForwardRX, EndRX,
         HandlerStep, lifeVars
  <1>2. ASSUME CleanerAlone
        PROVE  Clean /\ crashed' = crashed /\ servers' = servers
    BY <1>2 DEF CleanerAlone, Clean, CleanupLock, CleanupKeep, CleanupExpired,
         CleanupEnds, CleanupWakes, CleanerStep, lifeVars
  <1>3. ASSUME SocketAlone
        PROVE  Socket /\ crashed' = crashed /\ servers' = servers
    BY <1>3 DEF SocketAlone, Socket, StartReader, StartSender, WriteUDP,
         SocketStep, lifeVars
  <1>4. ASSUME PumpTakes \/ Sends \/ SendRefused \/ SendHandsOver
        PROVE  Transmit /\ crashed' = crashed /\ servers' = servers
    BY <1>4 DEF PumpTakes, Sends, SendRefused, SendHandsOver, Transmit, TxAccept,
         TxLookup, TxUnknown, TxSend, TxStep, lifeVars
  <1>5. ASSUME Passes
        PROVE  Tick /\ crashed' = crashed /\ servers' = servers
    BY <1>5 DEF Passes, Tick, lifeVars
  <1>6. ASSUME Evict
        PROVE  servers' = servers /\ (Panics \/ (Clean /\ crashed' = crashed))
    BY <1>6 DEF Evict, Panics, Clean, OnDeleteSucceeds, CleanerStep, lifeVars
  <1>7. ASSUME CoapDeliversPathless \/ NilSubscriber
        PROVE  servers' = servers /\ Panics
    BY <1>7 DEF CoapDeliversPathless, NilSubscriber, Panics, Mode
  <1>8. ASSUME \/ SetupSucceeds \/ SetupFails \/ SetupDies \/ Retry \/ Bind
               \/ BindFails \/ PublishReturns \/ PublishAnswered
               \/ CoapDelivers \/ MqttDelivers
        PROVE  servers' = servers /\ UNCHANGED vars
    BY <1>8 DEF SetupSucceeds, SetupFails, SetupDies, Retry, Bind, BindFails, Boot,
         PublishReturns, PublishAnswered, CoapDelivers, MqttDelivers, Arrives
  <1>9. UNCHANGED vars => crashed' = crashed
    BY DEF vars, lifeVars
  <1> QED
    BY <1>1, <1>2, <1>3, <1>4, <1>5, <1>6, <1>7, <1>8, <1>9, Zenon
       DEF ModesNext, Next

(* What has been posted stays the last event of a step that does not post, *)
(* or is forgotten.                                                        *)
LEMMA EventSteps ==
    ASSUME ModesNext, ~Posts
    PROVE  event' = {} \/ (event' = event /\ servers' = servers)
  BY DEF ModesNext, Posts, SetupSucceeds, SetupFails, SetupDies, Retry, Bind,
     BindFails, Boot, HandlerAlone, CleanerAlone, SocketAlone, Passes, Evict,
     PublishReturns, PublishAnswered, CoapDelivers, CoapDeliversPathless,
     NilSubscriber, MqttDelivers, Arrives, PumpTakes, SendRefused,
     SendHandsOver, Alone

-----------------------------------------------------------------------------
(* Pumps and downlinks: what there is of them.                             *)

PumpsOfMode ==
    /\ pump \in [{"rx", "stats"} -> {"free", "posting", "stuck"}]
    /\ Mode = "coap" => \A p \in {"rx", "stats"} : pump[p] = "free"
    /\ \A p \in {"rx", "stats"} : pump[p] = "stuck" => Mode = "https"

(* One downlink at most waits in txPacketChan and one is in Send, which    *)
(* knows it by its gateway; none with an HTTPS server.                     *)
DownlinksOfMode ==
    /\ incoming = {} \/ \E d : incoming = {d}
    /\ carrying = {} \/ \E d : carrying = {d}
    /\ txJob = {d.mac : d \in carrying}
    /\ Mode = "https" => incoming = {} /\ carrying = {}

ProgramInv ==
    /\ servers \in Configurations
    /\ boot \in {"setup", "sleep", "bind", "running", "fatal"}
    /\ PumpsOfMode
    /\ DownlinksOfMode

LEMMA ProgramTyped == ProgramInv => ModesTypeOK
  <1> SUFFICES ASSUME ProgramInv PROVE ModesTypeOK
    OBVIOUS
  <1>1. Mode = "coap" => pump = [p \in {"rx", "stats"} |-> "free"]
    BY SMT DEF ProgramInv, PumpsOfMode
  <1>2. \A p \in DOMAIN pump : pump[p] = "stuck" => Mode = "https"
    BY SMT DEF ProgramInv, PumpsOfMode
  <1>3. Cardinality(carrying) <= 1
    <2>1. CASE carrying = {}
      <3>1. Cardinality(carrying) = 0
        BY <2>1, FS_EmptySet, Zenon
      <3> QED
        BY <3>1, SMT
    <2>2. ASSUME NEW d, carrying = {d} PROVE Cardinality(carrying) <= 1
      <3>1. Cardinality(carrying) = 1
        BY <2>2, FS_Singleton, Zenon
      <3> QED
        BY <3>1, SMT
    <2> QED
      BY <2>1, <2>2 DEF ProgramInv, DownlinksOfMode
  <1>4. carrying = {} <=> txJob = {}
    <2>1. txJob = {d.mac : d \in carrying}
      BY DEF ProgramInv, DownlinksOfMode
    <2> QED
      BY <2>1
  <1> QED
    BY <1>1, <1>2, <1>3, <1>4, Zenon
       DEF ModesTypeOK, ProgramInv, PumpsOfMode, DownlinksOfMode

(* The steps that neither a pump nor a downlink takes part in.             *)
Elsewhere ==
    /\ UNCHANGED <<servers, pump, incoming, carrying, txJob>>
    /\ boot' \in {boot, "setup", "sleep", "bind", "running", "fatal"}

LEMMA ElsewhereKeeps ==
    ASSUME ProgramInv, Elsewhere PROVE ProgramInv'
  BY DEF Elsewhere, ProgramInv, PumpsOfMode, DownlinksOfMode, Mode

LEMMA PumpStep ==
    ASSUME ProgramInv, UNCHANGED <<servers, boot, incoming, carrying, txJob>>,
           NEW p \in {"rx", "stats"}, NEW s \in {"free", "posting", "stuck"},
           pump' = [pump EXCEPT ![p] = s],
           s # "free" => Mode # "coap", s = "stuck" => Mode = "https"
    PROVE  ProgramInv'
  <1>1. Mode' = Mode
    BY DEF Mode
  <1>2. PumpsOfMode'
    BY <1>1 DEF ProgramInv, PumpsOfMode
  <1>3. DownlinksOfMode'
    BY <1>1 DEF ProgramInv, DownlinksOfMode
  <1> QED
    BY <1>2, <1>3 DEF ProgramInv

LEMMA DownlinkStep ==
    ASSUME ProgramInv, UNCHANGED <<servers, boot, pump>>,
           \/ Mode # "https" /\ UNCHANGED <<carrying, txJob>>
                 /\ \E d : incoming' = {d}
           \/ /\ incoming' = {} /\ carrying' = incoming
              /\ txJob' = {d.mac : d \in incoming}
           \/ UNCHANGED incoming /\ carrying' = {} /\ txJob' = {}
    PROVE  ProgramInv'
  <1>1. Mode' = Mode
    BY DEF Mode
  <1>2. PumpsOfMode'
    BY <1>1 DEF ProgramInv, PumpsOfMode
  <1>3. DownlinksOfMode'
    BY <1>1, Zenon DEF ProgramInv, DownlinksOfMode
  <1> QED
    BY <1>2, <1>3 DEF ProgramInv

LEMMA ProgramStep ==
    ASSUME ProgramInv, [ModesNext]_modesVars
    PROVE  ProgramInv'
  <1>1. ASSUME \/ SetupSucceeds \/ SetupFails \/ SetupDies \/ Retry \/ Bind
               \/ BindFails \/ UNCHANGED modesVars
        PROVE  Elsewhere
    BY <1>1 DEF SetupSucceeds, SetupFails, SetupDies, Retry, Bind, BindFails, Boot,
         Elsewhere, modesVars, modeVars, vars, txVars
  <1>2. ASSUME NEW h \in Handlers, HandlerAlone(h)
        PROVE  Elsewhere
    BY <1>2 DEF HandlerAlone, Alone, Elsewhere, Receive, Discard, DecodePull,
         SetKnown, SetNew, OnNewSucceeds, OnNewFails, SendPullAck, DecodePush,
         SendPushAck, EndRX, HandlerStep, txVars
  <1>3. ASSUME \/ CleanerAlone \/ SocketAlone \/ Passes \/ Evict
               \/ CoapDeliversPathless \/ NilSubscriber \/ SendHandsOver
        PROVE  Elsewhere
    BY <1>3 DEF CleanerAlone, SocketAlone, Passes, Evict, CoapDeliversPathless,
         NilSubscriber, SendHandsOver, Alone, Elsewhere, Panic, CleanupLock,
         CleanupKeep, CleanupExpired, CleanupEnds, CleanupWakes, OnDeleteSucceeds,
         CleanerStep, StartReader, StartSender, WriteUDP, SocketStep, Tick, TxSend,
         txVars
  <1>4. ASSUME NEW h \in Handlers, PublishRX(h) \/ PublishStats(h)
        PROVE  ProgramInv'
    <2>1. PICK p \in {"rx", "stats"} : Publishes(p)
      BY <1>4 DEF PublishRX, PublishStats
    <2>2. UNCHANGED txJob
      BY <1>4 DEF PublishRX, PublishStats, ForwardRX, ForwardStat, HandlerStep,
                  txVars
    <2>3. PICK s \in {"free", "posting"} :
             /\ pump' = [pump EXCEPT ![p] = s]
             /\ s # "free" => Mode # "coap"
      BY <2>1 DEF Publishes
    <2>4. UNCHANGED <<servers, boot, incoming, carrying>>
      BY <2>1 DEF Publishes
    <2> QED
      BY <2>2, <2>3, <2>4, PumpStep
  <1>5. ASSUME PublishReturns \/ PublishAnswered
        PROVE  ProgramInv'
    <2>1. PICK p \in DOMAIN pump, s \in {"free", "stuck"} :
             pump' = [pump EXCEPT ![p] = s] /\ (s = "stuck" => Mode = "https")
      BY <1>5 DEF PublishReturns, PublishAnswered
    <2>2. p \in {"rx", "stats"}
      BY DEF ProgramInv, PumpsOfMode
    <2>3. UNCHANGED <<servers, boot, incoming, carrying, txJob>>
      BY <1>5 DEF PublishReturns, PublishAnswered, vars, txVars
    <2>4. s # "free" => Mode # "coap"
      BY <2>1
    <2> QED
      BY <2>1, <2>2, <2>3, <2>4, PumpStep
  <1>6. ASSUME CoapDelivers \/ MqttDelivers
        PROVE  ProgramInv'
    <2>1. PICK m, j, t : Arrives(m, j, t)
      BY <1>6 DEF CoapDelivers, MqttDelivers
    <2>2. Mode # "https"
      BY <1>6 DEF CoapDelivers, MqttDelivers
    <2>3. UNCHANGED <<servers, boot, pump, carrying, txJob>> /\ \E d : incoming' = {d}
      BY <2>1 DEF Arrives, vars, txVars
    <2> QED
      BY <2>2, <2>3, DownlinkStep
  <1>7. ASSUME PumpTakes
        PROVE  ProgramInv'
    BY <1>7, DownlinkStep DEF PumpTakes
  <1>8. ASSUME Sends \/ SendRefused
        PROVE  ProgramInv'
    BY <1>8, DownlinkStep DEF Sends, SendRefused, TxLookup, TxUnknown
  <1> QED
    BY <1>1, <1>2, <1>3, <1>4, <1>5, <1>6, <1>7, <1>8, ElsewhereKeeps, Zenon
       DEF ModesNext

(* In every configuration, the pumps and the downlinks under way are those *)
(* the mode allows: CoAP never makes a pump wait, only an HTTPS answer     *)
(* leaves one stuck, no downlink comes in HTTPS mode, and what the TX pump *)
(* carries is the one job of Send.                                         *)
THEOREM ProgramTypeCorrect == ModesSpec => []ModesTypeOK
  <1>1. ModesInit => ProgramInv
    BY DEF ModesInit, Init, ProgramInv, PumpsOfMode, DownlinksOfMode
  <1>2. ProgramInv /\ [ModesNext]_modesVars => ProgramInv'
    BY ProgramStep
  <1> QED
    BY <1>1, <1>2, ProgramTyped, PTL DEF ModesSpec

-----------------------------------------------------------------------------
(* Uplinks and statistics: what is posted, field by field.                 *)

(* What is left of a data rate when only SF and bandwidth are written.     *)
LEMMA RateKept ==
    ASSUME NEW d, IsJsonDatR(d), NEW r \in newDataRateFromDatR(UnmarshalDatR(d))
    PROVE  /\ d.text.form = "rate" =>
                 /\ r.Modulation = "LORA"
                 /\ JsonText(RateText(r.SpreadFactor, r.Bandwidth)) = d
           /\ d.kind = "number" =>
                 /\ r.Modulation = "FSK"
                 /\ r.SpreadFactor = 0 /\ r.Bandwidth = 0
  <1> USE DEF IsJsonDatR, IsText, JsonText, JsonNumber, NoText, RateText, Text
  <1>1. ASSUME d.text.form = "rate"
        PROVE  /\ r.Modulation = "LORA"
               /\ JsonText(RateText(r.SpreadFactor, r.Bandwidth)) = d
    <2>1. d = JsonText(d.text) /\ IsText(d.text)
      BY <1>1
    <2>2. UnmarshalDatR(d).LoRa = d.text
      BY <2>1 DEF UnmarshalDatR
    <2>3. r = LoRaRate(d.text.sf, d.text.bw)
      BY <1>1, <2>2 DEF newDataRateFromDatR
    <2>4. d.text = RateText(d.text.sf, d.text.bw)
      BY <1>1, <2>1
    <2> QED
      BY <2>1, <2>3, <2>4 DEF LoRaRate
  <1>2. ASSUME d.kind = "number"
        PROVE  r.Modulation = "FSK" /\ r.SpreadFactor = 0 /\ r.Bandwidth = 0
    <2>1. r = FSKRate(int(UnmarshalDatR(d).FSK))
      BY <1>2 DEF UnmarshalDatR, newDataRateFromDatR
    <2> QED
      BY <2>1 DEF FSKRate
  <1> QED
    BY <1>1, <1>2

LEMMA RateIsMarshalled ==
    ASSUME NEW sf, NEW bw
    PROVE  MarshalDatR([LoRa |-> RateText(sf, bw), FSK |-> 0])
             = JsonText(RateText(sf, bw))
  BY DEF MarshalDatR, RateText, NoText, Text

LEMMA UplinkIsKept ==
    ASSUME NEW m, NEW j \in RXPKs, NEW p \in newRXPacketFromRXPK(m, j)
    PROVE  UplinkKept(j, PublishGatewayRX(p))
  <1> DEFINE posted == PublishGatewayRX(p)
  <1>1. IsRXPK(j)
    BY ContentAssumption
  <1>2. PICK r \in newDataRateFromDatR(UnmarshalDatR(j.datr)) :
           p = [MAC |-> m, Time |-> TimeOf(j.time), Channel |-> j.chan,
                CRCStatus |-> j.stat, RSSI |-> j.rssi, Size |-> j.size,
                DataRate |-> r, other |-> j.other,
                PHYPayload |-> j.data.bytes]
    BY DEF newRXPacketFromRXPK
  <1>3. /\ j.datr.text.form = "rate" =>
              r.Modulation = "LORA" /\ JsonText(RateOf(p)) = j.datr
        /\ j.datr.kind = "number" =>
              r.Modulation = "FSK" /\ RateOf(p) = RateText(0, 0)
    <2>1. RateOf(p) = RateText(r.SpreadFactor, r.Bandwidth)
      BY <1>2 DEF RateOf
    <2> QED
      BY <1>1, <2>1, RateKept DEF IsRXPK
  <1>4. j.data = Base64(j.data.bytes)
    <2>1. j.data.valid
      BY DEF newRXPacketFromRXPK
    <2> QED
      BY <1>1, <2>1 DEF IsRXPK, Base64
  <1>5. CASE Mode = "mqtt"
    <2>1. /\ posted.time = IF TimeOf(j.time) = ZeroTime THEN <<>>
                           ELSE <<TimeOf(j.time)[1], 0>>
          /\ posted.chan = j.chan /\ posted.stat = j.stat
          /\ posted.rssi = j.rssi /\ posted.size = j.size
          /\ posted.modu = r.Modulation
          /\ posted.datr = JsonText(RateOf(p))
          /\ posted.data = Base64(j.data.bytes) /\ posted.other = j.other
      BY <1>2, <1>5 DEF NewrxPacketBytes, PublishGatewayRX, ExpandedTime
    <2> HIDE DEF posted
    <2>3. TimeOf(j.time) # ZeroTime => TimeOf(j.time) = j.time
      BY DEF TimeOf
    <2>2. UplinkKept(j, posted)
      BY <1>3, <1>5, <1>4, <2>1, <2>3 DEF UplinkKept
    <2> QED
      BY <2>2 DEF posted
  <1>6. CASE Mode # "mqtt"
    <2>1. /\ uint8(j.chan) = j.chan /\ int8(j.stat) = j.stat
          /\ int16(j.rssi) = j.rssi /\ uint16(j.size) = j.size
      BY <1>1, Uint8Fits, Int8Fits, Int16Fits, Uint16Fits, SMT DEF IsRXPK
    <2>2. posted.datr = JsonText(RateOf(p))
      BY <1>6, RateIsMarshalled DEF newGatewayRX, PublishGatewayRX, RateOf
    <2>3. /\ posted.time = TimeOf(j.time) /\ posted.chan = j.chan
          /\ posted.stat = j.stat /\ posted.rssi = j.rssi
          /\ posted.size = j.size /\ posted.modu = "LORA"
          /\ posted.data = Base64(j.data.bytes) /\ posted.other = j.other
      BY <1>2, <1>6, <2>1 DEF newGatewayRX, PublishGatewayRX
    <2> HIDE DEF posted
    <2>4. UplinkKept(j, posted)
      BY <1>3, <1>6, <1>4, <2>2, <2>3 DEF UplinkKept
    <2> QED
      BY <2>4 DEF posted
  <1> QED
    BY <1>5, <1>6

LEMMA StatsAreKept ==
    ASSUME NEW m, NEW s \in Stats
    PROVE  LET p == newGatewayStatsPacket(m, s)
           IN  StatsKept(s, PublishGatewayStats(p))
  <1>1. \A c \in Counters : s[c] \in 0 .. (U32Size - 1)
    BY ContentAssumption DEF IsStat
  <1>2. \A c \in Counters : uint32(int(s[c])) = s[c]
    BY <1>1, CounterSurvives
  <1>3. \A c \in Counters : s[c] < IntSize \div 2 => int(s[c]) = s[c]
    BY <1>1, SmallCounter
  <1> DEFINE p == newGatewayStatsPacket(m, s)
  <1>4. CASE Mode = "mqtt"
    BY <1>3, <1>4 DEF StatsKept, PublishGatewayStats, NewstatsPacketBytes,
                      newGatewayStatsPacket, Counters
  <1>5. CASE Mode # "mqtt"
    BY <1>2, <1>5 DEF StatsKept, PublishGatewayStats, newGatewayStats,
                      newGatewayStatsPacket, Counters
  <1> QED
    BY <1>4, <1>5

(* An uplink keeps its content, whatever the gateway sends, whatever the   *)
(* server, on a 32-bit build as on a 64-bit one.                           *)
THEOREM UplinkCorrect == ModesSpec => []UplinkKeepsContent
  <1>1. ModesInit => UplinkKeepsContent
    BY DEF ModesInit, UplinkKeepsContent
  <1>2. ASSUME UplinkKeepsContent, [ModesNext]_modesVars
        PROVE  UplinkKeepsContent'
    <2>1. CASE ModesNext /\ ~Posts
      BY <1>2, <2>1, EventSteps DEF UplinkKeepsContent, UplinkKept, Mode
    <2>2. CASE ModesNext /\ Sends
      BY <2>2 DEF Sends, Posted, UplinkKeepsContent
    <2>3. ASSUME ModesNext, NEW h \in Handlers, PublishStats(h)
          PROVE  UplinkKeepsContent'
      BY <2>3 DEF PublishStats, Posted, UplinkKeepsContent
    <2>4. ASSUME ModesNext, NEW h \in Handlers, PublishRX(h)
          PROVE  UplinkKeepsContent'
      <3>1. PICK j \in RXPKs : \E p \in newRXPacketFromRXPK(Mac(h), j) :
               Posted("rx", p.MAC, j, PublishGatewayRX(p))
        BY <2>4 DEF PublishRX
      <3>p. PICK p \in newRXPacketFromRXPK(Mac(h), j) :
               Posted("rx", p.MAC, j, PublishGatewayRX(p))
        BY <3>1
      <3>2. UplinkKept(j, PublishGatewayRX(p))
        BY UplinkIsKept
      <3>3. servers' = servers
        BY <2>4, BackendSteps
      <3> QED
        BY <3>p, <3>2, <3>3 DEF Posted, UplinkKeepsContent, UplinkKept, Mode
    <2>5. CASE UNCHANGED modesVars
      BY <1>2, <2>5 DEF modesVars, modeVars, UplinkKeepsContent, UplinkKept, Mode
    <2> QED
      BY <1>2, <2>1, <2>2, <2>3, <2>4, <2>5 DEF Posts
  <1> QED
    BY <1>1, <1>2, PTL DEF ModesSpec

(* The counters of a stat reach the server, likewise.                      *)
THEOREM StatsCorrect == ModesSpec => []StatsKeepCounters
  <1>1. ModesInit => StatsKeepCounters
    BY DEF ModesInit, StatsKeepCounters
  <1>2. ASSUME StatsKeepCounters, [ModesNext]_modesVars
        PROVE  StatsKeepCounters'
    <2>1. CASE ModesNext /\ ~Posts
      BY <1>2, <2>1, EventSteps DEF StatsKeepCounters, StatsKept, Mode
    <2>2. CASE ModesNext /\ Sends
      BY <2>2 DEF Sends, Posted, StatsKeepCounters
    <2>3. ASSUME ModesNext, NEW h \in Handlers, PublishRX(h)
          PROVE  StatsKeepCounters'
      BY <2>3 DEF PublishRX, Posted, StatsKeepCounters
    <2>4. ASSUME ModesNext, NEW h \in Handlers, PublishStats(h)
          PROVE  StatsKeepCounters'
      <3> DEFINE posted(s) ==
                   LET p == newGatewayStatsPacket(Mac(h), s)
                   IN  PublishGatewayStats(p)
      <3>1. PICK s \in Stats :
               Posted("stats", newGatewayStatsPacket(Mac(h), s).MAC, s, posted(s))
        BY <2>4 DEF PublishStats
      <3>2. StatsKept(s, posted(s))
        BY StatsAreKept
      <3>3. servers' = servers
        BY <2>4, BackendSteps
      <3> HIDE DEF posted
      <3> QED
        BY <3>1, <3>2, <3>3 DEF Posted, StatsKeepCounters, StatsKept, Mode
    <2>5. CASE UNCHANGED modesVars
      BY <1>2, <2>5 DEF modesVars, modeVars, StatsKeepCounters, StatsKept, Mode
    <2> QED
      BY <1>2, <2>1, <2>2, <2>3, <2>4, <2>5 DEF Posts
  <1> QED
    BY <1>1, <1>2, PTL DEF ModesSpec

-----------------------------------------------------------------------------
(* Downlinks.                                                              *)

(* What waits in txPacketChan or is in Send was made from what a server    *)
(* sent, by the backend there is.                                          *)
Made(d) ==
    /\ d.read \in TXPKs
    /\ \/ Mode = "coap" /\ d.mac = Fixed /\ d.packet \in DecodeTXPK(d.read)
       \/ Mode = "mqtt" /\ d.packet \in txPacketHandler(d.mac, d.read)

DownlinksMade == \A d \in incoming \cup carrying : Made(d)

LEMMA DatRReadsBack ==
    ASSUME NEW d, IsJsonDatR(d), d # JsonText(NoText),
           d.num \in 0 .. (U32Size - 1)
    PROVE  MarshalDatR(UnmarshalDatR(d)) = d
  <1>1. CASE d = JsonText(d.text)
    BY <1>1 DEF MarshalDatR, UnmarshalDatR, JsonText
  <1>2. CASE d = JsonNumber(d.num)
    BY <1>2 DEF MarshalDatR, UnmarshalDatR, JsonNumber
  <1> QED
    BY <1>1, <1>2 DEF IsJsonDatR

LEMMA DownlinkIsKept ==
    ASSUME NEW d, Made(d)
    PROVE  /\ Mode = "coap" => d.mac = Fixed
           /\ DownlinkKept(d.read,
                 MarshalTXPK(IF Mode = "mqtt" THEN newTXPKFromTXPacket(d.packet)
                             ELSE d.packet))
  <1> DEFINE j == d.read
  <1>1. IsTXPK(j)
    BY ContentAssumption DEF Made
  <1>2. CASE Mode = "coap"
    <2>1. d.mac = Fixed
          /\ d.packet = [j EXCEPT !.datr = UnmarshalDatR(j.datr),
                                  !.ipol = BoolOf(j.ipol)]
      BY <1>2 DEF Made, DecodeTXPK
    <2>2. MarshalTXPK(d.packet)
            = [j EXCEPT !.datr = MarshalDatR(UnmarshalDatR(j.datr)),
                        !.ipol = <<BoolOf(j.ipol)>>]
      BY <1>1, <2>1 DEF MarshalTXPK, IsTXPK
    <2>3. ASSUME j.datr # JsonText(NoText), j.datr.num \in 0 .. (U32Size - 1)
          PROVE  MarshalTXPK(d.packet) = [j EXCEPT !.ipol = <<BoolOf(j.ipol)>>]
      BY <1>1, <2>2, <2>3, DatRReadsBack DEF IsTXPK
    <2> QED
      BY <1>2, <2>1, <2>3 DEF DownlinkKept
  <1>3. CASE Mode = "mqtt"
    <2>1. /\ j.datr.kind = "string"
          /\ d.packet = [MAC |-> d.mac, Power |-> j.powe,
                         DataRate |-> LoRaRate(ScanSF(j.datr.text), 125),
                         IPol |-> <<BoolOf(j.ipol)>>, other |-> j.other,
                         PHYPayload |-> j.data.bytes]
      BY <1>3 DEF Made, txPacketHandler
    <2> DEFINE posted == MarshalTXPK(newTXPKFromTXPacket(d.packet))
    <2>2. /\ posted.other = j.other
          /\ posted.ipol = <<BoolOf(j.ipol)>>
          /\ posted.data = Base64(j.data.bytes)
          /\ posted.powe = uint8(j.powe)
          /\ posted.datr = JsonText(RateText(ScanSF(j.datr.text), 125))
      BY <2>1 DEF MarshalTXPK, newTXPKFromTXPacket, newDatRfromDataRate, LoRaRate,
                  MarshalDatR, RateText, Text, NoText
    <2>3. ASSUME j.datr.text = RateText(j.datr.text.sf, 125),
                 j.datr.text.sf < IntLimit
          PROVE  posted.datr = j.datr
      <3>1. j.datr = JsonText(j.datr.text)
        BY <1>1, <2>1 DEF IsTXPK, IsJsonDatR, JsonText, JsonNumber
      <3>2. j.datr.text.form = "rate"
        BY <2>3 DEF RateText, Text
      <3>3. IsText(j.datr.text)
        BY <1>1, <3>2 DEF IsTXPK, IsJsonDatR, JsonNumber, NoText, Text
      <3>4. j.datr.text.sf \in Nat
        BY <3>2, <3>3 DEF IsText, NoText, Text
      <3>5. ScanSF(j.datr.text) = j.datr.text.sf
        <4>1. ~(j.datr.text.sf >= IntLimit)
          BY <2>3, <3>4, Halves, SMT DEF IntLimit
        <4> QED
          BY <3>2, <4>1, Zenon DEF ScanSF
      <3> QED
        BY <2>2, <2>3, <3>1, <3>5
    <2>4. ASSUME Within(j.powe, 0, 256) PROVE posted.powe = j.powe
      BY <2>2, <2>4, Uint8Fits
    <2>6. ASSUME j.ipol # <<>> PROVE <<BoolOf(j.ipol)>> = j.ipol
      <3>1. j.ipol = <<TRUE>> \/ j.ipol = <<FALSE>>
        BY <1>1, <2>6 DEF IsTXPK
      <3>2. <<FALSE>> # <<TRUE>>
        <4>1. <<FALSE>>[1] # <<TRUE>>[1]
          OBVIOUS
        <4> QED
          BY <4>1
      <3>3. CASE j.ipol = <<TRUE>>
        <4>1. BoolOf(j.ipol) = TRUE
          BY <3>3, Zenon DEF BoolOf
        <4> QED
          BY <3>3, <4>1, Zenon
      <3>4. CASE j.ipol = <<FALSE>>
        <4>1. BoolOf(j.ipol) = FALSE
          BY <3>2, <3>4, Zenon DEF BoolOf
        <4> QED
          BY <3>4, <4>1, Zenon
      <3> QED
        BY <3>1, <3>3, <3>4
    <2> HIDE DEF posted
    <2>5. DownlinkKept(j, posted)
      BY <1>3, <2>2, <2>3, <2>4, <2>6 DEF DownlinkKept
    <2> QED
      BY <1>3, <2>5 DEF posted
  <1> QED
    BY <1>2, <1>3 DEF Made

(* A downlink keeps of its content what DownlinkKeepsContent says.         *)
THEOREM DownlinkCorrect == ModesSpec => []DownlinkKeepsContent
  <1>1. ModesInit => DownlinksMade /\ DownlinkKeepsContent
    BY DEF ModesInit, DownlinksMade, DownlinkKeepsContent
  <1>2. ASSUME DownlinksMade, [ModesNext]_modesVars
        PROVE  DownlinksMade'
    <2>1. servers' = servers
      BY <1>2, BackendSteps DEF modesVars, modeVars
    <2>2. \A d : Made(d)' <=> Made(d)
      BY <2>1 DEF Made, Mode
    <2>3. CASE CoapDelivers
      BY <1>2, <2>2, <2>3 DEF CoapDelivers, Arrives, DownlinksMade, Made
    <2>4. CASE MqttDelivers
      <3>1. PICK m \in Downlinks, j \in TXPKs :
               \E p \in txPacketHandler(m, j) : Arrives(p.MAC, j, p)
        BY <2>4 DEF MqttDelivers
      <3>2. PICK p \in txPacketHandler(m, j) : Arrives(p.MAC, j, p)
        BY <3>1
      <3>3. p.MAC = m
        BY DEF txPacketHandler
      <3> QED
        BY <1>2, <2>2, <2>4, <3>2, <3>3
           DEF MqttDelivers, Arrives, DownlinksMade, Made
    <2>5. CASE ~CoapDelivers /\ ~MqttDelivers /\ ModesNext
      <3>1. incoming' \cup carrying' \subseteq incoming \cup carrying
        BY <2>5 DEF ModesNext, SetupSucceeds, SetupFails, SetupDies, Retry, Bind,
           BindFails, Boot, HandlerAlone, PublishRX, PublishStats, Publishes,
           CleanerAlone, SocketAlone, Passes, Evict, PublishReturns,
           PublishAnswered, CoapDeliversPathless, NilSubscriber, PumpTakes,
           Sends, SendRefused, SendHandsOver, Alone
      <3> QED
        BY <1>2, <2>2, <3>1 DEF DownlinksMade
    <2>6. CASE UNCHANGED modesVars
      BY <1>2, <2>2, <2>6 DEF modesVars, modeVars, DownlinksMade
    <2> QED
      BY <1>2, <2>3, <2>4, <2>5, <2>6
  <1>3. ASSUME DownlinksMade, DownlinkKeepsContent, [ModesNext]_modesVars
        PROVE  DownlinkKeepsContent'
    <2>1. CASE ModesNext /\ ~Posts
      BY <1>3, <2>1, EventSteps DEF DownlinkKeepsContent, DownlinkKept, Mode
    <2>2. ASSUME ModesNext, NEW h \in Handlers, PublishRX(h) \/ PublishStats(h)
          PROVE  DownlinkKeepsContent'
      BY <2>2 DEF PublishRX, PublishStats, Posted, DownlinkKeepsContent
    <2>3. CASE ModesNext /\ Sends
      <3>1. PICK d \in carrying :
               Posted("tx", d.mac, d.read,
                      MarshalTXPK(IF Mode = "mqtt"
                                  THEN newTXPKFromTXPacket(d.packet)
                                  ELSE d.packet))
        BY <2>3 DEF Sends
      <3>2. Made(d)
        BY <1>3 DEF DownlinksMade
      <3>3. servers' = servers
        BY <2>3, BackendSteps
      <3>4. \A read, posted : DownlinkKept(read, posted)
                              => DownlinkKept(read, posted)'
        BY <3>3, Zenon DEF DownlinkKept, Mode
      <3>5. Mode' = Mode
        BY <3>3 DEF Mode
      <3> DEFINE posted == MarshalTXPK(IF Mode = "mqtt"
                                       THEN newTXPKFromTXPacket(d.packet)
                                       ELSE d.packet)
      <3>6. (Mode = "coap" => d.mac = Fixed) /\ DownlinkKept(d.read, posted)
        BY <3>2, DownlinkIsKept
      <3>7. event' = {[kind |-> "tx", mac |-> d.mac, read |-> d.read,
                       posted |-> posted]}
        BY <3>1 DEF Posted
      <3> HIDE DEF posted
      <3> QED
        BY <3>4, <3>5, <3>6, <3>7 DEF DownlinkKeepsContent
    <2>4. CASE UNCHANGED modesVars
      BY <1>3, <2>4
         DEF modesVars, modeVars, DownlinkKeepsContent, DownlinkKept, Mode
    <2> QED
      BY <1>3, <2>1, <2>2, <2>3, <2>4 DEF Posts
  <1> QED
    BY <1>1, <1>2, <1>3, PTL DEF ModesSpec

-----------------------------------------------------------------------------
(* Life: the invariants of GatewayBackend hold in the program.             *)

VictimPresent == cleaner = "onDelete" => victim # {}

LifeInv == Typed /\ LockMatchesSections /\ VictimsExpired /\ VictimPresent

LEMMA PanicKeeps ==
    ASSUME LifeInv, Panic
    PROVE  LifeInv'
  <1>1. Typed'
    BY SameTasksAgree
       DEF LifeInv, Panic, Typed, TypeOK, registryVars, cleanerVars, txVars,
           socketVars
  <1> QED
    BY <1>1 DEF LifeInv, Panic, LockMatchesSections, VictimsExpired, Expired,
                VictimPresent, At, registryVars, cleanerVars

LEMMA NextVictimPresent ==
    ASSUME Typed, VictimPresent, [Next]_vars
    PROVE  VictimPresent'
  <1>1. ASSUME NEW h \in Handlers, Handle(h) PROVE VictimPresent'
    BY <1>1, HandlerIsLocal DEF VictimPresent
  <1>2. CASE Clean
    BY <1>2 DEF VictimPresent, Clean, CleanupLock, CleanupKeep, CleanupExpired,
       OnDeleteSucceeds, OnDeleteFails, CleanupEnds, CleanupWakes, Rest,
       CleanerStep
  <1>3. CASE Bystander
    BY <1>3, BystanderIsLocal DEF VictimPresent, cleanerVars
  <1>4. CASE Tick
    BY <1>4, TickIsLocal DEF VictimPresent
  <1>5. CASE UNCHANGED vars
    BY <1>5 DEF VictimPresent, vars, cleanerVars
  <1> QED
    BY <1>1, <1>2, <1>3, <1>4, <1>5 DEF Next, Bystander

(* Without a CoAP server only a silent gateway ends the program, and none  *)
(* with an MQTT server, whatever the interleaving and the number of        *)
(* gateways.                                                               *)
THEOREM AliveCorrect == ModesSpec => AliveWhileHeard
  <1>1. ModesInit => LifeInv
    BY InitTyped, InitLock
       DEF ModesInit, LifeInv, Init, VictimsExpired, VictimPresent
  <1>2. ASSUME LifeInv, [ModesNext]_modesVars
        PROVE  LifeInv'
    <2>1. CASE Panics
      BY <1>2, <2>1, PanicKeeps DEF Panics
    <2>2. CASE [Next]_vars
      BY <1>2, <2>2, NextTyped, NextLock, NextVictims, NextVictimPresent
         DEF LifeInv
    <2>3. UNCHANGED modesVars => [Next]_vars
      BY DEF modesVars
    <2> QED
      BY <1>2, <2>1, <2>2, <2>3, BackendSteps
  <1>3. ASSUME LifeInv, [ModesNext]_modesVars
        PROVE  [crashed' => \/ "coap" \in servers
                            \/ /\ "mqtt" \notin servers
                               /\ \E m \in DOMAIN gateways : Expired(m)]_modesVars
    <2>1. SUFFICES ASSUME ModesNext, "coap" \notin servers, crashed'
                   PROVE  /\ "mqtt" \notin servers
                          /\ \E m \in DOMAIN gateways : Expired(m)
      BY <1>3
    <2>2. ~crashed
      BY <2>1 DEF ModesNext
    <2>3. "mqtt" \notin servers /\ cleaner = "onDelete"
      BY <2>1, <2>2, BackendSteps DEF Panics
    <2>4. PICK m \in victim : m \in DOMAIN gateways /\ Expired(m)
      BY <1>3, <2>3 DEF LifeInv, VictimPresent, VictimsExpired
    <2> QED
      BY <2>3, <2>4
  <1> QED
    BY <1>1, <1>2, <1>3, PTL DEF ModesSpec, AliveWhileHeard
=============================================================================
