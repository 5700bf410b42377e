---------------------------- MODULE Conversions -----------------------------
(***************************************************************************)
(* What becomes of the content of a packet on its way through the bridge:  *)
(* from the JSON of the packet forwarder to the types of gw, and from      *)
(* those to the JSON each server is sent; and the other way for downlinks. *)
(*                                                                         *)
(* Fields that every conversion copies, or converts there and back without *)
(* loss, are one field "other": tmst, freq, rfch, codr and lsnr of an      *)
(* uplink, time, lati, long and alti of a stat, imme, tmst, freq and codr  *)
(* of a downlink.  A frequency goes through an int number of Hz, which the *)
(* channels of the 433 and the 863 to 928 MHz bands survive (others are    *)
(* cut to a whole Hz, and do not fit a 32-bit int above 2147 MHz).         *)
(***************************************************************************)
EXTENDS Integers, Sequences

CONSTANTS
    U32Size,    \* the number of uint32 values
    IntSize     \* the number of int values: a 32-bit build (GOARCH=386, the
                \* Makefile's default) or a 64-bit one

ASSUME WidthAssumption ==
    /\ U32Size \in Nat /\ U32Size > 0 /\ U32Size % 2 = 0
    /\ IntSize \in {U32Size, U32Size * U32Size}

Unsigned(n, size) == n % size
Signed(n, size) ==
    IF n % size < size \div 2 THEN n % size ELSE (n % size) - size

int(n)    == Signed(n, IntSize)
uint32(n) == Unsigned(n, U32Size)
uint16(n) == Unsigned(n, 65536)
uint8(n)  == Unsigned(n, 256)
int16(n)  == Signed(n, 65536)
int8(n)   == Signed(n, 256)

-----------------------------------------------------------------------------
(* Data rates.  A text is "none" when empty, a "rate" SF<sf>BW<bw> in plain*)
(* decimals, has a rate "inside" behind something that no SF begins, or is *)
(* any "other" text, with what a leading SF<n> says (0 without one) in sf. *)

Text(form, sf, bw) == [form |-> form, sf |-> sf, bw |-> bw]
NoText             == Text("none", 0, 0)
RateText(sf, bw)   == Text("rate", sf, bw)

JsonText(t)   == [kind |-> "string", text |-> t, num |-> 0]
JsonNumber(n) == [kind |-> "number", text |-> NoText, num |-> n]

(* DatR: MarshalJSON and UnmarshalJSON.                                    *)
MarshalDatR(d) == IF d.LoRa # NoText THEN JsonText(d.LoRa)
                                     ELSE JsonNumber(d.FSK)

UnmarshalDatR(j) ==
    IF j.kind = "string" THEN [LoRa |-> j.text, FSK |-> 0]
    ELSE IF j.num \in 0 .. (U32Size - 1) THEN [LoRa |-> NoText, FSK |-> j.num]
    ELSE [LoRa |-> Text("other", 0, 0), FSK |-> 0]

LoRaRate(sf, bw) == [Modulation |-> "LORA", SpreadFactor |-> sf,
                     Bandwidth |-> bw, BitRate |-> 0]
FSKRate(n)       == [Modulation |-> "FSK", SpreadFactor |-> 0,
                     Bandwidth |-> 0, BitRate |-> n]

(* Numbers that strconv and fmt read into an int without an error.         *)
IntLimit == IntSize \div 2

(* The data rate, if there is no error.                                    *)
newDataRateFromDatR(d) ==
    IF d.LoRa.form \in {"rate", "inside"}
    THEN {r \in {LoRaRate(d.LoRa.sf, d.LoRa.bw)} :
             r.SpreadFactor < IntLimit /\ r.Bandwidth < IntLimit}
    ELSE IF d.LoRa = NoText /\ d.FSK # 0 THEN {FSKRate(int(d.FSK))}
    ELSE {}

newDatRfromDataRate(r) ==
    IF r.Modulation = "LORA"
    THEN [LoRa |-> RateText(r.SpreadFactor, r.Bandwidth), FSK |-> 0]
    ELSE [LoRa |-> NoText, FSK |-> uint32(r.BitRate)]

-----------------------------------------------------------------------------
(* Uplinks.  A time is <<>> when it is missing, or seconds and fraction,   *)
(* and time.Time says the zero time, of year one, for a missing one;       *)
(* data is a base64 text: the bytes it decodes to up to its first error,   *)
(* and whether it is free of errors.                                       *)

ZeroTime == <<0, 0>>
TimeOf(t) == IF t = <<>> THEN ZeroTime ELSE t

Base64(bytes) == [bytes |-> bytes, valid |-> TRUE]

(* Mutation of newRXPacketFromRXPK: the CRC status is read as unsigned.    *)
newRXPacketFromRXPK_NoSign(mac, rxpk) ==
    {[MAC |-> mac, Time |-> TimeOf(rxpk.time), Channel |-> rxpk.chan,
      CRCStatus |-> uint8(rxpk.stat), RSSI |-> uint16(rxpk.rssi),
      Size |-> rxpk.size, DataRate |-> rate, other |-> rxpk.other,
      PHYPayload |-> rxpk.data.bytes] :
        rate \in IF ~rxpk.data.valid THEN {}
                 ELSE newDataRateFromDatR(UnmarshalDatR(rxpk.datr))}

(* The packet, if there is no error.  rxpk is the JSON object; all but its *)
(* datr is decoded as it stands.                                           *)
newRXPacketFromRXPK(mac, rxpk) ==
    {[MAC |-> mac, Time |-> TimeOf(rxpk.time), Channel |-> rxpk.chan,
      CRCStatus |-> rxpk.stat, RSSI |-> rxpk.rssi, Size |-> rxpk.size,
      DataRate |-> rate, other |-> rxpk.other,
      PHYPayload |-> rxpk.data.bytes] :
        rate \in IF ~rxpk.data.valid THEN {}
                 ELSE newDataRateFromDatR(UnmarshalDatR(rxpk.datr))}

RateOf(p) == RateText(p.DataRate.SpreadFactor, p.DataRate.Bandwidth)

(* coap and https, which do the same.                                      *)
newGatewayRX(p) ==
    [time |-> p.Time, chan |-> uint8(p.Channel), stat |-> int8(p.CRCStatus),
     modu |-> "LORA", datr |-> MarshalDatR([LoRa |-> RateOf(p), FSK |-> 0]),
     rssi |-> int16(p.RSSI), size |-> uint16(p.Size), other |-> p.other,
     data |-> Base64(p.PHYPayload)]

ExpandedTime(t) == <<t[1], 0>>  \* its text has no fraction

(* mqttpubsub.                                                             *)
NewrxPacketBytes(p) ==
    [time |-> IF p.Time = ZeroTime THEN <<>> ELSE ExpandedTime(p.Time),
     chan |-> p.Channel, stat |-> p.CRCStatus,
     modu |-> p.DataRate.Modulation, datr |-> JsonText(RateOf(p)),
     rssi |-> p.RSSI, size |-> p.Size, other |-> p.other,
     data |-> Base64(p.PHYPayload)]

-----------------------------------------------------------------------------
(* Statistics.  rxfw stands for ackr as well.                              *)

newGatewayStatsPacket(mac, stat) ==
    [MAC                 |-> mac,
     other               |-> stat.other,
     RXPacketsReceived   |-> int(stat.rxnb),
     RXPacketsReceivedOK |-> int(stat.rxok),
     TXPacketsReceived   |-> int(stat.dwnb),
     TXPacketsEmitted    |-> int(stat.txnb)]

(* coap and https, which do the same.                                      *)
newGatewayStats(s) ==
    [other |-> s.other,
     rxnb  |-> uint32(s.RXPacketsReceived),
     rxok  |-> uint32(s.RXPacketsReceivedOK),
     rxfw  |-> 0,
     dwnb  |-> uint32(s.TXPacketsReceived),
     txnb  |-> uint32(s.TXPacketsEmitted)]

(* Mutation of NewstatsPacketBytes: the downlinks swapped.                 *)
NewstatsPacketBytes_Swapped(s) ==
    [other |-> s.other, rxnb |-> s.RXPacketsReceived,
     rxok |-> s.RXPacketsReceivedOK, txnb |-> s.TXPacketsEmitted,
     txPacketsEmitted |-> s.TXPacketsReceived]

(* mqttpubsub: "txnb" is the name of the downlinks received.               *)
NewstatsPacketBytes(s) ==
    [other |-> s.other, rxnb |-> s.RXPacketsReceived,
     rxok |-> s.RXPacketsReceivedOK, txnb |-> s.TXPacketsReceived,
     txPacketsEmitted |-> s.TXPacketsEmitted]

-----------------------------------------------------------------------------
(* Downlinks.  extra stands for rfch, time, prea and ncrc.  ipol is <<>>   *)
(* when it is missing or null, which a bool field reads as false.          *)

BoolOf(o) == o = <<TRUE>>

(* json.Unmarshal into gateway.TXPK, if there is no error.                 *)
DecodeTXPK(j) ==
    IF j.powe \notin 0 .. 255 THEN {}
    ELSE {[j EXCEPT !.datr = UnmarshalDatR(j.datr), !.ipol = BoolOf(j.ipol)]}

(* Sscanf(datr, "SF%d").                                                   *)
ScanSF(t) == IF t.form = "inside" \/ t.sf >= IntLimit THEN 0 ELSE t.sf

(* txPacketHandler up to its send, if the message decodes.                 *)
txPacketHandler(mac, j) ==
    IF j.datr.kind # "string" THEN {}
    ELSE {[MAC |-> mac, Power |-> j.powe,
           DataRate |-> LoRaRate(ScanSF(j.datr.text), 125),
           IPol |-> <<BoolOf(j.ipol)>>, other |-> j.other,
           PHYPayload |-> j.data.bytes]}

(* Mutation of newTXPKFromTXPacket: the default has the last word.         *)
newTXPKFromTXPacket_AlwaysIPol(p) ==
    [powe |-> uint8(p.Power), modu |-> p.DataRate.Modulation,
     datr |-> newDatRfromDataRate(p.DataRate),
     fdev |-> IF p.DataRate.Modulation = "FSK"
              THEN uint16(p.DataRate.BitRate \div 2) ELSE 0,
     ipol |-> p.DataRate.Modulation = "LORA" \/ p.IPol[1],
     size |-> uint16(Len(p.PHYPayload)), extra |-> 0, other |-> p.other,
     data |-> Base64(p.PHYPayload)]

newTXPKFromTXPacket(p) ==
    [powe |-> uint8(p.Power), modu |-> p.DataRate.Modulation,
     datr |-> newDatRfromDataRate(p.DataRate),
     fdev |-> IF p.DataRate.Modulation = "FSK"
              THEN uint16(p.DataRate.BitRate \div 2) ELSE 0,
     ipol |-> IF p.IPol # <<>> THEN p.IPol[1]
                               ELSE p.DataRate.Modulation = "LORA",
     size |-> uint16(Len(p.PHYPayload)), extra |-> 0, other |-> p.other,
     data |-> Base64(p.PHYPayload)]

(* The "txpk" object of a PULL_RESP.                                       *)
MarshalTXPK(t) == [t EXCEPT !.datr = MarshalDatR(t.datr), !.ipol = <<t.ipol>>]

-----------------------------------------------------------------------------
(* What the JSON decoder lets through.                                     *)

IsText(t) ==
    \/ t = NoText
    \/ /\ t = Text(t.form, t.sf, t.bw)
       /\ t.form \in {"rate", "inside", "other"} /\ t.sf \in Nat /\ t.bw \in Nat

IsJsonDatR(j) ==
    \/ j = JsonText(j.text) /\ IsText(j.text)
    \/ j = JsonNumber(j.num) /\ j.num \in Nat

Within(n, least, limit) == n \in Int /\ least <= n /\ n < limit

IsRXPK(j) ==
    /\ Within(j.chan, 0, 256)
    /\ Within(j.stat, -128, 128)
    /\ Within(j.rssi, -32768, 32768)
    /\ Within(j.size, 0, 65536)
    /\ IsJsonDatR(j.datr)
    /\ j.data = [bytes |-> j.data.bytes, valid |-> j.data.valid]
    /\ j.data.valid \in BOOLEAN

Counters == {"rxnb", "rxok", "dwnb", "txnb"}

IsTXPK(j) ==
    /\ j = [powe |-> j.powe, modu |-> j.modu, datr |-> j.datr, fdev |-> j.fdev,
            ipol |-> j.ipol, size |-> j.size, extra |-> j.extra,
            other |-> j.other, data |-> j.data]
    /\ j.powe \in Int
    /\ IsJsonDatR(j.datr)
    /\ j.ipol \in {<<>>, <<TRUE>>, <<FALSE>>}

IsStat(s) == \A c \in Counters : s[c] \in 0 .. (U32Size - 1)
=============================================================================
