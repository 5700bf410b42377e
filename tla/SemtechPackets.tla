--------------------------- MODULE SemtechPackets ---------------------------
(***************************************************************************)
(* The packet-forwarder protocol as gateway/structs.go reads and writes it.*)
(*                                                                         *)
(* A datagram is abstracted to the header bytes the code tests (length,    *)
(* version, token, identifier, gateway MAC) and to what the code can tell  *)
(* about its body: whether it is valid JSON, whether it carries a "stat"   *)
(* object, and how each element of "rxpk" will fare in handleRXPacket.     *)
(* Fields past the end of a short datagram (len) are never read, because   *)
(* every decoder tests the length first.                                   *)
(***************************************************************************)
EXTENDS Naturals, Sequences

CONSTANTS
    MACs,   \* the EUI64s a datagram or a downlink can name
    Addrs   \* the UDP addresses datagrams come from

-----------------------------------------------------------------------------
(* Identifiers and versions.                                               *)

PushData == 0
PushACK  == 1
PullData == 2
PullResp == 3
PullACK  == 4
TXACK    == 5

ProtocolVersion1 == 1
ProtocolVersion2 == 2

protocolSupported(v) == v \in {ProtocolVersion1, ProtocolVersion2}

(* One element of "rxpk": "good" decodes and has CRC status 1, "badCRC"    *)
(* decodes and has another status, "undecodable" has a data rate or a      *)
(* base64 payload that newRXPacketFromRXPK refuses.                        *)
Frame == {"good", "badCRC", "undecodable"}

Datagram == [len  : Nat,
             ver  : Nat,
             tok  : Nat,
             id   : Nat,
             mac  : MACs,
             json : BOOLEAN,
             stat : BOOLEAN,
             rxpk : Seq(Frame)]

(* A datagram together with the address it was read from.                  *)
Arrival == [src : Addrs, data : Datagram]

-----------------------------------------------------------------------------
(* Decoding: GetPacketType and the UnmarshalBinary of the two datagrams *)
(* that change the bridge's state.  Each is the condition under which the  *)
(* code returns no error.                                                  *)

HasPacketType(d) == d.len >= 4 /\ protocolSupported(d.ver)

UnmarshalsAsPushData(d) ==
    d.len >= 13 /\ d.id = PushData /\ protocolSupported(d.ver) /\ d.json

UnmarshalsAsPullData(d) ==
    d.len = 12 /\ d.id = PullData /\ protocolSupported(d.ver)

(* What handlePacket's switch does with an arrival: the handlers it        *)
(* reaches, each after its own UnmarshalBinary succeeded.                  *)
AcceptedPull(a) == HasPacketType(a.data) /\ UnmarshalsAsPullData(a.data)
AcceptedPush(a) == HasPacketType(a.data) /\ UnmarshalsAsPushData(a.data)

-----------------------------------------------------------------------------
(* Encoding: the three packets the bridge sends.  dst is the udpPacket's   *)
(* address.  The body of a PULL_RESP is represented by the gateway the     *)
(* application asked to transmit it.                                       *)

AckPacket      == [id : {PushACK, PullACK}, ver : Nat, tok : Nat, dst : Addrs]
PullRespPacket == [id : {PullResp}, ver : Nat, tok : {0}, dst : Addrs,
                   body : MACs]
Packet         == AckPacket \cup PullRespPacket

PushACKFor(a) == [id |-> PushACK, ver |-> a.data.ver, tok |-> a.data.tok,
                  dst |-> a.src]

PullACKFor(a) == [id |-> PullACK, ver |-> a.data.ver, tok |-> a.data.tok,
                  dst |-> a.src]

(* Send and SendTXPK never fill in RandomToken, and MarshalBinary leaves   *)
(* the two bytes at 0 for version 1: the token is 0 in every PULL_RESP.    *)
PullRespFor(m, version, address) ==
    [id |-> PullResp, ver |-> version, tok |-> 0, dst |-> address, body |-> m]

=============================================================================
