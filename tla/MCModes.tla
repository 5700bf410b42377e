------------------------------ MODULE MCModes -------------------------------
(***************************************************************************)
(* An instance of BridgeModes for TLC.                                     *)
(***************************************************************************)
EXTENDS BridgeModes

CONSTANTS g1, a1, h1

OneMac     == {g1}
OneAddr    == {a1}
OneHandler == {h1}

(* Every mode, MQTT with CoAP, and no server at all.                       *)
mcConfigurations == {{"mqtt"}, {"coap"}, {"https"}, {"mqtt", "coap"}, {}}

Datagram1(kind, length) ==
    [src  |-> a1,
     data |-> [len |-> length, ver |-> 2, tok |-> 0, id |-> kind, mac |-> g1,
               json |-> TRUE, stat |-> TRUE, rxpk |-> <<"good", "good">>]]

PullAndPush == {Datagram1(PullData, 12), Datagram1(PushData, 40)}

Uplink(datr, valid) ==
    [time |-> <<3, 5>>, chan |-> 255, stat |-> 1, modu |-> "LORA",
     datr |-> datr, rssi |-> -120, size |-> 2, other |-> 7,
     data |-> [bytes |-> <<1, 2>>, valid |-> valid]]

(* LoRa with and without a canonical rate, FSK, what is refused (the last  *)
(* two: a rate that does not fit an int, broken base64).                   *)
mcRXPKs == {Uplink(JsonText(RateText(12, 500)), TRUE),
            Uplink(JsonText(Text("inside", 7, 125)), TRUE),
            [Uplink(JsonNumber(9), TRUE) EXCEPT !.time = <<>>],
            Uplink(JsonNumber(0), TRUE),
            Uplink(JsonText(Text("other", 0, 0)), TRUE),
            Uplink(JsonText(RateText(7, 1024)), TRUE),
            Uplink(JsonText(RateText(7, 125)), FALSE)}

(* Counters on both sides of the largest int of a 32-bit build.            *)
mcStats == {[other |-> 1, rxnb |-> 7, rxok |-> 6, rxfw |-> 5, dwnb |-> 4,
             txnb |-> 3],
            [other |-> 1, rxnb |-> 2047, rxok |-> 1024, rxfw |-> 5, dwnb |-> 1,
             txnb |-> 0]}

Downlink(datr, powe, ipol) ==
    [powe |-> powe, modu |-> "LORA", datr |-> datr, fdev |-> 0, ipol |-> ipol,
     size |-> 2, extra |-> 1, other |-> 7, data |-> Base64(<<1, 2>>)]

(* Both servers can send the first; the second, with a spreading factor    *)
(* that does not fit an int and a power that does not fit a byte, only an  *)
(* MQTT server, the last only a CoAP server.                               *)
mcTXPKs == {Downlink(JsonText(RateText(12, 125)), 14, <<FALSE>>),
            Downlink(JsonText(RateText(1024, 125)), 300, <<TRUE>>),
            Downlink(JsonNumber(9), 14, <<>>)}

(* For UnsetPolarisation.                                                  *)
OnlyMqtt   == {{"mqtt"}}
UnsetIPol  == {Downlink(JsonText(RateText(12, 125)), 14, <<>>)}
OnlyPull   == {Datagram1(PullData, 12)}
=============================================================================
