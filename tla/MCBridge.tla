------------------------------ MODULE MCBridge -------------------------------
(***************************************************************************)
(* Instances of MqttBridge for TLC.                                        *)
(***************************************************************************)
EXTENDS MqttBridge

CONSTANTS g1, a1, h1, r1

OneMac         == {g1}
mcAddrs        == {a1}
mcReconnectors == {r1}
OneHandler     == {h1}

Datagram1(m, kind, length) ==
    [src  |-> a1,
     data |-> [len |-> length, ver |-> 2, tok |-> 0, id |-> kind, mac |-> m,
               json |-> TRUE, stat |-> TRUE, rxpk |-> <<"good">>]]

Pull(m) == Datagram1(m, PullData, 12)
Push(m) == Datagram1(m, PushData, 40)

PullOnly    == {Pull(g1)}
PullAndPush == {Pull(g1), Push(g1)}
=============================================================================
