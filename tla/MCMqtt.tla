------------------------------- MODULE MCMqtt -------------------------------
(***************************************************************************)
(* Instances of MqttBackend for TLC.                                       *)
(***************************************************************************)
EXTENDS MqttBackend

CONSTANTS g1, g2, r1, r2, rx

mcMACs         == {g1, g2}
mcReconnectors == {r1, r2}
mcPumps        == {rx}
NoPumps        == {}
=============================================================================
