----------------------------- MODULE MCGateway ------------------------------
(***************************************************************************)
(* Instances of GatewayBackend for TLC: the gateways, addresses and        *)
(* datagrams the runs choose from.                                         *)
(***************************************************************************)
EXTENDS GatewayBackend, TLC

CONSTANTS g1, g2, a1, a2, h1, h2

mcMACs      == {g1, g2}
mcAddrs     == {a1, a2}
mcHandlers  == {h1, h2}
OneHandler  == {h1}
HandlerSymmetry == Permutations(mcHandlers)

Pull(a, m, version, token) ==
    [src |-> a,
     data |-> [len |-> 12, ver |-> version, tok |-> token, id |-> PullData,
               mac |-> m, json |-> FALSE, stat |-> FALSE, rxpk |-> <<>>]]

Push(a, m, token, hasStat, frames) ==
    [src |-> a,
     data |-> [len |-> 40, ver |-> 2, tok |-> token, id |-> PushData,
               mac |-> m, json |-> TRUE, stat |-> hasStat, rxpk |-> frames]]

With(a, d) == [a EXCEPT !.data = d @@ @]

(* Gateway 1 moves between two addresses and protocol versions, gateway 2  *)
(* stays.                                                                  *)
Pulls == {Pull(a1, g1, 1, 0), Pull(a2, g1, 2, 1), Pull(a2, g2, 2, 0)}

(* Datagrams that must not change anything: too short, wrong length, wrong *)
(* version, a TX_ACK, a type the bridge itself sends, a body that is not   *)
(* JSON, a body one byte too short.                                        *)
Refused == {With(Pull(a1, g2, 1, 0), [len |-> 3]),
            With(Pull(a1, g2, 1, 0), [len |-> 13]),
            With(Pull(a1, g2, 1, 0), [ver |-> 3]),
            With(Pull(a1, g2, 1, 0), [id |-> TXACK]),
            With(Pull(a1, g2, 1, 0), [id |-> PullResp]),
            With(Push(a1, g2, 0, TRUE, <<>>), [json |-> FALSE]),
            With(Push(a1, g2, 0, TRUE, <<>>), [len |-> 12])}

(* Several frames, all acceptable with SkipCRC; one that is refused between *)
(* two that are not.                                                       *)
LiveArrivals     == {Pull(a1, g1, 1, 0),
                     Push(a2, g2, 2, TRUE, <<"good", "badCRC">>),
                     Push(a2, g2, 3, FALSE, <<"good", "undecodable", "good">>)}
MixedArrivals    == {Pull(a1, g1, 1, 0), Push(a2, g2, 2, TRUE, <<"good">>)}
ShutdownArrivals == MixedArrivals \cup Refused
OnePull          == {Pull(a1, g1, 1, 0)}
OneDownlink      == {g1}
NoDownlinks      == {}
=============================================================================
