-------------------------- MODULE GatewayDirectory --------------------------
(***************************************************************************)
(* What the gateway backend promises to its gateways, without goroutines,  *)
(* locks or channels: a directory of the routes gateways asked for, the    *)
(* acknowledgements owed to them, and the packets that leave.              *)
(*                                                                         *)
(* Two promises are in the shape of the steps.  A PULL_ACK is owed only    *)
(* from the step that learned its route, so a gateway that receives one    *)
(* has been in the directory with that very address and version.  And a    *)
(* PULL_RESP is written for the route of one instant of the directory.     *)
(***************************************************************************)
EXTENDS SemtechPackets

CONSTANTS
    Handlers,   \* the conversations that can be open at one time
    Arrivals,   \* the datagrams that can arrive
    Expiry      \* the silence after which a route may be forgotten

VARIABLES
    routes,     \* MAC -> address, version and age
    owed,       \* the acknowledgement each conversation still owes, if any
    out,        \* a PULL_RESP on its way to the socket, if any
    wire        \* the packet being written to the socket, if any

directoryVars == <<routes, owed, out, wire>>

Ages == 0 .. (Expiry + 1)

DirectoryInit ==
    /\ routes = [m \in {} |-> {}]
    /\ owed = [h \in Handlers |-> {}]
    /\ out = {}
    /\ wire = {}

(* A PULL_DATA is accepted: its route is known from here on, however long  *)
(* ago it was sent, and its acknowledgement is owed.                       *)
Learn(h) ==
    \E a \in Arrivals, age \in Ages :
        /\ AcceptedPull(a)
        /\ routes' = [m \in DOMAIN routes \cup {a.data.mac} |->
                         IF m = a.data.mac
                             THEN [addr |-> a.src, ver |-> a.data.ver,
                                   age |-> age]
                             ELSE routes[m]]
        /\ owed' = [owed EXCEPT ![h] = {PullACKFor(a)}]
        /\ UNCHANGED <<out, wire>>

(* A PUSH_DATA is accepted, whatever the directory knows of its gateway.   *)
Owe(h) ==
    /\ \E a \in Arrivals :
          AcceptedPush(a) /\ owed' = [owed EXCEPT ![h] = {PushACKFor(a)}]
    /\ UNCHANGED <<routes, out, wire>>

Acknowledge(h) ==
    /\ owed[h] # {}
    /\ wire = {}
    /\ wire' = owed[h]
    /\ owed' = [owed EXCEPT ![h] = {}]
    /\ UNCHANGED <<routes, out>>

Look ==
    /\ \E m \in DOMAIN routes :
          out' = {PullRespFor(m, routes[m].ver, routes[m].addr)}
    /\ UNCHANGED <<routes, owed, wire>>

Ship ==
    /\ out # {}
    /\ wire = {}
    /\ wire' = out
    /\ out' = {}
    /\ UNCHANGED <<routes, owed>>

(* Written, or lost.                                                       *)
Leave == wire' = {} /\ UNCHANGED <<routes, owed, out>>

Forget ==
    /\ \E gone \in SUBSET {m \in DOMAIN routes : routes[m].age > Expiry} :
          routes' = [m \in DOMAIN routes \ gone |-> routes[m]]
    /\ UNCHANGED <<owed, out, wire>>

Pass ==
    /\ routes' = [m \in DOMAIN routes |->
                     [routes[m] EXCEPT
                         !.age = IF @ > Expiry THEN @ ELSE @ + 1]]
    /\ UNCHANGED <<owed, out, wire>>

DirectoryNext ==
    \/ \E h \in Handlers : Learn(h) \/ Owe(h) \/ Acknowledge(h)
    \/ Look
    \/ Ship
    \/ Leave
    \/ Forget
    \/ Pass

DirectorySpec == DirectoryInit /\ [][DirectoryNext]_directoryVars
=============================================================================
