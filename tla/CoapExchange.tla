---------------------------- MODULE CoapExchange ----------------------------
(***************************************************************************)
(* A CoAP client and server over UDP: client.go, server.go and the request *)
(* handlers of example/server, with the codec of CoapMessage.              *)
(*                                                                         *)
(* The client is one caller: it builds a request by the calls of           *)
(* message.go and passes it to Conn.Send, which waits up to two seconds    *)
(* for whatever datagram comes next.  The network loses, delays, reorders  *)
(* and repeats datagrams in both directions, and other peers send the      *)
(* server datagrams of their own making (Noise).  Client and server read   *)
(* into a buffer of fixed size: the rest of a longer datagram is lost.     *)
(***************************************************************************)
EXTENDS CoapMessage, CoapMux

CONSTANTS
    Mux,        \* the server's multiplexer: pattern -> payload of the answer
    Headers,    \* the messages a caller starts a request from
    Pool,       \* the options a caller sets and adds
    MaxOptions, \* bound: options of a request under construction
    Requests,   \* bound: the finished requests that are sent
    Noise,      \* the datagrams of other peers
    Capacity    \* bound: datagrams in flight per direction

(* A request whose token is one that the four bits for its length can tell *)
(* (MarshalBinary writes the length modulo 16, and RFC 7252 allows eight   *)
(* bytes) and that fits a UDP datagram (else Write returns an error and    *)
(* nothing is sent).                                                       *)
Transmittable(r) == Len(r.token) < 16 /\ Len(MarshalBinary(r)) <= 65507

(* A request starts without options.                                       *)
ASSUME ExchangeAssumption ==
    /\ DOMAIN Mux \subseteq Seq(Byte) /\ \A k \in DOMAIN Mux : Mux[k] \in Seq(Byte)
    /\ \A m \in Headers : m \in Messages /\ m.opts = <<>> /\ Len(m.token) < 16
    /\ Pool \subseteq Option
    /\ MaxOptions \in Nat /\ Capacity \in Nat
    /\ Requests \subseteq Messages
    /\ \A r \in Requests : Transmittable(r)
    /\ Noise \subseteq Seq(Byte)

VARIABLES
    draft,      \* the request being built, if any
    waiting,    \* the confirmable request Send waits for an answer to, if any
    answer,     \* what Send has just returned: the request, the message and
                \* whether it came with late set
    toServer,   \* datagrams in flight to the server, with their sender
    toClient,   \* datagrams in flight to the client
    late        \* history: a datagram in flight belongs to an exchange that
                \* is over, because Send gave up or because it is a copy

exchangeVars == <<draft, waiting, answer, toServer, toClient, late>>

Peers == {"client", "other"}

CoapTypeOK ==
    /\ Cardinality(draft) <= 1 /\ Cardinality(waiting) <= 1
    /\ \A m \in draft :
          m \in Messages /\ Len(m.opts) <= MaxOptions /\ Len(m.token) < 16
    /\ waiting \subseteq {r \in Requests : r.type = Confirmable}
    /\ answer \subseteq [request : Requests, message : Messages, late : BOOLEAN]
    /\ toServer \subseteq [from : Peers, data : Seq(Byte)]
    /\ toClient \subseteq Seq(Byte)
    /\ late \in BOOLEAN

ExchangeInit ==
    /\ draft = {}
    /\ waiting = {}
    /\ answer = {}
    /\ toServer = {}
    /\ toClient = {}
    /\ late = FALSE

(* The history variable after a step; doubtful: the step itself leaves a   *)
(* datagram of a finished exchange behind.                                 *)
Remember(doubtful) ==
    late' = ((late \/ doubtful) /\ (toServer' # {} \/ toClient' # {}))

-----------------------------------------------------------------------------
(* Building a request.  Nothing else is in flight meanwhile (a bound: the  *)
(* calls touch nothing but the message).                                   *)

Quiet == waiting = {} /\ toServer = {} /\ toClient = {}

Start ==
    /\ Quiet
    /\ draft = {}
    /\ \E m \in Headers : draft' = {m}

Change(m, changed) ==
    /\ Len(changed.opts) <= MaxOptions
    /\ draft' = {changed}

Build ==
    /\ Quiet
    /\ \/ Start
       \/ \E m \in draft, o \in Pool :
             \/ Change(m, AddOption(m, <<o>>))
             \/ Change(m, SetOption(m, o.id, <<o>>))
             \/ Change(m, RemoveOption(m, o.id))
    /\ answer' = {}
    /\ UNCHANGED <<waiting, toServer, toClient, late>>

-----------------------------------------------------------------------------
(* Conn.Send.                                                              *)

(* Transmit: one that is not confirmable is done with.  A request does not *)
(* go out while another peer's datagram is under way (a bound: the server  *)
(* keeps nothing from one datagram to the next).                           *)
Send ==
    /\ waiting = {}
    /\ \A d \in toServer : d.from = "client"
    /\ Cardinality(toServer) < Capacity
    /\ \E r \in Requests :
          /\ draft \subseteq {r}
          /\ toServer' = toServer
                \cup {[from |-> "client", data |-> MarshalBinary(r)]}
          /\ waiting' = IF IsConfirmable(r) THEN {r} ELSE {}
    /\ draft' = {}
    /\ answer' = {}
    /\ UNCHANGED toClient
    /\ Remember(FALSE)

(* The size of the buffers of Conn and of Serve.                           *)
maxPktLen == 1500

AtMost(n, s) == IF Len(s) <= n THEN s ELSE SubSeq(s, 1, n)

(* Mutation of ReadFromUDP: nothing is lost.                               *)
ReadFromUDP_Whole(d) == d

(* What a read leaves of datagram d in the buffer, without an error.       *)
ReadFromUDP(d) == AtMost(maxPktLen, d)

(* What Send returns for r when d comes: an error if it does not parse.    *)
Returned(r, d) ==
    {[request |-> r, message |-> m, late |-> late] :
        m \in ParseMessage(ReadFromUDP(d))}

(* Receive: the first datagram to come, whatever it answers.               *)
Receive ==
    /\ waiting # {}
    /\ \E d \in toClient, copy \in BOOLEAN :
          /\ toClient' = IF copy THEN toClient ELSE toClient \ {d}
          /\ answer' = UNION {Returned(r, d) : r \in waiting}
          /\ UNCHANGED <<draft, toServer>>
          /\ Remember(copy)
    /\ waiting' = {}

(* The read deadline of ResponseTimeout passes.                            *)
ReceiveTimesOut ==
    /\ waiting # {}
    /\ waiting' = {}
    /\ UNCHANGED <<draft, answer, toServer, toClient>>
    /\ Remember(TRUE)

-----------------------------------------------------------------------------
(* The server: Serve, handlePacket, ServeMux.ServeCOAP and the handlers.   *)

(* Mutation of Reply: a request that is not confirmable is answered too.   *)
Reply_Always(m, payload) ==
    {SetOption(Message(Acknowledgement, Content, m.id, m.token, payload),
               ContentFormat, <<Number(ContentFormat, 0)>>)}

(* handleA and handleB of the example server, which differ in their        *)
(* payload.  The example imports the package under its original name,      *)
(* which is not vendored; here its handlers run on this copy.              *)
Reply(m, payload) ==
    IF ~IsConfirmable(m) THEN {}
    ELSE {SetOption(Message(Acknowledgement, Content, m.id, m.token, payload),
                    ContentFormat, <<Number(ContentFormat, 0)>>)}

(* notFoundHandler: the answer has neither the identifier nor the token.   *)
ReplyNotFound(m) ==
    IF ~IsConfirmable(m) THEN {}
    ELSE {Message(Acknowledgement, NotFound, 0, <<>>, <<>>)}

(* What the server may answer to m: no message or one.                     *)
ServeCOAP(m) ==
    LET found == match(Mux, PathString(m))
    IN  IF found = {} THEN {ReplyNotFound(m)}
        ELSE {Reply(m, Mux[k]) : k \in found}

(* handlePacket: a datagram that does not parse has no answer.             *)
Replies(data) ==
    IF ParseMessage(data) = {} THEN {{}}
    ELSE UNION {ServeCOAP(m) : m \in ParseMessage(data)}

(* A goroutine per datagram; what they write meets in the network, where   *)
(* its order is lost anyway, so that one is one step.                      *)
Serve ==
    \E d \in toServer, copy \in BOOLEAN :
        /\ toServer' = IF copy THEN toServer ELSE toServer \ {d}
        /\ \E reply \in Replies(ReadFromUDP(d.data)) :
              toClient' = IF d.from = "client"
                          THEN toClient \cup {MarshalBinary(r) : r \in reply}
                          ELSE toClient
        /\ Cardinality(toClient') <= Capacity
        /\ Remember(copy)
        /\ answer' = {}
        /\ UNCHANGED <<draft, waiting>>

-----------------------------------------------------------------------------
(* The network.                                                            *)

Lose ==
    /\ \/ \E d \in toServer : toServer' = toServer \ {d} /\ UNCHANGED toClient
       \/ \E d \in toClient : toClient' = toClient \ {d} /\ UNCHANGED toServer
    /\ Remember(FALSE)
    /\ answer' = {}
    /\ UNCHANGED <<draft, waiting>>

PeerSends ==
    /\ Quiet
    /\ draft = {}
    /\ \E d \in Noise : toServer' = {[from |-> "other", data |-> d]}
    /\ answer' = {}
    /\ UNCHANGED <<draft, waiting, toClient, late>>

ExchangeNext ==
    \/ Build
    \/ Send
    \/ Receive
    \/ ReceiveTimesOut
    \/ Serve
    \/ Lose
    \/ PeerSends

ExchangeSpec == ExchangeInit /\ [][ExchangeNext]_exchangeVars

-----------------------------------------------------------------------------
(* Properties.                                                             *)

(* Whatever a caller puts together, in whatever order, ParseMessage makes  *)
(* of it again: through option numbers that are sorted only when it is     *)
(* encoded, deltas and lengths at 13 and 269, options of an illegal length *)
(* (dropped) and a token that is too long (refused).                       *)
RoundTrip ==
    \A m \in draft \cup {a.message : a \in answer} :
        IF Len(m.token) > 8 THEN ParseMessage(MarshalBinary(m)) = {}
        ELSE \E r \in ParseMessage(MarshalBinary(m)) : Shows(r, m)

(* The messages the server can read of what is in flight.                  *)
Readable == UNION {ParseMessage(ReadFromUDP(d.data)) : d \in toServer}

(* What the server accepts of a datagram that somebody else made can be    *)
(* passed on: encoded again it reads the same, also when its options came  *)
(* in an order and with extensions this encoder does not produce.          *)
Relayable ==
    \A m \in Readable : \E r \in ParseMessage(MarshalBinary(m)) : Shows(r, m)

(* The handler of a request does not depend on the order in which Go       *)
(* iterates over the multiplexer's map.                                    *)
RouteIsUnique ==
    \A m \in Readable : Cardinality(match(Mux, PathString(m))) <= 1

(* A message whose payload is cut off where the client's buffer ends; the  *)
(* marker takes a byte.                                                    *)
Held(x) ==
    LET opening == Len(MarshalBinary([x EXCEPT !.payload = <<>>])) + 1
    IN  [x EXCEPT !.payload = AtMost(maxPktLen - opening, @)]

(* Send takes the first datagram for its answer and compares neither       *)
(* identifier nor token.  Still, that answer is what the server's handler  *)
(* says to this very request (as much of it as the client's buffer holds), *)
(* unless an exchange that is over (Send gave up, or a datagram was        *)
(* repeated) has left something in flight; once that has drained, answers  *)
(* are right again.  Nothing is said of a request that does not fit the    *)
(* server's buffer: cut off between two options it is read as another one, *)
(* which may have another path and so another handler.                     *)
AnswersMatch ==
    \A a \in answer :
        \/ a.late
        \/ Len(MarshalBinary(a.request)) > maxPktLen
        \/ \E reply \in Replies(MarshalBinary(a.request)) :
              \E x \in reply : Shows(a.message, Held(x))
=============================================================================
