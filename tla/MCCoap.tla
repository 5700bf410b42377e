------------------------------- MODULE MCCoap -------------------------------
(***************************************************************************)
(* An instance of CoapExchange for TLC.                                    *)
(***************************************************************************)
EXTENDS CoapExchange

a == 97
b == 98
Chars(n) == [i \in 1 .. n |-> a]

(* "/a", "b/" and "/b/a": an exact pattern, a prefix and one inside it.    *)
(* The first one's answer is longer than the client's buffer.              *)
mcMux ==
    Handle(Handle(Handle(<<>>, <<Slash, a>>, Chars(1600)), <<b, Slash>>, <<2>>),
           <<Slash, b, Slash, a>>, <<255, 3>>)

(* Every kind of message, tokens of length 0, 8 and 9.                     *)
Hello == Message(Confirmable, GET, 12345, <<>>, <<104, 105>>)
mcHeaders == {Hello,
              Message(NonConfirmable, PUT, 65535, Chars(8), <<>>),
              Message(Reset, 0, 0, Chars(9), <<255>>)}

(* Options next to the limits: deltas of 12 (3 to 15) and 13 (4 to 17, 7   *)
(* to 20), lengths of 12, 13, 268 and 269, numbers of every width, values  *)
(* of an illegal length, a format that does not fit a MediaType, an option *)
(* this codec does not know.                                               *)
mcPool == {Bytes(URIHost, <<b>>), Bytes(ETag, Chars(8)), Bytes(ETag, <<>>),
           Bytes(IfNoneMatch, <<>>), Number(URIPort, 65535),
           Bytes(URIPath, <<b>>), Bytes(URIPath, Chars(12)),
           Number(ContentFormat, 300), Number(MaxAge, 16777216),
           Bytes(URIQuery, Chars(13)), Number(Accept, 50),
           Bytes(LocationQuery, Chars(256)), Bytes(ProxyURI, Chars(268)),
           Bytes(ProxyURI, Chars(269)), Number(Size1, 0), Bytes(200, <<a>>)}

Request(type, id, segments) ==
    SetPath(Message(type, GET, id, <<id>>, <<>>), segments)

(* Its other options fill the server's buffer to the last of its bytes, so *)
(* that the path is what is lost: header and token have five bytes, five   *)
(* options 249 each and one 250.                                           *)
Overlong ==
    LET places == [i \in 1 .. 6 |->
                      Bytes(LocationPath, Chars(IF i = 6 THEN 248 ELSE 247))]
    IN  SetPath(AddOption(Message(Confirmable, GET, 6, <<6>>, <<>>), places),
                <<<<a>>>>)

mcRequests == {Overlong,
               Request(Confirmable, 1, <<<<a>>>>),
               Request(Confirmable, 2, <<<<b>>, <<a>>>>),
               Request(Confirmable, 3, <<<<b>>, <<b>>>>),
               Request(Confirmable, 4, <<<<b>>>>),
               Request(NonConfirmable, 5, <<<<a>>>>)}

(* All short continuations of a header: the extension and error nibbles,   *)
(* the payload marker, option numbers that wrap, illegal lengths; and      *)
(* headers that are refused.                                               *)
Units == {0, 1, 11, 14, 65, 176, 192, 208, 224, 240, 255}
mcNoise ==
    {<<64, 1, 0, 7>> \o tail : tail \in UNION {[1 .. n -> Units] : n \in 0 .. 3}}
        \cup {<<66, 1, 0, 7, 1>>, <<73, 1, 0, 7>> \o Chars(9), <<128, 1, 0, 7>>,
              <<64, 1>>, <<72, 1, 0, 7>> \o Chars(8)}
        \cup {<<64, 1, 0, 7, 176 + n>> \o Chars(n) \o <<x, y>> :
                 n \in {1, 2}, x \in Units, y \in Units}
        \cup {<<64, 1, 0, 7, 224, 0, x, 16 * n + 1, a>> :
                 n \in {0, 5, 12}, x \in 0 .. 255}
=============================================================================
