---------------------------- MODULE CoapMessage -----------------------------
(***************************************************************************)
(* The CoAP message codec, backend/go-coap/message.go.                     *)
(*                                                                         *)
(* A datagram is a sequence of bytes: the properties are about the places  *)
(* where the encoding changes its form (option deltas and lengths of 13    *)
(* and 269, the payload marker) and about datagrams nobody here encoded.   *)
(* ParseMessage returns the set of the message it decoded, or the empty    *)
(* set when the code returns an error.                                     *)
(***************************************************************************)
EXTENDS Integers, FiniteSets, Sequences, SequencesExt, TLC

Byte == 0 .. 255

(* COAPType and the codes the program uses.                                *)
Confirmable     == 0
NonConfirmable  == 1
Acknowledgement == 2
Reset           == 3

GET      == 1
PUT      == 3
Content  == 69
NotFound == 132

-----------------------------------------------------------------------------
(* Options.                                                                *)

IfMatch       == 1
URIHost       == 3
ETag          == 4
IfNoneMatch   == 5
Observe       == 6
URIPort       == 7
LocationPath  == 8
URIPath       == 11
ContentFormat == 12
MaxAge        == 14
URIQuery      == 15
Accept        == 17
LocationQuery == 20
ProxyURI      == 35
ProxyScheme   == 39
Size1         == 60

Def(format, min, max) == [valueFormat |-> format, minLen |-> min, maxLen |-> max]

(* Options that are not in the domain have valueUnknown.                   *)
optionDefs ==
    [id \in {IfMatch, URIHost, ETag, IfNoneMatch, Observe, URIPort, LocationPath,
             URIPath, ContentFormat, MaxAge, URIQuery, Accept, LocationQuery,
             ProxyURI, ProxyScheme, Size1} |->
        IF id = IfMatch THEN Def("opaque", 0, 8)
        ELSE IF id = ETag THEN Def("opaque", 1, 8)
        ELSE IF id = IfNoneMatch THEN Def("empty", 0, 0)
        ELSE IF id \in {URIPort, ContentFormat, Accept} THEN Def("uint", 0, 2)
        ELSE IF id = Observe THEN Def("uint", 0, 3)
        ELSE IF id \in {MaxAge, Size1} THEN Def("uint", 0, 4)
        ELSE IF id \in {URIHost, ProxyScheme} THEN Def("string", 1, 255)
        ELSE IF id = ProxyURI THEN Def("string", 1, 1034)
        ELSE Def("string", 0, 255)]

(* The dynamic type of an option's value: a number (MediaType or one of    *)
(* the integer types), kept as a sequence of one, or bytes ([]byte or      *)
(* string).                                                                *)
Number(id, n) == [id |-> id, kind |-> "number", val |-> <<n>>]
Bytes(id, b)  == [id |-> id, kind |-> "bytes",  val |-> b]

(* A uint16 and a uint32: the highest byte is a byte.                      *)
UInt16 == {v \in Nat : v \div 256 \in Byte}
UInt32 == {v \in Nat : v \div 16777216 \in Byte}

(* The longest value whose length the two bytes of an extension hold.      *)
MaxLength == 269 + 65535

(* An option whose value has the type that optionDefs gives it and can be  *)
(* written: a uint32, or so many bytes.                                    *)
Option ==
    {o \in [id : Byte, kind : {"number", "bytes"}, val : Seq(Nat)] :
        /\ o.id \in DOMAIN optionDefs =>
              (o.kind = "number" <=> optionDefs[o.id].valueFormat = "uint")
        /\ IF o.kind = "number" THEN Len(o.val) = 1 /\ o.val[1] \in UInt32
           ELSE o.val \in Seq(Byte) /\ Len(o.val) <= MaxLength}

Messages == [type : 0 .. 3, code : Byte, id : UInt16, token : Seq(Byte),
             payload : Seq(Byte), opts : Seq(Option)]

(* A message before its options are set.                                   *)
Message(type, code, id, token, payload) ==
    [type |-> type, code |-> code, id |-> id, token |-> token,
     payload |-> payload, opts |-> <<>>]

(* Mutation of IsConfirmable: a message that is not an answer is.          *)
IsConfirmable_OrNot(m) == m.type <= NonConfirmable

IsConfirmable(m) == m.type = Confirmable

(* The loop of Minus: the options that are left to look at, and those kept.*)
Keeping == [id : Byte, left : Seq(Option), kept : Seq(Option)]

KeepOption(s) ==
    [id   |-> s.id,
     left |-> Tail(s.left),
     kept |-> IF Head(s.left).id = s.id THEN s.kept
              ELSE Append(s.kept, Head(s.left))]

Keep[s \in Keeping] == IF s.left = <<>> THEN s.kept ELSE Keep[KeepOption(s)]

Minus(opts, id) == Keep[[id |-> id, left |-> opts, kept |-> <<>>]]

RemoveOption(m, id) == [m EXCEPT !.opts = Minus(@, id)]

(* A slice of strings becomes one option per string.                       *)
AddOption(m, options) == [m EXCEPT !.opts = @ \o options]

SetOption(m, id, options) == AddOption(RemoveOption(m, id), options)

SetPath(m, segments) ==
    SetOption(m, URIPath,
              [i \in DOMAIN segments |-> Bytes(URIPath, segments[i])])

(* The values of an option.                                                *)
Options(m, id) ==
    LET chosen == SelectSeq(m.opts, LAMBDA o : o.id = id)
    IN  [i \in DOMAIN chosen |-> chosen[i].val]

Path(m) == Options(m, URIPath)

Slash == 47

(* strings.Join(m.Path(), "/").                                            *)
PathString(m) ==
    IF Path(m) = <<>> THEN <<>>
    ELSE Tail(FlattenSeq([i \in DOMAIN Path(m) |-> <<Slash>> \o Path(m)[i]]))

-----------------------------------------------------------------------------
(* Encoding.                                                               *)

Word(n) == <<(n \div 256) % 256, n % 256>>

(* PutUint32.                                                              *)
BigEndian(v) ==
    <<(v \div 16777216) % 256, (v \div 65536) % 256, (v \div 256) % 256, v % 256>>

Width(v) ==
    IF v = 0 THEN 0 ELSE IF v < 256 THEN 1 ELSE IF v < 65536 THEN 2
    ELSE IF v < 16777216 THEN 3 ELSE 4

encodeInt(v) == SubSeq(BigEndian(v), 5 - Width(v), 4)

toBytes(o) == IF o.kind = "number" THEN encodeInt(o.val[1]) ELSE o.val

(* Mutation of extendOpt: the limits are off by one.                       *)
extendOpt_OffByOne(n) ==
    IF n <= 13 THEN [nibble |-> n, ext |-> <<>>]
    ELSE IF n <= 269 THEN [nibble |-> 13, ext |-> <<(n - 13) % 256>>]
    ELSE [nibble |-> 14, ext |-> Word(n - 269)]

(* The four bits for a delta or a length, and the bytes that extend them.  *)
extendOpt(n) ==
    IF n < 13 THEN [nibble |-> n, ext |-> <<>>]
    ELSE IF n < 269 THEN [nibble |-> 13, ext |-> <<n - 13>>]
    ELSE [nibble |-> 14, ext |-> Word(n - 269)]

OptHeader(delta, length) ==
    LET d == extendOpt(delta)
        l == extendOpt(length)
    IN  <<(16 * d.nibble + l.nibble) % 256>> \o d.ext \o l.ext

(* Mutation of Sorted: the options stay in the order of the calls.         *)
Sorted_Not(opts) == opts

(* sort.Stable by option number.                                           *)
Sorted(opts) ==
    LET before(i) == {j \in DOMAIN opts :
                         \/ opts[j].id < opts[i].id
                         \/ opts[j].id = opts[i].id /\ j < i}
    IN  [k \in DOMAIN opts |->
            opts[CHOOSE i \in DOMAIN opts : Cardinality(before(i)) = k - 1]]

(* The loop over the sorted options: the last number written, the options  *)
(* that are left and the bytes in the buffer.                              *)
Writing == [prev : Byte, left : Seq(Option), out : Seq(Byte)]

WriteOption(s) ==
    LET o == Head(s.left)
        b == toBytes(o)
    IN  [prev |-> o.id,
         left |-> Tail(s.left),
         out  |-> s.out \o OptHeader(o.id - s.prev, Len(b)) \o b]

WriteOptions[s \in Writing] ==
    IF s.left = <<>> THEN s.out ELSE WriteOptions[WriteOption(s)]

OptionBytes(opts) ==
    WriteOptions[[prev |-> 0, left |-> Sorted(opts), out |-> <<>>]]

MarshalBinary(m) ==
    LET tmpbuf == Word(m.id)
    IN  <<64 + 16 * m.type + (Len(m.token) % 16), m.code, tmpbuf[1], tmpbuf[2]>>
        \o m.token
        \o OptionBytes(m.opts)
        \o (IF m.payload = <<>> THEN <<>> ELSE <<255>>)
        \o m.payload

-----------------------------------------------------------------------------
(* Decoding.                                                               *)

decodeInt(b) ==
    LET tmp == SubSeq(<<0, 0, 0, 0>>, 1, 4 - Len(b)) \o b
    IN  16777216 * tmp[1] + 65536 * tmp[2] + 256 * tmp[3] + tmp[4]

(* Mutation of parseOptionValue: the lower limit of the length is missed.  *)
parseOptionValue_NoMinimum(id, b) ==
    IF id \notin DOMAIN optionDefs THEN <<>>
    ELSE IF Len(b) > optionDefs[id].maxLen THEN <<>>
    ELSE IF optionDefs[id].valueFormat # "uint" THEN <<Bytes(id, b)>>
    ELSE IF id \in {ContentFormat, Accept}
         THEN <<Number(id, decodeInt(b) % 256)>>
    ELSE <<Number(id, decodeInt(b))>>

(* The option that is appended, if any: unknown options and those of an    *)
(* illegal length are skipped, and a MediaType is a byte.                  *)
parseOptionValue(id, b) ==
    IF id \notin DOMAIN optionDefs THEN <<>>
    ELSE IF Len(b) \notin optionDefs[id].minLen .. optionDefs[id].maxLen
         THEN <<>>
    ELSE IF optionDefs[id].valueFormat # "uint" THEN <<Bytes(id, b)>>
    ELSE IF id \in {ContentFormat, Accept}
         THEN <<Number(id, decodeInt(b) % 256)>>
    ELSE <<Number(id, decodeInt(b))>>

From(b, i) == SubSeq(b, i, Len(b))

(* The delta or length that a nibble and its extension stand for, and what *)
(* follows; -1 when the extension is truncated.                            *)
parseExtOpt(nibble, b) ==
    IF nibble \notin {13, 14} THEN [n |-> nibble, rest |-> b]
    ELSE IF nibble = 13 /\ Len(b) >= 1 THEN [n |-> b[1] + 13, rest |-> Tail(b)]
    ELSE IF nibble = 14 /\ Len(b) >= 2
         THEN [n |-> 256 * b[1] + b[2] + 269, rest |-> From(b, 3)]
    ELSE [n |-> -1, rest |-> <<>>]

(* The loop over the options has read prev and opts and has b left.  An    *)
(* OptionID is a byte.                                                     *)
Reading == [prev : Byte, opts : Seq(Option), b : Seq(Byte)]

(* Its next round; none when the option at the front of b has an error.    *)
ReadOption(s) ==
    LET nibbles == <<s.b[1] \div 16, s.b[1] % 16>>
        delta   == parseExtOpt(nibbles[1], Tail(s.b))
        length  == parseExtOpt(nibbles[2], delta.rest)
        oid     == (s.prev + delta.n) % 256
        value   == SubSeq(length.rest, 1, length.n)
    IN  IF \/ 15 \in {nibbles[1], nibbles[2]}
           \/ -1 \in {delta.n, length.n}
           \/ Len(length.rest) < length.n
        THEN {}
        ELSE {[prev |-> oid, opts |-> s.opts \o parseOptionValue(oid, value),
               b |-> From(length.rest, length.n + 1)]}

(* The options and the payload, or nothing.                                *)
ParseOptions[s \in Reading] ==
    IF s.b = <<>> \/ s.b[1] = 255
    THEN {[opts |-> s.opts, payload |-> From(s.b, 2)]}
    ELSE UNION {ParseOptions[t] : t \in ReadOption(s)}

TokenLen(data) == data[1] % 16

HeaderAccepted(data) ==
    /\ Len(data) >= 4
    /\ data[1] \div 64 = 1
    /\ TokenLen(data) <= 8
    /\ Len(data) >= 4 + TokenLen(data)

(* ParseMessage and UnmarshalBinary.                                       *)
ParseMessage(data) ==
    IF ~HeaderAccepted(data) THEN {}
    ELSE {[type    |-> (data[1] \div 16) % 4,
           code    |-> data[2],
           id      |-> 256 * data[3] + data[4],
           token   |-> SubSeq(data, 5, 4 + TokenLen(data)),
           payload |-> body.payload,
           opts    |-> body.opts] :
             body \in ParseOptions[[prev |-> 0, opts |-> <<>>,
                                    b |-> From(data, 5 + TokenLen(data))]]}

-----------------------------------------------------------------------------
(* What a receiver is meant to see of a message, stated without bytes: the *)
(* options by number, those of one number in the order they were added,    *)
(* illegal ones dropped, the values as their types can hold them.          *)

Legal(o) ==
    /\ o.id \in DOMAIN optionDefs
    /\ LET def == optionDefs[o.id]
       IN  IF o.kind = "number"
           THEN /\ def.valueFormat = "uint"
                /\ def.maxLen < 4 => o.val[1] < <<256, 65536, 16777216>>[def.maxLen]
           ELSE Len(o.val) \in def.minLen .. def.maxLen

AsRead(o) ==
    IF o.id \in {ContentFormat, Accept} THEN [o EXCEPT !.val[1] = @ % 256]
    ELSE o

Header(m) == [m EXCEPT !.opts = <<>>]

(* r is what a receiver is meant to see of m: the options of r are those   *)
(* at some places of m.                                                    *)
Shows(r, m) ==
    /\ Header(r) = Header(m)
    /\ \E place \in [DOMAIN r.opts -> DOMAIN m.opts] :
          /\ \A k \in DOMAIN r.opts : r.opts[k] = AsRead(m.opts[place[k]])
          /\ {place[k] : k \in DOMAIN r.opts}
                = {i \in DOMAIN m.opts : Legal(m.opts[i])}
          /\ \A j, k \in DOMAIN r.opts : j < k =>
                \/ r.opts[j].id < r.opts[k].id
                \/ r.opts[j].id = r.opts[k].id /\ place[j] < place[k]
=============================================================================
