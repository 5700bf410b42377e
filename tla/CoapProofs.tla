----------------------------- MODULE CoapProofs -----------------------------
(***************************************************************************)
(* What holds of the CoAP multiplexer and of the exchanges between client  *)
(* and server, for any requests, patterns and foreign datagrams, and any   *)
(* number of datagrams in flight.                                          *)
(***************************************************************************)
EXTENDS CoapExchange, CodecProofs

(* Two of the longest patterns that match a path are the same pattern:     *)
(* match (servmux.go) does not depend on the order of the map, whatever    *)
(* the patterns.                                                           *)
LEMMA LongestIsUnique ==
    ASSUME NEW S, NEW mux, DOMAIN mux \subseteq Seq(S), NEW path,
           NEW j \in match(mux, path), NEW k \in match(mux, path)
    PROVE  j = k
  <1>1. /\ j \in Seq(S) /\ k \in Seq(S)
        /\ pathMatch(j, path) /\ pathMatch(k, path)
        /\ Len(j) <= Len(k) /\ Len(k) <= Len(j)
    BY DEF match, Matching
  <1>2. Len(j) = Len(k)
    BY <1>1
  <1>3. CASE j = path
    <2>1. CASE k = path
      BY <1>3, <2>1
    <2>2. CASE SubSeq(path, 1, Len(k)) = k
      <3>1. SubSeq(j, 1, Len(j)) = j
        BY <1>1
      <3> QED
        BY <1>2, <1>3, <2>2, <3>1
    <2> QED
      BY <1>1, <2>1, <2>2 DEF pathMatch
  <1>4. CASE k = path
    <2>1. CASE j = path
      BY <1>4, <2>1
    <2>2. CASE SubSeq(path, 1, Len(j)) = j
      <3>1. SubSeq(k, 1, Len(k)) = k
        BY <1>1
      <3> QED
        BY <1>2, <1>4, <2>2, <3>1
    <2> QED
      BY <1>1, <2>1, <2>2 DEF pathMatch
  <1>5. CASE SubSeq(path, 1, Len(j)) = j /\ SubSeq(path, 1, Len(k)) = k
    BY <1>2, <1>5
  <1> QED
    BY <1>1, <1>3, <1>4, <1>5 DEF pathMatch

(* A set any two members of which are the same has at most one.            *)
LEMMA AtMostOne ==
    ASSUME NEW T, \A x, y \in T : x = y
    PROVE  Cardinality(T) <= 1
  <1>1. CASE T = {}
    <2>1. Cardinality(T) = 0
      BY <1>1, FS_EmptySet, Zenon
    <2> QED
      BY <2>1, SMT
  <1>2. CASE T # {}
    <2>1. PICK x \in T : TRUE
      BY <1>2, Zenon
    <2>2. T = {x}
      BY <2>1, SMT
    <2>3. Cardinality(T) = 1
      BY <2>2, FS_Singleton, Zenon
    <2> QED
      BY <2>3, SMT
  <1> QED
    BY <1>1, <1>2, Zenon

LEMMA ChosenOne ==
    ASSUME NEW path
    PROVE  \/ match(Mux, path) = {}
           \/ \E k \in DOMAIN Mux : match(Mux, path) = {k}
  <1>1. \A j, k \in match(Mux, path) : j = k
    BY LongestIsUnique, ExchangeAssumption, Zenon
  <1>2. match(Mux, path) \subseteq DOMAIN Mux
    BY Zenon DEF match, Matching
  <1> QED
    BY <1>1, <1>2, Zenon

(* RouteIsUnique, for every multiplexer: whatever the requests and the     *)
(* datagrams of other peers, at most one handler can be the one.           *)
THEOREM RouteUnique == ExchangeSpec => []RouteIsUnique
  <1>1. ASSUME NEW path PROVE Cardinality(match(Mux, path)) <= 1
    <2>1. \A j, k \in match(Mux, path) : j = k
      BY LongestIsUnique, ExchangeAssumption, Zenon
    <2> QED
      BY <2>1, AtMostOne, Zenon
  <1>2. RouteIsUnique
    BY <1>1, Zenon DEF RouteIsUnique
  <1> QED
    BY <1>2, PTL

-----------------------------------------------------------------------------
(* The server's answers.                                                   *)

(* A message that can be sent and is understood.                           *)
Sendable(m) == m \in Messages /\ Len(m.token) <= 8

(* What MarshalBinary writes before a payload and its marker.              *)
Base(m) ==
    <<64 + 16 * m.type + (Len(m.token) % 16), m.code,
      Word(m.id)[1], Word(m.id)[2]>> \o m.token \o OptionBytes(m.opts)

(* The buffer of the client holds more of m than that and the marker.      *)
Short(m) == Len(Base(m)) + 2 <= maxPktLen

(* No message, or one that can be sent and is understood.                  *)
OneOrNone(reply) == reply = {} \/ \E x : Sendable(x) /\ Short(x) /\ reply = {x}

LEMMA MessageType ==
    ASSUME NEW type \in 0 .. 3, NEW code \in Byte, NEW id \in UInt16,
           NEW token \in Seq(Byte), NEW payload \in Seq(Byte)
    PROVE  /\ Message(type, code, id, token, payload) \in Messages
           /\ Message(type, code, id, token, payload).opts = <<>>
           /\ Message(type, code, id, token, payload).token = token
           /\ Message(type, code, id, token, payload).type = type
  <1>1. <<>> \in Seq(Option)
    BY SMT
  <1> QED
    BY <1>1, Zenon DEF Message, Messages

(* RemoveOption and AddOption keep a message a message, and its token.     *)
WithOptions(m, opts) == [m EXCEPT !.opts = opts]

LEMMA SetOptions ==
    ASSUME NEW m \in Messages, NEW opts \in Seq(Option)
    PROVE  /\ WithOptions(m, opts) \in Messages
           /\ WithOptions(m, opts).token = m.token
           /\ WithOptions(m, opts).opts = opts
           /\ WithOptions(m, opts).type = m.type
  <1>1. PICK type \in 0 .. 3, code \in Byte, id \in UInt16, token \in Seq(Byte),
             payload \in Seq(Byte), before \in Seq(Option) :
           m = [type |-> type, code |-> code, id |-> id, token |-> token,
                payload |-> payload, opts |-> before]
    <2>1. /\ m.type \in 0 .. 3 /\ m.code \in Byte /\ m.id \in UInt16
          /\ m.token \in Seq(Byte) /\ m.payload \in Seq(Byte) /\ m.opts \in Seq(Option)
      BY MessageParts, Zenon
    <2>2. m = [type |-> m.type, code |-> m.code, id |-> m.id,
               token |-> m.token, payload |-> m.payload, opts |-> m.opts]
      BY MessageParts, Zenon
    <2> DEFINE c == 0 .. 3
    <2> HIDE DEF c
    <2>3. m.type \in c
      BY <2>1 DEF c
    <2>4. \E type \in c, code \in Byte, id \in UInt16, token \in Seq(Byte),
             payload \in Seq(Byte), before \in Seq(Option) :
             m = [type |-> type, code |-> code, id |-> id, token |-> token,
                  payload |-> payload, opts |-> before]
      BY <2>1, <2>2, <2>3, Zenon
    <2> QED
      BY <2>4 DEF c
  <1> DEFINE w == [type |-> type, code |-> code, id |-> id, token |-> token,
                   payload |-> payload, opts |-> opts]
  <1>2. WithOptions(m, opts) = w
    BY <1>1, SMT DEF WithOptions
  <1>3. w \in Messages
    BY Zenon DEF Messages
  <1>4. w.token = m.token /\ w.opts = opts /\ w.type = m.type
    BY <1>1, SMT
  <1> QED
    BY <1>2, <1>3, <1>4

LEMMA OptionCalls ==
    ASSUME NEW m \in Messages, NEW id \in Byte, NEW options \in Seq(Option)
    PROVE  /\ RemoveOption(m, id) \in Messages
           /\ AddOption(m, options) \in Messages
           /\ SetOption(m, id, options) \in Messages
           /\ RemoveOption(m, id).token = m.token
           /\ AddOption(m, options).token = m.token
           /\ SetOption(m, id, options).token = m.token
  <1>1. \A u \in Messages, w \in Seq(Option) :
           AddOption(u, w) \in Messages /\ AddOption(u, w).token = u.token
    <2>1. ASSUME NEW u \in Messages, NEW w \in Seq(Option)
          PROVE  AddOption(u, w) \in Messages /\ AddOption(u, w).token = u.token
      <3>1. u.opts \o w \in Seq(Option)
        <4>1. u.opts \in Seq(Option)
          BY MessageParts, Zenon
        <4> QED
          BY <4>1, ConcatType, Zenon
      <3>2. AddOption(u, w) = WithOptions(u, u.opts \o w)
        BY DEF AddOption, WithOptions
      <3>3. /\ WithOptions(u, u.opts \o w) \in Messages
            /\ WithOptions(u, u.opts \o w).token = u.token
        BY <3>1, SetOptions, Zenon
      <3> QED
        BY <3>2, <3>3
    <2> QED
      BY <2>1, Zenon
  <1>2. RemoveOption(m, id) \in Messages /\ RemoveOption(m, id).token = m.token
    <2>1. Minus(m.opts, id) \in Seq(Option)
      BY MessageParts, MinusType, Zenon
    <2>2. RemoveOption(m, id) = WithOptions(m, Minus(m.opts, id))
      BY DEF RemoveOption, WithOptions
    <2>3. /\ WithOptions(m, Minus(m.opts, id)) \in Messages
          /\ WithOptions(m, Minus(m.opts, id)).token = m.token
      BY <2>1, SetOptions, Zenon
    <2> QED
      BY <2>2, <2>3
  <1> QED
    BY <1>1, <1>2, Zenon DEF SetOption

(* The option both handlers set.                                           *)
LEMMA FormatOption ==
    /\ ContentFormat \in Byte
    /\ <<Number(ContentFormat, 0)>> \in Seq(Option)
  <1>1. ContentFormat \in DOMAIN optionDefs
    BY SMT DEF optionDefs, ContentFormat
  <1>2. optionDefs[ContentFormat].valueFormat = "uint"
    BY <1>1, DefFacts, Zenon
  <1>3. 0 \in UInt32
    BY SMT DEF UInt32, Byte
  <1>4. Number(ContentFormat, 0) \in Option
    BY <1>1, <1>2, <1>3, NumberType, Zenon
  <1>5. ContentFormat \in Byte
    BY <1>1, DefFacts, Zenon
  <1> QED
    BY <1>4, <1>5

LEMMA Codes == Content \in Byte /\ NotFound \in Byte /\ 0 \in UInt16
               /\ Acknowledgement \in 0 .. 3
  <1>1. Content \in Byte /\ NotFound \in Byte
    BY SMT DEF Content, NotFound, Byte
  <1>2. 0 \in UInt16
    BY SMT DEF UInt16, Byte
  <1>3. Acknowledgement \in 0 .. 3
    BY SMT DEF Acknowledgement
  <1> QED
    BY <1>1, <1>2, <1>3, Zenon

(* The one option of a message that had none.                              *)
LEMMA SetsOnly ==
    ASSUME NEW m \in Messages, m.opts = <<>>
    PROVE  SetOption(m, ContentFormat, <<Number(ContentFormat, 0)>>).opts
              = <<Number(ContentFormat, 0)>>
  <1> DEFINE w == <<Number(ContentFormat, 0)>>
             u == RemoveOption(m, ContentFormat)
  <1>1. w \in Seq(Option) /\ ContentFormat \in Byte
    BY FormatOption
  <1>2. Minus(m.opts, ContentFormat) = <<>>
    BY <1>1, MinusNone, Zenon
  <1>3. u = WithOptions(m, <<>>) /\ <<>> \in Seq(Option)
    BY <1>2, SMT DEF RemoveOption, WithOptions
  <1>4. u \in Messages /\ u.opts = <<>>
    BY <1>3, SetOptions, Zenon
  <1> HIDE DEF u, w
  <1>5. AddOption(u, w) = WithOptions(u, u.opts \o w)
    BY DEF AddOption, WithOptions
  <1>6. u.opts \o w = w
    BY <1>1, <1>4, ConcatEmpty, Zenon
  <1>7. AddOption(u, w).opts = w
    <2>1. WithOptions(u, w).opts = w
      BY <1>1, <1>4, SetOptions, Zenon
    <2> QED
      BY <1>5, <1>6, <2>1
  <1> QED
    BY <1>7 DEF SetOption, u, w

(* The options the answers carry take no byte, or one.                     *)
LEMMA NoOptionBytes == OptionBytes(<<>>) = <<>>
  <1> DEFINE opts == <<>>
             left == Sorted(opts)
             s == [prev |-> 0, left |-> left, out |-> <<>>]
  <1>1. opts \in Seq(Option) /\ Len(opts) = 0 /\ 0 \in Byte /\ <<>> \in Seq(Byte)
    BY SMT DEF Byte
  <1>2. left \in Seq(Option) /\ Len(left) = 0
    <2> HIDE DEF opts
    <2> QED
      BY <1>1, SortedPlaces, Zenon
  <1>3. left = <<>>
    <2> HIDE DEF left
    <2> QED
      BY <1>2, SMT
  <1> HIDE DEF left
  <1>4. s \in Writing /\ s.left = <<>> /\ s.out = <<>>
    BY <1>1, <1>2, <1>3, SMT DEF Writing
  <1>5. OptionBytes(opts) = WriteOptions[s]
    BY Zenon DEF OptionBytes, left
  <1> HIDE DEF s
  <1> QED
    BY <1>4, <1>5, WriteLoop, Zenon

LEMMA FormatBytes ==
    /\ OptionBytes(<<Number(ContentFormat, 0)>>) \in Seq(Byte)
    /\ Len(OptionBytes(<<Number(ContentFormat, 0)>>)) = 1
  <1> DEFINE o == Number(ContentFormat, 0)
             opts == <<o>>
             left == Sorted(opts)
             s == [prev |-> 0, left |-> left, out |-> <<>>]
             b == toBytes(o)
             h == OptHeader(o.id - 0, Len(b))
  <1>1. opts \in Seq(Option) /\ 0 \in Byte /\ <<>> \in Seq(Byte) /\ <<>> \in Seq(Option)
    BY FormatOption, SMT DEF Byte
  <1>2. Len(opts) = 1 /\ opts[1] = o /\ DOMAIN opts = {1}
    BY SMT
  <1>3. left = <<o>>
    <2> HIDE DEF opts, o
    <2>1. left \in Seq(Option) /\ Len(left) = 1
      BY <1>1, <1>2, SortedPlaces, Zenon
    <2>2. left[1] = o
      BY <1>1, <1>2, SortedPlaces
    <2> HIDE DEF left
    <2> QED
      BY <2>1, <2>2, SMT
  <1>4. b \in Seq(Byte) /\ Len(b) = 0
    <2>1. 0 \in UInt32 /\ Width(0) = 0
      BY SMT DEF UInt32, Byte, Width
    <2>2. b = encodeInt(0)
      BY SMT DEF toBytes, Number
    <2> DEFINE zero == 0
    <2> HIDE DEF zero
    <2>3. encodeInt(zero) \in Seq(Byte) /\ Len(encodeInt(zero)) = Width(zero)
      BY <2>1, EncodedInt, Zenon DEF zero
    <2> QED
      BY <2>1, <2>2, <2>3 DEF zero
  <1>5. h \in Seq(Byte) /\ Len(h) = 1
    <2>1. o.id - 0 = 12
      BY SMT DEF Number, ContentFormat
    <2>2. h = OptHeader(12, 0)
      BY <1>4, <2>1
    <2> DEFINE d == extendOpt(12)
               l == extendOpt(0)
    <2>3. d.nibble = 12 /\ d.ext = <<>> /\ l.nibble = 0 /\ l.ext = <<>>
      BY SMT DEF extendOpt
    <2>4. OptHeader(12, 0) = <<(16 * d.nibble + l.nibble) % 256>> \o d.ext \o l.ext
      BY Zenon DEF OptHeader
    <2> HIDE DEF d, l
    <2>5. (16 * d.nibble + l.nibble) % 256 = 192
      BY <2>3, SMT
    <2>6. OptHeader(12, 0) = <<192>> \o <<>> \o <<>>
      BY <2>3, <2>4, <2>5
    <2>7. /\ <<192>> \o <<>> \o <<>> = <<192>>
          /\ <<192>> \in Seq(Byte) /\ Len(<<192>>) = 1
      BY SMT DEF Byte
    <2> QED
      BY <2>2, <2>6, <2>7
  <1> DEFINE t == [prev |-> o.id, left |-> <<>>, out |-> <<>> \o h \o b]
  <1>6. s \in Writing /\ s.left = <<o>> /\ s.left # <<>> /\ s.prev = 0 /\ s.out = <<>>
    <2> HIDE DEF o
    <2>1. s = [prev |-> 0, left |-> <<o>>, out |-> <<>>] /\ <<o>> \in Seq(Option)
      BY <1>1, <1>3
    <2> HIDE DEF s
    <2> QED
      BY <1>1, <2>1, SMT DEF Writing
  <1>7. WriteOption(s) = t
    <2>1. Head(<<o>>) = o /\ Tail(<<o>>) = <<>>
      BY SMT
    <2> HIDE DEF s, o
    <2> QED
      BY <1>6, <2>1, Zenon DEF WriteOption
  <1>8. t \in Writing /\ t.left = <<>> /\ t.out \in Seq(Byte) /\ Len(t.out) = 1
    <2> HIDE DEF h, b
    <2>1. <<>> \o h \o b \in Seq(Byte) /\ Len(<<>> \o h \o b) = 1
      BY <1>4, <1>5, SMT
    <2>2. o.id \in Byte
      BY SMT DEF Number, ContentFormat, Byte
    <2> DEFINE out == <<>> \o h \o b
               id  == o.id
    <2> HIDE DEF out, id, o
    <2>3. [prev |-> id, left |-> <<>>, out |-> out] \in Writing
      BY <1>1, <2>1, <2>2, Zenon DEF Writing, out, id
    <2> QED
      BY <2>1, <2>3 DEF out, id
  <1>9. OptionBytes(opts) = WriteOptions[s]
    BY Zenon DEF OptionBytes
  <1> HIDE DEF s, t, opts, o
  <1>10. WriteOptions[s] = WriteOptions[t] /\ WriteOptions[t] = t.out
    BY <1>6, <1>7, <1>8, WriteLoop, Zenon
  <1> QED
    BY <1>8, <1>9, <1>10 DEF opts, o

(* Such answers leave room for a payload.                                  *)
LEMMA AnswersShort ==
    ASSUME NEW m, m.token \in Seq(Byte), Len(m.token) <= 8,
           m.opts = <<>> \/ m.opts = <<Number(ContentFormat, 0)>>
    PROVE  Short(m)
  <1>1. /\ OptionBytes(m.opts) \in Seq(Byte)
        /\ Len(OptionBytes(m.opts)) \in Nat /\ Len(OptionBytes(m.opts)) <= 1
    <2>1. <<>> \in Seq(Byte) /\ Len(<<>>) = 0 /\ 0 \in 0 .. 1 /\ 1 \in 0 .. 1
      BY SMT
    <2>2. OptionBytes(m.opts) \in Seq(Byte) /\ Len(OptionBytes(m.opts)) \in 0 .. 1
      <3>1. CASE m.opts = <<>>
        BY <2>1, <3>1, NoOptionBytes
      <3>2. CASE m.opts = <<Number(ContentFormat, 0)>>
        BY <2>1, <3>2, FormatBytes
      <3> QED
        BY <3>1, <3>2
    <2>3. \A n \in 0 .. 1 : n \in Nat /\ n <= 1
      BY SMT
    <2> QED
      BY <2>2, <2>3
  <1> DEFINE e == OptionBytes(m.opts)
             b1 == 64 + 16 * m.type + (Len(m.token) % 16)
             b3 == Word(m.id)[1]
             b4 == Word(m.id)[2]
             t == m.token
             c == m.code
  <1>2. e \in Seq(Byte) /\ Len(e) \in Nat /\ Len(e) <= 1
    BY <1>1
  <1>3. t \in Seq(Byte) /\ Len(t) \in Nat /\ Len(t) <= 8
    BY SMT
  <1>4. Base(m) = <<b1, c, b3, b4>> \o t \o e
    BY Zenon DEF Base
  <1> HIDE DEF e, b1, b3, b4, t, c
  <1>5. Len(<<b1, c, b3, b4>> \o t \o e) = 4 + Len(t) + Len(e)
    <2> DEFINE Cells == Byte \cup {b1, c, b3, b4}
    <2>1. <<b1, c, b3, b4>> \in Seq(Cells) /\ Len(<<b1, c, b3, b4>>) = 4
      BY SMT
    <2>2. t \in Seq(Cells) /\ e \in Seq(Cells)
      BY <1>2, <1>3, SMT
    <2> HIDE DEF Cells
    <2> DEFINE h == <<b1, c, b3, b4>>
    <2> HIDE DEF h
    <2>3. h \in Seq(Cells) /\ Len(h) = 4
      BY <2>1 DEF h
    <2>4. h \o t \in Seq(Cells) /\ Len(h \o t) = Len(h) + Len(t)
      BY <2>2, <2>3, ConcatType, Zenon
    <2>5. Len((h \o t) \o e) = Len(h \o t) + Len(e)
      BY <2>2, <2>4, ConcatType, Zenon
    <2>6. Len((h \o t) \o e) = 4 + Len(t) + Len(e)
      BY <2>3, <2>4, <2>5
    <2> QED
      BY <2>6 DEF h
  <1> QED
    BY <1>2, <1>3, <1>4, <1>5, SMT DEF Short, maxPktLen

LEMMA BaseType ==
    ASSUME NEW m \in Messages
    PROVE  Base(m) \in Seq(Byte)
  <1>1. /\ m.type \in 0 .. 3 /\ m.code \in Byte /\ m.id \in UInt16
        /\ m.token \in Seq(Byte) /\ m.opts \in Seq(Option) /\ Len(m.token) \in Nat
    BY MessageParts, Zenon
  <1>2. OptionBytes(m.opts) \in Seq(Byte)
    BY <1>1, OptionsCarried, Zenon
  <1>3. PICK b1 \in Byte : FirstOf(b1, m.type, Len(m.token))
    BY <1>1, HeadByte, Zenon
  <1>4. PICK b3 \in Byte, b4 \in Byte : Word(m.id) = <<b3, b4>>
    BY <1>1, TwoBytes
  <1> DEFINE h == <<b1, m.code, b3, b4>>
  <1>5. h \in Seq(Byte)
    BY <1>1, FourBytes
  <1>6. Word(m.id)[1] = b3 /\ Word(m.id)[2] = b4
    BY <1>4, SMT
  <1>7. Base(m) = (h \o m.token) \o OptionBytes(m.opts)
    BY <1>3, <1>6 DEF Base, FirstOf
  <1> HIDE DEF h
  <1>8. h \o m.token \in Seq(Byte)
    BY <1>1, <1>5, ConcatType, Zenon
  <1> QED
    BY <1>2, <1>7, <1>8, ConcatType, Zenon

LEMMA ReplyType ==
    ASSUME NEW m, Sendable(m), NEW payload \in Seq(Byte)
    PROVE  OneOrNone(Reply(m, payload)) /\ OneOrNone(ReplyNotFound(m))
  <1>1. /\ m \in Messages /\ Len(m.token) <= 8
        /\ m.id \in UInt16 /\ m.token \in Seq(Byte)
    <2>1. m \in Messages /\ Len(m.token) <= 8
      BY DEF Sendable
    <2>2. m.id \in UInt16 /\ m.token \in Seq(Byte)
      BY <2>1, MessageParts, Zenon
    <2> QED
      BY <2>1, <2>2
  <1> DEFINE x == Message(Acknowledgement, Content, m.id, m.token, payload)
             y == SetOption(x, ContentFormat, <<Number(ContentFormat, 0)>>)
             z == Message(Acknowledgement, NotFound, 0, <<>>, <<>>)
  <1>2. x \in Messages /\ x.token = m.token /\ x.opts = <<>>
    <2>1. Acknowledgement \in 0 .. 3 /\ Content \in Byte
      BY Codes, Zenon
    <2> QED
      BY <1>1, <2>1, MessageType, SMT
  <1>3. Sendable(y) /\ Short(y)
    <2> HIDE DEF x
    <2>1. y \in Messages /\ y.token = x.token
      BY <1>2, FormatOption, OptionCalls, Zenon
    <2>2. y.opts = <<Number(ContentFormat, 0)>>
      BY <1>2, SetsOnly, Zenon
    <2> HIDE DEF y
    <2>3. Short(y)
      BY <1>1, <1>2, <2>1, <2>2, AnswersShort, Zenon
    <2> QED
      BY <1>1, <1>2, <2>1, <2>3 DEF Sendable
  <1>4. Sendable(z) /\ Short(z)
    <2>1. <<>> \in Seq(Byte) /\ Len(<<>>) <= 8
      BY SMT
    <2>2. z \in Messages /\ z.token = <<>> /\ z.opts = <<>>
      <3> DEFINE none  == <<>>
                 first == 0
      <3>1. Acknowledgement \in 0 .. 3 /\ NotFound \in Byte /\ first \in UInt16
        BY Codes, Zenon
      <3>2. none \in Seq(Byte)
        BY <2>1
      <3> HIDE DEF none, first
      <3>3. LET y1 == Message(Acknowledgement, NotFound, first, none, none)
            IN  y1 \in Messages /\ y1.token = none /\ y1.opts = <<>>
        BY <3>1, <3>2, MessageType, SMT
      <3> QED
        BY <3>3 DEF none, first
    <2> HIDE DEF z
    <2>3. Short(z)
      BY <2>1, <2>2, AnswersShort, Zenon
    <2> QED
      BY <2>1, <2>2, <2>3 DEF Sendable
  <1>5. Reply(m, payload) = {} \/ Reply(m, payload) = {y}
    BY Zenon DEF Reply
  <1>6. ReplyNotFound(m) = {} \/ ReplyNotFound(m) = {z}
    BY Zenon DEF ReplyNotFound
  <1> HIDE DEF y, z
  <1> QED
    BY <1>3, <1>4, <1>5, <1>6, Zenon DEF OneOrNone

(* Whatever the datagram, the server has one answer to it, or none: the    *)
(* order of the multiplexer's map makes no difference.                     *)
LEMMA RepliesType ==
    ASSUME NEW data \in Seq(Byte)
    PROVE  \E reply : Replies(data) = {reply} /\ OneOrNone(reply)
  <1>1. CASE ParseMessage(data) = {}
    BY <1>1, Zenon DEF Replies, OneOrNone
  <1>2. ASSUME NEW m \in Messages, Len(m.token) <= 8, ParseMessage(data) = {m}
        PROVE  \E reply : Replies(data) = {reply} /\ OneOrNone(reply)
    <2>1. Replies(data) = ServeCOAP(m)
      BY <1>2, Zenon DEF Replies
    <2>2. Sendable(m)
      BY <1>2 DEF Sendable
    <2>3. CASE match(Mux, PathString(m)) = {}
      <3>1. ServeCOAP(m) = {ReplyNotFound(m)}
        BY <2>3, Zenon DEF ServeCOAP
      <3>2. <<>> \in Seq(Byte)
        BY SMT
      <3>3. OneOrNone(ReplyNotFound(m))
        BY <2>2, <3>2, ReplyType, Zenon
      <3> QED
        BY <2>1, <3>1, <3>3, Zenon
    <2>4. ASSUME NEW k \in DOMAIN Mux, match(Mux, PathString(m)) = {k}
          PROVE  \E reply : Replies(data) = {reply} /\ OneOrNone(reply)
      <3>1. ServeCOAP(m) = {Reply(m, Mux[k])}
        BY <2>4, Zenon DEF ServeCOAP
      <3>2. Mux[k] \in Seq(Byte)
        BY <2>4, ExchangeAssumption, Zenon
      <3>3. OneOrNone(Reply(m, Mux[k]))
        BY <2>2, <3>2, ReplyType, Zenon
      <3> QED
        BY <2>1, <3>1, <3>3, Zenon
    <2> QED
      BY <2>3, <2>4, ChosenOne, Zenon
  <1> QED
    BY <1>1, <1>2, ParsedWellFormed, Zenon

LEMMA FirstPart ==
    ASSUME NEW S, NEW w \in Seq(S), NEW n \in Nat, n <= Len(w)
    PROVE  /\ SubSeq(w, 1, n) \in Seq(S) /\ Len(SubSeq(w, 1, n)) = n
           /\ \A i \in 1 .. n : SubSeq(w, 1, n)[i] = w[i]
BY SMT

(* What a read leaves of a datagram.                                       *)
LEMMA ReadType ==
    ASSUME NEW d \in Seq(Byte)
    PROVE  /\ ReadFromUDP(d) \in Seq(Byte)
           /\ Len(d) <= maxPktLen => ReadFromUDP(d) = d
           /\ Len(d) >= 1 => ReadFromUDP(d)[1] = d[1]
  <1>1. CASE Len(d) <= maxPktLen
    BY <1>1, SMT DEF ReadFromUDP, AtMost
  <1>2. CASE ~(Len(d) <= maxPktLen)
    <2>1. maxPktLen \in Nat /\ maxPktLen <= Len(d) /\ 1 \in 1 .. maxPktLen
      BY <1>2, SMT DEF maxPktLen
    <2>2. ReadFromUDP(d) = SubSeq(d, 1, maxPktLen)
      BY <1>2, Zenon DEF ReadFromUDP, AtMost
    <2>3. /\ SubSeq(d, 1, maxPktLen) \in Seq(Byte)
          /\ SubSeq(d, 1, maxPktLen)[1] = d[1]
      BY <2>1, FirstPart, Zenon
    <2> QED
      BY <1>2, <2>2, <2>3, Zenon
  <1> QED
    BY <1>1, <1>2

(* The type of a message survives, whatever its token and its length.      *)
LEMMA TypeReadsBack ==
    ASSUME NEW m \in Messages,
           NEW r \in ParseMessage(ReadFromUDP(MarshalBinary(m)))
    PROVE  r.type = m.type
  <1> DEFINE d == MarshalBinary(m)
             e == OptionBytes(m.opts)
  <1>1. PICK h \in Seq(Byte), t \in Seq(Byte) :
           /\ Heads(h, m) /\ e \o t \in Seq(Byte)
           /\ Consists(d, h, m.token, e \o t)
    BY MarshalParts, Zenon
  <1> DEFINE rest == e \o t
  <1>2. m.token \in Seq(Byte)
    BY MessageParts, Zenon
  <1> HIDE DEF d
  <1>3. d[1] = h[1]
    <2>1. rest \in Seq(Byte) /\ Consists(d, h, m.token, rest)
      BY <1>1
    <2> HIDE DEF rest
    <2>2. Laid(d, h, m.token, rest)
      BY <1>1, <1>2, <2>1, MessageLaid, Zenon
    <2> QED
      BY <2>2 DEF Laid
  <1>4. PICK body : r = Decoded(ReadFromUDP(d), body)
    <2>1. r \in ParseMessage(ReadFromUDP(d))
      BY DEF d
    <2> QED
      BY <2>1, ParseMessageAs, Zenon
  <1>5. r.type = (d[1] \div 16) % 4
    <2>1. d \in Seq(Byte) /\ Len(d) >= 1
      <3>1. d \in Seq(Byte)
        BY MarshalType, Zenon DEF d
      <3>2. rest \in Seq(Byte) /\ Consists(d, h, m.token, rest)
        BY <1>1
      <3> HIDE DEF rest
      <3>3. Laid(d, h, m.token, rest)
        BY <1>1, <1>2, <3>2, MessageLaid, Zenon
      <3>4. Len(m.token) \in Nat /\ Len(d) \in Nat /\ Len(d) >= 4 + Len(m.token)
        BY <1>2, <3>1, <3>3, SMT DEF Laid
      <3> QED
        BY <3>1, <3>4, SMT
    <2>2. ReadFromUDP(d)[1] = d[1]
      BY <2>1, ReadType, Zenon
    <2> QED
      BY <1>4, <2>2 DEF Decoded
  <1> QED
    BY <1>1, <1>3, <1>5 DEF Heads

(* A request that is not confirmable is not answered.                      *)
LEMMA OnlyConfirmable ==
    ASSUME NEW m \in Messages, ~IsConfirmable(m)
    PROVE  Replies(ReadFromUDP(MarshalBinary(m))) = {{}}
  <1> DEFINE d == ReadFromUDP(MarshalBinary(m))
  <1>1. d \in Seq(Byte)
    BY MarshalType, ReadType, Zenon
  <1>2. ASSUME NEW r \in Messages, ParseMessage(d) = {r}
        PROVE  Replies(d) = {{}}
    <2>1. ~IsConfirmable(r)
      <3>1. r.type = m.type
        BY <1>2, TypeReadsBack, Zenon
      <3> QED
        BY <3>1 DEF IsConfirmable
    <2>2. Replies(d) = ServeCOAP(r)
      <3> HIDE DEF d
      <3> QED
        BY <1>2, Zenon DEF Replies
    <2>3. \A payload : Reply(r, payload) = {} /\ ReplyNotFound(r) = {}
      BY <2>1, Zenon DEF Reply, ReplyNotFound
    <2>4. ServeCOAP(r) = {{}}
      <3>1. CASE match(Mux, PathString(r)) = {}
        BY <2>3, <3>1, Zenon DEF ServeCOAP
      <3>2. ASSUME NEW k \in DOMAIN Mux, match(Mux, PathString(r)) = {k}
            PROVE  ServeCOAP(r) = {{}}
        <4>1. ServeCOAP(r) = {Reply(r, Mux[k])}
          BY <3>2, Zenon DEF ServeCOAP
        <4> QED
          BY <2>3, <4>1, Zenon
      <3> QED
        BY <3>1, <3>2, ChosenOne, Zenon
    <2> QED
      BY <2>2, <2>4
  <1>3. ASSUME ParseMessage(d) = {} PROVE Replies(d) = {{}}
    BY <1>3, Zenon DEF Replies
  <1> HIDE DEF d
  <1>4. Replies(d) = {{}}
    BY <1>1, <1>2, <1>3, ParsedWellFormed, Zenon
  <1> QED
    BY <1>4 DEF d

-----------------------------------------------------------------------------
(* Types.                                                                  *)

(* What Send returns has been read from a datagram.                        *)
Read == \A a \in answer : Len(a.message.token) <= 8

LEMMA Single == \A x : Cardinality({}) <= 1 /\ Cardinality({x}) <= 1
  <1>1. \A x : Cardinality({x}) = 1
    BY FS_Singleton, Zenon
  <1>2. Cardinality({}) = 0
    BY FS_EmptySet, Zenon
  <1> QED
    BY <1>1, <1>2, SMT

LEMMA RememberType ==
    ASSUME NEW doubtful, Remember(doubtful)
    PROVE  late' \in BOOLEAN
BY Zenon DEF Remember

(* The calls that build a request.                                         *)
LEMMA BuildType ==
    ASSUME CoapTypeOK, Build
    PROVE  /\ Cardinality(draft') <= 1
           /\ \A m \in draft' :
                 m \in Messages /\ Len(m.opts) <= MaxOptions /\ Len(m.token) < 16
  <1>1. CASE Start
    <2>1. PICK m \in Headers : draft' = {m}
      BY <1>1, Zenon DEF Start
    <2>2. m \in Messages /\ m.opts = <<>> /\ Len(m.token) < 16
      BY ExchangeAssumption, Zenon
    <2>3. Len(m.opts) <= MaxOptions
      <3>1. Len(<<>>) = 0 /\ 0 <= MaxOptions
        BY ExchangeAssumption, SMT
      <3> QED
        BY <2>2, <3>1
    <2>4. \A u \in draft' :
             u \in Messages /\ Len(u.opts) <= MaxOptions /\ Len(u.token) < 16
      BY <2>1, <2>2, <2>3
    <2> QED
      BY <2>1, <2>4, Single, Zenon
  <1>2. ASSUME NEW m \in draft, NEW o \in Pool,
               \/ Change(m, AddOption(m, <<o>>))
               \/ Change(m, SetOption(m, o.id, <<o>>))
               \/ Change(m, RemoveOption(m, o.id))
        PROVE  /\ Cardinality(draft') <= 1
               /\ \A u \in draft' :
                     u \in Messages /\ Len(u.opts) <= MaxOptions /\ Len(u.token) < 16
    <2>1. m \in Messages /\ Len(m.token) < 16
      BY DEF CoapTypeOK
    <2>2. o \in Option
      BY ExchangeAssumption, Zenon
    <2>3. o.id \in Byte
      BY <2>2, Zenon DEF Option
    <2>4. <<o>> \in Seq(Option)
      BY <2>2, SMT
    <2> DEFINE added   == AddOption(m, <<o>>)
               set     == SetOption(m, o.id, <<o>>)
               removed == RemoveOption(m, o.id)
    <2>5. /\ added \in Messages /\ added.token = m.token
          /\ set \in Messages /\ set.token = m.token
          /\ removed \in Messages /\ removed.token = m.token
      BY <2>1, <2>3, <2>4, OptionCalls, Zenon
    <2> HIDE DEF added, set, removed
    <2>6. PICK x \in {added, set, removed} : Change(m, x)
      BY <1>2, Zenon DEF added, set, removed
    <2>7. x \in Messages /\ x.token = m.token
      BY <2>5, <2>6, Zenon
    <2>8. draft' = {x} /\ Len(x.opts) <= MaxOptions
      BY <2>6, Zenon DEF Change
    <2>9. \A u \in draft' :
             u \in Messages /\ Len(u.opts) <= MaxOptions /\ Len(u.token) < 16
      BY <2>1, <2>7, <2>8
    <2> QED
      BY <2>8, <2>9, Single, Zenon
  <1> QED
    BY <1>1, <1>2, Zenon DEF Build

(* What is under way.                                                      *)
LEMMA FlightType ==
    ASSUME CoapTypeOK, Serve \/ Lose
    PROVE  toServer' \subseteq toServer /\ toClient' \subseteq Seq(Byte)
  <1>1. CASE Serve
    <2>1. PICK d \in toServer, copy \in BOOLEAN :
             /\ toServer' = IF copy THEN toServer ELSE toServer \ {d}
             /\ \E reply \in Replies(ReadFromUDP(d.data)) :
                   toClient' = IF d.from = "client"
                               THEN toClient \cup {MarshalBinary(r) : r \in reply}
                               ELSE toClient
      BY <1>1, Zenon DEF Serve
    <2>2. PICK reply \in Replies(ReadFromUDP(d.data)) :
             toClient' = IF d.from = "client"
                         THEN toClient \cup {MarshalBinary(r) : r \in reply}
                         ELSE toClient
      BY <2>1
    <2>3. d.data \in Seq(Byte) /\ toClient \subseteq Seq(Byte)
      BY DEF CoapTypeOK
    <2>4. OneOrNone(reply)
      BY <2>2, <2>3, ReadType, RepliesType, Zenon
    <2>5. \A r \in reply : MarshalBinary(r) \in Seq(Byte)
      BY <2>4, MarshalType, Zenon DEF OneOrNone, Sendable
    <2>6. toClient' \subseteq Seq(Byte)
      BY <2>2, <2>3, <2>5, Zenon
    <2>7. toServer' \subseteq toServer
      BY <2>1, Zenon
    <2> QED
      BY <2>6, <2>7
  <1>2. CASE Lose
    BY <1>2, Zenon DEF Lose, CoapTypeOK
  <1> QED
    BY <1>1, <1>2

LEMMA TypeInit == ExchangeInit => CoapTypeOK /\ Read
BY Single, Zenon DEF ExchangeInit, CoapTypeOK, Read

LEMMA TypeStep ==
    ASSUME CoapTypeOK, Read, [ExchangeNext]_exchangeVars
    PROVE  CoapTypeOK' /\ Read'
  <1> USE DEF CoapTypeOK, Read
  <1>1. CASE Build
    <2>1. answer' = {} /\ UNCHANGED <<waiting, toServer, toClient, late>>
      BY <1>1, Zenon DEF Build
    <2> HIDE DEF CoapTypeOK
    <2>2. /\ Cardinality(draft') <= 1
          /\ \A m \in draft' :
                m \in Messages /\ Len(m.opts) <= MaxOptions /\ Len(m.token) < 16
      BY <1>1, BuildType
    <2> QED
      BY <2>1, <2>2 DEF CoapTypeOK
  <1>2. CASE Send
    <2>1. PICK r \in Requests :
             /\ toServer' = toServer
                   \cup {[from |-> "client", data |-> MarshalBinary(r)]}
             /\ waiting' = IF IsConfirmable(r) THEN {r} ELSE {}
      BY <1>2, Zenon DEF Send
    <2>2. /\ draft' = {} /\ answer' = {} /\ toClient' = toClient
          /\ Remember(FALSE)
      BY <1>2, Zenon DEF Send
    <2>3. MarshalBinary(r) \in Seq(Byte)
      BY ExchangeAssumption, MarshalType, Zenon
    <2>4. toServer' \subseteq [from : Peers, data : Seq(Byte)]
      BY <2>1, <2>3, SMT DEF Peers
    <2>5. Cardinality(waiting') <= 1 /\ Cardinality(draft') <= 1
      BY <2>1, <2>2, Single, Zenon
    <2>6. waiting' \subseteq {u \in Requests : u.type = Confirmable}
      BY <2>1, Zenon DEF IsConfirmable
    <2>7. late' \in BOOLEAN
      BY <2>2, RememberType, Zenon
    <2> QED
      BY <2>2, <2>4, <2>5, <2>6, <2>7, Zenon
  <1>3. CASE Receive
    <2>1. PICK d \in toClient, copy \in BOOLEAN :
             /\ toClient' = IF copy THEN toClient ELSE toClient \ {d}
             /\ answer' = UNION {Returned(r, d) : r \in waiting}
             /\ UNCHANGED <<draft, toServer>>
             /\ Remember(copy)
      BY <1>3, Zenon DEF Receive
    <2>2. waiting' = {}
      BY <1>3, Zenon DEF Receive
    <2>3. \A m \in ParseMessage(ReadFromUDP(d)) : m \in Messages /\ Len(m.token) <= 8
      <3>1. ReadFromUDP(d) \in Seq(Byte)
        BY ReadType, Zenon
      <3> QED
        BY <3>1, ParsedWellFormed, Zenon
    <2>4. ASSUME NEW a \in answer'
          PROVE  /\ a \in [request : Requests, message : Messages, late : BOOLEAN]
                 /\ Len(a.message.token) <= 8
      <3>1. PICK r \in waiting, m \in ParseMessage(ReadFromUDP(d)) :
               a = [request |-> r, message |-> m, late |-> late]
        <4>1. PICK r \in waiting : a \in Returned(r, d)
          BY <2>1, <2>4, Zenon
        <4> QED
          BY <4>1, Zenon DEF Returned
      <3>2. r \in Requests /\ m \in Messages /\ late \in BOOLEAN /\ Len(m.token) <= 8
        BY <2>3, Zenon
      <3> QED
        BY <3>1, <3>2
    <2>5. late' \in BOOLEAN
      BY <2>1, RememberType, Zenon
    <2>6. Cardinality(waiting') <= 1
      BY <2>2, Single, Zenon
    <2>7. toClient' \subseteq Seq(Byte)
      BY <2>1, Zenon
    <2> QED
      BY <2>1, <2>2, <2>4, <2>5, <2>6, <2>7, Zenon
  <1>4. CASE ReceiveTimesOut
    <2>1. /\ waiting' = {} /\ UNCHANGED <<draft, answer, toServer, toClient>>
          /\ Remember(TRUE)
      BY <1>4, Zenon DEF ReceiveTimesOut
    <2>2. late' \in BOOLEAN /\ Cardinality(waiting') <= 1
      BY <2>1, RememberType, Single, Zenon
    <2> QED
      BY <2>1, <2>2, Zenon
  <1>5. CASE Serve \/ Lose
    <2>1. answer' = {} /\ UNCHANGED <<draft, waiting>> /\ \E b : Remember(b)
      BY <1>5, Zenon DEF Serve, Lose
    <2>2. late' \in BOOLEAN
      BY <2>1, RememberType, Zenon
    <2>3. toServer' \subseteq toServer /\ toClient' \subseteq Seq(Byte)
      BY <1>5, FlightType
    <2> QED
      BY <2>1, <2>2, <2>3, Zenon
  <1>6. CASE PeerSends
    <2>1. /\ \E d \in Noise : toServer' = {[from |-> "other", data |-> d]}
          /\ answer' = {} /\ UNCHANGED <<draft, waiting, toClient, late>>
      BY <1>6, Zenon DEF PeerSends
    <2>2. toServer' \subseteq [from : Peers, data : Seq(Byte)]
      BY <2>1, ExchangeAssumption, SMT DEF Peers
    <2> QED
      BY <2>1, <2>2, Zenon
  <1>7. CASE UNCHANGED exchangeVars
    BY <1>7, Zenon DEF exchangeVars
  <1> QED
    BY <1>1, <1>2, <1>3, <1>4, <1>5, <1>6, <1>7, Zenon DEF ExchangeNext

(* Requests under construction, datagrams and answers have their types,    *)
(* and a client waits for one answer at most: to a confirmable request.    *)
THEOREM ExchangeTypeCorrect == ExchangeSpec => []CoapTypeOK
  <1>1. ExchangeInit => CoapTypeOK /\ Read
    BY TypeInit
  <1>2. (CoapTypeOK /\ Read) /\ [ExchangeNext]_exchangeVars => (CoapTypeOK /\ Read)'
    BY TypeStep
  <1> QED
    BY <1>1, <1>2, PTL DEF ExchangeSpec

-----------------------------------------------------------------------------
(* What the receiver of a datagram sees.                                   *)

LEMMA Understood ==
    ASSUME NEW m, Sendable(m)
    PROVE  \E r \in Messages :
              ParseMessage(MarshalBinary(m)) = {r} /\ Shows(r, m)
BY CodecRoundTrip, Zenon DEF Sendable

LEMMA RoundTripOf ==
    ASSUME NEW m \in Messages, Len(m.token) < 16
    PROVE  IF Len(m.token) > 8 THEN ParseMessage(MarshalBinary(m)) = {}
           ELSE \E r \in ParseMessage(MarshalBinary(m)) : Shows(r, m)
  <1>1. CASE Len(m.token) > 8
    BY <1>1, LongTokenRefused
  <1>2. CASE ~(Len(m.token) > 8)
    <2>1. Len(m.token) \in Nat
      BY MessageParts, Zenon
    <2>2. Len(m.token) <= 8
      BY <1>2, <2>1, SMT
    <2>3. Sendable(m)
      BY <2>2 DEF Sendable
    <2>4. \E r \in ParseMessage(MarshalBinary(m)) : Shows(r, m)
      BY <2>3, Understood, Zenon
    <2> QED
      BY <1>2, <2>4
  <1> QED
    BY <1>1, <1>2

(* RoundTrip, for every choice of the messages, the options and their      *)
(* number: however a request is put together, and whatever a client was    *)
(* answered, ParseMessage makes of its bytes what was meant, or refuses a  *)
(* token that is too long.                                                 *)
THEOREM WhatIsSentIsSeen == ExchangeSpec => []RoundTrip
  <1>1. ASSUME CoapTypeOK, Read PROVE RoundTrip
    <2>1. ASSUME NEW m \in draft \cup {a.message : a \in answer}
          PROVE  m \in Messages /\ Len(m.token) < 16
      <3>1. CASE m \in draft
        BY <1>1, <3>1, Zenon DEF CoapTypeOK
      <3>2. ASSUME NEW a \in answer, m = a.message
            PROVE  m \in Messages /\ Len(m.token) < 16
        <4>1. a.message \in Messages
          BY <1>1 DEF CoapTypeOK
        <4>2. Len(m.token) \in Nat /\ Len(m.token) <= 8
          BY <1>1, <3>2, <4>1, MessageParts DEF Read
        <4> QED
          BY <3>2, <4>1, <4>2, SMT
      <3> QED
        BY <2>1, <3>1, <3>2
    <2> QED
      BY <2>1, RoundTripOf, Zenon DEF RoundTrip
  <1>2. ExchangeInit => CoapTypeOK /\ Read
    BY TypeInit
  <1>3. (CoapTypeOK /\ Read) /\ [ExchangeNext]_exchangeVars => (CoapTypeOK /\ Read)'
    BY TypeStep
  <1> QED
    BY <1>1, <1>2, <1>3, PTL DEF ExchangeSpec

(* Relayable, for every datagram any peer may send: what the server        *)
(* accepts reads the same when it is encoded again.                        *)
THEOREM WhatIsAcceptedCanBeRelayed == ExchangeSpec => []Relayable
  <1>1. ASSUME CoapTypeOK PROVE Relayable
    <2>1. ASSUME NEW m \in Readable
          PROVE  \E r \in ParseMessage(MarshalBinary(m)) : Shows(r, m)
      <3>1. PICK d \in toServer : m \in ParseMessage(ReadFromUDP(d.data))
        BY <2>1, Zenon DEF Readable
      <3>2. d.data \in Seq(Byte)
        BY <1>1 DEF CoapTypeOK
      <3>3. ReadFromUDP(d.data) \in Seq(Byte)
        BY <3>2, ReadType, Zenon
      <3>4. Sendable(m)
        BY <3>1, <3>3, ParsedWellFormed, Zenon DEF Sendable
      <3> QED
        BY <3>4, Understood, Zenon
    <2> QED
      BY <2>1, Zenon DEF Relayable
  <1> QED
    BY <1>1, ExchangeTypeCorrect, PTL

-----------------------------------------------------------------------------
(* Answers and requests.                                                   *)

(* d is an answer of the server's handlers to r.                           *)
Answers(d, r) ==
    \E reply \in Replies(ReadFromUDP(MarshalBinary(r))) :
       \E x \in reply : d = MarshalBinary(x)

(* The client's datagrams that the server has an answer to.                *)
Answerable ==
    {d \in toServer : d.from = "client" /\ Replies(ReadFromUDP(d.data)) # {{}}}

OneRequest == \A r, s \in waiting : r = s

(* As long as nothing is left of an exchange that is over, there is one    *)
(* datagram that matters: the request that Send waits for an answer to, or *)
(* the answer to it.                                                       *)
Paired ==
    ~late =>
       /\ \A d \in Answerable : \E r \in waiting : d.data = MarshalBinary(r)
       /\ \A d \in toClient : \E r \in waiting : Answers(d, r)
       /\ \A d, e \in toClient : d = e
       /\ toClient # {} => Answerable = {}

ExchangeInv == CoapTypeOK /\ Read /\ OneRequest /\ Paired /\ AnswersMatch

LEMMA OneRequestStep ==
    ASSUME OneRequest, [ExchangeNext]_exchangeVars
    PROVE  OneRequest'
  <1>1. \/ UNCHANGED waiting
        \/ waiting' = {}
        \/ \E r \in Requests : waiting' = IF IsConfirmable(r) THEN {r} ELSE {}
    <2>1. CASE Receive
      <3>1. waiting' = {}
        BY <2>1 DEF Receive
      <3> QED
        BY <3>1
    <2>2. CASE ~Receive
      BY <2>2, Zenon DEF ExchangeNext, exchangeVars, Build, Send, ReceiveTimesOut,
                         Serve, Lose, PeerSends
    <2> QED
      BY <2>1, <2>2
  <1> QED
    BY <1>1, Zenon DEF OneRequest

(* Nothing is in flight.                                                   *)
LEMMA PairedDrained ==
    ASSUME toServer' = {}, toClient' = {}
    PROVE  Paired'
BY Zenon DEF Paired, Answerable

(* What is in flight becomes less.                                         *)
LEMMA PairedLess ==
    ASSUME Paired, ~late, waiting' = waiting,
           toServer' \subseteq toServer, toClient' \subseteq toClient
    PROVE  Paired'
  <1>1. Answerable' \subseteq Answerable
    BY Zenon DEF Answerable
  <1> QED
    BY <1>1, Zenon DEF Paired

(* A step that leaves nothing behind: late is not set, or nothing is in    *)
(* flight.                                                                 *)
LEMMA RememberFacts ==
    ASSUME NEW b \in BOOLEAN, Remember(b), ~late'
    PROVE  (toServer' = {} /\ toClient' = {}) \/ (~late /\ ~b)
BY Zenon DEF Remember

LEMMA PairedSend ==
    ASSUME CoapTypeOK, Paired, Send
    PROVE  Paired'
  <1> SUFFICES ASSUME ~late' PROVE Paired'
    BY Zenon DEF Paired
  <1>1. PICK r \in Requests :
           /\ toServer' = toServer
                 \cup {[from |-> "client", data |-> MarshalBinary(r)]}
           /\ waiting' = IF IsConfirmable(r) THEN {r} ELSE {}
    BY Zenon DEF Send
  <1>2. waiting = {} /\ toClient' = toClient /\ Remember(FALSE)
    BY Zenon DEF Send
  <1>3. ~late
    <2>1. toServer' # {}
      BY <1>1, Zenon
    <2> QED
      BY <1>2, <2>1, RememberFacts, Zenon
  <1>4. toClient' = {} /\ Answerable = {}
    BY <1>2, <1>3, Zenon DEF Paired
  <1>5. r \in Messages
    BY ExchangeAssumption, Zenon
  <1>6. ASSUME NEW d \in Answerable'
        PROVE  \E s \in waiting' : d.data = MarshalBinary(s)
    <2>1. d \in toServer' /\ d.from = "client" /\ Replies(ReadFromUDP(d.data)) # {{}}
      BY <1>6, Zenon DEF Answerable
    <2>2. d \notin toServer
      BY <1>4, <2>1, Zenon DEF Answerable
    <2>3. d = [from |-> "client", data |-> MarshalBinary(r)]
      BY <1>1, <2>1, <2>2, Zenon
    <2>4. d.data = MarshalBinary(r)
      BY <2>3
    <2>5. IsConfirmable(r)
      BY <1>5, <2>1, <2>4, OnlyConfirmable, Zenon
    <2> QED
      BY <1>1, <2>4, <2>5, Zenon
  <1> QED
    BY <1>4, <1>6, Zenon DEF Paired

LEMMA PairedServe ==
    ASSUME CoapTypeOK, OneRequest, Paired, Serve
    PROVE  Paired'
  <1> SUFFICES ASSUME ~late' PROVE Paired'
    BY Zenon DEF Paired
  <1>1. PICK d \in toServer, copy \in BOOLEAN :
           /\ toServer' = IF copy THEN toServer ELSE toServer \ {d}
           /\ \E reply \in Replies(ReadFromUDP(d.data)) :
                 toClient' = IF d.from = "client"
                             THEN toClient \cup {MarshalBinary(r) : r \in reply}
                             ELSE toClient
           /\ Remember(copy)
           /\ UNCHANGED <<draft, waiting>>
    BY Zenon DEF Serve
  <1>2. PICK reply \in Replies(ReadFromUDP(d.data)) :
           toClient' = IF d.from = "client"
                       THEN toClient \cup {MarshalBinary(r) : r \in reply}
                       ELSE toClient
    BY <1>1, Zenon
  <1>3. waiting' = waiting
    BY <1>1
  <1>4. CASE toServer' = {} /\ toClient' = {}
    BY <1>4, PairedDrained
  <1>5. CASE ~(toServer' = {} /\ toClient' = {})
    <2>1. ~late /\ ~copy
      BY <1>1, <1>5, RememberFacts, Zenon
    <2>2. toServer' = toServer \ {d}
      BY <1>1, <2>1, Zenon
    <2>3. CASE d \notin Answerable
      <3>1. toClient' = toClient
        <4>1. CASE d.from # "client"
          BY <1>2, <4>1, Zenon
        <4>2. CASE Replies(ReadFromUDP(d.data)) = {{}}
          <5>1. reply = {}
            BY <4>2, Zenon
          <5> QED
            BY <1>2, <5>1, Zenon
        <4> QED
          BY <2>3, <4>1, <4>2, Zenon DEF Answerable
      <3>2. toServer' \subseteq toServer
        BY <2>2, Zenon
      <3> QED
        BY <1>3, <2>1, <3>1, <3>2, PairedLess, Zenon
    <2>4. CASE d \in Answerable
      <3>1. d.from = "client" /\ toClient = {}
        BY <2>1, <2>4, Zenon DEF Answerable, Paired
      <3>2. PICK r \in waiting : d.data = MarshalBinary(r)
        BY <2>1, <2>4, Zenon DEF Paired
      <3>3. toClient' = {MarshalBinary(x) : x \in reply}
        BY <1>2, <3>1, Zenon
      <3>4. OneOrNone(reply)
        <4>1. d.data \in Seq(Byte)
          BY DEF CoapTypeOK
        <4>2. ReadFromUDP(d.data) \in Seq(Byte)
          BY <4>1, ReadType, Zenon
        <4> QED
          BY <1>2, <4>2, RepliesType, Zenon
      <3>5. \A x, y \in reply : x = y
        BY <3>4, Zenon DEF OneOrNone
      <3>6. \A x, y \in toClient' : x = y
        BY <3>3, <3>5, Zenon
      <3>7. \A x \in toClient' : \E s \in waiting' : Answers(x, s)
        BY <1>2, <1>3, <3>2, <3>3, Zenon DEF Answers
      <3>8. ASSUME NEW e \in Answerable' PROVE FALSE
        <4>1. e \in toServer' /\ e.from = "client" /\ Replies(ReadFromUDP(e.data)) # {{}}
          BY <3>8, Zenon DEF Answerable
        <4>2. e \in toServer /\ e # d
          BY <2>2, <4>1, Zenon
        <4>3. e \in Answerable
          BY <4>1, <4>2, Zenon DEF Answerable
        <4>4. PICK s \in waiting : e.data = MarshalBinary(s)
          BY <2>1, <4>3, Zenon DEF Paired
        <4>5. s = r
          BY Zenon DEF OneRequest
        <4>6. e.data = d.data /\ e.from = d.from
          BY <3>1, <3>2, <4>1, <4>4, <4>5, Zenon
        <4>7. \A x, y \in [from : Peers, data : Seq(Byte)] :
                 x.from = y.from /\ x.data = y.data => x = y
          BY SMT
        <4>8. e = d
          BY <4>2, <4>6, <4>7, Zenon DEF CoapTypeOK
        <4> QED
          BY <4>2, <4>8
      <3>9. Answerable' = {}
        BY <3>8, Zenon
      <3> QED
        BY <3>6, <3>7, <3>9, Zenon DEF Paired
    <2> QED
      BY <2>3, <2>4
  <1> QED
    BY <1>4, <1>5

LEMMA PairedReceive ==
    ASSUME CoapTypeOK, Paired, Receive
    PROVE  Paired'
  <1> SUFFICES ASSUME ~late' PROVE Paired'
    BY Zenon DEF Paired
  <1>1. PICK d \in toClient, copy \in BOOLEAN :
           /\ toClient' = IF copy THEN toClient ELSE toClient \ {d}
           /\ UNCHANGED <<draft, toServer>>
           /\ Remember(copy)
    BY Zenon DEF Receive
  <1>2. CASE toServer' = {} /\ toClient' = {}
    BY <1>2, PairedDrained
  <1>3. CASE ~(toServer' = {} /\ toClient' = {})
    <2>1. ~late /\ ~copy
      BY <1>1, <1>3, RememberFacts, Zenon
    <2>2. Answerable = {} /\ \A e \in toClient : e = d
      BY <1>1, <2>1, Zenon DEF Paired
    <2>3. toClient' = {}
      BY <1>1, <2>1, <2>2, Zenon
    <2>4. Answerable' = {}
      BY <1>1, <2>2, Zenon DEF Answerable
    <2> QED
      BY <2>3, <2>4, Zenon DEF Paired
  <1> QED
    BY <1>2, <1>3

LEMMA PairedStep ==
    ASSUME CoapTypeOK, OneRequest, Paired, [ExchangeNext]_exchangeVars
    PROVE  Paired'
  <1>1. CASE Build \/ UNCHANGED exchangeVars
    <2>1. UNCHANGED <<waiting, toServer, toClient, late>>
      BY <1>1, Zenon DEF Build, exchangeVars
    <2> QED
      BY <2>1, Zenon DEF Paired, Answerable
  <1>2. CASE Send
    BY <1>2, PairedSend
  <1>3. CASE Receive
    BY <1>3, PairedReceive
  <1>4. CASE ReceiveTimesOut
    <2>1. UNCHANGED <<toServer, toClient>> /\ Remember(TRUE)
      BY <1>4, Zenon DEF ReceiveTimesOut
    <2>2. CASE late'
      BY <2>2, Zenon DEF Paired
    <2>3. CASE ~late'
      <3>1. toServer' = {} /\ toClient' = {}
        BY <2>1, <2>3, RememberFacts, Zenon
      <3> QED
        BY <3>1, PairedDrained
    <2> QED
      BY <2>2, <2>3
  <1>5. CASE Serve
    BY <1>5, PairedServe
  <1>6. CASE Lose
    <2>1. /\ toServer' \subseteq toServer /\ toClient' \subseteq toClient
          /\ waiting' = waiting /\ Remember(FALSE)
      BY <1>6, Zenon DEF Lose
    <2>2. CASE late'
      BY <2>2, Zenon DEF Paired
    <2>3. CASE toServer' = {} /\ toClient' = {}
      BY <2>3, PairedDrained
    <2>4. CASE ~late
      BY <2>1, <2>4, PairedLess
    <2> QED
      BY <2>1, <2>2, <2>3, <2>4, RememberFacts, Zenon
  <1>7. CASE PeerSends
    <2>1. toClient = {} /\ toClient' = {}
      BY <1>7, Zenon DEF PeerSends, Quiet
    <2>2. PICK x \in Noise : toServer' = {[from |-> "other", data |-> x]}
      BY <1>7, Zenon DEF PeerSends
    <2>3. "other" # "client"
      OBVIOUS
    <2>4. \A d \in toServer' : d.from = "other"
      BY <2>2
    <2>5. Answerable' = {}
      BY <2>3, <2>4, Zenon DEF Answerable
    <2> QED
      BY <2>1, <2>5, Zenon DEF Paired
  <1> QED
    BY <1>1, <1>2, <1>3, <1>4, <1>5, <1>6, <1>7, Zenon DEF ExchangeNext

LEMMA WithPayload ==
    ASSUME NEW m \in Messages, NEW p \in Seq(Byte)
    PROVE  LET w == [m EXCEPT !.payload = p]
           IN  /\ w \in Messages /\ w.token = m.token /\ w.payload = p
               /\ MarshalBinary(w) = (Base(m) \o Mark(p)) \o p
  <1>1. /\ m.type \in 0 .. 3 /\ m.code \in Byte /\ m.id \in UInt16
        /\ m.token \in Seq(Byte) /\ m.opts \in Seq(Option)
    BY MessageParts, Zenon
  <1> DEFINE w == [m EXCEPT !.payload = p]
             x == [type |-> m.type, code |-> m.code, id |-> m.id,
                   token |-> m.token, payload |-> p, opts |-> m.opts]
  <1>2. w = x
    BY SMT DEF Messages
  <1>3. x \in Messages
    <2> DEFINE c == 0 .. 3
               type == m.type
    <2> HIDE DEF c, type
    <2>1. type \in c
      BY <1>1 DEF c, type
    <2>2. [type |-> type, code |-> m.code, id |-> m.id, token |-> m.token,
           payload |-> p, opts |-> m.opts]
            \in [type : c, code : Byte, id : UInt16, token : Seq(Byte),
                payload : Seq(Byte), opts : Seq(Option)]
      BY <1>1, <2>1, Zenon
    <2> QED
      BY <2>2 DEF Messages, c, type
  <1>4. /\ w.type = m.type /\ w.code = m.code /\ w.id = m.id
        /\ w.token = m.token /\ w.payload = p /\ w.opts = m.opts
    BY <1>2
  <1> HIDE DEF w
  <1>5. MarshalBinary(w) = (Base(m) \o Mark(p)) \o p
    BY <1>4, Zenon DEF MarshalBinary, Base, Mark
  <1> QED
    BY <1>2, <1>3, <1>4, <1>5 DEF w

(* A sequence that is cut off behind its first part.                       *)
LEMMA FrontOfConcat ==
    ASSUME NEW S, NEW u \in Seq(S), NEW v \in Seq(S), NEW k \in Nat, k <= Len(v)
    PROVE  SubSeq(u \o v, 1, Len(u) + k) = u \o SubSeq(v, 1, k)
  <1> DEFINE w == u \o v
             n == Len(u) + k
             f == SubSeq(w, 1, n)
             g == SubSeq(v, 1, k)
             c == u \o g
  <1>1. /\ w \in Seq(S) /\ Len(w) = Len(u) + Len(v)
        /\ Len(u) \in Nat /\ Len(v) \in Nat
    BY SMT
  <1>2. n \in Nat /\ n <= Len(w)
    <2> HIDE DEF w
    <2> QED
      BY <1>1, SMT
  <1>3. f \in Seq(S) /\ Len(f) = n /\ \A i \in 1 .. n : f[i] = w[i]
    <2> HIDE DEF w, n
    <2> QED
      BY <1>1, <1>2, FirstPart, Zenon
  <1>4. g \in Seq(S) /\ Len(g) = k /\ \A i \in 1 .. k : g[i] = v[i]
    BY FirstPart, Zenon
  <1>5. Follows(u, v, w)
    BY ConcatElements, Zenon
  <1> HIDE DEF w, f, g
  <1>6. c \in Seq(S) /\ Len(c) = Len(u) + Len(g)
    BY <1>4, ConcatType, Zenon
  <1>7. Follows(u, g, c)
    BY <1>4, ConcatElements, Zenon
  <1> HIDE DEF c
  <1>8. ASSUME NEW i \in 1 .. n PROVE f[i] = c[i]
    <2>1. CASE i <= Len(u)
      <3>1. i \in 1 .. Len(u)
        BY <1>1, <2>1, SMT DEF n
      <3> QED
        BY <1>3, <1>5, <1>7, <3>1, Zenon DEF Follows
    <2>2. CASE ~(i <= Len(u))
      <3>1. PICK j \in 1 .. k : i = Len(u) + j
        <4>1. i - Len(u) \in 1 .. k /\ i = Len(u) + (i - Len(u))
          BY <1>1, <2>2, SMT DEF n
        <4> QED
          BY <4>1
      <3>2. j \in 1 .. Len(v) /\ j \in 1 .. Len(g)
        BY <1>1, <1>4, <3>1, SMT
      <3>3. w[Len(u) + j] = v[j] /\ c[Len(u) + j] = g[j]
        BY <1>5, <1>7, <3>2, Zenon DEF Follows
      <3> QED
        BY <1>3, <1>4, <3>1, <3>3
    <2> QED
      BY <2>1, <2>2
  <1>9. f = c
    <2>1. Len(f) = n /\ Len(c) = n
      BY <1>3, <1>4, <1>6 DEF n
    <2> HIDE DEF n
    <2> QED
      BY <1>3, <1>6, <1>8, <2>1, SameBytes, Zenon
  <1> QED
    BY <1>9 DEF f, c, g, w, n

(* What the client reads of an answer's datagram is the datagram of a      *)
(* message: of the answer with its payload cut off.                        *)
LEMMA HeldIsRead ==
    ASSUME NEW x, Sendable(x), Short(x)
    PROVE  /\ Sendable(Held(x))
           /\ ReadFromUDP(MarshalBinary(x)) = MarshalBinary(Held(x))
  <1>1. /\ x \in Messages /\ Len(x.token) <= 8
        /\ x.payload \in Seq(Byte)
    <2>1. x \in Messages /\ Len(x.token) <= 8
      BY DEF Sendable
    <2> QED
      BY <2>1, MessageParts, Zenon
  <1> DEFINE b == Base(x)
             n == Len(b)
             p == x.payload
             d == MarshalBinary(x)
             k == maxPktLen - (n + 1)
             q == AtMost(k, p)
  <1>2. /\ MarshalBinary([x EXCEPT !.payload = <<>>]) = b
        /\ b \in Seq(Byte)
    <2>1. <<>> \in Seq(Byte) /\ Mark(<<>>) = <<>>
      BY SMT DEF Mark
    <2> DEFINE none == <<>>
               w == [x EXCEPT !.payload = none]
    <2> HIDE DEF none
    <2>2. w \in Messages /\ MarshalBinary(w) = (b \o Mark(none)) \o none
      BY <1>1, <2>1, WithPayload DEF none
    <2>3. MarshalBinary(w) \in Seq(Byte)
      BY <2>2, MarshalType, Zenon
    <2>4. b \in Seq(Byte)
      BY <1>1, BaseType, Zenon
    <2> HIDE DEF b, w
    <2>5. (b \o <<>>) \o <<>> = b
      BY <2>4, ConcatEmpty, Zenon
    <2> QED
      BY <2>1, <2>2, <2>4, <2>5 DEF none, w
  <1>3. Held(x) = [x EXCEPT !.payload = q]
    BY <1>1, <1>2 DEF Held, Messages
  <1>4. d = (b \o Mark(p)) \o p
    <2>1. [x EXCEPT !.payload = p] = x
      BY <1>1, SMT DEF Messages
    <2> HIDE DEF p
    <2>2. p \in Seq(Byte)
      BY <1>1 DEF p
    <2>3. MarshalBinary([x EXCEPT !.payload = p]) = (b \o Mark(p)) \o p
      BY <1>1, <2>2, WithPayload
    <2> QED
      BY <2>1, <2>3
  <1>5. n \in Nat /\ k \in Nat /\ k >= 1 /\ n + 1 + k = 1500
    <2>1. n \in Nat
      <3> HIDE DEF b
      <3> QED
        BY <1>2, SMT
    <2>2. n + 2 <= 1500
      BY DEF Short, maxPktLen
    <2> HIDE DEF n
    <2> QED
      BY <2>1, <2>2, SMT DEF maxPktLen
  <1> HIDE DEF b, p, d
  <1>6. p \in Seq(Byte) /\ d \in Seq(Byte)
    BY <1>1, MarshalType, Zenon DEF p, d
  <1>7. Len(p) \in Nat
    BY <1>6, SMT
  <1>8. q \in Seq(Byte) /\ ReadFromUDP(d) = (b \o Mark(q)) \o q
    <2> HIDE DEF k, n
    <2>1. CASE p = <<>>
      <3>1. Len(p) = 0 /\ q = p
        BY <1>5, <2>1, SMT DEF AtMost
      <3>2. d = b
        <4>1. Mark(p) = <<>> /\ (b \o <<>>) \o <<>> = b
          BY <1>2, <2>1, ConcatEmpty, Zenon DEF Mark
        <4> QED
          BY <1>4, <2>1, <4>1
      <3>3. Len(d) <= maxPktLen
        BY <1>5, <3>2, SMT DEF maxPktLen, n
      <3> HIDE DEF q
      <3> QED
        BY <1>4, <1>6, <3>1, <3>3, ReadType
    <2>2. CASE p # <<>>
      <3> DEFINE u == b \o <<255>>
      <3>1. u \in Seq(Byte) /\ Len(u) = n + 1
        <4>1. <<255>> \in Seq(Byte) /\ Len(<<255>>) = 1
          BY SMT DEF Byte
        <4> QED
          BY <1>2, <4>1, ConcatType DEF n
      <3>2. d = u \o p
        BY <1>4, <2>2 DEF Mark
      <3> HIDE DEF u
      <3>3. Len(d) = n + 1 + Len(p)
        BY <1>6, <3>1, <3>2, ConcatType
      <3>4. CASE Len(p) <= k
        <4>1. q = p
          BY <3>4 DEF AtMost
        <4>2. Len(d) <= maxPktLen
          BY <1>5, <1>7, <3>3, <3>4, SMT DEF maxPktLen
        <4> HIDE DEF q
        <4> QED
          BY <1>4, <1>6, <4>1, <4>2, ReadType
      <3>5. CASE ~(Len(p) <= k)
        <4>1. q = SubSeq(p, 1, k) /\ k <= Len(p)
          BY <1>5, <1>7, <3>5, SMT DEF AtMost
        <4>2. q \in Seq(Byte) /\ Len(q) = k
          BY <1>5, <1>6, <4>1, FirstPart
        <4>3. ReadFromUDP(d) = SubSeq(d, 1, maxPktLen)
          <5>1. ~(Len(d) <= maxPktLen)
            BY <1>5, <1>7, <3>3, <3>5, SMT DEF maxPktLen
          <5> QED
            BY <5>1, Zenon DEF ReadFromUDP, AtMost
        <4>4. SubSeq(u \o p, 1, Len(u) + k) = u \o SubSeq(p, 1, k)
          <5>1. u \in Seq(Byte) /\ p \in Seq(Byte) /\ k \in Nat /\ k <= Len(p)
            BY <1>5, <1>6, <3>1, <4>1
          <5> HIDE DEF q
          <5> QED
            BY <5>1, FrontOfConcat
        <4>5. Len(u) + k = maxPktLen
          BY <1>5, <3>1 DEF maxPktLen
        <4>6. Mark(q) = <<255>>
          <5>1. q # <<>>
            <6> HIDE DEF q
            <6>1. Len(<<>>) = 0
              BY SMT
            <6> QED
              BY <1>5, <4>2, <6>1
          <5> QED
            BY <5>1 DEF Mark
        <4> HIDE DEF q
        <4> QED
          <5>1. ReadFromUDP(d) = u \o q
            BY <3>2, <4>1, <4>3, <4>4, <4>5, Zenon
          <5>2. u \o q = (b \o Mark(q)) \o q
            BY <4>6 DEF u
          <5> QED
            BY <4>2, <5>1, <5>2
      <3> QED
        BY <3>4, <3>5
    <2> QED
      BY <2>1, <2>2
  <1> HIDE DEF q
  <1>9. /\ [x EXCEPT !.payload = q] \in Messages
        /\ [x EXCEPT !.payload = q].token = x.token
        /\ MarshalBinary([x EXCEPT !.payload = q]) = (b \o Mark(q)) \o q
    BY <1>1, <1>8, WithPayload DEF b
  <1> QED
    BY <1>1, <1>3, <1>8, <1>9 DEF Sendable, d

LEMMA AnswersMatchStep ==
    ASSUME ExchangeInv, [ExchangeNext]_exchangeVars
    PROVE  AnswersMatch'
  <1>1. CASE ~Receive
    <2>1. answer' = {} \/ answer' = answer
      BY <1>1, Zenon DEF ExchangeNext, exchangeVars, Build, Send, ReceiveTimesOut,
                         Serve, Lose, PeerSends
    <2> QED
      BY <2>1, Zenon DEF AnswersMatch, ExchangeInv
  <1>2. CASE Receive
    <2>1. PICK d \in toClient : answer' = UNION {Returned(r, d) : r \in waiting}
      BY <1>2, Zenon DEF Receive
    <2>2. ASSUME NEW a \in answer', ~a.late,
                 ~(Len(MarshalBinary(a.request)) > maxPktLen)
          PROVE  \E reply \in Replies(MarshalBinary(a.request)) :
                    \E x \in reply : Shows(a.message, Held(x))
      <3>1. PICK r \in waiting, m \in ParseMessage(ReadFromUDP(d)) :
               a = [request |-> r, message |-> m, late |-> late]
        <4>1. PICK r \in waiting : a \in Returned(r, d)
          BY <2>1, <2>2, Zenon
        <4> QED
          BY <4>1, Zenon DEF Returned
      <3>2. a.request = r /\ a.message = m /\ a.late = late
        BY <3>1
      <3>3. PICK s \in waiting : Answers(d, s)
        BY <2>2, <3>2, Zenon DEF ExchangeInv, Paired
      <3>4. s = r
        BY Zenon DEF ExchangeInv, OneRequest
      <3>5. MarshalBinary(r) \in Seq(Byte)
        <4>1. r \in Messages
          BY ExchangeAssumption, Zenon DEF ExchangeInv, CoapTypeOK
        <4> QED
          BY <4>1, MarshalType, Zenon
      <3>6. ReadFromUDP(MarshalBinary(r)) = MarshalBinary(r)
        <4> DEFINE w == MarshalBinary(r)
        <4> HIDE DEF w
        <4>1. w \in Seq(Byte) /\ ~(Len(w) > maxPktLen)
          BY <2>2, <3>2, <3>5 DEF w
        <4>2. Len(w) <= maxPktLen
          BY <4>1, SMT DEF maxPktLen
        <4> QED
          BY <4>1, <4>2, ReadType, Zenon DEF w
      <3>7. PICK reply \in Replies(MarshalBinary(r)) :
               \E x \in reply : d = MarshalBinary(x)
        BY <3>3, <3>4, <3>6, Zenon DEF Answers
      <3>8. PICK x \in reply : d = MarshalBinary(x)
        BY <3>7
      <3>9. Sendable(x) /\ Short(x)
        <4>1. OneOrNone(reply)
          BY <3>5, <3>7, RepliesType, Zenon
        <4> QED
          BY <3>8, <4>1, Zenon DEF OneOrNone
      <3>10. Sendable(Held(x)) /\ ReadFromUDP(d) = MarshalBinary(Held(x))
        BY <3>8, <3>9, HeldIsRead, Zenon
      <3>11. Shows(m, Held(x))
        BY <3>1, <3>10, Understood, Zenon
      <3> QED
        BY <3>2, <3>7, <3>8, <3>11, Zenon
    <2> QED
      BY <2>2, Zenon DEF AnswersMatch
  <1> QED
    BY <1>1, <1>2

(* AnswersMatch, for every multiplexer and whatever requests, other peers  *)
(* and network do: to a request that fits the server's buffer, Send, which *)
(* compares neither identifier nor token, returns what the handler says to *)
(* this very request, as much of it as fits the client's buffer, unless    *)
(* something of an exchange that is over was in flight.                    *)
THEOREM AnswersBelong == ExchangeSpec => []AnswersMatch
  <1>1. ExchangeInit => ExchangeInv
    <2>1. ExchangeInit => OneRequest /\ Paired /\ AnswersMatch
      BY Zenon DEF ExchangeInit, OneRequest, Paired, Answerable, AnswersMatch
    <2> QED
      BY <2>1, TypeInit, Zenon DEF ExchangeInv
  <1>2. ExchangeInv /\ [ExchangeNext]_exchangeVars => ExchangeInv'
    <2> SUFFICES ASSUME ExchangeInv, [ExchangeNext]_exchangeVars PROVE ExchangeInv'
      OBVIOUS
    <2>1. CoapTypeOK' /\ Read'
      BY TypeStep DEF ExchangeInv
    <2>2. OneRequest' /\ Paired'
      BY OneRequestStep, PairedStep DEF ExchangeInv
    <2>3. AnswersMatch'
      BY AnswersMatchStep
    <2> QED
      BY <2>1, <2>2, <2>3 DEF ExchangeInv
  <1>3. ExchangeInv => AnswersMatch
    BY DEF ExchangeInv
  <1> QED
    BY <1>1, <1>2, <1>3, PTL DEF ExchangeSpec
=============================================================================
