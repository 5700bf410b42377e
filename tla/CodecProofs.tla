---------------------------- MODULE CodecProofs ----------------------------
(***************************************************************************)
(* What holds of the CoAP message codec for every message: that what       *)
(* MarshalBinary writes, ParseMessage reads as it was meant.               *)
(*                                                                         *)
(* The loops of the codec are recursive functions.  That such a function   *)
(* satisfies its own equation, and that a fact holds of every turn of a    *)
(* loop, is shown here from the least number of a set of numbers: a loop   *)
(* with a counterexample has a shortest one.                               *)
(***************************************************************************)
EXTENDS CoapMessage, FiniteSetTheorems, FunctionTheorems, WellFoundedInduction,
        TLAPS

-----------------------------------------------------------------------------
(* Loops.                                                                  *)

(* A set of numbers has a least one.                                       *)
LEMMA LeastNumber ==
    ASSUME NEW T, T \subseteq Nat, T # {}
    PROVE  \E n \in T : \A m \in T : n <= m
<1> DEFINE R == OpToRel(<, Nat)
<1>1. PICK n \in T : \A m \in T : ~(<<m, n>> \in R)
  <2>1. IsWellFoundedOn(R, Nat)
    BY NatLessThanWellFounded
  <2> HIDE DEF R
  <2> QED
    BY <2>1, WFMin
<1>2. ASSUME NEW m \in T PROVE n <= m
  <2>1. m \in Nat /\ n \in Nat
    OBVIOUS
  <2>2. ~(m < n)
    BY <1>1, <2>1 DEF OpToRel
  <2> QED
    BY <2>1, <2>2
<1> QED
  BY <1>1, <1>2

(* A set of states none of which is a turn of the loop away from a shorter *)
(* one in the set is empty.                                                *)
LEMMA NoShortest ==
    ASSUME NEW X, NEW size \in [X -> Nat],
           \A x \in X : \E y \in X : size[y] < size[x]
    PROVE  X = {}
<1>1. SUFFICES ASSUME X # {} PROVE FALSE
  OBVIOUS
<1> DEFINE T == {size[x] : x \in X}
<1>2. T \subseteq Nat /\ T # {}
  BY <1>1
<1>3. PICK n \in T : \A m \in T : n <= m
  <2> HIDE DEF T
  <2> QED
    BY <1>2, LeastNumber
<1>4. PICK x \in X : n = size[x]
  OBVIOUS
<1>5. PICK y \in X : size[y] < size[x]
  OBVIOUS
<1> QED
  BY <1>3, <1>4, <1>5

(* f is the loop on D that ends in Stop with the result of c and goes from *)
(* a state to its next one otherwise.                                      *)
IsLoop(f, D, Stop, c, next) ==
    f = [x \in D |-> IF x \in Stop THEN c[x] ELSE f[next[x]]]

(* There is such a function, whether the loop ends or not.                 *)
LEMMA LoopExists ==
    ASSUME NEW D, NEW Stop \in SUBSET D, NEW c, NEW next \in [D -> D]
    PROVE  \E f : IsLoop(f, D, Stop, c, next)
<1> DEFINE Closed(A) == \A z \in A : z \in Stop \/ next[z] \in A
           Ends(x) == {y \in Stop : \A A \in SUBSET D :
                                       x \in A /\ Closed(A) => y \in A}
           end == [x \in D |-> CHOOSE y \in Ends(x) : TRUE]
           f == [x \in D |-> c[end[x]]]
<1>1. ASSUME NEW x \in Stop PROVE Ends(x) = {x}
  <2>1. {x} \in SUBSET D /\ x \in {x} /\ Closed({x})
    OBVIOUS
  <2>2. Ends(x) \subseteq {x}
    BY <2>1
  <2>3. x \in Ends(x)
    OBVIOUS
  <2> QED
    BY <2>2, <2>3
<1>2. ASSUME NEW x \in D \ Stop PROVE Ends(x) = Ends(next[x])
  <2>1. next[x] \in D
    OBVIOUS
  <2>2. ASSUME NEW y \in Ends(x) PROVE y \in Ends(next[x])
    <3>1. SUFFICES ASSUME NEW A \in SUBSET D, next[x] \in A, Closed(A)
                   PROVE  y \in A
      OBVIOUS
    <3> DEFINE B == A \cup {x}
    <3>2. B \in SUBSET D /\ x \in B
      OBVIOUS
    <3>3. Closed(B)
      BY <3>1
    <3>4. y \in B
      BY <3>2, <3>3, <2>2
    <3>5. y # x
      BY <2>2
    <3> QED
      BY <3>4, <3>5
  <2>3. ASSUME NEW y \in Ends(next[x]) PROVE y \in Ends(x)
    <3>1. SUFFICES ASSUME NEW A \in SUBSET D, x \in A, Closed(A)
                   PROVE  y \in A
      BY <2>3
    <3>2. next[x] \in A
      BY <3>1
    <3> QED
      BY <2>3, <3>1, <3>2
  <2> QED
    BY <2>2, <2>3
<1>3. ASSUME NEW x \in D
      PROVE  f[x] = IF x \in Stop THEN c[x] ELSE f[next[x]]
  <2>1. CASE x \in Stop
    <3>1. Ends(x) = {x}
      BY <1>1, <2>1
    <3> HIDE DEF Ends
    <3>2. end[x] = x
      BY <3>1
    <3> HIDE DEF end
    <3> QED
      BY <2>1, <3>2
  <2>2. CASE x \notin Stop
    <3>1. Ends(x) = Ends(next[x]) /\ next[x] \in D
      BY <1>2, <2>2
    <3> HIDE DEF Ends
    <3>2. end[x] = end[next[x]]
      BY <3>1
    <3> HIDE DEF end
    <3> QED
      BY <2>2, <3>1, <3>2
  <2> QED
    BY <2>1, <2>2
<1>4. f = [x \in D |-> IF x \in Stop THEN c[x] ELSE f[next[x]]]
  <2> DEFINE g == [x \in D |-> IF x \in Stop THEN c[x] ELSE f[next[x]]]
  <2>1. \A x \in D : f[x] = g[x]
    <3> SUFFICES ASSUME NEW x \in D PROVE f[x] = g[x]
      OBVIOUS
    <3>1. f[x] = IF x \in Stop THEN c[x] ELSE f[next[x]]
      BY <1>3
    <3> HIDE DEF f
    <3> QED
      BY <3>1
  <2>2. f = [x \in D |-> f[x]]
    <3> HIDE DEF end
    <3> QED
      OBVIOUS
  <2>3. g = [x \in D |-> g[x]]
    OBVIOUS
  <2> HIDE DEF f, g
  <2>4. f = g
    BY <2>1, <2>2, <2>3
  <2> QED
    BY <2>4 DEF g
<1> HIDE DEF f
<1> QED
  BY <1>4 DEF IsLoop

(* Every turn of the loop makes its state smaller.                         *)
Shrinks(D, Stop, next, size) ==
    /\ size \in [D -> Nat]
    /\ \A x \in D \ Stop : next[x] \in D /\ size[next[x]] < size[x]

(* The values of f on D are in R.                                          *)
Yields(f, D, R) == \A x \in D : f[x] \in R

(* What a loop that ends can return.                                       *)
LEMMA LoopReturns ==
    ASSUME NEW D, NEW Stop, NEW c, NEW next, NEW f, NEW size, NEW R,
           IsLoop(f, D, Stop, c, next), Shrinks(D, Stop, next, size),
           Yields(c, Stop, R)
    PROVE  Yields(f, D, R)
<1> DEFINE X == {x \in D : f[x] \notin R}
           size1 == [x \in X |-> size[x]]
<1>1. ASSUME NEW x \in X PROVE \E y \in X : size1[y] < size1[x]
  <2>1. f[x] = IF x \in Stop THEN c[x] ELSE f[next[x]]
    BY DEF IsLoop
  <2>2. x \notin Stop
    BY <2>1 DEF Yields
  <2>3. next[x] \in X /\ size1[next[x]] < size1[x]
    BY <2>1, <2>2 DEF Shrinks
  <2> QED
    BY <2>3
<1>2. size1 \in [X -> Nat]
  BY DEF Shrinks
<1>3. X = {}
  <2> HIDE DEF X, size1
  <2> QED
    BY <1>1, <1>2, NoShortest
<1> QED
  BY <1>3 DEF Yields

-----------------------------------------------------------------------------
(* Minus.                                                                  *)
LEMMA KeepOptionType ==
    ASSUME NEW s \in Keeping, s.left # <<>>
    PROVE  KeepOption(s) \in Keeping /\ Len(KeepOption(s).left) < Len(s.left)
<1> HIDE DEF Keeping
<1>1. s.left \in Seq(Option) /\ s.kept \in Seq(Option) /\ s.id \in Byte
  BY DEF Keeping
<1>2. Head(s.left) \in Option /\ Tail(s.left) \in Seq(Option)
  BY <1>1
<1>3. Append(s.kept, Head(s.left)) \in Seq(Option)
  BY <1>1, <1>2
<1> QED
  BY <1>1, <1>2, <1>3 DEF Keeping, KeepOption

LEMMA KeepLoop ==
    ASSUME NEW s \in Keeping
    PROVE  /\ Keep[s] = IF s.left = <<>> THEN s.kept ELSE Keep[KeepOption(s)]
           /\ Keep[s] \in Seq(Option)
<1> DEFINE Stop == {t \in Keeping : t.left = <<>>}
           c == [t \in Keeping |-> t.kept]
           next == [t \in Keeping |-> IF t.left = <<>> THEN t ELSE KeepOption(t)]
           size == [t \in Keeping |-> Len(t.left)]
<1>1. Stop \in SUBSET Keeping /\ next \in [Keeping -> Keeping]
  BY KeepOptionType
<1>2. Shrinks(Keeping, Stop, next, size)
  BY KeepOptionType DEF Shrinks, Keeping
<1>3. ASSUME NEW f
      PROVE  (f = [t \in Keeping |-> IF t.left = <<>> THEN t.kept
                                     ELSE f[KeepOption(t)]])
               <=> IsLoop(f, Keeping, Stop, c, next)
  <2>1. ASSUME NEW t \in Keeping
        PROVE  (IF t \in Stop THEN c[t] ELSE f[next[t]])
                 = IF t.left = <<>> THEN t.kept ELSE f[KeepOption(t)]
    OBVIOUS
  <2> HIDE DEF Stop, c, next
  <2> QED
    BY <2>1 DEF IsLoop
<1>4. \E f : IsLoop(f, Keeping, Stop, c, next)
  <2> HIDE DEF Stop, c, next
  <2> QED
    BY <1>1, LoopExists
<1>5. Keep = [t \in Keeping |-> IF t.left = <<>> THEN t.kept
                               ELSE Keep[KeepOption(t)]]
  <2> HIDE DEF Stop, c, next
  <2>1. \E f : f = [t \in Keeping |-> IF t.left = <<>> THEN t.kept
                                       ELSE f[KeepOption(t)]]
    BY <1>3, <1>4
  <2> QED
    BY <2>1, Zenon DEF Keep
<1>6. \A t \in Stop : c[t] \in Seq(Option)
  BY DEF Keeping
<1>7. Keep[s] \in Seq(Option)
  <2>1. IsLoop(Keep, Keeping, Stop, c, next)
    BY <1>3, <1>5
  <2> DEFINE R == Seq(Option)
  <2>2. Yields(c, Stop, R)
    BY <1>6 DEF Yields
  <2> HIDE DEF Stop, c, next, size, R
  <2>3. Yields(Keep, Keeping, R)
    BY <1>2, <2>1, <2>2, LoopReturns
  <2>4. Keep[s] \in R
    BY <2>3 DEF Yields
  <2> QED
    BY <2>4 DEF R
<1> QED
  BY <1>5, <1>7

(* Minus keeps options options, and of none makes none.                    *)
LEMMA MinusType ==
    ASSUME NEW opts \in Seq(Option), NEW id \in Byte
    PROVE  Minus(opts, id) \in Seq(Option)
<1>1. [id |-> id, left |-> opts, kept |-> <<>>] \in Keeping
  BY DEF Keeping
<1> QED
  BY <1>1, KeepLoop DEF Minus

LEMMA MinusNone ==
    ASSUME NEW id \in Byte
    PROVE  Minus(<<>>, id) = <<>>
<1>1. [id |-> id, left |-> <<>>, kept |-> <<>>] \in Keeping
  BY DEF Keeping
<1> QED
  BY <1>1, KeepLoop DEF Minus

-----------------------------------------------------------------------------
(* Numbers.                                                                *)

LEMMA WordType ==
    ASSUME NEW v \in Nat
    PROVE  \E hi, lo \in Byte : /\ Word(v) = <<hi, lo>>
                                /\ v < 65536 => v = 256 * hi + lo
<1>1. (v \div 256) % 256 \in Byte /\ v % 256 \in Byte
  BY DEF Byte
<1>2. v < 65536 => v = 256 * ((v \div 256) % 256) + (v % 256)
  OBVIOUS
<1> QED
  BY <1>1, <1>2 DEF Word

(* The number of four bytes.                                               *)
Value(b1, b2, b3, b4) == 16777216 * b1 + 65536 * b2 + 256 * b3 + b4

(* The four bytes of a number, and how many of them encodeInt keeps.       *)
LEMMA BigEndianBytes ==
    ASSUME NEW v \in UInt32
    PROVE  \E b1, b2, b3, b4 \in Byte :
              /\ BigEndian(v) = <<b1, b2, b3, b4>>
              /\ v = Value(b1, b2, b3, b4)
<1>1. v \in Nat /\ v \div 16777216 \in 0 .. 255
  BY DEF UInt32, Byte
<1>2. PICK q1 \in Nat, b4 \in 0 .. 255 : v = 256 * q1 + b4
  <2>1. v \div 256 \in Nat /\ v % 256 \in 0 .. 255
    BY <1>1
  <2>2. v = 256 * (v \div 256) + (v % 256)
    BY <1>1
  <2> QED
    BY <2>1, <2>2
<1>3. PICK q2 \in Nat, b3 \in 0 .. 255 : q1 = 256 * q2 + b3
  <2>1. q1 \div 256 \in Nat /\ q1 % 256 \in 0 .. 255
    OBVIOUS
  <2>2. q1 = 256 * (q1 \div 256) + (q1 % 256)
    OBVIOUS
  <2> QED
    BY <2>1, <2>2
<1>4. PICK b1 \in Nat, b2 \in 0 .. 255 : q2 = 256 * b1 + b2
  <2>1. q2 \div 256 \in Nat /\ q2 % 256 \in 0 .. 255
    OBVIOUS
  <2>2. q2 = 256 * (q2 \div 256) + (q2 % 256)
    OBVIOUS
  <2> QED
    BY <2>1, <2>2
<1>5. v = 16777216 * b1 + 65536 * b2 + 256 * b3 + b4
  BY <1>2, <1>3, <1>4
<1>6. v \div 16777216 = b1
  BY <1>5
<1>7. b1 \in 0 .. 255
  BY <1>1, <1>6
<1>8. (v \div 16777216) % 256 = b1
  BY <1>6, <1>7
<1>9. (v \div 65536) % 256 = b2
  <2>1. v \div 65536 = 256 * b1 + b2
    BY <1>5
  <2> QED
    BY <2>1
<1>10. (v \div 256) % 256 = b3
  <2>1. v \div 256 = 256 * q2 + b3
    BY <1>2, <1>3
  <2> QED
    BY <2>1
<1>11. v % 256 = b4
  BY <1>2
<1>12. BigEndian(v) = <<b1, b2, b3, b4>>
  BY <1>8, <1>9, <1>10, <1>11, SMT DEF BigEndian
<1>13. v = Value(b1, b2, b3, b4)
  BY <1>5, SMT DEF Value
<1>14. b1 \in Byte /\ b2 \in Byte /\ b3 \in Byte /\ b4 \in Byte
  BY <1>7, SMT DEF Byte
<1> QED
  BY <1>12, <1>13, <1>14, Zenon

LEMMA Element ==
    ASSUME NEW S, NEW s \in Seq(S), NEW i \in 1 .. Len(s)
    PROVE  s[i] \in S
OBVIOUS

LEMMA Part ==
    ASSUME NEW S, NEW s \in Seq(S), NEW from \in Nat \ {0}, NEW to \in Nat,
           from <= to + 1, to <= Len(s)
    PROVE  /\ SubSeq(s, from, to) \in Seq(S)
           /\ Len(SubSeq(s, from, to)) = to - from + 1
           /\ \A i \in 1 .. (to - from + 1) :
                 SubSeq(s, from, to)[i] = s[from + i - 1]
<1>1. SubSeq(s, from, to) \in Seq(S)
  OBVIOUS
<1>2. Len(SubSeq(s, from, to)) = to - from + 1
  OBVIOUS
<1>3. ASSUME NEW i \in 1 .. (to - from + 1)
      PROVE  SubSeq(s, from, to)[i] = s[from + i - 1]
  OBVIOUS
<1> QED
  BY <1>1, <1>2, <1>3

LEMMA EncodedInt ==
    ASSUME NEW v \in UInt32
    PROVE  /\ encodeInt(v) \in Seq(Byte)
           /\ Len(encodeInt(v)) = Width(v)
           /\ decodeInt(encodeInt(v)) = v
<1>1. PICK b1, b2, b3, b4 \in Byte :
         /\ BigEndian(v) = <<b1, b2, b3, b4>>
         /\ v = Value(b1, b2, b3, b4)
  BY BigEndianBytes
<1>2. v \in Nat
  BY DEF UInt32
<1>3. encodeInt(v) = SubSeq(BigEndian(v), 5 - Width(v), 4)
  BY DEF encodeInt
<1> DEFINE n == Width(v)
<1>4. n \in 0 .. 4
  BY <1>2, SMT DEF Width
<1>5. /\ n < 4 => b1 = 0
      /\ n < 3 => b2 = 0
      /\ n < 2 => b3 = 0
      /\ n < 1 => b4 = 0
  BY <1>1, <1>2, SMT DEF Width, Byte, Value
<1> HIDE DEF n
<1> USE <1>4, <1>5
<1>6. encodeInt(v) = SubSeq(<<b1, b2, b3, b4>>, 5 - n, 4)
  BY <1>1, <1>3, Zenon DEF n
<1> DEFINE b == encodeInt(v)
           w == <<b1, b2, b3, b4>>
           zeros == SubSeq(<<0, 0, 0, 0>>, 1, 4 - n)
           tmp == zeros \o b
<1>7. w \in Seq(Byte) /\ Len(w) = 4
  OBVIOUS
<1>8. b \in Seq(Byte) /\ Len(b) = n /\ \A i \in 1 .. n : b[i] = w[i + 4 - n]
  <2>0. b = SubSeq(w, 5 - n, 4)
    BY <1>6, Zenon
  <2> HIDE DEF w, b
  <2>1. 5 - n \in Nat \ {0} /\ 5 - n <= 4 + 1 /\ 4 - (5 - n) + 1 = n
    OBVIOUS
  <2>2. \A i \in 1 .. n : b[i] = w[(5 - n) + i - 1]
    BY <1>7, <2>0, <2>1, Part
  <2>3. \A i \in 1 .. n : b[i] = w[i + 4 - n]
    BY <2>2
  <2>4. SubSeq(w, 5 - n, 4) \in Seq(Byte)
    <3>1. 4 \in Nat /\ 4 <= Len(w)
      BY <1>7
    <3> QED
      BY <1>7, <2>1, <3>1, Part, Zenon
  <2>5. Len(SubSeq(w, 5 - n, 4)) = n
    BY <1>7, <2>1
  <2> QED
    BY <2>0, <2>3, <2>4, <2>5, Zenon
<1>9. <<0, 0, 0, 0>> \in Seq(Byte) /\ Len(<<0, 0, 0, 0>>) = 4
  BY DEF Byte
<1>10. zeros \in Seq(Byte) /\ Len(zeros) = 4 - n /\ \A i \in 1 .. (4 - n) : zeros[i] = 0
  <2>1. \A i \in 1 .. 4 : <<0, 0, 0, 0>>[i] = 0
    OBVIOUS
  <2> QED
    BY <1>9, <2>1
<1>11. \A i \in 1 .. 4 : tmp[i] = IF i <= 4 - n THEN 0 ELSE w[i]
  <2> HIDE DEF zeros, w, b
  <2> QED
    BY <1>8, <1>10
<1>12. w[1] = b1 /\ w[2] = b2 /\ w[3] = b3 /\ w[4] = b4
  OBVIOUS
<1>13. tmp[1] = b1 /\ tmp[2] = b2 /\ tmp[3] = b3 /\ tmp[4] = b4
  <2> HIDE DEF tmp, w
  <2> QED
    BY <1>11, <1>12
<1>14. decodeInt(b) = 16777216 * tmp[1] + 65536 * tmp[2] + 256 * tmp[3] + tmp[4]
  <2> HIDE DEF b
  <2> QED
    BY <1>8, SMT DEF decodeInt
<1> HIDE DEF tmp, b
<1> QED
  BY <1>1, <1>8, <1>13, <1>14, SMT DEF Value, b, n
LEMMA DecodedInt ==
    ASSUME NEW b \in Seq(Byte), Len(b) <= 4
    PROVE  decodeInt(b) \in UInt32
<1> DEFINE zeros == SubSeq(<<0, 0, 0, 0>>, 1, 4 - Len(b))
           tmp == zeros \o b
<1>1. <<0, 0, 0, 0>> \in Seq(Byte) /\ Len(<<0, 0, 0, 0>>) = 4
  BY DEF Byte
<1>2. zeros \in Seq(Byte) /\ Len(zeros) = 4 - Len(b)
  <2>1. 4 - Len(b) \in Nat /\ 1 <= (4 - Len(b)) + 1 /\ 4 - Len(b) <= 4
    OBVIOUS
  <2>2. (4 - Len(b)) - 1 + 1 = 4 - Len(b)
    OBVIOUS
  <2> QED
    BY <1>1, <2>1, <2>2, Part, SMT
<1>3. tmp \in Seq(Byte) /\ Len(tmp) = 4
  <2> HIDE DEF zeros
  <2> QED
    BY <1>2
<1>4. \A i \in 1 .. 4 : tmp[i] \in Byte
  <2> HIDE DEF tmp
  <2>1. \A i \in 1 .. Len(tmp) : tmp[i] \in Byte
    BY <1>3, Element, Zenon
  <2> QED
    BY <1>3, <2>1, Zenon
<1>5. decodeInt(b) = 16777216 * tmp[1] + 65536 * tmp[2] + 256 * tmp[3] + tmp[4]
  BY SMT DEF decodeInt
<1>6. ASSUME NEW b1 \in Byte, NEW b2 \in Byte, NEW b3 \in Byte, NEW b4 \in Byte
      PROVE  16777216 * b1 + 65536 * b2 + 256 * b3 + b4 \in UInt32
  <2> DEFINE v == 16777216 * b1 + 65536 * b2 + 256 * b3 + b4
  <2>1. v \in Nat /\ v \div 16777216 = b1
    BY SMT DEF Byte
  <2> QED
    BY <2>1, SMT DEF UInt32
<1> HIDE DEF tmp
<1>7. tmp[1] \in Byte /\ tmp[2] \in Byte /\ tmp[3] \in Byte /\ tmp[4] \in Byte
  BY <1>4, SMT
<1> QED
  BY <1>5, <1>6, <1>7, SMT

-----------------------------------------------------------------------------
(* The forms of a delta or length.                                         *)

LEMMA AfterOne ==
    ASSUME NEW x \in Byte, NEW rest \in Seq(Byte), NEW b, b = <<x>> \o rest
    PROVE  Len(b) >= 1 /\ b[1] = x /\ Tail(b) = rest
<1>1. b \in Seq(Byte) /\ Len(b) = 1 + Len(rest) /\ b[1] = x
  OBVIOUS
<1>2. Tail(b) = rest
  BY <1>1
<1> QED
  BY <1>1, <1>2

LEMMA AfterTwo ==
    ASSUME NEW x \in Byte, NEW y \in Byte, NEW rest \in Seq(Byte),
           NEW b, b = <<x, y>> \o rest
    PROVE  Len(b) >= 2 /\ b[1] = x /\ b[2] = y /\ SubSeq(b, 3, Len(b)) = rest
<1>1. b \in Seq(Byte) /\ Len(b) = 2 + Len(rest) /\ b[1] = x /\ b[2] = y
  OBVIOUS
<1>2. SubSeq(b, 3, Len(b)) = rest
  <2>1. /\ SubSeq(b, 3, Len(b)) \in Seq(Byte)
        /\ Len(SubSeq(b, 3, Len(b))) = Len(rest)
    BY <1>1
  <2>2. \A i \in 1 .. Len(rest) : SubSeq(b, 3, Len(b))[i] = rest[i]
    BY <1>1
  <2> QED
    BY <2>1, <2>2
<1> QED
  BY <1>1, <1>2

(* What an extended nibble for n, followed by rest, reads back as.         *)
ReadsBack(n, rest) ==
    LET read == parseExtOpt(extendOpt(n).nibble, extendOpt(n).ext \o rest)
    IN  read.n = n /\ read.rest = rest

(* A nibble and its extension (message.go, extendOpt and parseExtOpt) read *)
(* back as the delta or length they were written for, on both sides of 13  *)
(* and of 269, up to the largest one the form can hold, and what follows   *)
(* them is left alone.                                                     *)
THEOREM ExtendedReadsBack ==
    ASSUME NEW n \in 0 .. MaxLength, NEW rest \in Seq(Byte)
    PROVE  ReadsBack(n, rest)
<1>1. n \in Int /\ 0 <= n /\ n <= 269 + 65535
  BY SMT DEF MaxLength
<1>2. CASE n < 13
  <2>1. extendOpt(n).nibble = n /\ extendOpt(n).ext = <<>>
    BY <1>1, <1>2, SMT DEF extendOpt
  <2>2. extendOpt(n).ext \o rest = rest
    BY <2>1, SMT
  <2>3. parseExtOpt(n, rest).n = n
    BY <1>1, <1>2, SMT DEF parseExtOpt
  <2>4. parseExtOpt(n, rest).rest = rest
    BY <1>1, <1>2, SMT DEF parseExtOpt
  <2> QED
    BY <2>1, <2>2, <2>3, <2>4, Zenon DEF ReadsBack
<1>3. CASE 13 <= n /\ n < 269
  <2> DEFINE x == n - 13
             b == <<x>> \o rest
  <2>1. extendOpt(n).nibble = 13 /\ extendOpt(n).ext = <<x>>
    BY <1>1, <1>3, SMT DEF extendOpt
  <2>2. x \in Byte /\ x + 13 = n
    BY <1>1, <1>3, SMT DEF Byte
  <2> HIDE DEF x
  <2>3. Len(b) >= 1 /\ b[1] = x /\ Tail(b) = rest
    BY <2>2, AfterOne, Zenon
  <2> HIDE DEF b
  <2>4. parseExtOpt(13, b).n = n
    BY <1>1, <2>2, <2>3, SMT DEF parseExtOpt
  <2>5. parseExtOpt(13, b).rest = rest
    BY <2>3, SMT DEF parseExtOpt
  <2> QED
    BY <2>1, <2>4, <2>5, Zenon DEF ReadsBack, b
<1>4. CASE 269 <= n
  <2>1. extendOpt(n).nibble = 14
    BY <1>1, <1>4, SMT DEF extendOpt
  <2>2. extendOpt(n).ext = Word(n - 269)
    BY <1>1, <1>4, SMT DEF extendOpt
  <2>3. PICK m \in Nat : n = m + 269 /\ m < 65536
    <3>1. n - 269 \in Nat /\ n - 269 < 65536 /\ n = (n - 269) + 269
      BY <1>1, <1>4, SMT
    <3> QED
      BY <3>1, SMT
  <2>4. n - 269 = m
    BY <2>3, SMT
  <2>5. PICK hi \in 0 .. 255 : hi = m \div 256
    BY <2>3, SMT
  <2>6. PICK lo \in 0 .. 255 : lo = m % 256
    BY <2>3, SMT
  <2>7. 256 * hi + lo = m
    BY <2>5, <2>6, SMT
  <2>8. hi % 256 = hi
    BY SMT
  <2>9. Word(m) = <<hi, lo>>
    BY <2>5, <2>6, <2>8, SMT DEF Word
  <2>10. hi \in Byte /\ lo \in Byte
    BY SMT DEF Byte
  <2> DEFINE b == <<hi, lo>> \o rest
  <2>11. Len(b) >= 2 /\ b[1] = hi /\ b[2] = lo
    BY SMT
  <2>12. SubSeq(b, 3, Len(b)) = rest
    BY <2>10, AfterTwo, SMT
  <2> HIDE DEF b
  <2>13. parseExtOpt(14, b).n = 256 * hi + lo + 269
    BY <2>11, SMT DEF parseExtOpt, From
  <2>14. parseExtOpt(14, b).n = n
    BY <2>3, <2>7, <2>13, SMT
  <2>15. parseExtOpt(14, b).rest = rest
    BY <2>11, <2>12, SMT DEF parseExtOpt, From
  <2> QED
    BY <2>1, <2>2, <2>4, <2>9, <2>14, <2>15, SMT DEF ReadsBack, b
<1> QED
  BY <1>1, <1>2, <1>3, <1>4, SMT

LEMMA ExtendedType ==
    ASSUME NEW n \in Int
    PROVE  /\ extendOpt(n).nibble \in Int
           /\ extendOpt(n).nibble <= 14
           /\ n >= 0 => extendOpt(n).nibble \in 0 .. 14
           /\ extendOpt(n).ext \in Seq(Byte)
<1>1. CASE n < 13
  BY <1>1, SMT DEF extendOpt
<1>2. CASE 13 <= n /\ n < 269
  <2>1. n - 13 \in Byte
    BY <1>2, SMT DEF Byte
  <2>2. extendOpt(n) = [nibble |-> 13, ext |-> <<n - 13>>]
    BY <1>2, SMT DEF extendOpt
  <2> QED
    BY <2>1, <2>2, SMT
<1>3. CASE 269 <= n
  <2>1. PICK hi, lo \in Byte : Word(n - 269) = <<hi, lo>>
    BY <1>3, WordType, SMT
  <2>2. extendOpt(n) = [nibble |-> 14, ext |-> Word(n - 269)]
    BY <1>3, SMT DEF extendOpt
  <2>3. extendOpt(n).nibble = 14 /\ extendOpt(n).ext = <<hi, lo>>
    BY <2>1, <2>2, SMT
  <2>4. <<hi, lo>> \in Seq(Byte)
    OBVIOUS
  <2>5. 14 \in Int /\ 14 <= 14 /\ 14 \in 0 .. 14
    BY SMT
  <2> QED
    BY <2>3, <2>4, <2>5, Zenon
<1> QED
  BY <1>1, <1>2, <1>3, SMT

LEMMA OptHeaderType ==
    ASSUME NEW delta \in Int, NEW length \in Int
    PROVE  OptHeader(delta, length) \in Seq(Byte)
<1> DEFINE d == extendOpt(delta)
           l == extendOpt(length)
           first == (16 * d.nibble + l.nibble) % 256
<1>1. /\ d.nibble \in Int /\ l.nibble \in Int
      /\ d.ext \in Seq(Byte) /\ l.ext \in Seq(Byte)
  BY ExtendedType, Zenon
<1>2. first \in Byte
  <2>1. ASSUME NEW i \in Int, NEW j \in Int PROVE (16 * i + j) % 256 \in Byte
    BY SMT DEF Byte
  <2> HIDE DEF d, l
  <2> QED
    BY <1>1, <2>1, Zenon
<1>3. OptHeader(delta, length) = <<first>> \o d.ext \o l.ext
  BY Zenon DEF OptHeader
<1> HIDE DEF d, l, first
<1> QED
  BY <1>1, <1>2, <1>3, SMT

-----------------------------------------------------------------------------
(* Options.                                                                *)

LEMMA OptionFacts ==
    ASSUME NEW o \in Option
    PROVE  /\ o = [id |-> o.id, kind |-> o.kind, val |-> o.val]
           /\ o.id \in Byte
           /\ o.kind = "number" => o.val = <<o.val[1]>> /\ o.val[1] \in UInt32
           /\ o.kind # "number" =>
                 /\ o.kind = "bytes"
                 /\ o.val \in Seq(Byte) /\ Len(o.val) <= MaxLength
           /\ o.id \in DOMAIN optionDefs =>
                 (o.kind = "number" <=> optionDefs[o.id].valueFormat = "uint")
<1>1. o \in [id : Byte, kind : {"number", "bytes"}, val : Seq(Nat)]
  BY SMT DEF Option
<1>2. o.kind = "number" => o.val = <<o.val[1]>> /\ o.val[1] \in UInt32
  <2> SUFFICES ASSUME o.kind = "number"
               PROVE  o.val = <<o.val[1]>> /\ o.val[1] \in UInt32
    OBVIOUS
  <2>1. Len(o.val) = 1 /\ o.val[1] \in UInt32 /\ o.val \in Seq(Nat)
    BY <1>1, Zenon DEF Option
  <2>2. o.val = <<o.val[1]>>
    BY <2>1, SMT
  <2> QED
    BY <2>1, <2>2
<1>3. o.kind # "number" =>
                 /\ o.kind = "bytes"
                 /\ o.val \in Seq(Byte) /\ Len(o.val) <= MaxLength
  BY <1>1, SMT DEF Option
<1>4. o.id \in DOMAIN optionDefs =>
                 (o.kind = "number" <=> optionDefs[o.id].valueFormat = "uint")
  BY SMT DEF Option
<1> QED
  BY <1>1, <1>2, <1>3, <1>4, SMT

LEMMA ToBytesType ==
    ASSUME NEW o \in Option
    PROVE  toBytes(o) \in Seq(Byte) /\ Len(toBytes(o)) \in 0 .. MaxLength
<1>1. CASE o.kind = "number"
  <2>1. o.val[1] \in UInt32
    BY <1>1, OptionFacts, Zenon
  <2>2. Width(o.val[1]) \in 0 .. 4
    BY <2>1, SMT DEF Width, UInt32
  <2>3. toBytes(o) = encodeInt(o.val[1])
    BY <1>1 DEF toBytes
  <2>4. encodeInt(o.val[1]) \in Seq(Byte) /\ Len(encodeInt(o.val[1])) = Width(o.val[1])
    BY <2>1, EncodedInt, Zenon
  <2>5. Width(o.val[1]) \in 0 .. MaxLength
    <3>1. 0 .. 4 \subseteq 0 .. MaxLength
      BY SMT DEF MaxLength
    <3> QED
      BY <2>2, <3>1, Zenon
  <2> QED
    BY <2>3, <2>4, <2>5, Zenon
<1>2. CASE o.kind # "number"
  BY <1>2, OptionFacts, SMT DEF toBytes
<1> QED
  BY <1>1, <1>2

(* What optionDefs says, as far as the proofs need it.                     *)
LEMMA DefFacts ==
    ASSUME NEW id \in DOMAIN optionDefs
    PROVE  /\ id \in Byte
           /\ optionDefs[id].minLen \in 0 .. 1
           /\ optionDefs[id].maxLen \in 0 .. 1034
           /\ optionDefs[id].valueFormat = "uint" =>
                 optionDefs[id].minLen = 0 /\ optionDefs[id].maxLen \in 2 .. 4
           /\ id \in {ContentFormat, Accept} =>
                 optionDefs[id].valueFormat = "uint" /\ optionDefs[id].maxLen = 2
<1> USE DEF optionDefs, IfMatch, URIHost, ETag, IfNoneMatch, Observe, URIPort,
            LocationPath, URIPath, ContentFormat, MaxAge, URIQuery, Accept,
            LocationQuery, ProxyURI, ProxyScheme, Size1, Def
<1>1. id \in Byte
  BY SMT DEF Byte
<1>2. optionDefs[id].minLen \in 0 .. 1
  BY SMT
<1>3. optionDefs[id].maxLen \in 0 .. 1034
  BY SMT
<1>4. optionDefs[id].valueFormat = "uint" =>
         optionDefs[id].minLen = 0 /\ optionDefs[id].maxLen \in 2 .. 4
  BY SMT
<1>5. id \in {ContentFormat, Accept} =>
         optionDefs[id].valueFormat = "uint" /\ optionDefs[id].maxLen = 2
  BY SMT
<1> QED
  BY <1>1, <1>2, <1>3, <1>4, <1>5, Zenon

LEMMA NumberType ==
    ASSUME NEW id \in DOMAIN optionDefs, optionDefs[id].valueFormat = "uint",
           NEW n \in UInt32
    PROVE  Number(id, n) \in Option
<1>1. id \in Byte /\ n \in Nat
  BY DefFacts, SMT DEF UInt32
<1> DEFINE o == Number(id, n)
<1>2. o \in [id : Byte, kind : {"number", "bytes"}, val : Seq(Nat)]
  BY <1>1, SMT DEF Number
<1>3. o.id = id /\ o.kind = "number" /\ Len(o.val) = 1 /\ o.val[1] = n
  BY SMT DEF Number
<1> HIDE DEF o
<1>4. o \in Option
  BY <1>1, <1>2, <1>3, Zenon DEF Option
<1> QED
  BY <1>4 DEF o

LEMMA BytesType ==
    ASSUME NEW id \in DOMAIN optionDefs, optionDefs[id].valueFormat # "uint",
           NEW b \in Seq(Byte), Len(b) <= MaxLength
    PROVE  Bytes(id, b) \in Option
<1>1. id \in Byte
  BY DefFacts
<1> DEFINE o == Bytes(id, b)
<1>2. o \in [id : Byte, kind : {"number", "bytes"}, val : Seq(Nat)]
  <2>1. b \in Seq(Nat)
    <3>1. Byte \subseteq Nat
      BY SMT DEF Byte
    <3> QED
      BY <3>1, SMT
  <2> QED
    BY <1>1, <2>1, SMT DEF Bytes
<1>3. o.id = id /\ o.kind = "bytes" /\ o.val = b
  BY SMT DEF Bytes
<1>4. "bytes" # "number"
  OBVIOUS
<1> HIDE DEF o
<1>5. o \in Option
  BY <1>2, <1>3, <1>4, Zenon DEF Option
<1> QED
  BY <1>5 DEF o

(* A value that is read makes at most one option.                          *)
LEMMA ParsedValueType ==
    ASSUME NEW id \in Byte, NEW b \in Seq(Byte)
    PROVE  parseOptionValue(id, b) \in Seq(Option)
<1> DEFINE v == parseOptionValue(id, b)
<1>0. <<>> \in Seq(Option)
  BY SMT
<1> SUFFICES ASSUME v # <<>> PROVE v \in Seq(Option)
  BY <1>0, Zenon
<1>1. /\ id \in DOMAIN optionDefs
      /\ Len(b) \in optionDefs[id].minLen .. optionDefs[id].maxLen
  BY SMT DEF parseOptionValue
<1>2. CASE optionDefs[id].valueFormat # "uint"
  <2>1. v = <<Bytes(id, b)>>
    BY <1>1, <1>2, SMT DEF parseOptionValue
  <2>2. Len(b) <= MaxLength
    <3>1. Len(b) \in Nat /\ Len(b) <= 1034
      <4>1. optionDefs[id].minLen \in 0 .. 1 /\ optionDefs[id].maxLen \in 0 .. 1034
        BY <1>1, DefFacts, SMT
      <4>2. PICK low \in 0 .. 1, high \in 0 .. 1034 : Len(b) \in low .. high
        BY <1>1, <4>1, Zenon
      <4> QED
        BY <4>2, SMT
    <3> QED
      BY <3>1, SMT DEF MaxLength
  <2> QED
    BY <1>1, <1>2, <2>1, <2>2, BytesType, SMT
<1>3. CASE optionDefs[id].valueFormat = "uint"
  <2>1. Len(b) <= 4
    BY <1>1, <1>3, DefFacts, SMT
  <2>2. decodeInt(b) \in UInt32
    BY <2>1, DecodedInt
  <2>3. decodeInt(b) % 256 \in UInt32
    <3>1. ASSUME NEW w \in Nat PROVE w % 256 \in UInt32
      <4>1. w % 256 \in 0 .. 255
        BY SMT
      <4>2. ASSUME NEW x \in 0 .. 255 PROVE x \in Nat /\ x \div 16777216 \in Byte
        BY SMT DEF Byte
      <4> QED
        BY <4>1, <4>2, SMT DEF UInt32
    <3> QED
      BY <2>2, <3>1, SMT DEF UInt32
  <2>4. PICK n \in UInt32 : v = <<Number(id, n)>>
    BY <1>1, <1>3, <2>2, <2>3, SMT DEF parseOptionValue
  <2> QED
    BY <1>1, <1>3, <2>4, NumberType, SMT
<1> QED
  BY <1>2, <1>3

(* What an option is read back as, once its bytes are there.               *)
LEMMA ParsedValue ==
    ASSUME NEW o \in Option
    PROVE  parseOptionValue(o.id, toBytes(o))
             = IF Legal(o) THEN <<AsRead(o)>> ELSE <<>>
<1> DEFINE b == toBytes(o)
           def == optionDefs[o.id]
           v == parseOptionValue(o.id, b)
<1>1. CASE o.id \notin DOMAIN optionDefs
  BY <1>1, SMT DEF parseOptionValue, Legal
<1>2. CASE o.id \in DOMAIN optionDefs /\ o.kind # "number"
  <2>1. /\ o = [id |-> o.id, kind |-> "bytes", val |-> o.val] /\ b = o.val
        /\ def.valueFormat # "uint"
    BY <1>2, OptionFacts, SMT DEF toBytes
  <2>2. o.id \notin {ContentFormat, Accept}
    BY <1>2, <2>1, DefFacts, SMT
  <2>3. AsRead(o) = o
    BY <2>2, SMT DEF AsRead
  <2>4. Legal(o) <=> Len(b) \in def.minLen .. def.maxLen
    BY <1>2, <2>1, SMT DEF Legal
  <2>5. Bytes(o.id, b) = o
    BY <2>1, SMT DEF Bytes
  <2>6. v = IF Len(b) \in def.minLen .. def.maxLen THEN <<Bytes(o.id, b)>> ELSE <<>>
    BY <1>2, <2>1, SMT DEF parseOptionValue
  <2> QED
    BY <2>3, <2>4, <2>5, <2>6, Zenon
<1>3. CASE o.id \in DOMAIN optionDefs /\ o.kind = "number"
  <2>1. PICK n \in UInt32 : o = [id |-> o.id, kind |-> "number", val |-> <<n>>]
    <3>1. /\ o = [id |-> o.id, kind |-> o.kind, val |-> o.val]
          /\ o.val = <<o.val[1]>> /\ o.val[1] \in UInt32
      BY <1>3, OptionFacts, Zenon
    <3> QED
      BY <1>3, <3>1, Zenon
  <2>2. def.valueFormat = "uint" /\ def.minLen = 0 /\ def.maxLen \in 2 .. 4
    BY <1>3, OptionFacts, DefFacts, SMT
  <2>3. o.val[1] = n /\ n \in Nat /\ n \div 16777216 < 256
    BY <2>1, SMT DEF UInt32, Byte
  <2>4. b = encodeInt(n)
    BY <1>3, <2>3, SMT DEF toBytes
  <2>5. Len(b) = Width(n) /\ decodeInt(b) = n
    BY <2>4, EncodedInt, Zenon
  <2>6. Width(n) \in Nat
    BY <2>3, SMT DEF Width
  <2>7. Legal(o) <=> Width(n) <= def.maxLen
    <3>1. Legal(o) <=> (def.maxLen < 4 => n < <<256, 65536, 16777216>>[def.maxLen])
      BY <1>3, <2>2, <2>3, SMT DEF Legal
    <3>2. CASE def.maxLen = 2
      BY <2>3, <3>1, <3>2, SMT DEF Width
    <3>3. CASE def.maxLen = 3
      BY <2>3, <3>1, <3>3, SMT DEF Width
    <3>4. CASE def.maxLen = 4
      BY <2>3, <3>1, <3>4, SMT DEF Width
    <3> QED
      BY <2>2, <3>2, <3>3, <3>4, SMT
  <2>8. Len(b) \in def.minLen .. def.maxLen <=> Legal(o)
    BY <2>2, <2>5, <2>6, <2>7, SMT
  <2>9. AsRead(o) = Number(o.id, IF o.id \in {ContentFormat, Accept} THEN n % 256 ELSE n)
    <3>1. CASE o.id \in {ContentFormat, Accept}
      <4>1. AsRead(o) = [o EXCEPT !.val[1] = n % 256]
        BY <2>3, <3>1, SMT DEF AsRead
      <4>2. [o.val EXCEPT ![1] = n % 256] = <<n % 256>>
        BY <2>1, SMT
      <4>3. [o EXCEPT !.val = <<n % 256>>] = [id |-> o.id, kind |-> "number", val |-> <<n % 256>>]
        BY <2>1, SMT
      <4> QED
        BY <3>1, <4>1, <4>2, <4>3, SMT DEF Number
    <3>2. CASE o.id \notin {ContentFormat, Accept}
      BY <2>1, <3>2, SMT DEF AsRead, Number
    <3> QED
      BY <3>1, <3>2
  <2>10. v = IF Len(b) \in def.minLen .. def.maxLen
             THEN <<Number(o.id, IF o.id \in {ContentFormat, Accept} THEN n % 256
                                 ELSE n)>>
             ELSE <<>>
    BY <1>3, <2>2, <2>5, SMT DEF parseOptionValue
  <2> QED
    BY <2>8, <2>9, <2>10, Zenon
<1> QED
  BY <1>1, <1>2, <1>3

-----------------------------------------------------------------------------
(* The loops over the options.                                             *)

LEMMA WriteOptionType ==
    ASSUME NEW s \in Writing, s.left # <<>>
    PROVE  WriteOption(s) \in Writing /\ Len(WriteOption(s).left) < Len(s.left)
<1> DEFINE o == Head(s.left)
           b == toBytes(o)
           h == OptHeader(o.id - s.prev, Len(b))
<1>1. s.left \in Seq(Option) /\ s.out \in Seq(Byte) /\ s.prev \in Byte
  BY Zenon DEF Writing
<1>2. o \in Option /\ Tail(s.left) \in Seq(Option) /\ Len(Tail(s.left)) < Len(s.left)
  <2>1. ASSUME NEW left \in Seq(Option), left # <<>>
        PROVE  Head(left) \in Option /\ Tail(left) \in Seq(Option)
               /\ Len(Tail(left)) < Len(left)
    <3>1. Head(left) \in Option /\ Tail(left) \in Seq(Option)
      BY <2>1, SMT
    <3>2. Len(Tail(left)) < Len(left)
      BY <2>1, SMT
    <3> QED
      BY <3>1, <3>2
  <2> QED
    BY <1>1, <2>1, Zenon
<1>3. o.id \in Byte /\ b \in Seq(Byte) /\ Len(b) \in Int
  <2>1. o.id \in Byte
    BY <1>2, OptionFacts, Zenon
  <2>2. b \in Seq(Byte) /\ Len(b) \in 0 .. MaxLength
    BY <1>2, ToBytesType, Zenon
  <2>3. \A c \in Seq(Byte) : Len(c) \in Int
    BY SMT
  <2> QED
    BY <2>1, <2>2, <2>3, Zenon
<1>4. h \in Seq(Byte)
  <2>1. o.id - s.prev \in Int
    <3>1. \A i, j \in Byte : i - j \in Int
      BY SMT DEF Byte
    <3> QED
      BY <1>1, <1>3, <3>1, Zenon
  <2> QED
    BY <1>3, <2>1, OptHeaderType, Zenon
<1>5. WriteOption(s) = [prev |-> o.id, left |-> Tail(s.left), out |-> s.out \o h \o b]
  BY Zenon DEF WriteOption
<1>6. s.out \o h \o b \in Seq(Byte)
  <2> HIDE DEF h, b
  <2> QED
    BY <1>1, <1>3, <1>4, SMT
<1> HIDE DEF o, b, h
<1> QED
  BY <1>2, <1>3, <1>5, <1>6, SMT DEF Writing

LEMMA WriteLoop ==
    ASSUME NEW s \in Writing
    PROVE  /\ WriteOptions[s] = IF s.left = <<>> THEN s.out
                                ELSE WriteOptions[WriteOption(s)]
           /\ WriteOptions[s] \in Seq(Byte)
<1> DEFINE Stop == {t \in Writing : t.left = <<>>}
           c == [t \in Writing |-> t.out]
           next == [t \in Writing |-> IF t.left = <<>> THEN t ELSE WriteOption(t)]
           size == [t \in Writing |-> Len(t.left)]
<1>1. Stop \in SUBSET Writing /\ next \in [Writing -> Writing]
  BY WriteOptionType
<1>2. Shrinks(Writing, Stop, next, size)
  BY WriteOptionType DEF Shrinks, Writing
<1>3. ASSUME NEW f
      PROVE  (f = [t \in Writing |-> IF t.left = <<>> THEN t.out
                                     ELSE f[WriteOption(t)]])
               <=> IsLoop(f, Writing, Stop, c, next)
  <2>1. ASSUME NEW t \in Writing
        PROVE  (IF t \in Stop THEN c[t] ELSE f[next[t]])
                 = IF t.left = <<>> THEN t.out ELSE f[WriteOption(t)]
    OBVIOUS
  <2> HIDE DEF Stop, c, next
  <2> QED
    BY <2>1 DEF IsLoop
<1>4. \E f : IsLoop(f, Writing, Stop, c, next)
  <2> HIDE DEF Stop, c, next
  <2> QED
    BY <1>1, LoopExists
<1>5. WriteOptions = [t \in Writing |-> IF t.left = <<>> THEN t.out
                                        ELSE WriteOptions[WriteOption(t)]]
  <2> HIDE DEF Stop, c, next
  <2>1. \E f : f = [t \in Writing |-> IF t.left = <<>> THEN t.out
                                       ELSE f[WriteOption(t)]]
    BY <1>3, <1>4
  <2> QED
    BY <2>1, Zenon DEF WriteOptions
<1>6. \A t \in Stop : c[t] \in Seq(Byte)
  BY DEF Writing
<1>7. WriteOptions[s] \in Seq(Byte)
  <2>1. IsLoop(WriteOptions, Writing, Stop, c, next)
    BY <1>3, <1>5
  <2> DEFINE R == Seq(Byte)
  <2>2. Yields(c, Stop, R)
    BY <1>6 DEF Yields
  <2> HIDE DEF Stop, c, next, size, R
  <2>3. Yields(WriteOptions, Writing, R)
    BY <1>2, <2>1, <2>2, LoopReturns
  <2>4. WriteOptions[s] \in R
    BY <2>3 DEF Yields
  <2> QED
    BY <2>4 DEF R
<1> QED
  BY <1>5, <1>7

(* What parseExtOpt returns: a number, or -1 for an extension that is cut  *)
(* off, and what is left.                                                  *)
LEMMA ParsedExtension ==
    ASSUME NEW nibble \in 0 .. 15, NEW b \in Seq(Byte)
    PROVE  /\ parseExtOpt(nibble, b).n \in Int
           /\ parseExtOpt(nibble, b).n # -1 => parseExtOpt(nibble, b).n \in Nat
           /\ parseExtOpt(nibble, b).rest \in Seq(Byte)
           /\ Len(parseExtOpt(nibble, b).rest) <= Len(b)
<1> DEFINE e == parseExtOpt(nibble, b)
<1>1. CASE nibble \notin {13, 14}
  <2>1. e = [n |-> nibble, rest |-> b]
    BY <1>1, SMT DEF parseExtOpt
  <2> QED
    BY <2>1, SMT
<1>2. CASE nibble = 13 /\ Len(b) >= 1
  <2>1. e = [n |-> b[1] + 13, rest |-> Tail(b)]
    BY <1>2, SMT DEF parseExtOpt
  <2>2. b[1] + 13 \in Nat
    <3>1. b[1] \in Byte
      BY <1>2, SMT
    <3>2. \A i \in Byte : i + 13 \in Nat
      BY SMT DEF Byte
    <3> QED
      BY <3>1, <3>2, Zenon
  <2>3. Tail(b) \in Seq(Byte) /\ Len(Tail(b)) <= Len(b)
    BY <1>2, SMT
  <2> QED
    BY <2>1, <2>2, <2>3, SMT
<1>3. CASE nibble = 14 /\ Len(b) >= 2
  <2>1. e = [n |-> 256 * b[1] + b[2] + 269, rest |-> From(b, 3)]
    BY <1>3, SMT DEF parseExtOpt
  <2>2. 256 * b[1] + b[2] + 269 \in Nat
    <3>1. b[1] \in Byte /\ b[2] \in Byte
      BY <1>3, SMT
    <3>2. \A i, j \in Byte : 256 * i + j + 269 \in Nat
      BY SMT DEF Byte
    <3> QED
      BY <3>1, <3>2, Zenon
  <2>3. From(b, 3) \in Seq(Byte) /\ Len(From(b, 3)) <= Len(b)
    BY <1>3, SMT DEF From
  <2> QED
    BY <2>1, <2>2, <2>3, SMT
<1>4. CASE ~(nibble \notin {13, 14}) /\ ~(nibble = 13 /\ Len(b) >= 1)
           /\ ~(nibble = 14 /\ Len(b) >= 2)
  <2>1. e = [n |-> -1, rest |-> <<>>]
    BY <1>4, SMT DEF parseExtOpt
  <2>2. -1 \in Int /\ <<>> \in Seq(Byte) /\ Len(<<>>) <= Len(b)
    BY SMT
  <2> QED
    BY <2>1, <2>2, SMT
<1> QED
  BY <1>1, <1>2, <1>3, <1>4, Zenon

LEMMA FromType ==
    ASSUME NEW b \in Seq(Byte), NEW i \in Nat, i >= 1
    PROVE  From(b, i) \in Seq(Byte) /\ Len(From(b, i)) <= Len(b)
<1>1. CASE i <= Len(b)
  BY <1>1, SMT DEF From
<1>2. CASE i > Len(b)
  BY <1>2, SMT DEF From
<1> QED
  BY <1>1, <1>2, SMT

LEMMA ReadOptionType ==
    ASSUME NEW s \in Reading, s.b # <<>>
    PROVE  \/ ReadOption(s) = {}
           \/ \E t \in Reading : ReadOption(s) = {t} /\ Len(t.b) < Len(s.b)
<1> DEFINE nibbles == <<s.b[1] \div 16, s.b[1] % 16>>
           delta   == parseExtOpt(nibbles[1], Tail(s.b))
           length  == parseExtOpt(nibbles[2], delta.rest)
           oid     == (s.prev + delta.n) % 256
           value   == SubSeq(length.rest, 1, length.n)
           t       == [prev |-> oid, opts |-> s.opts \o parseOptionValue(oid, value),
                       b |-> From(length.rest, length.n + 1)]
           failed  == \/ 15 \in {nibbles[1], nibbles[2]}
                      \/ -1 \in {delta.n, length.n}
                      \/ Len(length.rest) < length.n
<1> SUFFICES ASSUME ReadOption(s) # {}
             PROVE  \E u \in Reading : ReadOption(s) = {u} /\ Len(u.b) < Len(s.b)
  OBVIOUS
<1>1. ReadOption(s) = {t} /\ ~failed
  <2>1. ReadOption(s) = IF failed THEN {} ELSE {t}
    BY Zenon DEF ReadOption
  <2> HIDE DEF failed, t
  <2> QED
    BY <2>1, Zenon
<1>2. s.prev \in Byte /\ s.opts \in Seq(Option) /\ s.b \in Seq(Byte)
  BY Zenon DEF Reading
<1>3. /\ nibbles[1] \in 0 .. 15 /\ nibbles[2] \in 0 .. 15
      /\ Tail(s.b) \in Seq(Byte) /\ Len(Tail(s.b)) < Len(s.b)
  <2>1. ASSUME NEW b \in Seq(Byte), b # <<>>
        PROVE  /\ b[1] \in Byte
               /\ Tail(b) \in Seq(Byte) /\ Len(Tail(b)) < Len(b)
    <3>1. b[1] \in Byte
      BY <2>1, SMT
    <3>2. Tail(b) \in Seq(Byte) /\ Len(Tail(b)) < Len(b)
      BY <2>1, SMT
    <3> QED
      BY <3>1, <3>2
  <2>2. \A x \in Byte : <<x \div 16, x % 16>>[1] \in 0 .. 15 /\ <<x \div 16, x % 16>>[2] \in 0 .. 15
    BY SMT DEF Byte
  <2> QED
    BY <1>2, <2>1, <2>2, Zenon
<1>a. delta.n # -1 /\ length.n # -1 /\ ~(Len(length.rest) < length.n)
  BY <1>1, Zenon
<1>4. delta.n \in Nat /\ delta.rest \in Seq(Byte) /\ Len(delta.rest) <= Len(Tail(s.b))
  <2> HIDE DEF nibbles
  <2> QED
    BY <1>a, <1>3, ParsedExtension, Zenon
<1>5. length.n \in Nat /\ length.rest \in Seq(Byte) /\ Len(length.rest) <= Len(delta.rest)
  <2> HIDE DEF nibbles, delta
  <2> QED
    BY <1>a, <1>3, <1>4, ParsedExtension, Zenon
<1>b. length.n <= Len(length.rest)
  <2>1. \A w \in Seq(Byte), n \in Nat : ~(Len(w) < n) => n <= Len(w)
    BY SMT
  <2> HIDE DEF length
  <2> QED
    BY <1>a, <1>5, <2>1, Zenon
<1>6. oid \in Byte
  <2>1. \A i \in Byte, j \in Nat : (i + j) % 256 \in Byte
    BY SMT DEF Byte
  <2> HIDE DEF delta
  <2> QED
    BY <1>2, <1>4, <2>1, Zenon
<1>7. value \in Seq(Byte)
  <2>1. \A w \in Seq(Byte), n \in Nat : n <= Len(w) => SubSeq(w, 1, n) \in Seq(Byte)
    BY SMT
  <2> HIDE DEF length
  <2> QED
    BY <1>b, <1>5, <2>1, Zenon
<1>8. t.b \in Seq(Byte) /\ Len(t.b) <= Len(length.rest)
  <2>1. length.n + 1 \in Nat /\ length.n + 1 >= 1
    <3>1. \A n \in Nat : n + 1 \in Nat /\ n + 1 >= 1
      BY SMT
    <3> HIDE DEF length
    <3> QED
      BY <1>5, <3>1, Zenon
  <2> QED
    BY <1>5, <2>1, FromType, Zenon
<1>9. t.opts \in Seq(Option)
  <2>1. parseOptionValue(oid, value) \in Seq(Option)
    BY <1>6, <1>7, ParsedValueType, Zenon
  <2>2. \A v \in Seq(Option) : s.opts \o v \in Seq(Option)
    BY <1>2, SMT
  <2> QED
    BY <2>1, <2>2, Zenon
<1>10. t \in Reading
  <2>1. t = [prev |-> oid, opts |-> t.opts, b |-> t.b]
    BY Zenon
  <2>2. ASSUME NEW i \in Byte, NEW v \in Seq(Option), NEW b \in Seq(Byte)
        PROVE  [prev |-> i, opts |-> v, b |-> b] \in Reading
    BY SMT DEF Reading
  <2> HIDE DEF t, oid
  <2> QED
    BY <1>6, <1>8, <1>9, <2>1, <2>2, Zenon
<1>11. Len(t.b) < Len(s.b)
  <2>1. \A b \in Seq(Byte) : Len(b) \in Nat
    BY SMT
  <2>2. \A i, j, k, l, m \in Nat : i <= j /\ j <= k /\ k <= l /\ l < m => i < m
    BY SMT
  <2> QED
    BY <1>2, <1>3, <1>4, <1>5, <1>8, <2>1, <2>2, Zenon
<1> HIDE DEF t
<1> QED
  BY <1>1, <1>10, <1>11, Zenon

(* The result of a parse: options and a payload.                           *)
Bodies == [opts : Seq(Option), payload : Seq(Byte)]

LEMMA ReadLoop ==
    ASSUME NEW s \in Reading
    PROVE  /\ ParseOptions[s] =
                IF s.b = <<>> \/ s.b[1] = 255
                THEN {[opts |-> s.opts, payload |-> From(s.b, 2)]}
                ELSE UNION {ParseOptions[t] : t \in ReadOption(s)}
           /\ \/ ParseOptions[s] = {}
              \/ \E body \in Bodies : ParseOptions[s] = {body}
<1> DEFINE Done(t) == t.b = <<>> \/ t.b[1] = 255
           result(t) == {[opts |-> t.opts, payload |-> From(t.b, 2)]}
           Stop == {t \in Reading : Done(t) \/ ReadOption(t) = {}}
           c == [t \in Reading |-> IF Done(t) THEN result(t) ELSE {}]
           next == [t \in Reading |-> IF t \in Stop THEN t
                                      ELSE CHOOSE u \in Reading : ReadOption(t) = {u}]
           size == [t \in Reading |-> Len(t.b)]
           R == {{}} \cup {{body} : body \in Bodies}
<1>1. ASSUME NEW t \in Reading, t \notin Stop
      PROVE  /\ next[t] \in Reading /\ ReadOption(t) = {next[t]}
             /\ Len(next[t].b) < Len(t.b)
  <2>1. ~Done(t) /\ ReadOption(t) # {}
    BY <1>1
  <2>2. PICK u \in Reading : ReadOption(t) = {u} /\ Len(u.b) < Len(t.b)
    BY <2>1, ReadOptionType, Zenon
  <2>3. next[t] = CHOOSE v \in Reading : ReadOption(t) = {v}
    BY <1>1
  <2>4. ReadOption(t) = {next[t]} /\ next[t] \in Reading
    BY <2>2, <2>3, Zenon
  <2>5. next[t] = u
    BY <2>2, <2>4, Zenon
  <2> QED
    BY <2>2, <2>4, <2>5, Zenon
<1>2. Stop \in SUBSET Reading /\ next \in [Reading -> Reading]
  <2>1. ASSUME NEW t \in Reading PROVE next[t] \in Reading
    <3>1. CASE t \in Stop
      BY <3>1
    <3>2. CASE t \notin Stop
      BY <1>1, <3>2, Zenon
    <3> QED
      BY <3>1, <3>2, Zenon
  <2>2. next = [t \in Reading |-> next[t]]
    <3> HIDE DEF Stop
    <3> QED
      BY SMT
  <2>3. next \in [Reading -> Reading]
    <3> HIDE DEF next
    <3> QED
      BY <2>1, <2>2, Zenon
  <2>4. Stop \subseteq Reading
    BY Zenon
  <2> QED
    BY <2>3, <2>4
<1>3. Shrinks(Reading, Stop, next, size)
  <2>1. size \in [Reading -> Nat]
    BY DEF Reading
  <2>2. ASSUME NEW t \in Reading \ Stop
        PROVE  next[t] \in Reading /\ size[next[t]] < size[t]
    <3>1. t \in Reading /\ t \notin Stop
      BY Zenon
    <3>2. next[t] \in Reading /\ Len(next[t].b) < Len(t.b)
      BY <1>1, <3>1, Zenon
    <3> HIDE DEF next, Stop
    <3> QED
      BY <3>1, <3>2, Zenon
  <2> HIDE DEF next, Stop, size
  <2> QED
    BY <2>1, <2>2, Zenon DEF Shrinks
<1>4. ASSUME NEW f
      PROVE  (f = [t \in Reading |-> IF Done(t) THEN result(t)
                                     ELSE UNION {f[u] : u \in ReadOption(t)}])
               <=> IsLoop(f, Reading, Stop, c, next)
  <2>1. ASSUME NEW t \in Reading
        PROVE  (IF t \in Stop THEN c[t] ELSE f[next[t]])
                 = IF Done(t) THEN result(t) ELSE UNION {f[u] : u \in ReadOption(t)}
    <3>1. CASE Done(t)
      BY <3>1
    <3>2. CASE ~Done(t) /\ ReadOption(t) = {}
      <4>1. t \in Stop /\ c[t] = {}
        BY <3>2
      <4>2. UNION {f[u] : u \in ReadOption(t)} = {}
        BY <3>2
      <4> QED
        BY <3>2, <4>1, <4>2, Zenon
    <3>3. CASE t \notin Stop
      <4>1. ReadOption(t) = {next[t]}
        BY <1>1, <3>3, Zenon
      <4>2. UNION {f[u] : u \in ReadOption(t)} = f[next[t]]
        <5> HIDE DEF next, Stop
        <5> QED
          BY <4>1
      <4>3. ~Done(t)
        BY <3>3
      <4> HIDE DEF next, Stop, Done, c, result
      <4> QED
        BY <3>3, <4>2, <4>3, Zenon
    <3> QED
      BY <3>1, <3>2, <3>3
  <2> HIDE DEF Stop, c, next, Done, result
  <2> QED
    BY <2>1 DEF IsLoop
<1>5. \E f : IsLoop(f, Reading, Stop, c, next)
  <2> HIDE DEF Stop, c, next
  <2> QED
    BY <1>2, LoopExists
<1>6. ParseOptions = [t \in Reading |->
                        IF Done(t) THEN result(t)
                        ELSE UNION {ParseOptions[u] : u \in ReadOption(t)}]
  <2>1. \E f : f = [t \in Reading |->
                      IF Done(t) THEN result(t)
                      ELSE UNION {f[u] : u \in ReadOption(t)}]
    <3> HIDE DEF Stop, c, next, Done, result
    <3> QED
      BY <1>4, <1>5, Zenon
  <2> QED
    BY <2>1, Zenon DEF ParseOptions
<1>7. Yields(c, Stop, R)
  <2>1. ASSUME NEW t \in Stop PROVE c[t] \in R
    <3>1. CASE Done(t)
      <4>1. t.opts \in Seq(Option) /\ t.b \in Seq(Byte)
        BY Zenon DEF Reading
      <4>2. From(t.b, 2) \in Seq(Byte)
        BY <4>1, FromType, SMT
      <4>3. [opts |-> t.opts, payload |-> From(t.b, 2)] \in Bodies
        <5>1. \A v \in Seq(Option), w \in Seq(Byte) : [opts |-> v, payload |-> w] \in Bodies
          BY SMT DEF Bodies
        <5> QED
          BY <4>1, <4>2, <5>1, Zenon
      <4>4. c[t] = {[opts |-> t.opts, payload |-> From(t.b, 2)]}
        BY <3>1
      <4> HIDE DEF c
      <4> QED
        BY <4>3, <4>4
    <3>2. CASE ~Done(t)
      BY <3>2
    <3> QED
      BY <3>1, <3>2, Zenon
  <2> HIDE DEF c, Stop, R
  <2> QED
    BY <2>1, Zenon DEF Yields
<1>8. ParseOptions[s] \in R
  <2>1. IsLoop(ParseOptions, Reading, Stop, c, next)
    BY <1>4, <1>6, Zenon
  <2> HIDE DEF Stop, c, next, size, R
  <2>2. Yields(ParseOptions, Reading, R)
    BY <1>3, <1>7, <2>1, LoopReturns
  <2> QED
    BY <2>2 DEF Yields
<1>9. ParseOptions[s] = IF Done(s) THEN result(s)
                        ELSE UNION {ParseOptions[t] : t \in ReadOption(s)}
  <2> DEFINE F == ParseOptions
  <2> HIDE DEF Done, result
  <2> QED
    BY <1>6, Zenon
<1> QED
  BY <1>8, <1>9, Zenon

-----------------------------------------------------------------------------
(* Sorting.                                                                *)

(* The option at i comes before the one at j when they are sorted.         *)
Before(opts, i, j) ==
    \/ opts[i].id < opts[j].id
    \/ opts[i].id = opts[j].id /\ i < j

Ahead(opts, i) == {j \in DOMAIN opts : Before(opts, j, i)}

LEMMA BeforeOrders ==
    ASSUME NEW opts \in Seq(Option)
    PROVE  /\ DOMAIN opts = 1 .. Len(opts)
           /\ \A i \in DOMAIN opts : ~Before(opts, i, i)
           /\ \A i, j \in DOMAIN opts : i # j => Before(opts, i, j) \/ Before(opts, j, i)
           /\ \A i, j, k \in DOMAIN opts :
                 Before(opts, i, j) /\ Before(opts, j, k) => Before(opts, i, k)
<1>1. DOMAIN opts = 1 .. Len(opts) /\ DOMAIN opts \subseteq Int
  BY SMT
<1>2. \A i \in DOMAIN opts : opts[i].id \in Int
  <2>1. \A i \in DOMAIN opts : opts[i] \in Option
    BY <1>1, Element, SMT
  <2>2. Byte \subseteq Int
    BY SMT DEF Byte
  <2> QED
    BY <2>1, <2>2, OptionFacts, Zenon
<1> DEFINE ids == [i \in DOMAIN opts |-> opts[i].id]
<1>3. ids \in [DOMAIN opts -> Int]
  BY <1>2, Zenon
<1>4. \A i, j \in DOMAIN opts :
         Before(opts, i, j) <=> \/ ids[i] < ids[j]
                                \/ ids[i] = ids[j] /\ i < j
  <2>1. \A i \in DOMAIN opts : ids[i] = opts[i].id
    BY Zenon
  <2> HIDE DEF ids
  <2> QED
    BY <2>1, Zenon DEF Before
<1> HIDE DEF ids
<1>5. \A i \in DOMAIN opts : ~Before(opts, i, i)
  BY <1>1, <1>3, <1>4, SMT
<1>6. \A i, j \in DOMAIN opts : i # j => Before(opts, i, j) \/ Before(opts, j, i)
  BY <1>1, <1>3, <1>4, SMT
<1>7. \A i, j, k \in DOMAIN opts :
         Before(opts, i, j) /\ Before(opts, j, k) => Before(opts, i, k)
  <2> TAKE i, j, k \in DOMAIN opts
  <2>1. /\ ids[i] \in Int /\ ids[j] \in Int /\ ids[k] \in Int
        /\ i \in Int /\ j \in Int /\ k \in Int
    BY <1>1, <1>3, Zenon
  <2>2. \A a, b, c, x, y, z \in Int :
           (a < b \/ (a = b /\ x < y)) /\ (b < c \/ (b = c /\ y < z))
              => a < c \/ (a = c /\ x < z)
    BY SMT
  <2>3. /\ Before(opts, i, j) <=> (ids[i] < ids[j] \/ (ids[i] = ids[j] /\ i < j))
        /\ Before(opts, j, k) <=> (ids[j] < ids[k] \/ (ids[j] = ids[k] /\ j < k))
        /\ Before(opts, i, k) <=> (ids[i] < ids[k] \/ (ids[i] = ids[k] /\ i < k))
    BY <1>4, Zenon
  <2> QED
    BY <2>1, <2>2, <2>3, SMT
<1> QED
  BY <1>1, <1>5, <1>6, <1>7, Zenon

(* Sorted keeps every option once, in order.                               *)
LEMMA SortedPlaces ==
    ASSUME NEW opts \in Seq(Option)
    PROVE  /\ Sorted(opts) \in Seq(Option)
           /\ Len(Sorted(opts)) = Len(opts)
           /\ \E place \in [DOMAIN opts -> DOMAIN opts] :
                 /\ \A k \in DOMAIN opts : Sorted(opts)[k] = opts[place[k]]
                 /\ \A j, k \in DOMAIN opts :
                       j < k => Before(opts, place[j], place[k])
                 /\ \A i \in DOMAIN opts : \E k \in DOMAIN opts : place[k] = i
<1> DEFINE D == DOMAIN opts
           n == Len(opts)
           card(i) == Cardinality(Ahead(opts, i))
           rank == [i \in D |-> card(i) + 1]
           place == [k \in D |-> CHOOSE i \in D : card(i) = k - 1]
<1>1. n \in Nat /\ D = 1 .. n
  BY SMT
<1>2. IsFiniteSet(D) /\ Cardinality(D) = n
  <2> HIDE DEF n
  <2> QED
    BY <1>1, FS_Interval, SMT
<1>3. ASSUME NEW i \in D
      PROVE  IsFiniteSet(Ahead(opts, i)) /\ card(i) \in Nat /\ card(i) < n
  <2>1. Ahead(opts, i) \in SUBSET D /\ Ahead(opts, i) # D
    BY BeforeOrders, Zenon DEF Ahead
  <2>2. /\ IsFiniteSet(Ahead(opts, i)) /\ card(i) <= n /\ card(i) # n
    <3> HIDE DEF D, n
    <3> QED
      BY <1>2, <2>1, FS_Subset, Zenon
  <2>3. card(i) \in Nat
    BY <2>2, FS_CardinalityType, Zenon
  <2> HIDE DEF card, n
  <2> QED
    BY <1>1, <2>2, <2>3, SMT
<1>4. ASSUME NEW i \in D, NEW j \in D, Before(opts, j, i)
      PROVE  rank[j] < rank[i]
  <2>1. Ahead(opts, j) \in SUBSET Ahead(opts, i)
    BY <1>4, BeforeOrders, Zenon DEF Ahead
  <2>2. j \in Ahead(opts, i) /\ j \notin Ahead(opts, j)
    BY <1>4, BeforeOrders, Zenon DEF Ahead
  <2>3. card(j) <= card(i) /\ card(j) # card(i)
    BY <1>3, <2>1, <2>2, FS_Subset, Zenon
  <2>4. card(i) \in Nat /\ card(j) \in Nat
    BY <1>3, Zenon
  <2>5. rank[i] = card(i) + 1 /\ rank[j] = card(j) + 1
    BY Zenon
  <2> HIDE DEF card, rank
  <2> QED
    BY <2>3, <2>4, <2>5, SMT
<1>5. rank \in [D -> D]
  <2>1. ASSUME NEW i \in D PROVE card(i) + 1 \in D
    <3> HIDE DEF card, n, D
    <3> QED
      BY <1>1, <1>3, <2>1, SMT
  <2> HIDE DEF card, D
  <2> QED
    BY <2>1, Zenon
<1>6. ASSUME NEW i \in D, NEW j \in D, rank[i] = rank[j] PROVE i = j
  <2>1. rank[i] \in Int
    <3> HIDE DEF rank, n, D
    <3> QED
      BY <1>1, <1>5, SMT
  <2>2. \A a \in Int : ~(a < a)
    BY SMT
  <2>3. ~Before(opts, i, j) /\ ~Before(opts, j, i)
    <3> HIDE DEF rank
    <3> QED
      BY <1>4, <1>6, <2>1, <2>2, Zenon
  <2> QED
    BY <2>3, BeforeOrders, Zenon
<1>7. \A k \in D : \E i \in D : rank[i] = k
  <2> HIDE DEF rank, D
  <2>1. rank \in Injection(D, D)
    BY <1>5, <1>6, Zenon DEF Injection, IsInjective
  <2>2. rank \in Surjection(D, D)
    BY <1>2, <2>1, FS_Injection, Zenon
  <2> QED
    BY <2>2, Zenon DEF Surjection
<1>8. ASSUME NEW k \in D PROVE place[k] \in D /\ rank[place[k]] = k
  <2>1. PICK i \in D : rank[i] = k
    BY <1>7, Zenon
  <2>2. card(i) = k - 1
    <3>1. rank[i] = card(i) + 1 /\ card(i) \in Nat
      BY <1>3, Zenon
    <3> HIDE DEF rank, card
    <3> QED
      BY <2>1, <3>1, SMT
  <2>3. place[k] \in D /\ card(place[k]) = k - 1
    <3>1. place[k] = CHOOSE m \in D : card(m) = k - 1
      BY Zenon
    <3> HIDE DEF place, card
    <3> QED
      BY <2>2, <3>1, Zenon
  <2>4. rank[place[k]] = card(place[k]) + 1
    <3> HIDE DEF place
    <3> QED
      BY <2>3, Zenon
  <2>5. k \in Int
    <3> HIDE DEF n, D
    <3> QED
      BY <1>1, SMT
  <2> HIDE DEF rank, place, card
  <2> QED
    BY <2>3, <2>4, <2>5, SMT
<1>9. place \in [D -> D]
  <2>1. place = [k \in D |-> place[k]]
    BY SMT
  <2> HIDE DEF place, D
  <2> QED
    BY <1>8, <2>1, Zenon
<1>10. \A i \in D : \E k \in D : place[k] = i
  <2> TAKE i \in D
  <2>1. rank[i] \in D
    <3> HIDE DEF rank, D
    <3> QED
      BY <1>5, Zenon
  <2>2. place[rank[i]] \in D /\ rank[place[rank[i]]] = rank[i]
    <3> HIDE DEF rank, place
    <3> QED
      BY <1>8, <2>1, Zenon
  <2>3. place[rank[i]] = i
    <3> HIDE DEF rank, place
    <3> QED
      BY <1>6, <2>2, Zenon
  <2> WITNESS rank[i] \in D
  <2> QED
    BY <2>3, Zenon
<1>11. ASSUME NEW j \in D, NEW k \in D, j < k
       PROVE  Before(opts, place[j], place[k])
  <2> HIDE DEF place, rank
  <2>1. place[j] \in D /\ place[k] \in D /\ rank[place[j]] = j /\ rank[place[k]] = k
    BY <1>8, Zenon
  <2>2. ~(k < j) /\ j # k
    <3> HIDE DEF D, n
    <3> QED
      BY <1>1, <1>11, SMT
  <2>3. ~Before(opts, place[k], place[j]) /\ place[j] # place[k]
    BY <1>4, <2>1, <2>2, Zenon
  <2> QED
    BY <2>1, <2>3, BeforeOrders, Zenon
<1>12. Sorted(opts) = [k \in D |-> opts[place[k]]]
  <2>1. ASSUME NEW k \in D
        PROVE  place[k] = CHOOSE i \in D : Cardinality(Ahead(opts, i)) = k - 1
    BY Zenon
  <2>2. Sorted(opts) = [k \in D |-> opts[CHOOSE i \in D : Cardinality(Ahead(opts, i)) = k - 1]]
    BY Zenon DEF Sorted, Ahead, Before
  <2> HIDE DEF place
  <2> QED
    BY <2>1, <2>2, Zenon
<1>13. Sorted(opts) \in Seq(Option) /\ Len(Sorted(opts)) = Len(opts)
  <2> DEFINE f == [k \in 1 .. n |-> opts[place[k]]]
  <2>1. ASSUME NEW k \in 1 .. n PROVE opts[place[k]] \in Option
    <3>1. place[k] \in 1 .. n
      <4> HIDE DEF place, n, D
      <4> QED
        BY <1>1, <1>8, Zenon
    <3> HIDE DEF place
    <3> QED
      BY <3>1, Element, Zenon
  <2>2. f \in Seq(Option) /\ Len(f) = n
    <3> HIDE DEF place, n
    <3> QED
      BY <1>1, <2>1, SMT
  <2>3. Sorted(opts) = f
    <3> HIDE DEF place, n, D
    <3> QED
      BY <1>1, <1>12, Zenon DEF f
  <2> QED
    BY <2>2, <2>3, Zenon
<1>14. \A k \in D : Sorted(opts)[k] = opts[place[k]]
  <2> HIDE DEF place
  <2> QED
    BY <1>12, Zenon
<1> HIDE DEF place
<1> QED
  BY <1>9, <1>10, <1>11, <1>13, <1>14, Zenon

-----------------------------------------------------------------------------
(* What one option reads back as.                                          *)

LEMMA ConcatType ==
    ASSUME NEW S, NEW a \in Seq(S), NEW b \in Seq(S)
    PROVE  a \o b \in Seq(S) /\ Len(a \o b) = Len(a) + Len(b)
BY SMT

LEMMA SameBytes ==
    ASSUME NEW S, NEW a \in Seq(S), NEW b \in Seq(S), Len(a) = Len(b),
           \A i \in 1 .. Len(a) : a[i] = b[i]
    PROVE  a = b
BY SMT

LEMMA Concat3 ==
    ASSUME NEW S, NEW a \in Seq(S), NEW b \in Seq(S), NEW c \in Seq(S)
    PROVE  (a \o b) \o c = a \o (b \o c)
<1>1. /\ (a \o b) \o c \in Seq(S) /\ a \o (b \o c) \in Seq(S)
      /\ Len((a \o b) \o c) = Len(a \o (b \o c))
  BY SMT
<1>2. \A i \in 1 .. Len((a \o b) \o c) : ((a \o b) \o c)[i] = (a \o (b \o c))[i]
  BY SMT
<1> QED
  BY <1>1, <1>2, SameBytes, Zenon

LEMMA ConcatEmpty ==
    ASSUME NEW S, NEW a \in Seq(S)
    PROVE  a \o <<>> = a /\ <<>> \o a = a
BY SMT

(* A sequence in front of another can be taken off again.                  *)
LEMMA TakeFront ==
    ASSUME NEW S, NEW a \in Seq(S), NEW b \in Seq(S)
    PROVE  SubSeq(a \o b, 1, Len(a)) = a /\ From(a \o b, Len(a) + 1) = b
<1>1. /\ Len(a) \in Nat /\ Len(b) \in Nat
      /\ a \o b \in Seq(S) /\ Len(a \o b) = Len(a) + Len(b)
      /\ \A i \in 1 .. Len(a) : (a \o b)[i] = a[i]
      /\ \A i \in 1 .. Len(b) : (a \o b)[Len(a) + i] = b[i]
  BY SMT
<1> DEFINE w == a \o b
           front == SubSeq(w, 1, Len(a))
           back == SubSeq(w, Len(a) + 1, Len(w))
<1> HIDE DEF w
<1>2. front \in Seq(S) /\ Len(front) = Len(a)
  BY <1>1, SMT DEF w
<1>3. \A i \in 1 .. Len(a) : front[i] = a[i]
  BY <1>1, SMT DEF w
<1>4. back \in Seq(S) /\ Len(back) = Len(b)
  BY <1>1, SMT DEF w
<1>5. \A i \in 1 .. Len(b) : back[i] = b[i]
  BY <1>1, SMT DEF w
<1>6. front = a
  <2> HIDE DEF front
  <2> QED
    BY <1>2, <1>3, SameBytes, Zenon
<1>7. back = b
  <2> HIDE DEF back
  <2> QED
    BY <1>4, <1>5, SameBytes, Zenon
<1> QED
  BY <1>6, <1>7, Zenon DEF w, From

(* b is x and then tail.                                                   *)
Splits(b, x, tail) == b \in Seq(Byte) /\ b # <<>> /\ b[1] = x /\ Tail(b) = tail

(* The byte in front of the extensions and of what follows.                *)
LEMMA FirstByte ==
    ASSUME NEW x \in Byte, NEW d \in Seq(Byte), NEW l \in Seq(Byte),
           NEW after \in Seq(Byte), NEW b, b = (<<x>> \o d \o l) \o after
    PROVE  Splits(b, x, d \o (l \o after))
<1>1. /\ <<x>> \in Seq(Byte) /\ <<x>> \o d \in Seq(Byte) /\ l \o after \in Seq(Byte)
      /\ d \o (l \o after) \in Seq(Byte)
  BY SMT
<1>2. b = (<<x>> \o d) \o (l \o after)
  BY <1>1, Concat3, SMT
<1>3. b = <<x>> \o (d \o (l \o after))
  BY <1>1, <1>2, Concat3, SMT
<1> DEFINE tail == d \o (l \o after)
<1>4. tail \in Seq(Byte) /\ b = <<x>> \o tail
  BY <1>1, <1>3, Zenon
<1> HIDE DEF tail
<1>5. b[1] = x /\ Tail(b) = tail
  BY <1>4, AfterOne, Zenon
<1>6. b \in Seq(Byte) /\ b # <<>>
  BY <1>4, SMT
<1> QED
  BY <1>5, <1>6, Zenon DEF tail, Splits

LEMMA Deltas ==
    /\ \A i, j \in Byte : j <= i => i - j \in 0 .. MaxLength
    /\ \A i, j \in Byte, k \in Int : j <= i /\ k = i - j => (j + k) % 256 = i
    /\ \A i \in 0 .. MaxLength : i \in Int /\ i >= 0 /\ i # -1
    /\ \A i \in 0 .. 14 : i # 15
<1>1. \A i, j \in Byte : j <= i => i - j \in 0 .. MaxLength
  <2>1. \A i \in 0 .. 255 : i \in 0 .. MaxLength
    BY SMT DEF MaxLength
  <2>2. \A i, j \in Byte : j <= i => i - j \in 0 .. 255
    BY SMT DEF Byte
  <2> QED
    BY <2>1, <2>2, Zenon
<1>2. \A i, j \in Byte, k \in Int : j <= i /\ k = i - j => (j + k) % 256 = i
  <2> TAKE i, j \in Byte, k \in Int
  <2>1. j + (i - j) = i /\ i % 256 = i
    BY SMT DEF Byte
  <2> QED
    BY <2>1, Zenon
<1>3. \A i \in 0 .. MaxLength : i \in Int /\ i >= 0 /\ i # -1
  BY SMT DEF MaxLength
<1>4. \A i \in 0 .. 14 : i # 15
  BY SMT
<1> QED
  BY <1>1, <1>2, <1>3, <1>4, Zenon

(* x is not the payload marker, and holds both nibbles.                    *)
Packs(x, hi, lo) ==
    x = (16 * hi + lo) % 256 /\ x # 255 /\ x \div 16 = hi /\ x % 16 = lo

LEMMA TwoNibbles ==
    ASSUME NEW hi \in 0 .. 14, NEW lo \in 0 .. 14
    PROVE  \E x \in Byte : Packs(x, hi, lo)
BY SMT DEF Byte, Packs

(* b starts with the header of an option, which is not the payload marker, *)
(* and after is what follows the header.                                   *)
StartsWith(b, delta, length, after) ==
    /\ b \in Seq(Byte) /\ b # <<>> /\ b[1] # 255
    /\ b[1] \div 16 = extendOpt(delta).nibble
    /\ b[1] % 16 = extendOpt(length).nibble
    /\ Tail(b) = extendOpt(delta).ext \o (extendOpt(length).ext \o after)
    /\ extendOpt(delta).nibble \in 0 .. 14
    /\ extendOpt(length).nibble \in 0 .. 14
    /\ extendOpt(length).ext \o after \in Seq(Byte)

LEMMA HeaderBytes ==
    ASSUME NEW delta \in 0 .. MaxLength, NEW length \in 0 .. MaxLength,
           NEW after \in Seq(Byte), NEW b, b = OptHeader(delta, length) \o after
    PROVE  StartsWith(b, delta, length, after)
<1>1. PICK hi \in 0 .. 14, d \in Seq(Byte) :
         extendOpt(delta).nibble = hi /\ extendOpt(delta).ext = d
  BY Deltas, ExtendedType, Zenon
<1>2. PICK lo \in 0 .. 14, l \in Seq(Byte) :
         extendOpt(length).nibble = lo /\ extendOpt(length).ext = l
  BY Deltas, ExtendedType, Zenon
<1>3. PICK x \in Byte : Packs(x, hi, lo)
  BY TwoNibbles, Zenon
<1>4. x = (16 * hi + lo) % 256 /\ x # 255 /\ x \div 16 = hi /\ x % 16 = lo
  BY <1>3, SMT DEF Packs
<1>5. OptHeader(delta, length) = <<x>> \o d \o l
  BY <1>1, <1>2, <1>4, SMT DEF OptHeader
<1>7. b \in Seq(Byte) /\ b # <<>> /\ b[1] = x /\ Tail(b) = d \o (l \o after)
  <2>1. b = (<<x>> \o d \o l) \o after
    BY <1>5, Zenon
  <2>2. Splits(b, x, d \o (l \o after))
    BY <2>1, FirstByte, Zenon
  <2> QED
    BY <2>2, Zenon DEF Splits
<1>8. l \o after \in Seq(Byte)
  BY ConcatType, Zenon
<1> QED
  BY <1>1, <1>2, <1>4, <1>7, <1>8 DEF StartsWith

(* The loop stops.                                                         *)
AtEnd(s) == s.b = <<>> \/ s.b[1] = 255

(* The loop goes on, in t.                                                 *)
Turn(s, t) == s \in Reading /\ ~AtEnd(s) /\ ReadOption(s) = {t}

LEMMA ReadSteps ==
    ASSUME NEW s \in Reading
    PROVE  /\ AtEnd(s) =>
                 ParseOptions[s] = {[opts |-> s.opts, payload |-> From(s.b, 2)]}
           /\ \A t : Turn(s, t) => ParseOptions[s] = ParseOptions[t]
<1>1. ParseOptions[s] = IF AtEnd(s) THEN {[opts |-> s.opts, payload |-> From(s.b, 2)]}
                        ELSE UNION {ParseOptions[t] : t \in ReadOption(s)}
  BY ReadLoop, Zenon DEF AtEnd
<1>2. ASSUME NEW t, Turn(s, t) PROVE ParseOptions[s] = ParseOptions[t]
  <2>1. ~AtEnd(s) /\ ReadOption(s) = {t}
    BY <1>2, Zenon DEF Turn
  <2>2. UNION {ParseOptions[u] : u \in {t}} = ParseOptions[t]
    OBVIOUS
  <2> QED
    BY <1>1, <2>1, <2>2, Zenon
<1> QED
  BY <1>1, <1>2, Zenon

(* One turn of ParseMessage takes off what one turn of MarshalBinary wrote.*)
LEMMA OptionReadsBack ==
    ASSUME NEW prev \in Byte, NEW o \in Option, prev <= o.id,
           NEW opts \in Seq(Option), NEW rest \in Seq(Byte),
           NEW b, b = OptHeader(o.id - prev, Len(toBytes(o))) \o (toBytes(o) \o rest)
    PROVE  Turn([prev |-> prev, opts |-> opts, b |-> b],
                [prev |-> o.id, opts |-> opts \o parseOptionValue(o.id, toBytes(o)),
                 b |-> rest])
<1> DEFINE val == toBytes(o)
           delta == o.id - prev
           d == extendOpt(delta)
           l == extendOpt(Len(val))
           after == val \o rest
<1>1. o.id \in Byte /\ val \in Seq(Byte) /\ Len(val) \in 0 .. MaxLength
  BY OptionFacts, ToBytesType, Zenon
<1>2. delta \in 0 .. MaxLength
  BY <1>1, Deltas, Zenon
<1>3. \A i \in 0 .. MaxLength : i \in Int /\ i >= 0 /\ i # -1
  BY Deltas, Zenon
<1>4. after \in Seq(Byte)
  <2> HIDE DEF val
  <2> QED
    BY <1>1, ConcatType, Zenon
<1>5. /\ b \in Seq(Byte) /\ b # <<>> /\ b[1] # 255
      /\ b[1] \div 16 = d.nibble /\ b[1] % 16 = l.nibble
      /\ Tail(b) = d.ext \o (l.ext \o after)
      /\ d.nibble \in 0 .. 14 /\ l.nibble \in 0 .. 14
      /\ l.ext \o after \in Seq(Byte)
  <2>1. b = OptHeader(delta, Len(val)) \o after
    OBVIOUS
  <2>2. StartsWith(b, delta, Len(val), after)
    <3> HIDE DEF delta, val, after
    <3> QED
      BY <1>1, <1>2, <1>4, <2>1, HeaderBytes, Zenon
  <2> QED
    BY <2>2 DEF StartsWith
<1> DEFINE s == [prev |-> prev, opts |-> opts, b |-> b]
           nibbles == <<s.b[1] \div 16, s.b[1] % 16>>
           pd   == parseExtOpt(nibbles[1], Tail(s.b))
           pl   == parseExtOpt(nibbles[2], pd.rest)
           oid  == (s.prev + pd.n) % 256
           value == SubSeq(pl.rest, 1, pl.n)
           next == [prev |-> oid, opts |-> s.opts \o parseOptionValue(oid, value),
                    b |-> From(pl.rest, pl.n + 1)]
           failed == \/ 15 \in {nibbles[1], nibbles[2]}
                     \/ -1 \in {pd.n, pl.n}
                     \/ Len(pl.rest) < pl.n
<1>a. s.prev = prev /\ s.opts = opts /\ s.b = b
  BY SMT
<1> HIDE DEF s
<1>c. l.ext \o after \in Seq(Byte) /\ d.nibble \in 0 .. 14 /\ l.nibble \in 0 .. 14
  BY <1>5
<1>9. ReadOption(s) = IF failed THEN {} ELSE {next}
  BY Zenon DEF ReadOption
<1>10. nibbles[1] = d.nibble /\ nibbles[2] = l.nibble
  <2>1. \A x, y : <<x, y>>[1] = x /\ <<x, y>>[2] = y
    BY SMT
  <2>2. b[1] \div 16 = d.nibble /\ b[1] % 16 = l.nibble
    BY <1>5
  <2> HIDE DEF d, l
  <2> QED
    BY <1>a, <2>1, <2>2
<1>11. pd.n = delta /\ pd.rest = l.ext \o after
  <2>1. ReadsBack(delta, l.ext \o after)
    <3> HIDE DEF delta, l, after
    <3> QED
      BY <1>2, <1>4, <1>c, ExtendedReadsBack, Zenon
  <2>2. Tail(b) = d.ext \o (l.ext \o after)
    BY <1>5
  <2> HIDE DEF nibbles, delta, l, after
  <2> QED
    BY <1>10, <1>a, <2>1, <2>2, Zenon DEF ReadsBack
<1>12. pl.n = Len(val) /\ pl.rest = after
  <2>1. ReadsBack(Len(val), after)
    <3> HIDE DEF val, after
    <3> QED
      BY <1>1, <1>4, <1>c, ExtendedReadsBack, Zenon
  <2> HIDE DEF nibbles, pd, val, after, d
  <2> QED
    BY <1>10, <1>11, <2>1, Zenon DEF ReadsBack
<1>13. oid = o.id
  <2> HIDE DEF pd
  <2> QED
    BY <1>1, <1>11, <1>a, Deltas, SMT
<1>14. value = val /\ From(pl.rest, pl.n + 1) = rest
  <2> HIDE DEF pl, val
  <2> QED
    BY <1>1, <1>12, TakeFront, Zenon
<1>15. next = [prev |-> o.id, opts |-> opts \o parseOptionValue(o.id, val), b |-> rest]
  <2> HIDE DEF oid, value, pl, val
  <2> QED
    BY <1>13, <1>14, <1>a, Zenon
<1>16. ~failed
  <2>1. \A i \in 0 .. 14 : i # 15
    BY Deltas, Zenon
  <2>2. \A i \in 0 .. MaxLength : i # -1
    BY <1>3, Zenon
  <2>3. ~(Len(after) < Len(val))
    <3> HIDE DEF val
    <3> QED
      BY <1>1, SMT
  <2> HIDE DEF nibbles, pd, pl, d, l, after, val, delta
  <2> QED
    BY <1>1, <1>2, <1>c, <1>10, <1>11, <1>12, <2>1, <2>2, <2>3, Zenon
<1> HIDE DEF failed, next, s
<1>17. ReadOption(s) = {next}
  BY <1>9, <1>16, Zenon
<1>18. ~AtEnd(s)
  BY <1>5, <1>a, SMT DEF AtEnd
<1>19. s \in Reading
  <2>1. s = [prev |-> prev, opts |-> opts, b |-> b]
    BY DEF s
  <2>2. b \in Seq(Byte)
    BY <1>5
  <2> QED
    BY <2>1, <2>2, SMT DEF Reading
<1> QED
  BY <1>15, <1>17, <1>18, <1>19, Zenon DEF Turn, s

-----------------------------------------------------------------------------
(* What the options of a message are read as.                              *)

(* r is what the options in left are read as: the legal ones, in place.    *)
Reads(r, left) ==
    \E place \in [1 .. Len(r) -> 1 .. Len(left)] :
       /\ \A k \in 1 .. Len(r) : r[k] = AsRead(left[place[k]])
       /\ \A j, k \in 1 .. Len(r) : j < k => place[j] < place[k]
       /\ \A i \in 1 .. Len(left) :
             Legal(left[i]) <=> \E k \in 1 .. Len(r) : place[k] = i

LEMMA ReadsNone == Reads(<<>>, <<>>)
<1>1. Len(<<>>) = 0 /\ 1 .. 0 = {}
  BY SMT
<1> DEFINE place == [k \in {} |-> 0]
<1>2. place \in [1 .. Len(<<>>) -> 1 .. Len(<<>>)]
  BY <1>1, SMT
<1> QED
  BY <1>1, <1>2, Zenon DEF Reads

LEMMA ConsParts ==
    ASSUME NEW S, NEW w \in Seq(S), w # <<>>
    PROVE  /\ Len(w) \in Nat /\ Len(w) = Len(Tail(w)) + 1
           /\ Tail(w) \in Seq(S) /\ Len(Tail(w)) \in Nat
           /\ w[1] = Head(w) /\ Head(w) \in S
           /\ \A i \in 1 .. Len(Tail(w)) : w[i + 1] = Tail(w)[i]
BY SMT

LEMMA ReadsLegal ==
    ASSUME NEW left \in Seq(Option), left # <<>>, NEW r \in Seq(Option),
           Reads(r, Tail(left)), Legal(Head(left)),
           NEW x \in Option, x = AsRead(Head(left))
    PROVE  Reads(<<x>> \o r, left)
<1> DEFINE n == Len(left)
           m == Len(r)
           r1 == <<x>> \o r
<1>1. /\ n \in Nat /\ n = Len(Tail(left)) + 1 /\ Len(Tail(left)) \in Nat
      /\ left[1] = Head(left)
      /\ \A i \in 1 .. Len(Tail(left)) : left[i + 1] = Tail(left)[i]
  BY ConsParts, SMT
<1>2. m \in Nat /\ Len(r1) = m + 1 /\ r1[1] = x /\ \A k \in 1 .. m : r1[k + 1] = r[k]
  BY SMT
<1>3. PICK place \in [1 .. m -> 1 .. Len(Tail(left))] :
         /\ \A k \in 1 .. m : r[k] = AsRead(Tail(left)[place[k]])
         /\ \A j, k \in 1 .. m : j < k => place[j] < place[k]
         /\ \A i \in 1 .. Len(Tail(left)) :
               Legal(Tail(left)[i]) <=> \E k \in 1 .. m : place[k] = i
  BY Zenon DEF Reads
<1> HIDE DEF n, m, r1
<1> DEFINE place1 == [k \in 1 .. m + 1 |-> IF k = 1 THEN 1 ELSE place[k - 1] + 1]
<1>4. place1 \in [1 .. m + 1 -> 1 .. n]
  BY <1>1, <1>2, SMT
<1>5. ASSUME NEW k \in 1 .. m + 1 PROVE r1[k] = AsRead(left[place1[k]])
  <2>1. CASE k = 1
    BY <1>1, <1>2, <2>1, SMT
  <2>2. CASE k # 1
    <3>1. PICK l \in 1 .. m : k = l + 1
      BY <1>2, <2>2, SMT
    <3>2. place1[k] = place[l] + 1 /\ place[l] \in 1 .. Len(Tail(left))
      BY <1>2, <3>1, SMT
    <3>3. r1[k] = r[l] /\ left[place1[k]] = Tail(left)[place[l]]
      BY <1>1, <1>2, <3>1, <3>2, Zenon
    <3> QED
      BY <1>3, <3>3, Zenon
  <2> QED
    BY <2>1, <2>2
<1>6. ASSUME NEW j \in 1 .. m + 1, NEW k \in 1 .. m + 1, j < k
      PROVE  place1[j] < place1[k]
  <2>1. PICK l \in 1 .. m : k = l + 1
    BY <1>2, <1>6, SMT
  <2>2. place1[k] = place[l] + 1 /\ place[l] \in 1 .. Len(Tail(left))
    BY <1>2, <2>1, SMT
  <2>3. CASE j = 1
    BY <1>1, <1>2, <2>2, <2>3, SMT
  <2>4. CASE j # 1
    <3>1. PICK i \in 1 .. m : j = i + 1
      BY <1>2, <2>4, SMT
    <3>2. place1[j] = place[i] + 1 /\ place[i] \in 1 .. Len(Tail(left))
      BY <1>2, <3>1, SMT
    <3>3. i < l
      BY <1>6, <2>1, <3>1, SMT
    <3>4. place[i] < place[l]
      BY <1>3, <3>3, Zenon
    <3> QED
      BY <1>1, <2>2, <3>2, <3>4, SMT
  <2> QED
    BY <2>3, <2>4
<1>7. ASSUME NEW i \in 1 .. n
      PROVE  Legal(left[i]) <=> \E k \in 1 .. m + 1 : place1[k] = i
  <2>1. CASE i = 1
    <3>1. 1 \in 1 .. m + 1 /\ place1[1] = 1
      BY <1>2, SMT
    <3> QED
      BY <1>1, <2>1, <3>1, Zenon
  <2>2. CASE i # 1
    <3>1. PICK h \in 1 .. Len(Tail(left)) : i = h + 1
      BY <1>1, <2>2, SMT
    <3>2. left[i] = Tail(left)[h]
      BY <1>1, <3>1, Zenon
    <3>3. (\E k \in 1 .. m : place[k] = h) <=> \E k \in 1 .. m + 1 : place1[k] = i
      <4>1. ASSUME NEW k \in 1 .. m, place[k] = h
            PROVE  k + 1 \in 1 .. m + 1 /\ place1[k + 1] = i
        BY <1>2, <3>1, <4>1, SMT
      <4>2. ASSUME NEW k \in 1 .. m + 1, place1[k] = i
            PROVE  \E l \in 1 .. m : place[l] = h
        <5>1. k # 1
          BY <1>2, <2>2, <4>2, SMT
        <5>2. PICK l \in 1 .. m : k = l + 1
          BY <1>2, <5>1, SMT
        <5>3. place1[k] = place[l] + 1 /\ place[l] \in 1 .. Len(Tail(left))
          BY <1>2, <5>2, SMT
        <5>4. place[l] = h
          BY <1>1, <3>1, <4>2, <5>3, SMT
        <5> QED
          BY <5>4, Zenon
      <4> QED
        BY <4>1, <4>2, Zenon
    <3> QED
      BY <1>3, <3>2, <3>3, Zenon
  <2> QED
    BY <2>1, <2>2
<1> HIDE DEF place1
<1>8. \E p \in [1 .. Len(r1) -> 1 .. n] :
         /\ \A k \in 1 .. Len(r1) : r1[k] = AsRead(left[p[k]])
         /\ \A j, k \in 1 .. Len(r1) : j < k => p[j] < p[k]
         /\ \A i \in 1 .. n : Legal(left[i]) <=> \E k \in 1 .. Len(r1) : p[k] = i
  <2>1. Len(r1) = m + 1
    BY <1>2, Zenon
  <2> DEFINE l == m + 1
  <2> HIDE DEF l
  <2>2. /\ place1 \in [1 .. l -> 1 .. n]
        /\ \A k \in 1 .. l : r1[k] = AsRead(left[place1[k]])
        /\ \A j, k \in 1 .. l : j < k => place1[j] < place1[k]
        /\ \A i \in 1 .. n : Legal(left[i]) <=> \E k \in 1 .. l : place1[k] = i
    BY <1>4, <1>5, <1>6, <1>7, Zenon DEF l
  <2>3. Len(r1) = l
    BY <2>1 DEF l
  <2> QED
    BY <2>2, <2>3, Zenon
<1> QED
  BY <1>8, Zenon DEF Reads, r1, n

LEMMA ReadsIllegal ==
    ASSUME NEW left \in Seq(Option), left # <<>>, NEW r \in Seq(Option),
           Reads(r, Tail(left)), ~Legal(Head(left))
    PROVE  Reads(r, left)
<1> DEFINE n == Len(left)
           m == Len(r)
<1>1. /\ n \in Nat /\ n = Len(Tail(left)) + 1 /\ Len(Tail(left)) \in Nat
      /\ left[1] = Head(left)
      /\ \A i \in 1 .. Len(Tail(left)) : left[i + 1] = Tail(left)[i]
  BY ConsParts, SMT
<1>2. PICK place \in [1 .. m -> 1 .. Len(Tail(left))] :
         /\ \A k \in 1 .. m : r[k] = AsRead(Tail(left)[place[k]])
         /\ \A j, k \in 1 .. m : j < k => place[j] < place[k]
         /\ \A i \in 1 .. Len(Tail(left)) :
               Legal(Tail(left)[i]) <=> \E k \in 1 .. m : place[k] = i
  BY Zenon DEF Reads
<1> HIDE DEF n, m
<1> DEFINE place1 == [k \in 1 .. m |-> place[k] + 1]
<1>3. place1 \in [1 .. m -> 1 .. n]
  BY <1>1, SMT
<1>4. ASSUME NEW k \in 1 .. m PROVE r[k] = AsRead(left[place1[k]])
  <2>1. place1[k] = place[k] + 1 /\ place[k] \in 1 .. Len(Tail(left))
    BY SMT
  <2> QED
    BY <1>1, <1>2, <2>1, Zenon
<1>5. ASSUME NEW j \in 1 .. m, NEW k \in 1 .. m, j < k
      PROVE  place1[j] < place1[k]
  <2>1. place[j] < place[k]
    BY <1>2, <1>5, Zenon
  <2>2. place[j] \in Int /\ place[k] \in Int
    BY <1>1, SMT
  <2> QED
    BY <2>1, <2>2, SMT
<1>6. ASSUME NEW i \in 1 .. n
      PROVE  Legal(left[i]) <=> \E k \in 1 .. m : place1[k] = i
  <2>1. ASSUME NEW k \in 1 .. m
        PROVE  place1[k] = place[k] + 1 /\ place[k] \in 1 .. Len(Tail(left))
    BY SMT
  <2>2. CASE i = 1
    <3>1. ASSUME NEW k \in 1 .. m PROVE place1[k] # i
      BY <1>1, <2>1, <2>2, SMT
    <3> QED
      BY <1>1, <2>2, <3>1, Zenon
  <2>3. CASE i # 1
    <3>1. PICK h \in 1 .. Len(Tail(left)) : i = h + 1
      BY <1>1, <2>3, SMT
    <3>2. left[i] = Tail(left)[h]
      BY <1>1, <3>1, Zenon
    <3>3. ASSUME NEW k \in 1 .. m PROVE place1[k] = i <=> place[k] = h
      BY <1>1, <2>1, <3>1, SMT
    <3> QED
      BY <1>2, <3>2, <3>3, Zenon
  <2> QED
    BY <2>2, <2>3
<1> HIDE DEF place1
<1> QED
  BY <1>3, <1>4, <1>5, <1>6, Zenon DEF Reads, n, m

-----------------------------------------------------------------------------
(* The loops, together.                                                    *)

Regroups(a, b, c) == (a \o b) \o c = a \o (b \o c)

LEMMA Regroup ==
    ASSUME NEW S, NEW a \in Seq(S), NEW b \in Seq(S), NEW c \in Seq(S)
    PROVE  Regroups(a, b, c)
BY Concat3, SMT DEF Regroups

(* The options left to write are sorted, and follow the last one written.  *)
InOrder(s) ==
    /\ \A i \in 1 .. Len(s.left) : s.prev <= s.left[i].id
    /\ \A i, j \in 1 .. Len(s.left) : i < j => s.left[i].id <= s.left[j].id

(* What may follow the options: nothing, or the payload after its marker.  *)
Ending(t) == t = <<>> \/ t[1] = 255

(* e is what the loop still writes from s, and is read as r.               *)
Carries(s, e, r) ==
    /\ WriteOptions[s] = s.out \o e
    /\ Reads(r, s.left)
    /\ \A opts \in Seq(Option), t \in Seq(Byte) :
          Ending(t) =>
             ParseOptions[[prev |-> s.prev, opts |-> opts, b |-> e \o t]]
                = {[opts |-> opts \o r, payload |-> From(t, 2)]}

Carried(s) == \E e \in Seq(Byte), r \in Seq(Option) : Carries(s, e, r)

LEMMA ReadingType ==
    ASSUME NEW prev \in Byte, NEW opts \in Seq(Option), NEW b \in Seq(Byte)
    PROVE  [prev |-> prev, opts |-> opts, b |-> b] \in Reading
BY SMT DEF Reading

LEMMA WritingParts ==
    ASSUME NEW s \in Writing
    PROVE  s.prev \in Byte /\ s.left \in Seq(Option) /\ s.out \in Seq(Byte)
BY Zenon DEF Writing

LEMMA CarriedNone ==
    ASSUME NEW s \in Writing, s.left = <<>>
    PROVE  Carried(s)
<1>1. s.prev \in Byte /\ s.out \in Seq(Byte)
  BY WritingParts, Zenon
<1>2. WriteOptions[s] = s.out \o <<>>
  BY <1>1, WriteLoop, ConcatEmpty, Zenon
<1>3. Reads(<<>>, s.left)
  BY ReadsNone, Zenon
<1>4. ASSUME NEW opts \in Seq(Option), NEW t \in Seq(Byte), Ending(t)
      PROVE  ParseOptions[[prev |-> s.prev, opts |-> opts, b |-> <<>> \o t]]
                = {[opts |-> opts \o <<>>, payload |-> From(t, 2)]}
  <2> DEFINE u == [prev |-> s.prev, opts |-> opts, b |-> t]
  <2>1. <<>> \o t = t /\ opts \o <<>> = opts
    BY ConcatEmpty, Zenon
  <2>2. u \in Reading
    BY <1>1, ReadingType, Zenon
  <2>3. u.b = t /\ u.opts = opts
    BY SMT
  <2>4. AtEnd(u)
    <3> HIDE DEF u
    <3> QED
      BY <1>4, <2>3, SMT DEF Ending, AtEnd
  <2> HIDE DEF u
  <2>5. ParseOptions[u] = {[opts |-> u.opts, payload |-> From(u.b, 2)]}
    BY <2>2, <2>4, ReadSteps, Zenon
  <2> QED
    BY <2>1, <2>3, <2>5, Zenon DEF u
<1>5. <<>> \in Seq(Byte) /\ <<>> \in Seq(Option)
  BY SMT
<1>6. Carries(s, <<>>, <<>>)
  BY <1>2, <1>3, <1>4, Zenon DEF Carries
<1> QED
  BY <1>5, <1>6, Zenon DEF Carried

LEMMA InOrderNext ==
    ASSUME NEW s \in Writing, s.left # <<>>, InOrder(s)
    PROVE  InOrder(WriteOption(s)) /\ s.prev <= Head(s.left).id
<1> DEFINE left == s.left
           o == Head(left)
           tail == Tail(left)
<1>1. left \in Seq(Option)
  BY WritingParts, Zenon
<1>2. /\ Len(left) \in Nat /\ Len(left) = Len(tail) + 1 /\ Len(tail) \in Nat
      /\ left[1] = o
      /\ \A i \in 1 .. Len(tail) : left[i + 1] = tail[i]
  BY <1>1, ConsParts, SMT
<1>3. s.prev <= o.id
  BY <1>2, SMT DEF InOrder
<1>4. WriteOption(s).prev = o.id /\ WriteOption(s).left = tail
  BY SMT DEF WriteOption
<1>5. ASSUME NEW i \in 1 .. Len(tail) PROVE o.id <= tail[i].id
  <2>1. 1 \in 1 .. Len(left) /\ i + 1 \in 1 .. Len(left) /\ 1 < i + 1
    BY <1>2, SMT
  <2>2. left[1].id <= left[i + 1].id
    BY <2>1, Zenon DEF InOrder
  <2> QED
    BY <1>2, <2>2, Zenon
<1>6. ASSUME NEW i \in 1 .. Len(tail), NEW j \in 1 .. Len(tail), i < j
      PROVE  tail[i].id <= tail[j].id
  <2>1. j + 1 \in 1 .. Len(left) /\ i + 1 \in 1 .. Len(left) /\ i + 1 < j + 1
    BY <1>2, <1>6, SMT
  <2>2. left[i + 1].id <= left[j + 1].id
    BY <2>1, Zenon DEF InOrder
  <2> QED
    BY <1>2, <2>2, Zenon
<1> HIDE DEF tail, o
<1> QED
  BY <1>3, <1>4, <1>5, <1>6, Zenon DEF InOrder, o

LEMMA CarriedNext ==
    ASSUME NEW s \in Writing, s.left # <<>>, InOrder(s), Carried(WriteOption(s))
    PROVE  Carried(s)
<1> DEFINE o == Head(s.left)
           val == toBytes(o)
           h == OptHeader(o.id - s.prev, Len(val))
           v == parseOptionValue(o.id, val)
           w == WriteOption(s)
<1>1. s.prev \in Byte /\ s.left \in Seq(Option) /\ s.out \in Seq(Byte)
  BY WritingParts, Zenon
<1>2. o \in Option /\ Tail(s.left) \in Seq(Option)
  BY <1>1, ConsParts, Zenon
<1>3. o.id \in Byte /\ val \in Seq(Byte) /\ Len(val) \in 0 .. MaxLength
  BY <1>2, OptionFacts, ToBytesType, Zenon
<1>4. w \in Writing /\ InOrder(w) /\ s.prev <= o.id
  BY WriteOptionType, InOrderNext, Zenon
<1>5. w.prev = o.id /\ w.left = Tail(s.left) /\ w.out = (s.out \o h) \o val
  <2>1. w = [prev |-> o.id, left |-> Tail(s.left), out |-> (s.out \o h) \o val]
    BY Zenon DEF WriteOption
  <2> HIDE DEF w, o, val, h
  <2> QED
    BY <2>1, SMT
<1>6. h \in Seq(Byte)
  <2>1. o.id - s.prev \in Int /\ Len(val) \in Int
    <3> HIDE DEF val
    <3> QED
      BY <1>1, <1>3, <1>4, Deltas, Zenon
  <2> HIDE DEF val
  <2> QED
    BY <2>1, OptHeaderType, Zenon
<1>7. v \in Seq(Option)
  <2> HIDE DEF val
  <2> QED
    BY <1>3, ParsedValueType, Zenon
<1>8. v = IF Legal(o) THEN <<AsRead(o)>> ELSE <<>>
  BY <1>2, ParsedValue, Zenon
<1>9. PICK e1 \in Seq(Byte) : \E r1 \in Seq(Option) : Carries(w, e1, r1)
  BY Zenon DEF Carried
<1>10. PICK r1 \in Seq(Option) : Carries(w, e1, r1)
  BY <1>9, Zenon
<1> DEFINE e == (h \o val) \o e1
           r == v \o r1
<1>11. e \in Seq(Byte) /\ r \in Seq(Option)
  <2> HIDE DEF h, val, v
  <2> QED
    BY <1>3, <1>6, <1>7, ConcatType, Zenon
<1>12. WriteOptions[s] = s.out \o e
  <2>1. WriteOptions[s] = WriteOptions[w]
    BY WriteLoop, Zenon
  <2>2. WriteOptions[w] = w.out \o e1
    BY <1>10, Zenon DEF Carries
  <2> HIDE DEF h, val, w
  <2>3. (s.out \o h) \o val = s.out \o (h \o val)
    <3>1. Regroups(s.out, h, val)
      BY <1>1, <1>3, <1>6, Regroup, Zenon
    <3> QED
      BY <3>1 DEF Regroups
  <2>4. (s.out \o (h \o val)) \o e1 = s.out \o e
    <3>1. h \o val \in Seq(Byte)
      BY <1>3, <1>6, ConcatType, Zenon
    <3> QED
      <4>1. Regroups(s.out, h \o val, e1)
        BY <1>1, <3>1, Regroup, Zenon
      <4> QED
        BY <4>1 DEF Regroups
  <2> QED
    BY <1>5, <2>1, <2>2, <2>3, <2>4, Zenon
<1>13. Reads(r, s.left)
  <2>1. Reads(r1, Tail(s.left))
    BY <1>5, <1>10, Zenon DEF Carries
  <2>2. CASE Legal(o)
    <3>1. v = <<AsRead(o)>>
      BY <1>8, <2>2, Zenon
    <3>2. PICK x \in Option : x = AsRead(o)
      <4> HIDE DEF v
      <4>1. \A y : <<y>> \in Seq(Option) => y \in Option
        BY SMT
      <4> QED
        BY <1>7, <3>1, <4>1, Zenon
    <3> HIDE DEF v
    <3> QED
      BY <1>1, <2>1, <2>2, <3>1, <3>2, ReadsLegal, Zenon
  <2>3. CASE ~Legal(o)
    <3>1. v = <<>>
      BY <1>8, <2>3, Zenon
    <3>2. r = r1
      <4> HIDE DEF v
      <4> QED
        BY <3>1, ConcatEmpty, Zenon
    <3> HIDE DEF r
    <3> QED
      BY <1>1, <2>1, <2>3, <3>2, ReadsIllegal, Zenon
  <2> QED
    BY <2>2, <2>3, Zenon
<1>14. ASSUME NEW opts \in Seq(Option), NEW t \in Seq(Byte), Ending(t)
       PROVE  ParseOptions[[prev |-> s.prev, opts |-> opts, b |-> e \o t]]
                 = {[opts |-> opts \o r, payload |-> From(t, 2)]}
  <2> DEFINE rest == e1 \o t
             b == e \o t
             u == [prev |-> s.prev, opts |-> opts, b |-> b]
             u1 == [prev |-> o.id, opts |-> opts \o v, b |-> rest]
  <2>1. rest \in Seq(Byte) /\ opts \o v \in Seq(Option)
    <3> HIDE DEF v
    <3> QED
      BY <1>7, ConcatType, Zenon
  <2>2. b = h \o (val \o rest)
    <3> HIDE DEF h, val
    <3>1. h \o val \in Seq(Byte)
      BY <1>3, <1>6, ConcatType, Zenon
    <3>2. ((h \o val) \o e1) \o t = (h \o val) \o (e1 \o t)
      <4>1. Regroups(h \o val, e1, t)
        BY <3>1, Regroup, Zenon
      <4> QED
        BY <4>1 DEF Regroups
    <3>3. (h \o val) \o (e1 \o t) = h \o (val \o (e1 \o t))
      <4>1. Regroups(h, val, e1 \o t)
        BY <1>3, <1>6, <2>1, Regroup, Zenon
      <4> QED
        BY <4>1 DEF Regroups
    <3> QED
      BY <3>2, <3>3, Zenon
  <2>3. Turn(u, u1)
    <3> HIDE DEF rest, b
    <3> QED
      BY <1>1, <1>2, <1>4, <2>1, <2>2, OptionReadsBack, Zenon
  <2>6. ParseOptions[u] = ParseOptions[u1]
    <3> HIDE DEF u, u1
    <3>1. u \in Reading
      BY <2>3, Zenon DEF Turn
    <3> QED
      BY <2>3, <3>1, ReadSteps, Zenon
  <2>7. ParseOptions[u1] = {[opts |-> (opts \o v) \o r1, payload |-> From(t, 2)]}
    <3>1. \A i \in Seq(Option), j \in Seq(Byte) :
             Ending(j) =>
                ParseOptions[[prev |-> w.prev, opts |-> i, b |-> e1 \o j]]
                   = {[opts |-> i \o r1, payload |-> From(j, 2)]}
      BY <1>10, Zenon DEF Carries
    <3> HIDE DEF v, w, o
    <3> QED
      BY <1>5, <1>14, <2>1, <3>1, Zenon
  <2>8. (opts \o v) \o r1 = opts \o r
    <3> HIDE DEF v
    <3> QED
      <4>1. Regroups(opts, v, r1)
        BY <1>7, Regroup, Zenon
      <4> QED
        BY <4>1 DEF Regroups
  <2> QED
    BY <2>6, <2>7, <2>8, Zenon
<1> HIDE DEF e, r
<1>15. Carries(s, e, r)
  BY <1>12, <1>13, <1>14, Zenon DEF Carries
<1> QED
  BY <1>11, <1>15, Zenon DEF Carried

LEMMA AllCarried ==
    ASSUME NEW s \in Writing, InOrder(s)
    PROVE  Carried(s)
<1> DEFINE X == {t \in Writing : InOrder(t) /\ ~Carried(t)}
           size == [t \in X |-> Len(t.left)]
<1>1. size \in [X -> Nat]
  <2>1. \A t \in Writing : Len(t.left) \in Nat
    <3>1. \A l \in Seq(Option) : Len(l) \in Nat
      BY SMT
    <3> QED
      BY <3>1, WritingParts, Zenon
  <2> QED
    BY <2>1, Zenon
<1>2. ASSUME NEW t \in X PROVE \E u \in X : size[u] < size[t]
  <2>1. t \in Writing /\ InOrder(t) /\ ~Carried(t)
    BY Zenon
  <2>2. t.left # <<>>
    BY <2>1, CarriedNone, Zenon
  <2> DEFINE u == WriteOption(t)
  <2>3. u \in Writing /\ Len(u.left) < Len(t.left)
    BY <2>1, <2>2, WriteOptionType, Zenon
  <2>4. InOrder(u) /\ ~Carried(u)
    BY <2>1, <2>2, InOrderNext, CarriedNext, Zenon
  <2> HIDE DEF u
  <2>5. u \in X
    BY <2>3, <2>4, Zenon
  <2>6. size[u] = Len(u.left) /\ size[t] = Len(t.left)
    <3> HIDE DEF X
    <3> QED
      BY <2>5, Zenon
  <2> HIDE DEF X, size
  <2> QED
    BY <2>3, <2>5, <2>6, Zenon
<1>3. X = {}
  <2> HIDE DEF X, size
  <2> QED
    BY <1>1, <1>2, NoShortest, Zenon
<1> QED
  BY <1>3, Zenon

LEMMA AsReadId ==
    ASSUME NEW o \in Option
    PROVE  AsRead(o).id = o.id
<1>1. o = [id |-> o.id, kind |-> o.kind, val |-> o.val]
  BY OptionFacts, Zenon
<1> QED
  BY <1>1, SMT DEF AsRead

LEMMA OptionsCarried ==
    ASSUME NEW opts \in Seq(Option)
    PROVE  /\ OptionBytes(opts) \in Seq(Byte)
           /\ \E r \in Seq(Option) :
                 /\ Reads(r, Sorted(opts))
                 /\ \A t \in Seq(Byte) : Ending(t) =>
                       ParseOptions[[prev |-> 0, opts |-> <<>>,
                                     b |-> OptionBytes(opts) \o t]]
                          = {[opts |-> r, payload |-> From(t, 2)]}
<1> DEFINE left == Sorted(opts)
           s == [prev |-> 0, left |-> left, out |-> <<>>]
<1>1. 0 \in Byte /\ <<>> \in Seq(Byte) /\ <<>> \in Seq(Option)
  BY SMT DEF Byte
<1>2. left \in Seq(Option) /\ Len(left) = Len(opts) /\ DOMAIN opts = 1 .. Len(opts)
  BY SortedPlaces, BeforeOrders, Zenon
<1>3. PICK place \in [DOMAIN opts -> DOMAIN opts] :
         /\ \A k \in DOMAIN opts : left[k] = opts[place[k]]
         /\ \A j, k \in DOMAIN opts : j < k => Before(opts, place[j], place[k])
  BY SortedPlaces, Zenon
<1>4. s.prev = 0 /\ s.left = left /\ s.out = <<>>
  <2> HIDE DEF left
  <2> QED
    BY SMT
<1>5. s \in Writing
  <2> HIDE DEF left
  <2> QED
    BY <1>1, <1>2, SMT DEF Writing
<1>6. ASSUME NEW i \in 1 .. Len(left) PROVE left[i].id \in Byte /\ 0 <= left[i].id
  <2> HIDE DEF left
  <2>1. left[i].id \in Byte
    BY <1>2, Element, OptionFacts, Zenon
  <2>2. \A b \in Byte : 0 <= b
    BY SMT DEF Byte
  <2> QED
    BY <2>1, <2>2, Zenon
<1>7. ASSUME NEW i \in 1 .. Len(left), NEW j \in 1 .. Len(left), i < j
      PROVE  left[i].id <= left[j].id
  <2> HIDE DEF left
  <2>1. Before(opts, place[i], place[j])
    BY <1>2, <1>3, <1>7, Zenon
  <2>2. left[i] = opts[place[i]] /\ left[j] = opts[place[j]]
    BY <1>2, <1>3, Zenon
  <2>3. left[i].id < left[j].id \/ left[i].id = left[j].id
    BY <2>1, <2>2, Zenon DEF Before
  <2>4. \A a, b \in Byte : a < b \/ a = b => a <= b
    BY SMT DEF Byte
  <2> QED
    BY <1>6, <2>3, <2>4, Zenon
<1>8. InOrder(s)
  <2> HIDE DEF left, s
  <2> QED
    BY <1>4, <1>6, <1>7, Zenon DEF InOrder
<1>9. PICK e \in Seq(Byte) : \E r \in Seq(Option) : Carries(s, e, r)
  <2> HIDE DEF s
  <2> QED
    BY <1>5, <1>8, AllCarried, Zenon DEF Carried
<1>10. PICK r \in Seq(Option) : Carries(s, e, r)
  BY <1>9, Zenon
<1>11. OptionBytes(opts) = e
  <2>1. OptionBytes(opts) = WriteOptions[s]
    BY Zenon DEF OptionBytes
  <2> HIDE DEF s
  <2> QED
    BY <1>4, <1>10, <2>1, ConcatEmpty, Zenon DEF Carries
<1>12. Reads(r, left)
  <2> HIDE DEF s, left
  <2> QED
    BY <1>4, <1>10, Zenon DEF Carries
<1>13. ASSUME NEW t \in Seq(Byte), Ending(t)
       PROVE  ParseOptions[[prev |-> 0, opts |-> <<>>, b |-> e \o t]]
                 = {[opts |-> r, payload |-> From(t, 2)]}
  <2> HIDE DEF s
  <2>1. ParseOptions[[prev |-> s.prev, opts |-> <<>>, b |-> e \o t]]
           = {[opts |-> <<>> \o r, payload |-> From(t, 2)]}
    BY <1>1, <1>10, <1>13, Zenon DEF Carries
  <2>2. <<>> \o r = r
    BY ConcatEmpty, Zenon
  <2> QED
    BY <1>4, <2>1, <2>2, Zenon
<1> HIDE DEF s, left
<1> QED
  BY <1>11, <1>12, <1>13, Zenon DEF left

(* What is read of the sorted options is what a receiver is meant to see.  *)
LEMMA ReadsShows ==
    ASSUME NEW m, NEW r, m.opts \in Seq(Option), r.opts \in Seq(Option),
           Header(r) = Header(m), Reads(r.opts, Sorted(m.opts))
    PROVE  Shows(r, m)
<1> DEFINE opts == m.opts
           left == Sorted(opts)
<1>1. DOMAIN opts = 1 .. Len(opts) /\ DOMAIN r.opts = 1 .. Len(r.opts)
  BY BeforeOrders, Zenon
<1>2. Len(left) = Len(opts)
  BY SortedPlaces, Zenon
<1>3. PICK p \in [DOMAIN opts -> DOMAIN opts] :
         /\ \A k \in DOMAIN opts : left[k] = opts[p[k]]
         /\ \A j, k \in DOMAIN opts : j < k => Before(opts, p[j], p[k])
         /\ \A i \in DOMAIN opts : \E k \in DOMAIN opts : p[k] = i
  BY SortedPlaces, Zenon
<1>4. PICK q \in [1 .. Len(r.opts) -> 1 .. Len(left)] :
         /\ \A k \in 1 .. Len(r.opts) : r.opts[k] = AsRead(left[q[k]])
         /\ \A j, k \in 1 .. Len(r.opts) : j < k => q[j] < q[k]
         /\ \A i \in 1 .. Len(left) :
               Legal(left[i]) <=> \E k \in 1 .. Len(r.opts) : q[k] = i
  BY Zenon DEF Reads
<1> HIDE DEF left, opts
<1> DEFINE D == DOMAIN r.opts
           place == [k \in D |-> p[q[k]]]
<1>5. ASSUME NEW k \in D PROVE q[k] \in DOMAIN opts
  BY <1>1, <1>2, <1>4, Zenon
<1>6. place \in [D -> DOMAIN opts]
  <2> HIDE DEF D
  <2> QED
    BY <1>3, <1>5, Zenon
<1>7. ASSUME NEW k \in D PROVE r.opts[k] = AsRead(opts[place[k]])
  <2>1. left[q[k]] = opts[p[q[k]]]
    BY <1>3, <1>5, Zenon
  <2>2. place[k] = p[q[k]]
    BY Zenon
  <2>3. r.opts[k] = AsRead(left[q[k]])
    BY <1>1, <1>4, Zenon
  <2> QED
    BY <2>1, <2>2, <2>3, Zenon
<1>8. {place[k] : k \in D} = {i \in DOMAIN opts : Legal(opts[i])}
  <2>1. ASSUME NEW k \in D PROVE Legal(opts[place[k]])
    <3>1. Legal(left[q[k]])
      BY <1>1, <1>2, <1>4, <1>5, Zenon
    <3>2. left[q[k]] = opts[p[q[k]]] /\ place[k] = p[q[k]]
      BY <1>3, <1>5, Zenon
    <3> QED
      BY <3>1, <3>2, Zenon
  <2>2. ASSUME NEW i \in DOMAIN opts, Legal(opts[i])
        PROVE  \E k \in D : place[k] = i
    <3>1. PICK l \in DOMAIN opts : p[l] = i
      BY <1>3, Zenon
    <3>2. Legal(left[l])
      BY <1>3, <2>2, <3>1, Zenon
    <3>3. PICK k \in D : q[k] = l
      BY <1>1, <1>2, <1>4, <3>2, Zenon
    <3>4. place[k] = i
      BY <3>1, <3>3, Zenon
    <3> QED
      BY <3>4, Zenon
  <2> HIDE DEF place, D
  <2> QED
    BY <1>6, <2>1, <2>2, Zenon
<1>9. ASSUME NEW j \in D, NEW k \in D, j < k
      PROVE  \/ r.opts[j].id < r.opts[k].id
             \/ r.opts[j].id = r.opts[k].id /\ place[j] < place[k]
  <2>1. q[j] < q[k] /\ q[j] \in DOMAIN opts /\ q[k] \in DOMAIN opts
    BY <1>1, <1>4, <1>5, <1>9, Zenon
  <2>2. Before(opts, p[q[j]], p[q[k]])
    BY <1>3, <2>1, Zenon
  <2>3. place[j] = p[q[j]] /\ place[k] = p[q[k]]
    BY Zenon
  <2> HIDE DEF place
  <2>4. place[j] \in DOMAIN opts /\ place[k] \in DOMAIN opts
    BY <1>6, Zenon
  <2>5. opts[place[j]] \in Option /\ opts[place[k]] \in Option
    BY <1>1, <2>4, Element, Zenon DEF opts
  <2>6. r.opts[j].id = opts[place[j]].id /\ r.opts[k].id = opts[place[k]].id
    BY <1>7, <2>5, AsReadId, Zenon
  <2> QED
    BY <2>2, <2>3, <2>6, Zenon DEF Before
<1> HIDE DEF place
<1>10. \E f \in [DOMAIN r.opts -> DOMAIN opts] :
          /\ \A k \in DOMAIN r.opts : r.opts[k] = AsRead(opts[f[k]])
          /\ {f[k] : k \in DOMAIN r.opts} = {i \in DOMAIN opts : Legal(opts[i])}
          /\ \A j, k \in DOMAIN r.opts : j < k =>
                \/ r.opts[j].id < r.opts[k].id
                \/ r.opts[j].id = r.opts[k].id /\ f[j] < f[k]
  BY <1>6, <1>7, <1>8, <1>9, Zenon
<1> QED
  BY <1>10, Zenon DEF Shows, opts

-----------------------------------------------------------------------------
(* Datagrams                                                               *)

(* The four bytes of the header, and what it says.                         *)
Heads(h, m) ==
    /\ h \in Seq(Byte) /\ Len(h) = 4
    /\ h[1] \div 64 = 1 /\ (h[1] \div 16) % 4 = m.type
    /\ Len(m.token) < 16 => h[1] % 16 = Len(m.token)
    /\ h[2] = m.code
    /\ 256 * h[3] + h[4] = m.id

(* The first byte, of a message of this type with n bytes of token.        *)
FirstOf(b, type, n) ==
    /\ b = 64 + 16 * type + (n % 16)
    /\ b \div 64 = 1 /\ (b \div 16) % 4 = type
    /\ n < 16 => b % 16 = n

LEMMA HeadByte ==
    ASSUME NEW type \in 0 .. 3, NEW n \in Nat
    PROVE  \E b \in Byte : FirstOf(b, type, n)
<1>1. PICK k \in 0 .. 15 : k = n % 16 /\ (n < 16 => k = n)
  BY SMT
<1>2. PICK b \in Byte : b = 64 + 16 * type + k
  BY SMT DEF Byte
<1>3. b \div 64 = 1 /\ (b \div 16) % 4 = type /\ b % 16 = k
  BY <1>2, SMT
<1>4. FirstOf(b, type, n)
  BY <1>1, <1>2, <1>3, SMT DEF FirstOf
<1> QED
  BY <1>4, Zenon

LEMMA FourBytes ==
    ASSUME NEW x1 \in Byte, NEW x2 \in Byte, NEW x3 \in Byte, NEW x4 \in Byte
    PROVE  LET h == <<x1, x2, x3, x4>>
           IN  /\ h \in Seq(Byte) /\ Len(h) = 4
               /\ h[1] = x1 /\ h[2] = x2 /\ h[3] = x3 /\ h[4] = x4
BY SMT

LEMMA MessageParts ==
    ASSUME NEW m \in Messages
    PROVE  /\ m.type \in 0 .. 3 /\ m.code \in Byte /\ m.id \in UInt16
           /\ m.token \in Seq(Byte) /\ m.payload \in Seq(Byte)
           /\ m.opts \in Seq(Option) /\ Len(m.token) \in Nat
           /\ m = [type |-> m.type, code |-> m.code, id |-> m.id,
                   token |-> m.token, payload |-> m.payload, opts |-> m.opts]
<1>1. m \in [type : 0 .. 3, code : Byte, id : UInt16, token : Seq(Byte),
             payload : Seq(Byte), opts : Seq(Option)]
  BY Zenon DEF Messages
<1>2. /\ m.type \in 0 .. 3 /\ m.code \in Byte /\ m.id \in UInt16
      /\ m.token \in Seq(Byte) /\ m.payload \in Seq(Byte) /\ m.opts \in Seq(Option)
  BY <1>1, Zenon
<1>4. m = [type |-> m.type, code |-> m.code, id |-> m.id,
           token |-> m.token, payload |-> m.payload, opts |-> m.opts]
  BY <1>1, Zenon
<1>5. \A w \in Seq(Byte) : Len(w) \in Nat
  BY SMT
<1> QED
  BY <1>2, <1>4, <1>5, Zenon

LEMMA TwoBytes ==
    ASSUME NEW v \in UInt16
    PROVE  \E hi, lo \in Byte : Word(v) = <<hi, lo>> /\ v = 256 * hi + lo
<1>1. v \in Nat /\ v \div 256 \in Byte
  BY DEF UInt16
<1>2. PICK hi \in Byte : hi = v \div 256
  BY <1>1
<1>3. PICK lo \in Byte : lo = v % 256
  BY <1>1, SMT DEF Byte
<1>4. hi % 256 = hi
  BY SMT DEF Byte
<1>5. v = 256 * hi + lo
  BY <1>1, <1>2, <1>3, SMT DEF Byte
<1>6. Word(v) = <<hi, lo>>
  BY <1>2, <1>3, <1>4 DEF Word
<1> QED
  BY <1>5, <1>6, Zenon

(* The elements of a concatenation c.                                      *)
Follows(a, b, c) ==
    /\ \A i \in 1 .. Len(a) : c[i] = a[i]
    /\ \A i \in 1 .. Len(b) : c[Len(a) + i] = b[i]

LEMMA ConcatElements ==
    ASSUME NEW S, NEW a \in Seq(S), NEW b \in Seq(S)
    PROVE  Follows(a, b, a \o b)
<1>1. /\ \A i \in 1 .. Len(a) : (a \o b)[i] = a[i]
      /\ \A i \in 1 .. Len(b) : (a \o b)[Len(a) + i] = b[i]
  BY SMT
<1> QED
  BY <1>1 DEF Follows

(* A payload behind its marker.                                            *)
Mark(payload) == IF payload = <<>> THEN <<>> ELSE <<255>>

LEMMA MarkedPayload ==
    ASSUME NEW payload \in Seq(Byte)
    PROVE  /\ Mark(payload) \in Seq(Byte)
           /\ Mark(payload) \o payload \in Seq(Byte)
           /\ Ending(Mark(payload) \o payload)
           /\ From(Mark(payload) \o payload, 2) = payload
<1> DEFINE t == Mark(payload) \o payload
<1>1. CASE payload = <<>>
  <2>1. t = <<>>
    BY <1>1, SMT DEF Mark
  <2>2. SubSeq(<<>>, 2, Len(<<>>)) = <<>>
    BY SMT
  <2>3. <<>> \in Seq(Byte)
    BY SMT
  <2>5. Mark(payload) = <<>>
    BY <1>1 DEF Mark
  <2>4. From(<<>>, 2) = <<>>
    BY <2>2 DEF From
  <2> QED
    BY <1>1, <2>1, <2>3, <2>4, <2>5 DEF Ending
<1>2. CASE payload # <<>>
  <2>1. PICK x \in Byte : x = 255
    BY SMT DEF Byte
  <2>2. t = <<x>> \o payload
    BY <1>2, <2>1 DEF Mark
  <2>3. t \in Seq(Byte) /\ t[1] = x
    BY <2>2, SMT
  <2>4. <<x>> \in Seq(Byte) /\ Len(<<x>>) + 1 = 2
    BY SMT
  <2>5. From(t, 2) = payload
    <3>1. From(<<x>> \o payload, Len(<<x>>) + 1) = payload
      BY <2>4, TakeFront, Zenon
    <3> QED
      BY <2>2, <2>4, <3>1
  <2>6. Mark(payload) = <<x>>
    BY <1>2, <2>1 DEF Mark
  <2>7. Ending(t)
    <3> HIDE DEF t
    <3> QED
      BY <2>1, <2>3, SMT DEF Ending
  <2> QED
    BY <2>3, <2>4, <2>5, <2>6, <2>7
<1> QED
  BY <1>1, <1>2, Zenon

(* What a datagram consists of.                                            *)
Consists(data, h, token, rest) == data = h \o (token \o rest)

LEMMA MarshalParts ==
    ASSUME NEW m \in Messages
    PROVE  \E h, t \in Seq(Byte) :
              /\ Heads(h, m)
              /\ Ending(t) /\ From(t, 2) = m.payload
              /\ OptionBytes(m.opts) \o t \in Seq(Byte)
              /\ Consists(MarshalBinary(m), h, m.token, OptionBytes(m.opts) \o t)
<1> DEFINE n == Len(m.token)
           e == OptionBytes(m.opts)
           mark == Mark(m.payload)
           t == mark \o m.payload
<1>1. /\ m.type \in 0 .. 3 /\ m.code \in Byte /\ m.id \in UInt16
      /\ m.token \in Seq(Byte) /\ m.payload \in Seq(Byte)
      /\ m.opts \in Seq(Option) /\ n \in Nat
  BY MessageParts, Zenon
<1>2. PICK b1 \in Byte : FirstOf(b1, m.type, n)
  <2> HIDE DEF n
  <2> QED
    BY <1>1, HeadByte, Zenon
<1>3. PICK b3 \in Byte, b4 \in Byte : Word(m.id) = <<b3, b4>> /\ m.id = 256 * b3 + b4
  BY <1>1, TwoBytes
<1> DEFINE h == <<b1, m.code, b3, b4>>
<1>4. /\ h \in Seq(Byte) /\ Len(h) = 4
      /\ h[1] = b1 /\ h[2] = m.code /\ h[3] = b3 /\ h[4] = b4
  BY <1>1, FourBytes
<1>5. Heads(h, m)
  <2> HIDE DEF h
  <2> QED
    BY <1>2, <1>3, <1>4 DEF Heads, FirstOf
<1>6. t \in Seq(Byte) /\ Ending(t) /\ From(t, 2) = m.payload
  BY <1>1, MarkedPayload, Zenon
<1>7. e \in Seq(Byte)
  BY <1>1, OptionsCarried, Zenon
<1>8. mark \in Seq(Byte)
  BY <1>1, MarkedPayload, Zenon
<1>9. MarshalBinary(m) = (((h \o m.token) \o e) \o mark) \o m.payload
  <2>1. Word(m.id)[1] = b3 /\ Word(m.id)[2] = b4
    BY <1>3, SMT
  <2> HIDE DEF e, mark
  <2> QED
    BY <1>2, <2>1 DEF MarshalBinary, FirstOf, e, mark, Mark
<1>10. e \o t \in Seq(Byte)
  <2> HIDE DEF e, t
  <2> QED
    BY <1>6, <1>7, ConcatType, Zenon
<1>11. Consists(MarshalBinary(m), h, m.token, e \o t)
  <2> HIDE DEF h, e, mark
  <2>1. h \o m.token \in Seq(Byte)
    BY <1>1, <1>4, ConcatType, Zenon
  <2>2. (h \o m.token) \o e \in Seq(Byte)
    BY <1>7, <2>1, ConcatType, Zenon
  <2>3. Regroups((h \o m.token) \o e, mark, m.payload)
    BY <1>1, <1>8, <2>2, Regroup, Zenon
  <2>4. t \in Seq(Byte)
    BY <1>6
  <2>5. Regroups(h \o m.token, e, t)
    <3> HIDE DEF t
    <3> QED
      BY <1>7, <2>1, <2>4, Regroup, Zenon
  <2>6. Regroups(h, m.token, e \o t)
    <3> HIDE DEF t
    <3> QED
      BY <1>1, <1>4, <1>10, Regroup, Zenon
  <2> QED
    BY <1>9, <2>3, <2>5, <2>6 DEF Regroups, Consists
<1>12. h \in Seq(Byte)
  BY <1>4
<1> HIDE DEF h, t
<1> QED
  BY <1>5, <1>6, <1>10, <1>11, <1>12, Zenon

LEMMA HeaderParts ==
    ASSUME NEW h \in Seq(Byte), Len(h) = 4, NEW token \in Seq(Byte),
           NEW rest \in Seq(Byte), NEW data, Consists(data, h, token, rest)
    PROVE  /\ data \in Seq(Byte) /\ Len(data) >= 4 + Len(token)
           /\ data[1] = h[1] /\ data[2] = h[2] /\ data[3] = h[3] /\ data[4] = h[4]
           /\ SubSeq(data, 5, 4 + Len(token)) = token
           /\ From(data, 5 + Len(token)) = rest
<1> DEFINE tail == token \o rest
           front == h \o token
<1>1. Len(token) \in Nat /\ Len(rest) \in Nat
  BY SMT
<1>2. tail \in Seq(Byte) /\ Len(tail) = Len(token) + Len(rest)
  BY SMT
<1>3. front \in Seq(Byte) /\ Len(front) = 4 + Len(token)
  BY ConcatType, Zenon
<1>4. data = h \o tail
  BY DEF Consists
<1>5. data = front \o rest
  <2>1. Regroups(h, token, rest)
    BY Regroup, Zenon
  <2> QED
    BY <1>4, <2>1 DEF Regroups
<1> HIDE DEF tail, front
<1>6. /\ data \in Seq(Byte) /\ Len(data) = 4 + Len(tail)
      /\ \A i \in 1 .. 4 : data[i] = h[i]
      /\ \A i \in 1 .. Len(tail) : data[4 + i] = tail[i]
  <2>1. Len(h) = 4
    OBVIOUS
  <2>2. Follows(h, tail, h \o tail)
    BY <1>2, ConcatElements, Zenon
  <2>3. h \o tail \in Seq(Byte) /\ Len(h \o tail) = Len(h) + Len(tail)
    BY <1>2, ConcatType, Zenon
  <2> QED
    BY <1>4, <2>1, <2>2, <2>3 DEF Follows
<1>7. Len(data) >= 4 + Len(token)
  BY <1>1, <1>2, <1>6, SMT
<1>8. data[1] = h[1] /\ data[2] = h[2] /\ data[3] = h[3] /\ data[4] = h[4]
  BY <1>6, SMT
<1>9. From(data, 5 + Len(token)) = rest
  <2>1. From(front \o rest, Len(front) + 1) = rest
    BY <1>3, TakeFront, Zenon
  <2>2. Len(front) + 1 = 5 + Len(token)
    BY <1>1, <1>3, SMT
  <2> QED
    BY <1>5, <2>1, <2>2
<1>10. SubSeq(data, 5, 4 + Len(token)) = token
  <2> DEFINE w == SubSeq(data, 5, 4 + Len(token))
  <2>1. w \in Seq(Byte) /\ Len(w) = Len(token)
    BY <1>1, <1>6, <1>7, SMT
  <2>2. \A i \in 1 .. Len(token) : w[i] = data[4 + i]
    BY <1>1, <1>6, <1>7, SMT
  <2>3. \A i \in 1 .. Len(token) : tail[i] = token[i]
    BY SMT DEF tail
  <2>4. \A i \in 1 .. Len(token) : i \in 1 .. Len(tail)
    BY <1>1, <1>2, SMT
  <2>5. \A i \in 1 .. Len(w) : w[i] = token[i]
    <3> HIDE DEF w
    <3> QED
      BY <1>6, <2>1, <2>2, <2>3, <2>4, Zenon
  <2> HIDE DEF w
  <2> QED
    BY <2>1, <2>5, SameBytes, Zenon DEF w
<1> QED
  BY <1>6, <1>7, <1>8, <1>9, <1>10, Zenon

(* What ParseMessage returns, given the loop's answer.                     *)
Decoded(data, body) ==
    [type    |-> (data[1] \div 16) % 4,
     code    |-> data[2],
     id      |-> 256 * data[3] + data[4],
     token   |-> SubSeq(data, 5, 4 + TokenLen(data)),
     payload |-> body.payload,
     opts    |-> body.opts]

Opening(data) ==
    [prev |-> 0, opts |-> <<>>, b |-> From(data, 5 + TokenLen(data))]

LEMMA ParseMessageAs ==
    ASSUME NEW data
    PROVE  ParseMessage(data) =
              IF ~HeaderAccepted(data) THEN {}
              ELSE {Decoded(data, body) : body \in ParseOptions[Opening(data)]}
BY Zenon DEF ParseMessage, Decoded, Opening

LEMMA HeaderNumbers ==
    ASSUME NEW b \in Byte, NEW hi \in Byte, NEW lo \in Byte
    PROVE  b % 16 \in Nat /\ (b \div 16) % 4 \in 0 .. 3 /\ 256 * hi + lo \in UInt16
<1>1. b \in Nat /\ b % 16 \in Nat /\ (b \div 16) % 4 \in 0 .. 3
  BY SMT DEF Byte
<1>2. 256 * hi + lo \in Nat /\ (256 * hi + lo) \div 256 = hi
  BY SMT DEF Byte
<1>3. 256 * hi + lo \in UInt16
  BY <1>2, SMT DEF UInt16
<1> QED
  BY <1>1, <1>3, Zenon

LEMMA OpeningType ==
    ASSUME NEW data \in Seq(Byte), HeaderAccepted(data)
    PROVE  Opening(data) \in Reading
<1>1. data[1] \in Byte
  BY SMT DEF HeaderAccepted
<1>2. TokenLen(data) \in Nat
  BY <1>1, HeaderNumbers, Zenon DEF TokenLen
<1> DEFINE b == From(data, 5 + TokenLen(data))
<1>3. 5 + TokenLen(data) \in Nat /\ 5 + TokenLen(data) >= 1
  BY <1>2, SMT
<1>4. b \in Seq(Byte)
  <2> DEFINE i == 5 + TokenLen(data)
  <2> HIDE DEF i
  <2>1. From(data, i) \in Seq(Byte)
    BY <1>3, FromType, Zenon DEF i
  <2> QED
    BY <2>1 DEF i
<1>5. 0 \in Byte /\ <<>> \in Seq(Option)
  BY SMT DEF Byte
<1> HIDE DEF b
<1>6. [prev |-> 0, opts |-> <<>>, b |-> b] \in Reading
  BY <1>4, <1>5, ReadingType, Zenon
<1> QED
  BY <1>6 DEF Opening, b

LEMMA DecodedType ==
    ASSUME NEW data \in Seq(Byte), HeaderAccepted(data), NEW body \in Bodies
    PROVE  /\ Decoded(data, body) \in Messages
           /\ Len(Decoded(data, body).token) <= 8
<1>1. /\ data[1] \in Byte /\ data[2] \in Byte /\ data[3] \in Byte /\ data[4] \in Byte
      /\ TokenLen(data) <= 8 /\ Len(data) >= 4 + TokenLen(data)
  BY SMT DEF HeaderAccepted
<1>2. (data[1] \div 16) % 4 \in 0 .. 3 /\ TokenLen(data) \in Nat
  BY <1>1, HeaderNumbers, Zenon DEF TokenLen
<1>3. 256 * data[3] + data[4] \in UInt16
  BY <1>1, HeaderNumbers, Zenon
<1> DEFINE token == SubSeq(data, 5, 4 + TokenLen(data))
<1>4. token \in Seq(Byte) /\ Len(token) = TokenLen(data)
  BY <1>1, <1>2, SMT
<1>5. body.opts \in Seq(Option) /\ body.payload \in Seq(Byte)
  BY Zenon DEF Bodies
<1> DEFINE id == 256 * data[3] + data[4]
           type == (data[1] \div 16) % 4
<1> HIDE DEF token, id, type
<1>6. [type |-> type, code |-> data[2], id |-> id, token |-> token,
       payload |-> body.payload, opts |-> body.opts] \in Messages
  BY <1>1, <1>2, <1>3, <1>4, <1>5, Zenon DEF Messages, id, type
<1>7. Decoded(data, body) = [type |-> type, code |-> data[2], id |-> id, token |-> token,
       payload |-> body.payload, opts |-> body.opts]
  BY DEF Decoded, token, id, type
<1>8. Len(token) <= 8
  BY <1>1, <1>4
<1> QED
  BY <1>6, <1>7, <1>8

(* Whatever datagram arrives, ParseMessage returns an error or exactly one *)
(* message, and what it returns is well formed: a token of at most eight   *)
(* bytes, every field within its width, every option with a value of the   *)
(* type that optionDefs gives its number and that MarshalBinary can write. *)
THEOREM ParsedWellFormed ==
    ASSUME NEW data \in Seq(Byte)
    PROVE  \/ ParseMessage(data) = {}
           \/ \E m \in Messages : Len(m.token) <= 8 /\ ParseMessage(data) = {m}
<1>1. CASE ~HeaderAccepted(data)
  BY <1>1, ParseMessageAs, Zenon
<1>2. CASE HeaderAccepted(data)
  <2>1. ParseMessage(data) = {Decoded(data, body) : body \in ParseOptions[Opening(data)]}
    BY <1>2, ParseMessageAs, Zenon
  <2>2. ParseOptions[Opening(data)] = {}
          \/ \E body \in Bodies : ParseOptions[Opening(data)] = {body}
    BY <1>2, OpeningType, ReadLoop, Zenon
  <2>3. CASE ParseOptions[Opening(data)] = {}
    BY <2>1, <2>3, Zenon
  <2>4. ASSUME NEW body \in Bodies, ParseOptions[Opening(data)] = {body}
        PROVE  \E m \in Messages : Len(m.token) <= 8 /\ ParseMessage(data) = {m}
    <3>1. ParseMessage(data) = {Decoded(data, body)}
      BY <2>1, <2>4, Zenon
    <3>2. Decoded(data, body) \in Messages /\ Len(Decoded(data, body).token) <= 8
      BY <1>2, DecodedType, Zenon
    <3> QED
      BY <3>1, <3>2
  <2> QED
    BY <2>2, <2>3, <2>4, Zenon
<1> QED
  BY <1>1, <1>2, Zenon

(* data starts with the header h, the token and then rest.                 *)
Laid(data, h, token, rest) ==
    /\ data \in Seq(Byte) /\ Len(data) >= 4 + Len(token)
    /\ data[1] = h[1] /\ data[2] = h[2] /\ data[3] = h[3] /\ data[4] = h[4]
    /\ SubSeq(data, 5, 4 + Len(token)) = token
    /\ From(data, 5 + Len(token)) = rest

LEMMA MessageLaid ==
    ASSUME NEW m, NEW h \in Seq(Byte), Heads(h, m), m.token \in Seq(Byte),
           NEW rest \in Seq(Byte), NEW data, Consists(data, h, m.token, rest)
    PROVE  Laid(data, h, m.token, rest)
<1>1. Len(h) = 4
  BY DEF Heads
<1> DEFINE token == m.token
<1> HIDE DEF token
<1>2. token \in Seq(Byte) /\ Consists(data, h, token, rest)
  BY DEF token
<1>3. /\ data \in Seq(Byte) /\ Len(data) >= 4 + Len(token)
      /\ data[1] = h[1] /\ data[2] = h[2] /\ data[3] = h[3] /\ data[4] = h[4]
      /\ SubSeq(data, 5, 4 + Len(token)) = token
      /\ From(data, 5 + Len(token)) = rest
  BY <1>1, <1>2, HeaderParts
<1> QED
  BY <1>3 DEF Laid, token

LEMMA SameHeader ==
    ASSUME NEW m \in Messages, NEW r
    PROVE  Header([type |-> m.type, code |-> m.code, id |-> m.id, token |-> m.token,
                   payload |-> m.payload, opts |-> r]) = Header(m)
<1>1. Header(m) = [type |-> m.type, code |-> m.code, id |-> m.id, token |-> m.token,
                   payload |-> m.payload, opts |-> <<>>]
  BY SMT DEF Header, Messages
<1> QED
  BY <1>1, SMT DEF Header

(* The bytes of a message: the header says how long the token is, unless   *)
(* it has sixteen bytes or more.                                           *)
LEMMA Datagram ==
    ASSUME NEW m \in Messages, Len(m.token) < 16
    PROVE  LET d == MarshalBinary(m)
           IN  /\ d \in Seq(Byte) /\ Len(d) >= 4 + TokenLen(d)
               /\ d[1] \div 64 = 1 /\ (d[1] \div 16) % 4 = m.type
               /\ d[2] = m.code /\ 256 * d[3] + d[4] = m.id
               /\ TokenLen(d) = Len(m.token)
               /\ SubSeq(d, 5, 4 + TokenLen(d)) = m.token
               /\ \E t \in Seq(Byte) :
                     /\ Ending(t) /\ From(t, 2) = m.payload
                     /\ From(d, 5 + TokenLen(d)) = OptionBytes(m.opts) \o t
<1> DEFINE d == MarshalBinary(m)
           e == OptionBytes(m.opts)
<1>1. PICK h \in Seq(Byte), t \in Seq(Byte) :
         /\ Heads(h, m)
         /\ Ending(t) /\ From(t, 2) = m.payload
         /\ e \o t \in Seq(Byte)
         /\ Consists(d, h, m.token, e \o t)
  BY MarshalParts, Zenon
<1>2. m.token \in Seq(Byte) /\ Len(h) = 4
  BY <1>1, MessageParts DEF Heads
<1> DEFINE rest == e \o t
<1> HIDE DEF d, e
<1>3. /\ d \in Seq(Byte) /\ Len(d) >= 4 + Len(m.token)
      /\ d[1] = h[1] /\ d[2] = h[2] /\ d[3] = h[3] /\ d[4] = h[4]
      /\ SubSeq(d, 5, 4 + Len(m.token)) = m.token
      /\ From(d, 5 + Len(m.token)) = rest
  <2>1. rest \in Seq(Byte) /\ Consists(d, h, m.token, rest)
    BY <1>1
  <2> HIDE DEF rest
  <2>2. Laid(d, h, m.token, rest)
    BY <1>1, <1>2, <2>1, MessageLaid, Zenon
  <2> QED
    BY <2>2 DEF Laid
<1>4. /\ h[1] \div 64 = 1 /\ (h[1] \div 16) % 4 = m.type
      /\ h[1] % 16 = Len(m.token)
      /\ h[2] = m.code /\ 256 * h[3] + h[4] = m.id
  BY <1>1 DEF Heads
<1>5. TokenLen(d) = Len(m.token)
  BY <1>3, <1>4 DEF TokenLen
<1>6. \E u \in Seq(Byte) :
         /\ Ending(u) /\ From(u, 2) = m.payload
         /\ From(d, 5 + TokenLen(d)) = e \o u
  BY <1>1, <1>3, <1>5
<1> QED
  BY <1>3, <1>4, <1>5, <1>6 DEF d, e

(* A message of any type, with any options in any order, a payload or none *)
(* and a token of at most eight bytes, is understood by the receiver of    *)
(* the datagram that MarshalBinary makes of it as it was meant: ParseMessage*)
(* returns one message, and Shows relates it to the one that was sent.     *)
THEOREM CodecRoundTrip ==
    ASSUME NEW m \in Messages, Len(m.token) <= 8
    PROVE  \E r \in Messages :
              ParseMessage(MarshalBinary(m)) = {r} /\ Shows(r, m)
<1> DEFINE d == MarshalBinary(m)
<1>1. Len(m.token) < 16 /\ m.opts \in Seq(Option)
  BY MessageParts, SMT
<1>2. /\ d \in Seq(Byte) /\ Len(d) >= 4 + TokenLen(d)
      /\ d[1] \div 64 = 1 /\ (d[1] \div 16) % 4 = m.type
      /\ d[2] = m.code /\ 256 * d[3] + d[4] = m.id
      /\ TokenLen(d) = Len(m.token)
      /\ SubSeq(d, 5, 4 + TokenLen(d)) = m.token
  BY <1>1, Datagram
<1>3. PICK t \in Seq(Byte) :
         /\ Ending(t) /\ From(t, 2) = m.payload
         /\ From(d, 5 + TokenLen(d)) = OptionBytes(m.opts) \o t
  BY <1>1, Datagram
<1> HIDE DEF d
<1>4. HeaderAccepted(d)
  <2>1. Len(m.token) \in Nat
    BY MessageParts, Zenon
  <2> QED
    BY <1>2, <2>1, SMT DEF HeaderAccepted
<1>5. PICK r \in Seq(Option) :
         /\ Reads(r, Sorted(m.opts))
         /\ ParseOptions[[prev |-> 0, opts |-> <<>>, b |-> OptionBytes(m.opts) \o t]]
              = {[opts |-> r, payload |-> From(t, 2)]}
  BY <1>1, <1>3, OptionsCarried, Zenon
<1> DEFINE body == [opts |-> r, payload |-> m.payload]
           x == Decoded(d, body)
<1>6. ParseOptions[Opening(d)] = {body}
  BY <1>3, <1>5 DEF Opening
<1>7. ParseMessage(d) = {x}
  <2> HIDE DEF body
  <2> QED
    BY <1>4, <1>6, ParseMessageAs, Zenon
<1>8. x = [type |-> m.type, code |-> m.code, id |-> m.id, token |-> m.token,
           payload |-> m.payload, opts |-> r]
  BY <1>2 DEF Decoded
<1>9. x \in Messages
  <2>1. body \in Bodies
    BY MessageParts DEF Bodies
  <2> HIDE DEF body
  <2> QED
    BY <1>2, <1>4, <2>1, DecodedType, Zenon
<1>10. Header(x) = Header(m) /\ x.opts = r
  BY <1>8, SameHeader
<1> HIDE DEF x
<1>11. Shows(x, m)
  BY <1>1, <1>5, <1>10, ReadsShows, Zenon
<1> QED
  BY <1>7, <1>9, <1>11, Zenon DEF d

(* A token of nine to fifteen bytes is written, and refused by whoever     *)
(* receives it.                                                            *)
THEOREM LongTokenRefused ==
    ASSUME NEW m \in Messages, Len(m.token) > 8, Len(m.token) < 16
    PROVE  ParseMessage(MarshalBinary(m)) = {}
<1> DEFINE d == MarshalBinary(m)
<1>1. TokenLen(d) = Len(m.token)
  BY Datagram
<1> HIDE DEF d
<1>2. Len(m.token) \in Nat
  BY MessageParts, Zenon
<1>3. ~HeaderAccepted(d)
  BY <1>1, <1>2, SMT DEF HeaderAccepted
<1> QED
  BY <1>3, ParseMessageAs, Zenon DEF d

(* Whatever the token, MarshalBinary makes a sequence of bytes.            *)
LEMMA MarshalType ==
    ASSUME NEW m \in Messages
    PROVE  MarshalBinary(m) \in Seq(Byte)
<1> DEFINE e == OptionBytes(m.opts)
<1>1. PICK h \in Seq(Byte), t \in Seq(Byte) :
         /\ Heads(h, m) /\ e \o t \in Seq(Byte)
         /\ Consists(MarshalBinary(m), h, m.token, e \o t)
  BY MarshalParts, Zenon
<1> DEFINE rest == e \o t
<1>2. m.token \in Seq(Byte) /\ rest \in Seq(Byte)
  BY <1>1, MessageParts
<1> HIDE DEF rest
<1>3. m.token \o rest \in Seq(Byte)
  BY <1>2, ConcatType, Zenon
<1>4. h \o (m.token \o rest) \in Seq(Byte)
  BY <1>3, ConcatType, Zenon
<1> QED
  BY <1>1, <1>4 DEF Consists, rest
=============================================================================
