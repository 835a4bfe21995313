--------------------------- MODULE CapsuleProofs ---------------------------
(***************************************************************************)
(* Proofs that what WritePacket and WriteControl put on the wire is what   *)
(* ReadPacket takes from it, for any capsules whose type and length fit an *)
(* integer of the header: the integers themselves, a header, a payload,    *)
(* and the capsules one after the other.                                   *)
(***************************************************************************)
EXTENDS TunnelConn, SequenceTheorems, WellFoundedInduction, TLAPS

----------------------------------------------------------------------------
(* The integers of a header are read back as they were written. *)

TwoTo32 == 4294967296

\* The number whose digits to the base 256 are c, d, e and f.
Value(c, d, e, f) == ((c * 256 + d) * 256 + e) * 256 + f

\* The four-byte form of that number.
Four(c, d, e, f) == <<128 + c, d, e, f>>

\* The eight-byte form of two such numbers.
Eight(c, d, e, f, i, j, k, l) == <<192 + c, d, e, f, i, j, k, l>>

\* What is left of a first byte without its two top bits.
Low6 == 0..63

\* The bytes of Word(x) are digits to the base 256, and together give x back.
LEMMA WordDigits ==
    ASSUME NEW x \in Nat, x < TwoTo32
    PROVE  /\ Word(x)[1] \in Byte /\ Word(x)[2] \in Byte
           /\ Word(x)[3] \in Byte /\ Word(x)[4] \in Byte
           /\ x = Value(Word(x)[1], Word(x)[2], Word(x)[3], Word(x)[4])
<1> DEFINE p == x \div 256
           q == p \div 256
           r == q \div 256
<1>1. p \in Nat /\ x % 256 \in 0..255 /\ x = 256 * p + (x % 256) /\ p < 16777216
    BY SMT DEF TwoTo32
<1>2. q \in Nat /\ p % 256 \in 0..255 /\ p = 256 * q + (p % 256) /\ q < 65536
    BY <1>1, SMT
<1>3. r \in 0..255 /\ q % 256 \in 0..255 /\ q = 256 * r + (q % 256) /\ r % 256 = r
    BY <1>2, SMT
<1>4. x \div 65536 = q
    BY SMT
<1>5. x \div 16777216 = r
    BY SMT
<1>6. Word(x) = <<r, q % 256, p % 256, x % 256>>
    BY <1>3, <1>4, <1>5, SMT DEF Word
<1> HIDE DEF p, q, r
<1>7. Word(x)[1] = r /\ Word(x)[2] = q % 256 /\ Word(x)[3] = p % 256
      /\ Word(x)[4] = x % 256
    BY <1>6, SMT
<1> QED
    BY <1>1, <1>2, <1>3, <1>7, SMT DEF Byte, Value

\* The same for any x, but for what is above 32 bits.
LEMMA LowWordDigits ==
    ASSUME NEW x \in Nat, NEW h \in Nat, h = High(x)
    PROVE  /\ Word(x)[1] \in Byte /\ Word(x)[2] \in Byte
           /\ Word(x)[3] \in Byte /\ Word(x)[4] \in Byte
           /\ x = h * TwoTo32 + Value(Word(x)[1], Word(x)[2], Word(x)[3], Word(x)[4])
<1> DEFINE p == x \div 256
           q == p \div 256
           r == q \div 256
<1>1. p \in Nat /\ x % 256 \in 0..255 /\ x = 256 * p + (x % 256)
    BY SMT
<1>2. q \in Nat /\ p % 256 \in 0..255 /\ p = 256 * q + (p % 256)
    BY <1>1, SMT
<1>3. r \in Nat /\ q % 256 \in 0..255 /\ q = 256 * r + (q % 256)
    BY <1>2, SMT
<1>4. x \div 65536 = q
    BY SMT
<1>5. x \div 16777216 = r
    BY SMT
<1>6. h = q \div 65536
    BY <1>4 DEF High
<1>7. q \div 65536 = r \div 256
    BY <1>2, SMT
<1>8. Word(x) = <<r % 256, q % 256, p % 256, x % 256>>
    BY <1>4, <1>5, SMT DEF Word
<1> HIDE DEF p, q, r
<1>9. r % 256 \in 0..255 /\ r = 256 * h + (r % 256)
    BY <1>3, <1>6, <1>7, SMT
<1>10. /\ Word(x)[1] = r % 256 /\ Word(x)[2] = q % 256 /\ Word(x)[3] = p % 256
       /\ Word(x)[4] = x % 256
    BY <1>8, SMT
<1> DEFINE a == x % 256
           b == p % 256
           c == q % 256
           d == r % 256
<1>11. /\ a \in 0..255 /\ b \in 0..255 /\ c \in 0..255 /\ d \in 0..255
       /\ x = 256 * p + a /\ p = 256 * q + b /\ q = 256 * r + c /\ r = 256 * h + d
    BY <1>1, <1>2, <1>3, <1>9
<1>12. Word(x)[1] = d /\ Word(x)[2] = c /\ Word(x)[3] = b /\ Word(x)[4] = a
    BY <1>10
<1> HIDE DEF a, b, c, d
<1>13. x = h * 4294967296 + (((d * 256 + c) * 256 + b) * 256 + a)
    BY <1>1, <1>2, <1>3, <1>11, SMTT(30)
<1>14. x = h * TwoTo32 + Value(d, c, b, a)
    BY <1>13, SMT DEF Value, TwoTo32
<1>15. d \in Byte /\ c \in Byte /\ b \in Byte /\ a \in Byte
    BY <1>11 DEF Byte
<1> QED
    BY <1>12, <1>14, <1>15, Zenon

\* What appendVarint writes in one byte.
LEMMA OneByte ==
    ASSUME NEW v \in Nat, v < 64
    PROVE  VarintBytes(v) = <<v>>
<1>1. v % 256 = v
    BY SMT
<1> QED
    BY <1>1, SMT DEF VarintBytes

\* What appendVarint writes in two bytes, and how they make up the value.
LEMMA TwoBytes ==
    ASSUME NEW v \in Nat, v >= 64, v < TwoByteLimit
    PROVE  /\ VarintBytes(v) = <<64 + (v \div 256), v % 256>>
           /\ v \div 256 \in 0..63
           /\ v % 256 \in Byte
           /\ v = (v \div 256) * 256 + (v % 256)
<1>1. v \div 256 \in 0..63 /\ v % 256 \in 0..255 /\ v = (v \div 256) * 256 + (v % 256)
    BY SMT DEF TwoByteLimit
<1>2. (v \div 256) % 256 = v \div 256
    BY <1>1, SMT
<1>3. VarintBytes(v) = <<64 + (v \div 256), v % 256>>
    BY <1>1, <1>2, SMT DEF VarintBytes
<1> QED
    BY <1>1, <1>3, SMT DEF Byte

\* What appendVarint writes in four bytes, and how they make up the value.
LEMMA FourBytes ==
    ASSUME NEW v \in Nat, v >= TwoByteLimit, v < FourByteLimit
    PROVE  /\ VarintBytes(v) =
                <<128 + Word(v)[1], Word(v)[2], Word(v)[3], Word(v)[4]>>
           /\ Word(v)[1] \in 0..63
           /\ Word(v)[2] \in Byte /\ Word(v)[3] \in Byte /\ Word(v)[4] \in Byte
           /\ v = Value(Word(v)[1], Word(v)[2], Word(v)[3], Word(v)[4])
<1>1. v < TwoTo32
    BY SMT DEF FourByteLimit, TwoTo32
<1>2. /\ Word(v)[1] \in Byte /\ Word(v)[2] \in Byte
      /\ Word(v)[3] \in Byte /\ Word(v)[4] \in Byte
      /\ v = Value(Word(v)[1], Word(v)[2], Word(v)[3], Word(v)[4])
    BY <1>1, WordDigits, SMT
<1>3. Word(v)[1] \in 0..63
  <2>1. v \div 16777216 \in 0..63 /\ Word(v)[1] = (v \div 16777216) % 256
      BY SMT DEF FourByteLimit, Word
  <2> QED
      BY <2>1, SMT
<1>4. Prefixed(128, Word(v)) = <<128 + Word(v)[1], Word(v)[2], Word(v)[3], Word(v)[4]>>
    BY SMT DEF Prefixed, Word
<1>5. VarintBytes(v) = Prefixed(128, Word(v))
    BY SMT DEF VarintBytes, TwoByteLimit
<1> QED
    BY <1>2, <1>3, <1>4, <1>5, SMT

\* Two sequences of four bytes after one another, byte by byte.
LEMMA JoinFours ==
    ASSUME NEW p \in Seq(Byte), NEW q \in Seq(Byte), Len(p) = 4, Len(q) = 4
    PROVE  p \o q = <<p[1], p[2], p[3], p[4], q[1], q[2], q[3], q[4]>>
<1> DEFINE r == <<p[1], p[2], p[3], p[4], q[1], q[2], q[3], q[4]>>
<1>1. /\ p[1] \in Byte /\ p[2] \in Byte /\ p[3] \in Byte /\ p[4] \in Byte
      /\ q[1] \in Byte /\ q[2] \in Byte /\ q[3] \in Byte /\ q[4] \in Byte
  <2>1. \A k \in 1..4 : p[k] \in Byte /\ q[k] \in Byte
      BY ElementOfSeq
  <2> QED
      BY <2>1
<1>2. /\ r \in Seq(Byte) /\ Len(r) = 8
      /\ \A i \in 1..8 : r[i] = IF i <= 4 THEN p[i] ELSE q[i - 4]
    BY <1>1
<1> HIDE DEF r
<1>3. /\ p \o q \in Seq(Byte) /\ Len(p \o q) = Len(p) + Len(q)
      /\ \A i \in 1..Len(p) + Len(q) :
              (p \o q)[i] = IF i <= Len(p) THEN p[i] ELSE q[i - Len(p)]
    BY ConcatProperties, Zenon
<1>4. Len(p \o q) = Len(r) /\ \A i \in 1..Len(p \o q) : (p \o q)[i] = r[i]
    BY <1>2, <1>3
<1>5. p \o q = r
    BY <1>2, <1>3, <1>4, SeqEqual, Zenon
<1> QED
    BY <1>5, Zenon DEF r

\* What appendVarint writes in eight bytes, and how they make up the value.
LEMMA EightBytes ==
    ASSUME NEW v \in Nat, v >= FourByteLimit,
           NEW h \in Nat, h = High(v), h < FourByteLimit,
           NEW u, u = Word(h), NEW w, w = Word(v)
    PROVE  /\ VarintBytes(v) = Eight(u[1], u[2], u[3], u[4], w[1], w[2], w[3], w[4])
           /\ u[1] \in Low6 /\ u[2] \in Byte /\ u[3] \in Byte /\ u[4] \in Byte
           /\ w[1] \in Byte /\ w[2] \in Byte /\ w[3] \in Byte /\ w[4] \in Byte
           /\ v = Value(u[1], u[2], u[3], u[4]) * TwoTo32 + Value(w[1], w[2], w[3], w[4])
<1>1. /\ w[1] \in Byte /\ w[2] \in Byte /\ w[3] \in Byte /\ w[4] \in Byte
      /\ v = h * TwoTo32 + Value(w[1], w[2], w[3], w[4])
    BY LowWordDigits, Zenon
<1>2. h < TwoTo32
    BY SMT DEF FourByteLimit, TwoTo32
<1>3. /\ u[1] \in Byte /\ u[2] \in Byte /\ u[3] \in Byte /\ u[4] \in Byte
      /\ h = Value(u[1], u[2], u[3], u[4])
    BY <1>2, WordDigits, Zenon
<1>4. u[1] \in Low6
  <2>1. h \div 16777216 \in 0..63 /\ u[1] = (h \div 16777216) % 256
      BY SMT DEF FourByteLimit, Word
  <2> QED
      BY <2>1, SMT DEF Low6
<1>5. VarintBytes(v) = Prefixed(192, u) \o w
  <2>1. ~(v < 64) /\ ~(v < TwoByteLimit) /\ ~(v < FourByteLimit)
      BY SMT DEF TwoByteLimit, FourByteLimit
  <2> QED
      BY <2>1, Zenon DEF VarintBytes
<1>6. Prefixed(192, u) = <<192 + u[1], u[2], u[3], u[4]>>
    BY SMT DEF Prefixed, Word
<1>7. w \in Seq(Byte) /\ Len(w) = 4
  <2> DEFINE a == w[1] b == w[2] c == w[3] d == w[4]
  <2>1. w = <<a, b, c, d>>
      BY SMT DEF Word
  <2>2. a \in Byte /\ b \in Byte /\ c \in Byte /\ d \in Byte
      BY <1>1
  <2> HIDE DEF a, b, c, d
  <2> QED
      BY <2>1, <2>2
<1>8. VarintBytes(v) = Eight(u[1], u[2], u[3], u[4], w[1], w[2], w[3], w[4])
  <2> DEFINE p == <<192 + u[1], u[2], u[3], u[4]>>
  <2>1. 192 + u[1] \in Byte
      BY <1>4 DEF Low6, Byte
  <2>2. /\ p \in Seq(Byte) /\ Len(p) = 4
        /\ p[1] = 192 + u[1] /\ p[2] = u[2] /\ p[3] = u[3] /\ p[4] = u[4]
      BY <1>3, <2>1
  <2>3. VarintBytes(v) = p \o w
      BY <1>5, <1>6, Zenon
  <2> HIDE DEF p
  <2>4. p \o w = <<p[1], p[2], p[3], p[4], w[1], w[2], w[3], w[4]>>
      BY <1>7, <2>2, JoinFours, Zenon
  <2> QED
      BY <2>2, <2>3, <2>4, Zenon DEF Eight
<1>9. v = Value(u[1], u[2], u[3], u[4]) * TwoTo32 + Value(w[1], w[2], w[3], w[4])
    BY <1>1, <1>3, Zenon
<1> QED
    BY <1>1, <1>3, <1>4, <1>8, <1>9, Zenon

\* What readVarint makes of the form of one byte.
LEMMA ReadOne ==
    ASSUME NEW c \in 0..63, NEW rest \in Seq(Byte)
    PROVE  VarintLen(<<c>>[1]) = Len(<<c>>) /\ ReadVarint(<<c>> \o rest) = c
<1>1. c % 64 = c /\ VarintLen(c) = 1
    BY SMT DEF VarintLen
<1>2. Len(<<c>>) = 1 /\ <<c>>[1] = c /\ (<<c>> \o rest)[1] = c
    BY SMT DEF Byte
<1> QED
    BY <1>1, <1>2 DEF ReadVarint

\* What readVarint makes of the form of two bytes.
LEMMA ReadTwo ==
    ASSUME NEW c \in 0..63, NEW d \in Byte, NEW rest \in Seq(Byte)
    PROVE  /\ VarintLen(<<64 + c, d>>[1]) = Len(<<64 + c, d>>)
           /\ ReadVarint(<<64 + c, d>> \o rest) = c * 256 + d
<1>1. (64 + c) % 64 = c /\ VarintLen(64 + c) = 2
    BY SMT DEF VarintLen
<1>2. /\ Len(<<64 + c, d>>) = 2 /\ <<64 + c, d>>[1] = 64 + c
      /\ (<<64 + c, d>> \o rest)[1] = 64 + c /\ (<<64 + c, d>> \o rest)[2] = d
    BY SMT DEF Byte
<1> QED
    BY <1>1, <1>2, SMT DEF ReadVarint

\* What readVarint makes of the form of four bytes.
LEMMA ReadFour ==
    ASSUME NEW c \in Low6, NEW d \in Byte, NEW e \in Byte, NEW f \in Byte,
           NEW rest \in Seq(Byte)
    PROVE  /\ VarintLen(Four(c, d, e, f)[1]) = Len(Four(c, d, e, f))
           /\ ReadVarint(Four(c, d, e, f) \o rest) = Value(c, d, e, f)
<1>1. (128 + c) % 64 = c /\ VarintLen(128 + c) = 4
    BY SMT DEF VarintLen, Low6
<1> DEFINE b == <<128 + c, d, e, f>>
<1>2. /\ Len(b) = 4 /\ b[1] = 128 + c /\ (b \o rest)[1] = 128 + c
      /\ (b \o rest)[2] = d /\ (b \o rest)[3] = e /\ (b \o rest)[4] = f
    BY SMT DEF Byte, Low6
<1> QED
    BY <1>1, <1>2, SMT DEF ReadVarint, Value, Four, Low6

\* What readVarint makes of the form of eight bytes.
LEMMA ReadEight ==
    ASSUME NEW u, NEW w, NEW rest \in Seq(Byte),
           u[1] \in Low6, u[2] \in Byte, u[3] \in Byte, u[4] \in Byte,
           w[1] \in Byte, w[2] \in Byte, w[3] \in Byte, w[4] \in Byte
    PROVE  LET b == Eight(u[1], u[2], u[3], u[4], w[1], w[2], w[3], w[4])
           IN  /\ VarintLen(b[1]) = Len(b)
               /\ ReadVarint(b \o rest) =
                      Value(u[1], u[2], u[3], u[4]) * TwoTo32 + Value(w[1], w[2], w[3], w[4])
<1> DEFINE c == u[1] d == u[2] e == u[3] f == u[4] i == w[1] j == w[2] k == w[3] l == w[4]
<1>0. /\ c \in Low6 /\ d \in Byte /\ e \in Byte /\ f \in Byte
      /\ i \in Byte /\ j \in Byte /\ k \in Byte /\ l \in Byte
    OBVIOUS
<1> SUFFICES /\ VarintLen(Eight(c, d, e, f, i, j, k, l)[1]) = Len(Eight(c, d, e, f, i, j, k, l))
             /\ ReadVarint(Eight(c, d, e, f, i, j, k, l) \o rest) =
                    Value(c, d, e, f) * TwoTo32 + Value(i, j, k, l)
    BY Zenon
<1> HIDE DEF c, d, e, f, i, j, k, l
<1>1. (192 + c) % 64 = c /\ VarintLen(192 + c) = 8
    BY <1>0, SMT DEF VarintLen, Low6
<1> DEFINE b == <<192 + c, d, e, f, i, j, k, l>>
           s == b \o rest
<1>2. Len(b) = 8 /\ b[1] = 192 + c
    BY <1>0
<1>3. /\ s[1] = 192 + c /\ s[2] = d /\ s[3] = e /\ s[4] = f
      /\ s[5] = i /\ s[6] = j /\ s[7] = k /\ s[8] = l
    BY <1>0, SMT DEF Byte, Low6
<1> HIDE DEF s
<1>4. ReadVarint(s) = Shift32(Value(c, d, e, f), s, 5)
    BY <1>0, <1>1, <1>3, SMT DEF ReadVarint, Value
<1>5. Shift32(Value(c, d, e, f), s, 5) = Value(c, d, e, f) * TwoTo32 + Value(i, j, k, l)
  <2> DEFINE x == Value(c, d, e, f)
  <2>1. x \in Int
      BY <1>0, SMT DEF Value, Byte, Low6
  <2> HIDE DEF x
  <2>2. Shift32(x, s, 5) = (((x * 256 + i) * 256 + j) * 256 + k) * 256 + l
      BY <1>3, SMT DEF Shift32
  <2>3. (((x * 256 + i) * 256 + j) * 256 + k) * 256 + l = x * TwoTo32 + Value(i, j, k, l)
      BY <1>0, <2>1, SMT DEF Value, TwoTo32, Byte
  <2> QED
      BY <2>2, <2>3, Zenon DEF x
<1> QED
    BY <1>1, <1>2, <1>4, <1>5 DEF Eight, s

\* The round trip for the forms of up to four bytes ...
LEMMA ShortRoundTrip ==
    ASSUME NEW v \in Nat, v < FourByteLimit, NEW rest \in Seq(Byte)
    PROVE  LET b == VarintBytes(v)
           IN  /\ VarintLen(b[1]) = Len(b)
               /\ ReadVarint(b \o rest) = v
<1> DEFINE b == VarintBytes(v)
<1> SUFFICES VarintLen(b[1]) = Len(b) /\ ReadVarint(b \o rest) = v
    OBVIOUS
<1>1. CASE v < 64
  <2>1. VarintBytes(v) = <<v>>
      BY <1>1, OneByte
  <2>2. v \in 0..63
      BY <1>1, SMT
  <2> QED
      BY <2>1, <2>2, ReadOne
<1>2. CASE v >= 64 /\ v < TwoByteLimit
  <2> DEFINE h == v \div 256
             l == v % 256
  <2>1. /\ VarintBytes(v) = <<64 + h, l>>
        /\ h \in 0..63 /\ l \in Byte /\ v = h * 256 + l
      BY <1>2, TwoBytes
  <2> HIDE DEF h, l
  <2>2. /\ VarintLen(<<64 + h, l>>[1]) = Len(<<64 + h, l>>)
        /\ ReadVarint(<<64 + h, l>> \o rest) = h * 256 + l
      BY <2>1, ReadTwo
  <2> QED
      BY <2>1, <2>2, Zenon
<1>3. CASE v >= TwoByteLimit
  <2> DEFINE w == Word(v)
  <2>1. /\ VarintBytes(v) = Four(w[1], w[2], w[3], w[4])
        /\ w[1] \in Low6 /\ w[2] \in Byte /\ w[3] \in Byte /\ w[4] \in Byte
        /\ v = Value(w[1], w[2], w[3], w[4])
      BY <1>3, FourBytes DEF Four, Low6
  <2> HIDE DEF w
  <2> DEFINE f == Four(w[1], w[2], w[3], w[4])
  <2>2. VarintLen(f[1]) = Len(f) /\ ReadVarint(f \o rest) = Value(w[1], w[2], w[3], w[4])
    <3>1. w[1] \in Low6 /\ w[2] \in Byte /\ w[3] \in Byte /\ w[4] \in Byte
        BY <2>1
    <3> QED
        BY <3>1, ReadFour, ZenonT(60)
  <2>3. VarintBytes(v) = f /\ v = Value(w[1], w[2], w[3], w[4])
      BY <2>1
  <2> HIDE DEF f
  <2> QED
      BY <2>2, <2>3, Zenon
<1> QED
    BY <1>1, <1>2, <1>3, SMT DEF TwoByteLimit

\* ... and for the form of eight.
LEMMA LongRoundTrip ==
    ASSUME NEW v \in Nat, v >= FourByteLimit,
           NEW h \in Nat, h = High(v), h < FourByteLimit,
           NEW rest \in Seq(Byte)
    PROVE  LET b == VarintBytes(v)
           IN  /\ VarintLen(b[1]) = Len(b)
               /\ ReadVarint(b \o rest) = v
<1> DEFINE u == Word(h)
           w == Word(v)
<1>1. /\ VarintBytes(v) = Eight(u[1], u[2], u[3], u[4], w[1], w[2], w[3], w[4])
      /\ u[1] \in Low6 /\ u[2] \in Byte /\ u[3] \in Byte /\ u[4] \in Byte
      /\ w[1] \in Byte /\ w[2] \in Byte /\ w[3] \in Byte /\ w[4] \in Byte
      /\ v = Value(u[1], u[2], u[3], u[4]) * TwoTo32 + Value(w[1], w[2], w[3], w[4])
  <2>1. u = Word(h) /\ w = Word(v)
      OBVIOUS
  <2> HIDE DEF u, w
  <2> QED
      BY <2>1, EightBytes
<1> HIDE DEF u, w
<1> DEFINE e == Eight(u[1], u[2], u[3], u[4], w[1], w[2], w[3], w[4])
<1>2. /\ VarintLen(e[1]) = Len(e)
      /\ ReadVarint(e \o rest) =
            Value(u[1], u[2], u[3], u[4]) * TwoTo32 + Value(w[1], w[2], w[3], w[4])
    BY <1>1, ReadEight, Zenon
<1>3. /\ VarintBytes(v) = e
      /\ v = Value(u[1], u[2], u[3], u[4]) * TwoTo32 + Value(w[1], w[2], w[3], w[4])
    BY <1>1, Zenon
<1> HIDE DEF e
<1> QED
    BY <1>2, <1>3, Zenon

\* What is written for a value below 2^62 is 1 to 8 bytes.
LEMMA VarintType ==
    ASSUME NEW v, IsVarint(v)
    PROVE  VarintBytes(v) \in Seq(Byte) /\ Len(VarintBytes(v)) \in 1..8
<1>1. v \in Nat
    BY Zenon DEF IsVarint
<1>2. CASE v < 64
  <2>1. VarintBytes(v) = <<v>> /\ v \in Byte
      BY <1>1, <1>2, OneByte DEF Byte
  <2> QED
      BY <2>1
<1>3. CASE v >= 64 /\ v < TwoByteLimit
  <2> DEFINE h == v \div 256
             l == v % 256
  <2>1. VarintBytes(v) = <<64 + h, l>> /\ h \in 0..63 /\ l \in Byte
      BY <1>1, <1>3, TwoBytes
  <2> HIDE DEF h, l
  <2>2. 64 + h \in Byte
      BY <2>1 DEF Byte
  <2> QED
      BY <2>1, <2>2
<1>4. CASE v >= TwoByteLimit /\ v < FourByteLimit
  <2> DEFINE a == Word(v)[1] b == Word(v)[2] c == Word(v)[3] d == Word(v)[4]
  <2>1. /\ VarintBytes(v) = <<128 + a, b, c, d>>
        /\ a \in 0..63 /\ b \in Byte /\ c \in Byte /\ d \in Byte
      BY <1>1, <1>4, FourBytes, Zenon
  <2> HIDE DEF a, b, c, d
  <2>2. 128 + a \in Byte
      BY <2>1 DEF Byte
  <2> QED
      BY <2>1, <2>2
<1>5. CASE v >= FourByteLimit
  <2> DEFINE h == High(v)
             u == Word(h)
             w == Word(v)
  <2>1. h < FourByteLimit /\ h = High(v) /\ u = Word(h) /\ w = Word(v)
      BY Zenon DEF IsVarint
  <2>2. h \in Nat
    <3>1. v \div 65536 \in Nat
        BY <1>1, SMT
    <3> QED
        BY <3>1, SMT DEF High
  <2> HIDE DEF h, u, w
  <2>3. /\ VarintBytes(v) = Eight(u[1], u[2], u[3], u[4], w[1], w[2], w[3], w[4])
        /\ u[1] \in Low6 /\ u[2] \in Byte /\ u[3] \in Byte /\ u[4] \in Byte
        /\ w[1] \in Byte /\ w[2] \in Byte /\ w[3] \in Byte /\ w[4] \in Byte
      BY <1>1, <1>5, <2>1, <2>2, EightBytes
  <2>4. 192 + u[1] \in Byte
      BY <2>3, SMTT(30) DEF Low6, Byte
  <2>5. VarintBytes(v) = <<192 + u[1], u[2], u[3], u[4], w[1], w[2], w[3], w[4]>>
      BY <2>3, Zenon DEF Eight
  <2> DEFINE a == 192 + u[1] b == u[2] c == u[3] d == u[4]
             e == w[1] f == w[2] i == w[3] j == w[4]
  <2>6. /\ a \in Byte /\ b \in Byte /\ c \in Byte /\ d \in Byte
        /\ e \in Byte /\ f \in Byte /\ i \in Byte /\ j \in Byte
      BY <2>3, <2>4, Zenon
  <2>7. VarintBytes(v) = <<a, b, c, d, e, f, i, j>>
      BY <2>5, Zenon
  <2> HIDE DEF a, b, c, d, e, f, i, j
  <2> QED
      BY <2>6, <2>7
<1> QED
    BY <1>1, <1>2, <1>3, <1>4, <1>5 DEF TwoByteLimit, FourByteLimit

\* What appendVarint (capsule.go:154) writes for any value below 2^62, whatever bytes
\* follow it, readVarint (capsule.go:136) reads back: it stops where the value ends, and
\* returns the value.
THEOREM VarintRoundTrip ==
    ASSUME NEW v, IsVarint(v), NEW rest \in Seq(Byte)
    PROVE  LET b == AppendVarint(<<>>, v)
           IN  /\ VarintLen(b[1]) = Len(b)
               /\ ReadVarint(b \o rest) = v
<1>0. AppendVarint(<<>>, v) = VarintBytes(v)
    BY VarintType, ConcatEmptySeq, Zenon DEF AppendVarint
<1>1. v \in Nat
    BY Zenon DEF IsVarint
<1>2. CASE v < FourByteLimit
    BY <1>0, <1>1, <1>2, ShortRoundTrip, Zenon
<1>3. CASE ~(v < FourByteLimit)
  <2> DEFINE h == High(v)
  <2>1. v >= FourByteLimit
      BY <1>1, <1>3 DEF FourByteLimit
  <2>2. h < FourByteLimit
      BY Zenon DEF IsVarint
  <2>3. h \in Nat
    <3>1. v \div 65536 \in Nat
        BY <1>1, SMT
    <3> QED
        BY <3>1, SMT DEF High
  <2>4. h = High(v)
      OBVIOUS
  <2> HIDE DEF h
  <2> QED
      BY <1>0, <1>1, <2>1, <2>2, <2>3, <2>4, LongRoundTrip, Zenon
<1> QED
    BY <1>2, <1>3, Zenon

----------------------------------------------------------------------------
(* Induction over Nat as a fact about sets, and FlattenSeq, which is defined by a recursive
   function. *)

\* A nonempty set of natural numbers has a least one.
LEMMA Least ==
    ASSUME NEW T \in SUBSET Nat, T # {}
    PROVE  \E n \in T : \A m \in T : n <= m
<1> DEFINE R == {ss \in Nat \X Nat : ss[1] < ss[2]}
<1>1. IsWellFoundedOn(R, Nat)
    BY NatLessThanWellFounded, Zenon DEF OpToRel
<1>2. PICK x \in T : \A y \in T : ~(<<y, x>> \in R)
    BY <1>1, WFMin
<1>3. \A y \in T : y < x => <<y, x>> \in R
    OBVIOUS
<1> HIDE DEF R
<1>4. \A y \in T : ~(y < x)
    BY <1>2, <1>3, Zenon
<1> QED
    BY <1>4

\* Induction, as a fact about the set of the numbers a statement holds for.
LEMMA Induct ==
    ASSUME NEW S \in SUBSET Nat, 0 \in S, \A n \in S : n + 1 \in S
    PROVE  S = Nat
<1> SUFFICES ASSUME S # Nat PROVE FALSE
    OBVIOUS
<1>1. PICK n \in Nat \ S : \A m \in Nat \ S : n <= m
    BY Least
<1>2. n # 0 /\ n - 1 \in Nat
    BY <1>1
<1>3. n - 1 \in S
    BY <1>1, <1>2
<1>4. (n - 1) + 1 = n
    BY <1>2
<1> QED
    BY <1>3, <1>4

\* f[i] is the concatenation of the first i sequences of ss.
Concats(f, ss) ==
    f = [i \in 1..Len(ss) |-> IF i = 1 THEN ss[i] ELSE f[i - 1] \o ss[i]]

\* f and g agree on the first n places.
Agree(f, g, n) == \A i \in 1..n : f[i] = g[i]

\* Two such functions agree as far as the sequences they concatenate do.
LEMMA ConcatsUnique ==
    ASSUME NEW ss, NEW tt, NEW f, NEW g, Concats(f, ss), Concats(g, tt),
           NEW n \in Nat, n <= Len(ss), n <= Len(tt), Len(ss) \in Nat, Len(tt) \in Nat,
           Agree(ss, tt, n)
    PROVE  Agree(f, g, n)
<1> USE DEF Agree
<1> DEFINE S == {k \in Nat : k \in 1..n => f[k] = g[k]}
<1>1. 0 \in S
    OBVIOUS
<1>2. ASSUME NEW k \in S PROVE k + 1 \in S
  <2> SUFFICES ASSUME k + 1 \in 1..n PROVE f[k + 1] = g[k + 1]
      OBVIOUS
  <2>1. k \in Nat /\ k + 1 \in 1..Len(ss) /\ k + 1 \in 1..Len(tt) /\ (k + 1) - 1 = k
      OBVIOUS
  <2>2. f[k + 1] = IF k + 1 = 1 THEN ss[k + 1] ELSE f[(k + 1) - 1] \o ss[k + 1]
      BY <2>1, Zenon DEF Concats
  <2>3. g[k + 1] = IF k + 1 = 1 THEN tt[k + 1] ELSE g[(k + 1) - 1] \o tt[k + 1]
      BY <2>1, Zenon DEF Concats
  <2>4. ss[k + 1] = tt[k + 1]
      OBVIOUS
  <2>5. CASE k + 1 = 1
      BY <2>2, <2>3, <2>4, <2>5, Zenon
  <2>6. CASE k + 1 # 1
    <3>1. f[k] = g[k]
        BY <2>1, <2>6
    <3> QED
        BY <2>1, <2>2, <2>3, <2>4, <2>6, <3>1, Zenon
  <2> QED
      BY <2>5, <2>6
<1> HIDE DEF S
<1>3. S = Nat
    BY <1>1, <1>2, Induct DEF S
<1> QED
    BY <1>3 DEF S

\* There is such a function for every sequence of sequences.
LEMMA ConcatsExist ==
    ASSUME NEW S, NEW ss \in Seq(Seq(S))
    PROVE  \E f \in [1..Len(ss) -> Seq(S)] : Concats(f, ss)
<1> DEFINE Up(f, n) == \A i \in 1..n : f[i] = IF i = 1 THEN ss[i] ELSE f[i - 1] \o ss[i]
           T == {n \in Nat : n <= Len(ss) => \E f \in [1..n -> Seq(S)] : Up(f, n)}
<1>1. 0 \in T
  <2> DEFINE e == [i \in 1..0 |-> <<>>]
  <2>1. e \in [1..0 -> Seq(S)] /\ Up(e, 0)
      OBVIOUS
  <2> QED
      BY <2>1
<1>2. ASSUME NEW n \in T PROVE n + 1 \in T
  <2> SUFFICES ASSUME n + 1 <= Len(ss) PROVE \E f \in [1..n + 1 -> Seq(S)] : Up(f, n + 1)
    <3> HIDE DEF Up
    <3> QED
        OBVIOUS
  <2>1. n \in Nat /\ n <= Len(ss) /\ n + 1 \in 1..Len(ss)
      OBVIOUS
  <2>2. PICK f \in [1..n -> Seq(S)] : Up(f, n)
      BY <2>1
  <2> DEFINE last == IF n = 0 THEN ss[n + 1] ELSE f[n] \o ss[n + 1]
             g == [i \in 1..n + 1 |-> IF i = n + 1 THEN last ELSE f[i]]
  <2>3. ss[n + 1] \in Seq(S)
      BY <2>1, ElementOfSeq
  <2>4. n # 0 => f[n] \in Seq(S)
      BY <2>1, <2>2
  <2>5. last \in Seq(S)
      BY <2>3, <2>4, ConcatProperties, Zenon
  <2>6. g[n + 1] = last
      BY <2>1
  <2>7. \A i \in 1..n : g[i] = f[i]
    <3> HIDE DEF last
    <3> QED
        BY <2>1
  <2>8. g \in [1..n + 1 -> Seq(S)]
    <3> HIDE DEF last
    <3> QED
      BY <2>1, <2>2, <2>5
  <2>9. Up(g, n + 1)
    <3> SUFFICES ASSUME NEW i \in 1..n + 1
                 PROVE  g[i] = IF i = 1 THEN ss[i] ELSE g[i - 1] \o ss[i]
        OBVIOUS
    <3>1. CASE i = n + 1
      <4>1. n # 0 => g[n] = f[n]
          BY <2>1, <2>7
      <4>2. i - 1 = n /\ (i = 1 <=> n = 0)
          BY <2>1, <3>1
      <4>3. g[i] = last
          BY <2>6, <3>1
      <4> HIDE DEF g
      <4>4. CASE n = 0
          BY <3>1, <4>2, <4>3, <4>4, Zenon
      <4>5. CASE n # 0
          BY <3>1, <4>1, <4>2, <4>3, <4>5, Zenon
      <4> QED
          BY <4>4, <4>5
    <3>2. CASE i # n + 1
      <4>1. i \in 1..n /\ (i # 1 => i - 1 \in 1..n)
          BY <2>1, <3>2
      <4>2. f[i] = IF i = 1 THEN ss[i] ELSE f[i - 1] \o ss[i]
          BY <2>2, <4>1, Zenon
      <4> HIDE DEF g
      <4> QED
          BY <2>7, <4>1, <4>2, Zenon
    <3> QED
        BY <3>1, <3>2
  <2> HIDE DEF g, Up
  <2> QED
      BY <2>8, <2>9
<1>3. T = Nat
  <2> HIDE DEF T
  <2> QED
      BY <1>1, <1>2, Induct DEF T
<1>4. Len(ss) \in Nat
    BY LenProperties
<1>5. PICK f \in [1..Len(ss) -> Seq(S)] : Up(f, Len(ss))
  <2>1. Len(ss) \in T
      BY <1>3, <1>4, Zenon
  <2> HIDE DEF Up
  <2> QED
      BY <1>4, <2>1
<1>6. Concats(f, ss)
  <2> DEFINE g == [i \in 1..Len(ss) |-> IF i = 1 THEN ss[i] ELSE f[i - 1] \o ss[i]]
  <2>1. f = g
      BY <1>5, Zenon
  <2> QED
      BY <2>1, Zenon DEF Concats
<1> QED
    BY <1>5, <1>6

\* FlattenSeq, by which WireFramed says what is under way, ends such a function.
LEMMA FlattenIsConcats ==
    ASSUME NEW S, NEW ss \in Seq(Seq(S)), Len(ss) # 0
    PROVE  \E f \in [1..Len(ss) -> Seq(S)] : Concats(f, ss) /\ FlattenSeq(ss) = f[Len(ss)]
<1> DEFINE c == CHOOSE f : f = [i \in 1..Len(ss) |->
                                    IF i = 1 THEN ss[i] ELSE f[i - 1] \o ss[i]]
<1>1. FlattenSeq(ss) = c[Len(ss)]
    BY Zenon DEF FlattenSeq
<1>2. PICK f \in [1..Len(ss) -> Seq(S)] : Concats(f, ss)
    BY ConcatsExist
<1>3. Concats(c, ss)
    BY <1>2, Zenon DEF Concats
<1> HIDE DEF c
<1>4. Len(ss) \in Nat
    BY LenProperties
<1>5. \A i \in 1..Len(ss) : c[i] = f[i]
    BY <1>2, <1>3, <1>4, ConcatsUnique DEF Agree
<1>6. Len(ss) \in 1..Len(ss)
    BY <1>4
<1> QED
    BY <1>1, <1>2, <1>5, <1>6, Zenon

\* Flattened, a sequence of sequences over S is a sequence over S.
LEMMA FlattenType ==
    ASSUME NEW S, NEW ss \in Seq(Seq(S))
    PROVE  FlattenSeq(ss) \in Seq(S) /\ (Len(ss) = 0 => FlattenSeq(ss) = <<>>)
<1>1. CASE Len(ss) = 0
  <2>1. ss = <<>>
      BY <1>1, EmptySeq
  <2> QED
      BY <1>1, <2>1, EmptySeq, Zenon DEF FlattenSeq
<1>2. CASE Len(ss) # 0
  <2>1. PICK f \in [1..Len(ss) -> Seq(S)] : FlattenSeq(ss) = f[Len(ss)]
      BY <1>2, FlattenIsConcats, Zenon
  <2>2. Len(ss) \in 1..Len(ss)
      BY <1>2, LenProperties
  <2> QED
      BY <1>2, <2>1, <2>2, Zenon
<1> QED
    BY <1>1, <1>2

\* A sequence more at the end is a part more at the end.
LEMMA FlattenAppend ==
    ASSUME NEW S, NEW ss \in Seq(Seq(S)), NEW x \in Seq(S)
    PROVE  FlattenSeq(Append(ss, x)) = FlattenSeq(ss) \o x
<1> DEFINE tt == Append(ss, x)
           n == Len(ss)
<1>1. /\ tt \in Seq(Seq(S)) /\ Len(tt) = n + 1 /\ tt[n + 1] = x
      /\ \A i \in 1..n : tt[i] = ss[i]
    BY AppendProperties
<1>2. n \in Nat
    BY LenProperties
<1> HIDE DEF tt
<1>3. PICK g \in [1..Len(tt) -> Seq(S)] : Concats(g, tt) /\ FlattenSeq(tt) = g[Len(tt)]
  <2>1. Len(tt) # 0
      BY <1>1, <1>2
  <2> QED
      BY <1>1, <2>1, FlattenIsConcats, Zenon
<1>4. g[n + 1] = IF n + 1 = 1 THEN tt[n + 1] ELSE g[(n + 1) - 1] \o tt[n + 1]
  <2>1. n + 1 \in 1..Len(tt)
      BY <1>1, <1>2
  <2> QED
      BY <1>3, <2>1, Zenon DEF Concats
<1>5. CASE n = 0
  <2>1. FlattenSeq(ss) = <<>>
      BY <1>5, FlattenType
  <2>2. FlattenSeq(tt) = x
      BY <1>1, <1>3, <1>4, <1>5
  <2>3. <<>> \o x = x
      BY ConcatEmptySeq, Zenon
  <2> QED
      BY <2>1, <2>2, <2>3, Zenon DEF tt
<1>6. CASE n # 0
  <2>1. PICK f \in [1..Len(ss) -> Seq(S)] : Concats(f, ss) /\ FlattenSeq(ss) = f[Len(ss)]
      BY <1>6, FlattenIsConcats
  <2>2. \A i \in 1..n : g[i] = f[i]
    <3>1. n <= Len(ss) /\ n <= Len(tt) /\ Len(ss) \in Nat /\ Len(tt) \in Nat
        BY <1>1, <1>2
    <3>2. Concats(g, tt) /\ Concats(f, ss) /\ Agree(tt, ss, n)
        BY <1>1, <1>3, <2>1, Zenon DEF Agree
    <3> HIDE DEF n
    <3>3. Agree(g, f, n)
        BY <1>2, <3>1, <3>2, ConcatsUnique, Zenon
    <3> QED
        BY <3>3, Zenon DEF Agree
  <2>3. (n + 1) - 1 = n /\ n + 1 # 1 /\ n \in 1..n
      BY <1>2, <1>6
  <2>4. FlattenSeq(tt) = g[n] \o x
      BY <1>1, <1>3, <1>4, <2>3, Zenon
  <2> QED
      BY <2>1, <2>2, <2>3, <2>4, Zenon DEF tt
<1> QED
    BY <1>5, <1>6

\* Concatenation is associative, and can be cancelled on the left.
Associates(a, b, c) == (a \o b) \o c = a \o (b \o c)

Cancels(a, b, c) == a \o b = a \o c => b = c

\* Concatenation is associative.
LEMMA Associativity ==
    \A S : \A a, b, c \in Seq(S) : Associates(a, b, c)
BY ConcatAssociative, Zenon DEF Associates

\* An equal first part can be cancelled.
LEMMA Cancellation ==
    \A S : \A a, b, c \in Seq(S) : Cancels(a, b, c)
BY ConcatSimplifications, Zenon DEF Cancels

\* The first sequence is the first part, the others give the rest.
LEMMA FlattenHead ==
    ASSUME NEW S, NEW ss \in Seq(Seq(S)), ss # <<>>
    PROVE  FlattenSeq(ss) = ss[1] \o FlattenSeq(Tail(ss))
<1> DEFINE Good(n) == \A tt \in Seq(Seq(S)) :
                          Len(tt) = n + 1 => FlattenSeq(tt) = tt[1] \o FlattenSeq(Tail(tt))
           T == {n \in Nat : Good(n)}
<1>1. ASSUME NEW tt \in Seq(Seq(S)), tt # <<>>
      PROVE  \E init \in Seq(Seq(S)), x \in Seq(S) :
                tt = Append(init, x) /\ Len(tt) = Len(init) + 1
  <2>1. PICK init \in Seq(Seq(S)), x \in Seq(S) : tt = Append(init, x)
      BY <1>1, SequenceEmptyOrAppend
  <2>2. Len(tt) = Len(init) + 1
      BY <2>1, AppendProperties
  <2> QED
      BY <2>1, <2>2
<1>2. Good(0)
  <2> SUFFICES ASSUME NEW tt \in Seq(Seq(S)), Len(tt) = 0 + 1
               PROVE  FlattenSeq(tt) = tt[1] \o FlattenSeq(Tail(tt))
      OBVIOUS
  <2>1. tt # <<>>
    <3>1. Len(<<>>) = 0
        BY EmptySeq
    <3>2. Len(tt) # 0
        OBVIOUS
    <3> QED
        BY <3>1, <3>2, Zenon
  <2>2. PICK init \in Seq(Seq(S)), x \in Seq(S) :
            tt = Append(init, x) /\ Len(tt) = Len(init) + 1
      BY <1>1, <2>1
  <2>3. Len(init) = 0
      BY <2>2, LenProperties
  <2>4. FlattenSeq(tt) = <<>> \o x
      BY <2>2, <2>3, FlattenAppend, FlattenType
  <2>5. tt[1] = x
      BY <2>2, <2>3, AppendProperties
  <2>6. FlattenSeq(Tail(tt)) = <<>>
    <3>1. Tail(tt) \in Seq(Seq(S)) /\ Len(Tail(tt)) = Len(tt) - 1
        BY <2>1, HeadTailProperties
    <3>2. Len(Tail(tt)) = 0
        BY <3>1
    <3> QED
        BY <3>1, <3>2, FlattenType
  <2> QED
      BY <2>4, <2>5, <2>6, ConcatEmptySeq, Zenon
<1>3. ASSUME NEW n \in Nat, Good(n) PROVE Good(n + 1)
  <2> SUFFICES ASSUME NEW tt \in Seq(Seq(S)), Len(tt) = (n + 1) + 1
               PROVE  FlattenSeq(tt) = tt[1] \o FlattenSeq(Tail(tt))
      OBVIOUS
  <2>1. tt # <<>>
    <3>1. Len(<<>>) = 0
        BY EmptySeq
    <3>2. Len(tt) # 0
        OBVIOUS
    <3> QED
        BY <3>1, <3>2, Zenon
  <2>2. PICK init \in Seq(Seq(S)), x \in Seq(S) :
            tt = Append(init, x) /\ Len(tt) = Len(init) + 1
      BY <1>1, <2>1
  <2>3. Len(init) = n + 1 /\ 1 \in 1..Len(init) /\ init # <<>>
      BY <2>2, LenProperties, EmptySeq
  <2>4. FlattenSeq(init) = init[1] \o FlattenSeq(Tail(init))
      BY <1>3, <2>3
  <2>5. tt[1] = init[1] /\ init[1] \in Seq(S)
      BY <2>2, <2>3, AppendProperties, ElementOfSeq
  <2>6. Tail(init) \in Seq(Seq(S)) /\ FlattenSeq(Tail(init)) \in Seq(S)
      BY <2>3, HeadTailProperties, FlattenType
  <2>7. Tail(tt) = Append(Tail(init), x)
      BY <2>2, <2>3, SMTT(30)
  <2>8. FlattenSeq(tt) = FlattenSeq(init) \o x
      BY <2>2, FlattenAppend
  <2>9. FlattenSeq(Tail(tt)) = FlattenSeq(Tail(init)) \o x
      BY <2>6, <2>7, FlattenAppend
  <2>10. (init[1] \o FlattenSeq(Tail(init))) \o x =
             init[1] \o (FlattenSeq(Tail(init)) \o x)
    <3> DEFINE a == init[1]
               b == FlattenSeq(Tail(init))
    <3>1. a \in Seq(S) /\ b \in Seq(S)
        BY <2>5, <2>6
    <3> HIDE DEF a, b
    <3>2. Associates(a, b, x)
        BY <3>1, Associativity, Zenon
    <3> QED
        BY <3>2, Zenon DEF a, b, Associates
  <2> QED
      BY <2>4, <2>5, <2>8, <2>9, <2>10, Zenon
<1> HIDE DEF Good
<1>4. T = Nat
  <2>1. 0 \in T /\ \A n \in T : n + 1 \in T
      BY <1>2, <1>3
  <2> HIDE DEF T
  <2>2. T \in SUBSET Nat
      BY DEF T
  <2> QED
      BY <2>1, <2>2, Induct
<1>5. Len(ss) - 1 \in Nat /\ Len(ss) = (Len(ss) - 1) + 1
    BY EmptySeq
<1>6. Good(Len(ss) - 1)
    BY <1>4, <1>5, Zenon
<1> QED
    BY <1>5, <1>6, Zenon DEF Good

----------------------------------------------------------------------------
(* What the bytes of a header and the image of a capsule are on the wire. *)

\* The bytes of a header on the wire: one item for each.
LEMMA OnWireType ==
    ASSUME NEW b \in Seq(Byte)
    PROVE  /\ OnWire(b) \in Seq(Items) /\ Len(OnWire(b)) = Len(b)
           /\ \A i \in 1..Len(b) : OnWire(b)[i] = [byte |-> b[i], payload |-> None]
<1>1. Len(b) \in Nat /\ \A i \in 1..Len(b) : b[i] \in Byte
    BY LenProperties, ElementOfSeq
<1> DEFINE n == Len(b)
           w == [i \in 1..n |-> [byte |-> b[i], payload |-> None]]
<1>2. \A i \in 1..n : [byte |-> b[i], payload |-> None] \in Items
    BY <1>1, Zenon DEF Items
<1>3. w \in [1..n -> Items]
    BY <1>2, Zenon
<1>4. \A i \in 1..n : w[i] = [byte |-> b[i], payload |-> None]
    BY Zenon
<1>5. OnWire(b) = w
    BY Zenon DEF OnWire
<1> HIDE DEF w, n
<1>6. w \in Seq(Items) /\ Len(w) = n
    BY <1>1, <1>3 DEF n
<1> QED
    BY <1>4, <1>5, <1>6, Zenon DEF n

\* What the reader sees of the wire is as long as the wire.
LEMMA BytesType ==
    ASSUME NEW w \in Seq(Items)
    PROVE  /\ Bytes(w) \in Seq(Byte) /\ Len(Bytes(w)) = Len(w)
           /\ \A i \in 1..Len(w) : Bytes(w)[i] = w[i].byte
<1>1. Len(w) \in Nat /\ \A i \in 1..Len(w) : w[i] \in Items
    BY LenProperties, ElementOfSeq
<1>2. \A i \in 1..Len(w) : w[i].byte \in Byte
    BY <1>1 DEF Items
<1> DEFINE n == Len(w)
           b == [i \in 1..n |-> w[i].byte]
<1>3. b \in [1..n -> Byte]
    BY <1>2, Zenon
<1>4. \A i \in 1..n : b[i] = w[i].byte
    BY Zenon
<1>5. Bytes(w) = b
    BY Zenon DEF Bytes
<1> HIDE DEF b, n
<1>6. b \in Seq(Byte) /\ Len(b) = n
    BY <1>1, <1>3 DEF n
<1> QED
    BY <1>4, <1>5, <1>6, Zenon DEF n

\* Bytes written after one another follow one another on the wire.
LEMMA OnWireConcat ==
    ASSUME NEW a \in Seq(Byte), NEW b \in Seq(Byte)
    PROVE  OnWire(a \o b) = OnWire(a) \o OnWire(b)
<1> DEFINE ab == a \o b
           x == OnWire(a)
           y == OnWire(b)
           z == OnWire(ab)
<1>1. /\ ab \in Seq(Byte) /\ Len(ab) = Len(a) + Len(b)
      /\ \A i \in 1..Len(a) + Len(b) : ab[i] = IF i <= Len(a) THEN a[i] ELSE b[i - Len(a)]
    BY ConcatProperties
<1>2. Len(a) \in Nat /\ Len(b) \in Nat
    BY LenProperties
<1>3. /\ x \in Seq(Items) /\ Len(x) = Len(a)
      /\ \A i \in 1..Len(a) : x[i] = [byte |-> a[i], payload |-> None]
    BY OnWireType, Zenon
<1>4. /\ y \in Seq(Items) /\ Len(y) = Len(b)
      /\ \A i \in 1..Len(b) : y[i] = [byte |-> b[i], payload |-> None]
    BY OnWireType, Zenon
<1> HIDE DEF ab
<1>5. /\ z \in Seq(Items) /\ Len(z) = Len(ab)
      /\ \A i \in 1..Len(ab) : z[i] = [byte |-> ab[i], payload |-> None]
    BY <1>1, OnWireType, Zenon
<1> HIDE DEF x, y, z
<1>6. /\ x \o y \in Seq(Items) /\ Len(x \o y) = Len(x) + Len(y)
      /\ \A i \in 1..Len(x) + Len(y) : (x \o y)[i] = IF i <= Len(x) THEN x[i] ELSE y[i - Len(x)]
  <2>1. x \in Seq(Items) /\ y \in Seq(Items)
      BY <1>3, <1>4, Zenon
  <2> QED
      BY <2>1, ConcatProperties, Zenon
<1>7. ASSUME NEW i \in 1..Len(z) PROVE z[i] = (x \o y)[i]
  <2>1. i \in 1..Len(ab) /\ i \in 1..Len(a) + Len(b) /\ i \in 1..Len(x) + Len(y)
      BY <1>1, <1>3, <1>4, <1>5, Zenon
  <2>2. CASE i <= Len(a)
    <3>1. i \in 1..Len(a)
        BY <1>2, <2>1, <2>2
    <3> QED
        BY <1>1, <1>3, <1>5, <1>6, <2>1, <2>2, <3>1, Zenon
  <2>3. CASE ~(i <= Len(a))
    <3>1. i - Len(a) \in 1..Len(b)
        BY <1>2, <2>1, <2>3
    <3> QED
        BY <1>1, <1>3, <1>4, <1>5, <1>6, <2>1, <2>3, <3>1, Zenon
  <2> QED
      BY <2>2, <2>3
<1>8. Len(z) = Len(x \o y)
    BY <1>1, <1>3, <1>4, <1>5, <1>6, Zenon
<1>9. z = x \o y
    BY <1>5, <1>6, <1>7, <1>8, SeqEqual, Zenon
<1> QED
    BY <1>9, Zenon DEF x, y, z, ab

\* A header is the two integers WritePacket and WriteControl append, type before length.
LEMMA HeaderForm ==
    ASSUME NEW c \in Capsules
    PROVE  /\ Header(c) = OnWire(VarintBytes(c.type)) \o OnWire(VarintBytes(c.len))
           /\ OnWire(VarintBytes(c.type)) \in Seq(Items)
           /\ OnWire(VarintBytes(c.len)) \in Seq(Items)
           /\ Header(c) \in Seq(Items)
<1>1. IsVarint(c.type) /\ IsVarint(c.len)
    BY CapsuleAssumption, Zenon
<1>2. VarintBytes(c.type) \in Seq(Byte) /\ VarintBytes(c.len) \in Seq(Byte)
    BY <1>1, VarintType, Zenon
<1>3. AppendVarint(<<>>, c.type) = VarintBytes(c.type)
    BY <1>2, ConcatEmptySeq, Zenon DEF AppendVarint
<1>4. Header(c) = OnWire(VarintBytes(c.type) \o VarintBytes(c.len))
    BY <1>3, Zenon DEF Header, AppendVarint
<1>5. Header(c) = OnWire(VarintBytes(c.type)) \o OnWire(VarintBytes(c.len))
    BY <1>2, <1>4, OnWireConcat, Zenon
<1>6. OnWire(VarintBytes(c.type)) \in Seq(Items) /\ OnWire(VarintBytes(c.len)) \in Seq(Items)
    BY <1>2, OnWireType, Zenon
<1>7. Header(c) \in Seq(Items)
    BY <1>5, <1>6, ConcatProperties, Zenon
<1> QED
    BY <1>5, <1>6, <1>7, Zenon

\* Payloads and images are sequences of items.
LEMMA ImageType ==
    ASSUME NEW c \in Capsules
    PROVE  Payload(c) \in Seq(Items) /\ Image(c) \in Seq(Items)
<1>1. Payload(c) \in Seq(Items)
  <2>1. [byte |-> 0, payload |-> c] \in Items
      BY DEF Items, Byte
  <2>2. <<>> \in Seq(Items)
      BY EmptySeq
  <2>3. <<[byte |-> 0, payload |-> c]>> \in Seq(Items)
      BY <2>1
  <2> QED
      BY <2>2, <2>3, Zenon DEF Payload
<1> QED
    BY <1>1, HeaderForm, ConcatProperties, Zenon DEF Image

----------------------------------------------------------------------------
(* Reading: a header of which enough has arrived is read as it was written, and so is the
   payload after it, whatever part of the rest has arrived. *)

\* w without as many first elements as m has.
Without(w, m) == SubSeq(w, Len(m) + 1, Len(w))

\* Of two ways to cut a sequence, the shorter first part begins the longer one.
Splits(S, w, ext, m, tail) ==
    w \o ext = m \o tail /\ Len(m) <= Len(w) =>
        /\ Without(w, m) \in Seq(S)
        /\ w = m \o Without(w, m)
        /\ Without(w, m) \o ext = tail

\* Every two ways to cut a sequence are related so.
LEMMA Splitting ==
    ASSUME NEW S, NEW w \in Seq(S), NEW ext \in Seq(S), NEW m \in Seq(S), NEW tail \in Seq(S)
    PROVE  Splits(S, w, ext, m, tail)
<1> SUFFICES ASSUME w \o ext = m \o tail, Len(m) <= Len(w)
             PROVE  /\ Without(w, m) \in Seq(S)
                    /\ w = m \o Without(w, m)
                    /\ Without(w, m) \o ext = tail
    BY Zenon DEF Splits
<1> DEFINE a == Without(w, m)
           n == Len(m)
<1>0. w \o ext = m \o tail /\ a = SubSeq(w, n + 1, Len(w))
    BY Zenon DEF Without
<1> HIDE DEF a
<1>1. Len(w) \in Nat /\ n \in Nat /\ Len(ext) \in Nat /\ Len(tail) \in Nat
    BY LenProperties
<1>2. /\ a \in Seq(S) /\ Len(a) = Len(w) - n
      /\ \A i \in 1..Len(w) - n : a[i] = w[n + i]
  <2>1. \A i \in n + 1..Len(w) : w[i] \in S
      BY <1>1, ElementOfSeq
  <2>2. n + 1 \in Int /\ Len(w) \in Int
      BY <1>1
  <2>3. /\ a \in Seq(S)
        /\ Len(a) = IF n + 1 <= Len(w) THEN Len(w) - (n + 1) + 1 ELSE 0
        /\ \A i \in 1..Len(w) - (n + 1) + 1 : a[i] = w[n + 1 + i - 1]
      BY <1>0, <2>1, <2>2, SubSeqProperties
  <2> HIDE DEF n
  <2> QED
      BY <1>1, <2>3 DEF n
<1>3. /\ w \o ext \in Seq(S)
      /\ \A i \in 1..Len(w) + Len(ext) : (w \o ext)[i] = IF i <= Len(w) THEN w[i] ELSE ext[i - Len(w)]
    BY ConcatProperties, Zenon
<1>4. \A i \in 1..n + Len(tail) : (m \o tail)[i] = IF i <= n THEN m[i] ELSE tail[i - n]
    BY ConcatProperties, Zenon
<1>5. ASSUME NEW i \in 1..n PROVE w[i] = m[i]
  <2>1. i \in 1..Len(w) + Len(ext) /\ i <= Len(w) /\ i \in 1..n + Len(tail) /\ i <= n
      BY <1>1
  <2> QED
      BY <1>0, <1>3, <1>4, <2>1, Zenon
<1> HIDE DEF n
<1>6. /\ m \o a \in Seq(S) /\ Len(m \o a) = Len(m) + Len(a)
      /\ \A i \in 1..Len(m) + Len(a) : (m \o a)[i] = IF i <= Len(m) THEN m[i] ELSE a[i - Len(m)]
    BY <1>2, ConcatProperties
<1>7. Len(m \o a) = Len(w)
    BY <1>1, <1>2, <1>6 DEF n
<1>8. ASSUME NEW i \in 1..Len(w) PROVE w[i] = (m \o a)[i]
  <2>1. i \in 1..Len(m) + Len(a)
      BY <1>1, <1>2 DEF n
  <2>2. CASE i <= n
      BY <1>1, <1>5, <1>6, <2>1, <2>2 DEF n
  <2>3. CASE ~(i <= n)
    <3>1. i - n \in 1..Len(w) - n /\ n + (i - n) = i
        BY <1>1, <2>3
    <3>2. a[i - n] = w[i]
        BY <1>2, <3>1, Zenon
    <3> QED
        BY <1>6, <2>1, <2>3, <3>2, Zenon DEF n
  <2> QED
      BY <2>2, <2>3
<1>9. w = m \o a
    BY <1>6, <1>7, <1>8, SeqEqual, Zenon
<1>10. m \o (a \o ext) = m \o tail
  <2>1. Associates(m, a, ext)
      BY <1>2, Associativity, Zenon
  <2> QED
      BY <1>0, <1>9, <2>1, Zenon DEF Associates
<1>11. a \o ext \in Seq(S)
    BY <1>2, ConcatProperties, Zenon
<1>12. a \o ext = tail
  <2>1. Cancels(m, a \o ext, tail)
      BY <1>11, Cancellation, Zenon
  <2> QED
      BY <1>10, <2>1, Zenon DEF Cancels
<1> QED
    BY <1>2, <1>9, <1>12, Zenon DEF a

\* When v is what comes next, of which w is a first part, readVarint reads it from w and
\* leaves what follows.
Parses(v, w, ext, tail) ==
    w \o ext = OnWire(VarintBytes(v)) \o tail /\ HasVarint(w) =>
        /\ VarintAt(w) = v
        /\ AfterVarint(w) \in Seq(Items)
        /\ w = OnWire(VarintBytes(v)) \o AfterVarint(w)
        /\ AfterVarint(w) \o ext = tail

\* readVarint on a connection takes exactly the integer that was written, however much of
\* what follows it has arrived.
LEMMA ParseVarint ==
    ASSUME NEW v, IsVarint(v), NEW w \in Seq(Items), NEW ext \in Seq(Items),
           NEW tail \in Seq(Items)
    PROVE  Parses(v, w, ext, tail)
<1> SUFFICES ASSUME w \o ext = OnWire(VarintBytes(v)) \o tail, HasVarint(w)
             PROVE  /\ VarintAt(w) = v
                    /\ AfterVarint(w) \in Seq(Items)
                    /\ w = OnWire(VarintBytes(v)) \o AfterVarint(w)
                    /\ AfterVarint(w) \o ext = tail
    BY Zenon DEF Parses
<1> DEFINE b == VarintBytes(v)
           m == OnWire(b)
           n == Len(b)
<1>1. b \in Seq(Byte) /\ n \in 1..8
    BY VarintType, Zenon
<1>2. b = AppendVarint(<<>>, v)
    BY <1>1, ConcatEmptySeq, Zenon DEF AppendVarint
<1>3. \A rest \in Seq(Byte) : VarintLen(b[1]) = Len(b) /\ ReadVarint(b \o rest) = v
  <2> HIDE DEF b
  <2>1. \A rest \in Seq(Byte) : LET d == AppendVarint(<<>>, v)
                                IN  VarintLen(d[1]) = Len(d) /\ ReadVarint(d \o rest) = v
      BY VarintRoundTrip, Zenon
  <2> QED
      BY <1>2, <2>1, Zenon
<1> HIDE DEF b
<1>4. /\ m \in Seq(Items) /\ Len(m) = n
      /\ \A i \in 1..n : m[i] = [byte |-> b[i], payload |-> None]
    BY <1>1, OnWireType, Zenon
<1>5. m \o tail = w \o ext
    BY Zenon DEF b
<1> HIDE DEF m
<1>6. Len(w) \in Nat /\ Len(w) # 0
    BY EmptySeq, LenProperties DEF HasVarint
<1>7. w[1] = m[1]
  <2>1. (w \o ext)[1] = w[1]
    <3>1. 1 \in 1..Len(w) + Len(ext) /\ 1 <= Len(w)
        BY <1>6, LenProperties
    <3>2. \A i \in 1..Len(w) + Len(ext) :
              (w \o ext)[i] = IF i <= Len(w) THEN w[i] ELSE ext[i - Len(w)]
        BY ConcatProperties, Zenon
    <3> QED
        BY <3>1, <3>2, Zenon
  <2>2. (m \o tail)[1] = m[1]
    <3>1. 1 \in 1..Len(m) + Len(tail) /\ 1 <= Len(m)
        BY <1>1, <1>4, LenProperties
    <3>2. \A i \in 1..Len(m) + Len(tail) :
              (m \o tail)[i] = IF i <= Len(m) THEN m[i] ELSE tail[i - Len(m)]
        BY <1>4, ConcatProperties, Zenon
    <3> QED
        BY <3>1, <3>2, Zenon
  <2> QED
      BY <1>5, <2>1, <2>2, Zenon
<1>8. w[1].byte = b[1]
  <2>1. m[1] = [byte |-> b[1], payload |-> None]
      BY <1>1, <1>4
  <2> QED
      BY <1>7, <2>1
<1>9. VarintLen(w[1].byte) = n /\ Len(m) <= Len(w)
  <2>1. VarintLen(b[1]) = n
      BY <1>3, EmptySeq, Zenon
  <2>2. Len(w) >= n
      BY <1>8, <2>1, Zenon DEF HasVarint
  <2> HIDE DEF n
  <2> QED
      BY <1>1, <1>4, <1>6, <1>8, <2>1, <2>2
<1> DEFINE a == AfterVarint(w)
<1>10. a = Without(w, m)
    BY <1>4, <1>9, Zenon DEF AfterVarint, Without
<1> HIDE DEF a, n
<1>11. a \in Seq(Items) /\ w = m \o a /\ a \o ext = tail
  <2>1. Splits(Items, w, ext, m, tail)
      BY <1>4, Splitting, Zenon
  <2> QED
      BY <1>5, <1>9, <1>10, <2>1, Zenon DEF Splits
<1>12. Bytes(w) = b \o Bytes(a)
  <2>1. /\ Bytes(w) \in Seq(Byte) /\ Len(Bytes(w)) = Len(w)
        /\ \A i \in 1..Len(w) : Bytes(w)[i] = w[i].byte
      BY BytesType, Zenon
  <2>2. /\ Bytes(a) \in Seq(Byte) /\ Len(Bytes(a)) = Len(a)
        /\ \A i \in 1..Len(a) : Bytes(a)[i] = a[i].byte
      BY <1>11, BytesType, Zenon
  <2>3. /\ Len(w) = Len(m) + Len(a)
        /\ \A i \in 1..Len(m) + Len(a) : w[i] = IF i <= Len(m) THEN m[i] ELSE a[i - Len(m)]
      BY <1>4, <1>11, ConcatProperties, Zenon
  <2> DEFINE x == Bytes(w)
             y == Bytes(a)
  <2> HIDE DEF x, y
  <2>4. /\ b \o y \in Seq(Byte) /\ Len(b \o y) = Len(b) + Len(y)
        /\ \A i \in 1..Len(b) + Len(y) : (b \o y)[i] = IF i <= Len(b) THEN b[i] ELSE y[i - Len(b)]
      BY <1>1, <2>2, ConcatProperties, Zenon DEF y
  <2>5. Len(a) \in Nat /\ n \in Nat /\ n = Len(b)
      BY <1>1, <1>11, LenProperties DEF n
  <2>6. Len(x) = Len(b \o y)
      BY <1>4, <2>1, <2>2, <2>3, <2>4, <2>5, Zenon DEF x, y
  <2>7. ASSUME NEW i \in 1..Len(x) PROVE x[i] = (b \o y)[i]
    <3>1. i \in 1..Len(w) /\ i \in 1..Len(m) + Len(a) /\ i \in 1..Len(b) + Len(y)
        BY <2>1, <2>3, <2>4, <2>6, Zenon DEF x
    <3>2. x[i] = w[i].byte
        BY <2>1, <3>1, Zenon DEF x
    <3>3. CASE i <= n
      <4>1. i \in 1..n
          BY <2>5, <3>1, <3>3
      <4>2. w[i] = [byte |-> b[i], payload |-> None]
          BY <1>4, <2>3, <3>1, <3>3, <4>1, Zenon
      <4>3. w[i].byte = b[i]
          BY <4>2
      <4> QED
          BY <2>4, <2>5, <3>1, <3>2, <3>3, <4>3, Zenon
    <3>4. CASE ~(i <= n)
      <4>1. i - n \in 1..Len(a)
          BY <1>4, <2>5, <3>1, <3>4
      <4>2. w[i] = a[i - n]
          BY <1>4, <2>3, <3>1, <3>4, Zenon
      <4>3. y[i - n] = a[i - n].byte
          BY <2>2, <4>1, Zenon DEF y
      <4> QED
          BY <2>4, <2>5, <3>1, <3>2, <3>4, <4>2, <4>3, Zenon
    <3> QED
        BY <3>3, <3>4
  <2>8. x \in Seq(Byte)
      BY <2>1, Zenon DEF x
  <2>9. x = b \o y
      BY <2>4, <2>6, <2>7, <2>8, SeqEqual, Zenon
  <2> QED
      BY <2>9, Zenon DEF x, y
<1>13. VarintAt(w) = v
  <2>1. Bytes(a) \in Seq(Byte)
      BY <1>11, BytesType, Zenon
  <2> QED
      BY <1>3, <1>12, <2>1, Zenon DEF VarintAt
<1> QED
    BY <1>11, <1>13, Zenon DEF a, m, b

\* The same for a whole capsule header.
HeaderParses(c, w, ext, tail) ==
    w \o ext = Image(c) \o tail /\ HasVarint(w) /\ HasVarint(AfterVarint(w)) =>
        /\ VarintAt(w) = c.type
        /\ VarintAt(AfterVarint(w)) = c.len
        /\ AfterVarint(AfterVarint(w)) \in Seq(Items)
        /\ AfterVarint(AfterVarint(w)) \o ext = Payload(c) \o tail

\* ReadPacket reads the type and the length that were written, and is then at the payload.
LEMMA ParseHeader ==
    ASSUME NEW c \in Capsules, NEW w \in Seq(Items), NEW ext \in Seq(Items),
           NEW tail \in Seq(Items)
    PROVE  HeaderParses(c, w, ext, tail)
<1> SUFFICES ASSUME w \o ext = Image(c) \o tail, HasVarint(w), HasVarint(AfterVarint(w))
             PROVE  /\ VarintAt(w) = c.type
                    /\ VarintAt(AfterVarint(w)) = c.len
                    /\ AfterVarint(AfterVarint(w)) \in Seq(Items)
                    /\ AfterVarint(AfterVarint(w)) \o ext = Payload(c) \o tail
    BY Zenon DEF HeaderParses
<1> DEFINE m1 == OnWire(VarintBytes(c.type))
           m2 == OnWire(VarintBytes(c.len))
           p == Payload(c)
           a == AfterVarint(w)
<1>1. IsVarint(c.type) /\ IsVarint(c.len)
    BY CapsuleAssumption, Zenon
<1>2. m1 \in Seq(Items) /\ m2 \in Seq(Items) /\ p \in Seq(Items)
    BY HeaderForm, ImageType, Zenon
<1>3. Image(c) = (m1 \o m2) \o p
    BY HeaderForm, Zenon DEF Image
<1> HIDE DEF m1, m2, p
<1>4. m2 \o p \in Seq(Items) /\ p \o tail \in Seq(Items)
    BY <1>2, ConcatProperties, Zenon
<1>5. m2 \o (p \o tail) \in Seq(Items)
    BY <1>2, <1>4, ConcatProperties, Zenon
<1>6. Associates(m1, m2, p) /\ Associates(m2, p, tail)
    BY <1>2, Associativity, Zenon
<1>7. Associates(m1, m2 \o p, tail)
    BY <1>2, <1>4, Associativity, Zenon
<1>8. w \o ext = m1 \o (m2 \o (p \o tail))
    BY <1>3, <1>6, <1>7, Zenon DEF Associates
<1>9. VarintAt(w) = c.type /\ a \in Seq(Items) /\ a \o ext = m2 \o (p \o tail)
  <2>1. Parses(c.type, w, ext, m2 \o (p \o tail))
      BY <1>1, <1>5, ParseVarint, Zenon
  <2> QED
      BY <1>8, <2>1, Zenon DEF Parses, m1
<1> HIDE DEF a
<1>10. /\ VarintAt(a) = c.len
       /\ AfterVarint(a) \in Seq(Items) /\ AfterVarint(a) \o ext = p \o tail
  <2>1. Parses(c.len, a, ext, p \o tail)
      BY <1>1, <1>4, <1>9, ParseVarint, Zenon
  <2>2. HasVarint(a)
      BY Zenon DEF a
  <2> QED
      BY <1>9, <2>1, <2>2, Zenon DEF Parses, m2
<1> QED
    BY <1>9, <1>10, Zenon DEF a, p

\* ... and for the payload that follows it.
PayloadTaken(c, a, ext, tail) ==
    a \o ext = Payload(c) \o tail =>
        /\ c.len = 0 => a \o ext = tail
        /\ c.len # 0 /\ a # <<>> =>
              /\ Head(a).payload = c
              /\ Tail(a) \in Seq(Items)
              /\ Tail(a) \o ext = tail

\* ReadPacket takes the whole payload, and is then at the next capsule.
LEMMA TakePayload ==
    ASSUME NEW c \in Capsules, NEW a \in Seq(Items), NEW ext \in Seq(Items),
           NEW tail \in Seq(Items)
    PROVE  PayloadTaken(c, a, ext, tail)
<1> SUFFICES ASSUME a \o ext = Payload(c) \o tail
             PROVE  /\ c.len = 0 => a \o ext = tail
                    /\ c.len # 0 /\ a # <<>> =>
                          /\ Head(a).payload = c
                          /\ Tail(a) \in Seq(Items)
                          /\ Tail(a) \o ext = tail
    BY Zenon DEF PayloadTaken
<1>1. c.len = 0 => a \o ext = tail
    BY ConcatEmptySeq, Zenon DEF Payload
<1>2. ASSUME c.len # 0, a # <<>>
      PROVE  Head(a).payload = c /\ Tail(a) \in Seq(Items) /\ Tail(a) \o ext = tail
  <2> DEFINE it == [byte |-> 0, payload |-> c]
             m == <<it>>
  <2>1. Payload(c) = m
      BY <1>2, Zenon DEF Payload
  <2>2. m \in Seq(Items)
      BY <2>1, ImageType, Zenon
  <2>3. Len(m) = 1 /\ m[1] = it /\ it.payload = c
      OBVIOUS
  <2>4. Len(a) \in Nat /\ Len(a) # 0
      BY <1>2, EmptySeq, LenProperties
  <2> HIDE DEF m, it
  <2>5. Splits(Items, a, ext, m, tail)
      BY <2>2, Splitting, Zenon
  <2>6. Len(m) <= Len(a)
      BY <2>3, <2>4
  <2>7. /\ Without(a, m) \in Seq(Items) /\ a = m \o Without(a, m)
        /\ Without(a, m) \o ext = tail
      BY <2>1, <2>5, <2>6, Zenon DEF Splits
  <2>8. Without(a, m) = Tail(a)
    <3>1. Tail(a) = SubSeq(a, 2, Len(a))
        BY <1>2, TailIsSubSeq, Zenon
    <3>2. Len(m) + 1 = 2
        BY <2>3
    <3> QED
        BY <3>1, <3>2, Zenon DEF Without
  <2>9. Head(a).payload = c
    <3> DEFINE r == Without(a, m)
    <3>1. \A i \in 1..Len(m) + Len(r) : (m \o r)[i] = IF i <= Len(m) THEN m[i] ELSE r[i - Len(m)]
        BY <2>2, <2>7, ConcatProperties, Zenon
    <3>2. Len(r) \in Nat
        BY <2>7, LenProperties
    <3> HIDE DEF r
    <3>3. 1 \in 1..Len(m) + Len(r) /\ 1 <= Len(m)
        BY <2>3, <3>2
    <3>4. a[1] = it
        BY <2>3, <2>7, <3>1, <3>3, Zenon DEF r
    <3>5. Head(a) = a[1]
        BY <1>2
    <3> QED
        BY <2>3, <3>4, <3>5, Zenon
  <2> QED
      BY <2>7, <2>8, <2>9, Zenon
<1> QED
    BY <1>1, <1>2

----------------------------------------------------------------------------
(* Prefixes, and the images of the capsules not yet taken. *)

\* A prefix of t can be completed to t.
LEMMA PrefixExtends ==
    ASSUME NEW S, NEW s \in Seq(S), NEW t \in Seq(S), IsPrefix(s, t)
    PROVE  \E e \in Seq(S) : s \o e = t
<1> DEFINE e == SubSeq(t, Len(s) + 1, Len(t))
<1>1. Len(s) \in Nat /\ Len(t) \in Nat /\ Len(s) <= Len(t)
    BY LenProperties DEF IsPrefix
<1>2. SubSeq(s, 1, Len(s)) = s /\ SubSeq(t, 1, Len(t)) = t
    BY SubSeqFull, Zenon
<1>3. SubSeq(t, 1, Len(s)) = s
    BY <1>2, Zenon DEF IsPrefix
<1>4. e \in Seq(S)
  <2>1. \A i \in Len(s) + 1..Len(t) : t[i] \in S
      BY <1>1, ElementOfSeq
  <2>2. Len(s) + 1 \in Int /\ Len(t) \in Int
      BY <1>1
  <2> QED
      BY <2>1, <2>2, SubSeqProperties
<1> DEFINE se == s \o e
<1>5. se \in Seq(S) /\ Len(se) = Len(s) + Len(e)
      /\ \A i \in 1..Len(s) + Len(e) : se[i] = IF i <= Len(s) THEN s[i] ELSE e[i - Len(s)]
  <2> HIDE DEF e
  <2> QED
      BY <1>4, ConcatProperties, Zenon
<1>6. Len(e) = Len(t) - Len(s) /\ \A i \in 1..Len(t) - Len(s) : e[i] = t[Len(s) + i]
  <2>1. \A i \in Len(s) + 1..Len(t) : t[i] \in S
      BY <1>1, ElementOfSeq
  <2>2. Len(s) + 1 \in Int /\ Len(t) \in Int
      BY <1>1
  <2> DEFINE n == Len(s)
             l == Len(t)
  <2>3. /\ Len(e) = IF n + 1 <= l THEN l - (n + 1) + 1 ELSE 0
        /\ \A i \in 1..l - (n + 1) + 1 : e[i] = t[n + 1 + i - 1]
      BY <2>1, <2>2, SubSeqProperties
  <2>4. n \in Nat /\ l \in Nat /\ n <= l
      BY <1>1
  <2> HIDE DEF e, n, l
  <2>5. Len(e) = l - n /\ \A i \in 1..l - n : e[i] = t[n + i]
      BY <2>3, <2>4
  <2> QED
      BY <2>5, Zenon DEF n, l
<1>7. \A i \in 1..Len(s) : s[i] = t[i]
  <2>1. \A i \in 1..Len(s) : t[i] \in S
      BY <1>1, ElementOfSeq
  <2>2. \A i \in 1..Len(s) - 1 + 1 : SubSeq(t, 1, Len(s))[i] = t[1 + i - 1]
      BY <1>1, <2>1, SubSeqProperties
  <2> QED
      BY <1>1, <1>3, <2>2
<1> HIDE DEF e, se
<1>8. Len(se) = Len(t)
    BY <1>1, <1>5, <1>6
<1>9. ASSUME NEW i \in 1..Len(t) PROVE se[i] = t[i]
  <2>1. i \in 1..Len(s) + Len(e)
      BY <1>5, <1>8, Zenon
  <2>2. CASE i <= Len(s)
    <3>1. i \in 1..Len(s)
        BY <1>1, <2>2
    <3> QED
        BY <1>5, <1>7, <2>1, <2>2, <3>1, Zenon
  <2>3. CASE ~(i <= Len(s))
    <3>1. i - Len(s) \in 1..Len(t) - Len(s) /\ Len(s) + (i - Len(s)) = i
        BY <1>1, <2>3
    <3> QED
        BY <1>5, <1>6, <2>1, <2>3, <3>1, Zenon
  <2> QED
      BY <2>2, <2>3
<1>10. se = t
    BY <1>5, <1>8, <1>9, SeqEqual, Zenon
<1> QED
    BY <1>4, <1>10, Zenon DEF se

\* What can be completed to t is a prefix of t.
LEMMA ExtendsPrefix ==
    ASSUME NEW S, NEW s \in Seq(S), NEW e \in Seq(S)
    PROVE  IsPrefix(s, s \o e)
<1> DEFINE t == s \o e
<1>1. /\ t \in Seq(S) /\ Len(t) = Len(s) + Len(e)
      /\ \A i \in 1..Len(s) + Len(e) : t[i] = IF i <= Len(s) THEN s[i] ELSE e[i - Len(s)]
    BY ConcatProperties, Zenon
<1>2. Len(s) \in Nat /\ Len(e) \in Nat
    BY LenProperties
<1> HIDE DEF t
<1> DEFINE n == Len(s)
           a == SubSeq(s, 1, n)
           b == SubSeq(t, 1, n)
<1>3. \A i \in 1..n : t[i] = s[i]
    BY <1>1, <1>2
<1>4. (\A i \in 1..n : s[i] \in S) /\ (\A i \in 1..n : t[i] \in S) /\ n \in Int /\ 1 \in Int
    BY <1>2, <1>3, ElementOfSeq
<1>5. /\ a \in Seq(S) /\ b \in Seq(S) /\ Len(a) = Len(b)
      /\ \A i \in 1..n - 1 + 1 : a[i] = s[1 + i - 1] /\ b[i] = t[1 + i - 1]
  <2>1. /\ a \in Seq(S) /\ Len(a) = IF 1 <= n THEN n - 1 + 1 ELSE 0
        /\ \A i \in 1..n - 1 + 1 : a[i] = s[1 + i - 1]
      BY <1>4, SubSeqProperties
  <2>2. /\ b \in Seq(S) /\ Len(b) = IF 1 <= n THEN n - 1 + 1 ELSE 0
        /\ \A i \in 1..n - 1 + 1 : b[i] = t[1 + i - 1]
      BY <1>4, SubSeqProperties
  <2> HIDE DEF a, b, n
  <2> QED
      BY <2>1, <2>2
<1>6. Len(a) = n
  <2>1. a = s
      BY SubSeqFull, Zenon
  <2> QED
      BY <2>1, Zenon
<1> HIDE DEF a, b, n
<1>7. \A i \in 1..Len(a) : a[i] = b[i]
  <2>1. ASSUME NEW i \in 1..n PROVE a[i] = b[i]
    <3>1. i \in 1..n - 1 + 1 /\ 1 + i - 1 = i
        BY <1>4
    <3> QED
        BY <1>3, <1>5, <3>1, Zenon
  <2> QED
      BY <1>6, <2>1, Zenon
<1>8. a = b
    BY <1>5, <1>7, SeqEqual, Zenon
<1>9. Len(s) <= Len(t)
    BY <1>1, <1>2
<1> QED
    BY <1>8, <1>9, Zenon DEF IsPrefix, a, b, n, t

\* The images of the capsules of s after the first k.
Images(s, k) == [i \in 1..Len(s) - k |-> Image(s[k + i])]

\* There is one image for each of these capsules.
LEMMA ImagesType ==
    ASSUME NEW s \in Seq(Capsules), NEW k \in 0..Len(s)
    PROVE  /\ Images(s, k) \in Seq(Seq(Items)) /\ Len(Images(s, k)) = Len(s) - k
           /\ \A i \in 1..Len(s) - k : Images(s, k)[i] = Image(s[k + i])
           /\ FlattenSeq(Images(s, k)) \in Seq(Items)
<1> DEFINE n == Len(s) - k
           f == [i \in 1..n |-> Image(s[k + i])]
<1>1. n \in Nat
    BY LenProperties
<1>2. \A i \in 1..n : k + i \in 1..Len(s)
    BY LenProperties
<1>3. \A i \in 1..n : s[k + i] \in Capsules
    BY <1>2, ElementOfSeq
<1> HIDE DEF n
<1>4. \A i \in 1..n : Image(s[k + i]) \in Seq(Items)
    BY <1>3, ImageType, Zenon
<1>5. f \in [1..n -> Seq(Items)] /\ \A i \in 1..n : f[i] = Image(s[k + i])
    BY <1>4, Zenon
<1>6. Images(s, k) = f
    BY Zenon DEF Images, n
<1> HIDE DEF f
<1>7. f \in Seq(Seq(Items)) /\ Len(f) = n
    BY <1>1, <1>5
<1>8. FlattenSeq(f) \in Seq(Items)
    BY <1>7, FlattenType, Zenon
<1> QED
    BY <1>5, <1>6, <1>7, <1>8, Zenon DEF n

\* A capsule written is an image more at the end.
LEMMA ImagesAppend ==
    ASSUME NEW s \in Seq(Capsules), NEW k \in 0..Len(s), NEW c \in Capsules
    PROVE  Images(Append(s, c), k) = Append(Images(s, k), Image(c))
<1> DEFINE t == Append(s, c)
           x == Images(s, k)
           y == Images(t, k)
           z == Append(x, Image(c))
<1>1. /\ t \in Seq(Capsules) /\ Len(t) = Len(s) + 1 /\ t[Len(s) + 1] = c
      /\ \A i \in 1..Len(s) : t[i] = s[i]
    BY AppendProperties
<1>2. Len(s) \in Nat /\ k \in 0..Len(t)
  <2>1. Len(s) \in Nat
      BY LenProperties
  <2> HIDE DEF t
  <2> QED
      BY <1>1, <2>1
<1> HIDE DEF t
<1>3. /\ x \in Seq(Seq(Items)) /\ Len(x) = Len(s) - k
      /\ \A i \in 1..Len(s) - k : x[i] = Image(s[k + i])
    BY ImagesType, Zenon
<1>4. /\ y \in Seq(Seq(Items)) /\ Len(y) = Len(t) - k
      /\ \A i \in 1..Len(t) - k : y[i] = Image(t[k + i])
    BY <1>1, <1>2, ImagesType, Zenon
<1>5. Image(c) \in Seq(Items)
    BY ImageType
<1> HIDE DEF x, y
<1>6. /\ z \in Seq(Seq(Items)) /\ Len(z) = Len(x) + 1 /\ z[Len(x) + 1] = Image(c)
      /\ \A i \in 1..Len(x) : z[i] = x[i]
  <2>1. x \in Seq(Seq(Items))
      BY <1>3, Zenon
  <2> QED
      BY <1>5, <2>1, AppendProperties
<1> HIDE DEF z
<1>7. Len(y) = Len(z)
    BY <1>1, <1>2, <1>3, <1>4, <1>6
<1>8. ASSUME NEW i \in 1..Len(y) PROVE y[i] = z[i]
  <2>1. i \in 1..Len(t) - k /\ y[i] = Image(t[k + i])
      BY <1>4, Zenon
  <2>2. CASE i = Len(x) + 1
    <3>1. k + i = Len(s) + 1
        BY <1>2, <1>3, <2>2
    <3> QED
        BY <1>1, <1>6, <2>1, <2>2, <3>1, Zenon
  <2>3. CASE i # Len(x) + 1
    <3>1. i \in 1..Len(s) - k /\ i \in 1..Len(x) /\ k + i \in 1..Len(s)
        BY <1>1, <1>2, <1>3, <2>1, <2>3
    <3> QED
        BY <1>1, <1>3, <1>6, <2>1, <3>1, Zenon
  <2> QED
      BY <2>2, <2>3
<1>9. y = z
    BY <1>4, <1>6, <1>7, <1>8, SeqEqual, Zenon
<1> QED
    BY <1>9, Zenon DEF x, y, z, t

\* The next capsule's image comes first, the images of those after it follow.
LEMMA ImagesTail ==
    ASSUME NEW s \in Seq(Capsules), NEW k \in 0..Len(s), k # Len(s)
    PROVE  /\ FlattenSeq(Images(s, k)) = Image(s[k + 1]) \o FlattenSeq(Images(s, k + 1))
           /\ k + 1 \in 1..Len(s)
<1> DEFINE x == Images(s, k)
           y == Images(s, k + 1)
<1>1. Len(s) \in Nat
    BY LenProperties
<1>2. k + 1 \in 0..Len(s) /\ k + 1 \in 1..Len(s) /\ 1 \in 1..Len(s) - k
    BY <1>1
<1>3. /\ x \in Seq(Seq(Items)) /\ Len(x) = Len(s) - k
      /\ \A i \in 1..Len(s) - k : x[i] = Image(s[k + i])
    BY ImagesType, Zenon
<1>4. /\ y \in Seq(Seq(Items)) /\ Len(y) = Len(s) - (k + 1)
      /\ \A i \in 1..Len(s) - (k + 1) : y[i] = Image(s[(k + 1) + i])
    BY <1>2, ImagesType, Zenon
<1> HIDE DEF x, y
<1>5. x # <<>>
  <2>1. Len(x) # 0
      BY <1>1, <1>3
  <2> QED
      BY <2>1, EmptySeq, Zenon
<1>6. /\ Tail(x) \in Seq(Seq(Items)) /\ Len(Tail(x)) = Len(x) - 1
      /\ \A i \in 1..Len(Tail(x)) : Tail(x)[i] = x[i + 1]
    BY <1>3, <1>5, HeadTailProperties, Zenon
<1> DEFINE z == Tail(x)
<1> HIDE DEF z
<1>7. Len(z) = Len(y)
    BY <1>1, <1>3, <1>4, <1>6 DEF z
<1>8. ASSUME NEW i \in 1..Len(z) PROVE z[i] = y[i]
  <2>1. i \in 1..Len(s) - (k + 1) /\ i + 1 \in 1..Len(s) - k /\ (k + 1) + i = k + (i + 1)
      BY <1>1, <1>4, <1>7
  <2>2. z[i] = x[i + 1]
      BY <1>6, Zenon DEF z
  <2> QED
      BY <1>3, <1>4, <2>1, <2>2, Zenon
<1>9. z = y
    BY <1>4, <1>6, <1>7, <1>8, SeqEqual, Zenon DEF z
<1>10. FlattenSeq(x) = x[1] \o FlattenSeq(Tail(x))
    BY <1>3, <1>5, FlattenHead, Zenon
<1>11. x[1] = Image(s[k + 1])
    BY <1>2, <1>3, Zenon
<1> QED
    BY <1>2, <1>9, <1>10, <1>11, Zenon DEF x, y, z

=============================================================================
