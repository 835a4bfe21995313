------------------------------- MODULE Varint -------------------------------
(***************************************************************************)
(* The variable-length integers of the capsule header (appendVarint and    *)
(* readVarint of internal/h2proxy/capsule.go) on sequences of bytes.  A    *)
(* shift is a division by a power of two, byte(x) is x % 256, and an "or"  *)
(* with the length prefix is a sum, because the byte it meets is below 64. *)
(***************************************************************************)
EXTENDS Integers, Sequences

Byte == 0..255

\* Mutant: the last byte is not cut to eight bits.
AppendVarintWide(b, v) ==
    b \o (IF v < 64 THEN <<v>> ELSE <<64 + ((v \div 256) % 256), v>>)

\* Below these values two and four bytes are enough.
TwoByteLimit == 16384

FourByteLimit == 1073741824

\* The low 32 bits of x, big-endian.
Word(x) == <<(x \div 16777216) % 256, (x \div 65536) % 256, (x \div 256) % 256, x % 256>>

\* What is above them; the shift by 32 is in two parts because the model checker's
\* integers have 32 bits.
High(x) == (x \div 65536) \div 65536

\* The values a varint can hold: those below 2^62.
IsVarint(v) == v \in Nat /\ High(v) < FourByteLimit

Prefixed(prefix, bytes) == [bytes EXCEPT ![1] = prefix + @]

\* The last form is used below 2^62 only, where the byte that gets the prefix is below 64.
VarintBytes(v) ==
    IF v < 64 THEN <<v % 256>>
    ELSE IF v < TwoByteLimit THEN <<64 + ((v \div 256) % 256), v % 256>>
    ELSE IF v < FourByteLimit THEN Prefixed(128, Word(v))
    ELSE Prefixed(192, Word(High(v))) \o Word(v)

AppendVarint(b, v) == b \o VarintBytes(v)

\* How many bytes readVarint takes, from the two top bits of the first one.
VarintLen(first) ==
    IF first < 64 THEN 1 ELSE IF first < 128 THEN 2 ELSE IF first < 192 THEN 4 ELSE 8

\* Four bytes of the loop of readVarint.
Shift32(val, s, i) ==
    (((val * 256 + s[i]) * 256 + s[i + 1]) * 256 + s[i + 2]) * 256 + s[i + 3]

\* readVarint: the value of the varint at the start of s, when all of it is there.
ReadVarint(s) ==
    LET b == s[1] % 64
    IN  IF VarintLen(s[1]) = 1 THEN b
        ELSE IF VarintLen(s[1]) = 2 THEN b * 256 + s[2]
        ELSE LET word == ((b * 256 + s[2]) * 256 + s[3]) * 256 + s[4]
             IN  IF VarintLen(s[1]) = 4 THEN word ELSE Shift32(word, s, 5)

=============================================================================
