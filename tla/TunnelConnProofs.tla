-------------------------- MODULE TunnelConnProofs --------------------------
(***************************************************************************)
(* Proofs about TunnelConn for any capsules whose type and length fit an   *)
(* integer of the header, any number of writers, any MTU and any capacity  *)
(* of ctrlCh: the reader stays at the beginning of a capsule and takes the *)
(* capsules as they were written, and what follows from that for the TUN   *)
(* device, the control messages and the end of the session.                *)
(***************************************************************************)
EXTENDS CapsuleProofs, FiniteSetTheorems

----------------------------------------------------------------------------
(* What Lists says of an empty sequence, of a longer and of a shorter one. *)

\* at says where in f each element of s is.
PlacedAt(s, f, places, at) ==
    /\ at \in [1..Len(s) -> places]
    /\ \A j \in 1..Len(s) : s[j] = Content(f[at[j]])
    /\ \A j, k \in 1..Len(s) : j < k => at[j] < at[k]
    /\ \A p \in places : \E j \in 1..Len(s) : at[j] = p

\* Lists, with the places named.
LEMMA ListsPlaced ==
    \A s, f, places : Lists(s, f, places) <=> \E at : PlacedAt(s, f, places, at)
BY Zenon DEF Lists, PlacedAt

\* The empty sequence lists no place.
LEMMA ListsNothing ==
    \A f : Lists(<<>>, f, {})
<1> TAKE f
<1> DEFINE at == [j \in 1..Len(<<>>) |-> 0]
<1>1. PlacedAt(<<>>, f, {}, at)
    BY DEF PlacedAt
<1> HIDE DEF at
<1> QED
    BY <1>1, ListsPlaced, Zenon

\* Only the capsules at the places matter.
LEMMA ListsSame ==
    ASSUME NEW s, NEW f, NEW g, NEW P, Lists(s, f, P), \A p \in P : f[p] = g[p]
    PROVE  Lists(s, g, P)
<1>1. PICK at : PlacedAt(s, f, P, at)
    BY ListsPlaced, Zenon
<1>2. \A j \in 1..Len(s) : at[j] \in P
    BY <1>1, Zenon DEF PlacedAt
<1>3. \A j \in 1..Len(s) : s[j] = Content(g[at[j]])
    BY <1>1, <1>2, Zenon DEF PlacedAt
<1>4. PlacedAt(s, g, P, at)
    BY <1>1, <1>3, Zenon DEF PlacedAt
<1> QED
    BY <1>4, ListsPlaced, Zenon

\* One more element lists one more place, after the others.
LEMMA ListsAppend ==
    ASSUME NEW S, NEW s \in Seq(S), NEW x \in S, NEW f, NEW P \in SUBSET Nat, NEW p \in Nat,
           Lists(s, f, P), \A q \in P : q < p, x = Content(f[p])
    PROVE  Lists(Append(s, x), f, P \cup {p})
<1>1. PICK at : PlacedAt(s, f, P, at)
    BY ListsPlaced, Zenon
<1> DEFINE n == Len(s)
           t == Append(s, x)
           at2 == [j \in 1..n + 1 |-> IF j = n + 1 THEN p ELSE at[j]]
<1>2. n \in Nat
    BY LenProperties
<1>3. /\ Len(t) = n + 1 /\ t[n + 1] = x /\ \A j \in 1..n : t[j] = s[j]
    BY AppendProperties
<1>4. /\ at \in [1..n -> P]
      /\ \A j \in 1..n : s[j] = Content(f[at[j]])
      /\ \A j, k \in 1..n : j < k => at[j] < at[k]
      /\ \A q \in P : \E j \in 1..n : at[j] = q
    BY <1>1, Zenon DEF PlacedAt
<1> HIDE DEF n, t
<1>5. at2[n + 1] = p /\ \A j \in 1..n : at2[j] = at[j]
    BY <1>2
<1>6. at2 \in [1..n + 1 -> P \cup {p}]
    BY <1>2, <1>4
<1> HIDE DEF at2
<1>7. \A j \in 1..n + 1 : j = n + 1 \/ j \in 1..n
    BY <1>2
<1>8. \A j \in 1..n + 1 : t[j] = Content(f[at2[j]])
    BY <1>3, <1>4, <1>5, <1>7, Zenon
<1>9. ASSUME NEW j \in 1..n + 1, NEW k \in 1..n + 1, j < k PROVE at2[j] < at2[k]
  <2>1. j \in 1..n
      BY <1>2, <1>9
  <2>2. CASE k = n + 1
    <3>1. at[j] \in P
        BY <1>4, <2>1
    <3> QED
        BY <1>5, <2>1, <2>2, <3>1, Zenon
  <2>3. CASE k \in 1..n
      BY <1>4, <1>5, <1>9, <2>1, <2>3, Zenon
  <2> QED
      BY <1>7, <2>2, <2>3
<1>10. ASSUME NEW q \in P \cup {p} PROVE \E j \in 1..n + 1 : at2[j] = q
  <2>1. CASE q = p
    <3>1. n + 1 \in 1..n + 1
        BY <1>2
    <3> QED
        BY <1>5, <2>1, <3>1, Zenon
  <2>2. CASE q \in P
    <3>1. PICK j \in 1..n : at[j] = q
        BY <1>4, <2>2, Zenon
    <3>2. j \in 1..n + 1
        BY <1>2
    <3> QED
        BY <1>5, <3>1, <3>2, Zenon
  <2> QED
      BY <2>1, <2>2
<1>11. PlacedAt(t, f, P \cup {p}, at2)
    BY <1>3, <1>6, <1>8, <1>9, <1>10, Zenon DEF PlacedAt
<1> QED
    BY <1>11, ListsPlaced, Zenon DEF t

\* The first element is at the first place; the rest list the other places.
LEMMA ListsTail ==
    ASSUME NEW S, NEW s \in Seq(S), s # <<>>, NEW f, NEW P \in SUBSET Nat, Lists(s, f, P)
    PROVE  \E p \in P : /\ Head(s) = Content(f[p])
                        /\ \A q \in P \ {p} : p < q
                        /\ Lists(Tail(s), f, P \ {p})
<1>1. PICK at : PlacedAt(s, f, P, at)
    BY ListsPlaced, Zenon
<1> DEFINE n == Len(s)
           t == Tail(s)
           p == at[1]
           at2 == [j \in 1..n - 1 |-> at[j + 1]]
<1>2. n \in Nat /\ n # 0
    BY EmptySeq, LenProperties
<1>3. Len(t) = n - 1 /\ Head(s) = s[1] /\ \A j \in 1..n - 1 : t[j] = s[j + 1]
  <2>1. Len(t) = n - 1 /\ \A j \in 1..Len(t) : t[j] = s[j + 1]
      BY HeadTailProperties, Zenon
  <2>2. Head(s) = s[1]
      OBVIOUS
  <2> QED
      BY <2>1, <2>2, Zenon
<1>4. /\ at \in [1..n -> P]
      /\ \A j \in 1..n : s[j] = Content(f[at[j]])
      /\ \A j, k \in 1..n : j < k => at[j] < at[k]
      /\ \A q \in P : \E j \in 1..n : at[j] = q
    BY <1>1, Zenon DEF PlacedAt
<1> HIDE DEF n, t
<1>5. 1 \in 1..n /\ \A j \in 1..n - 1 : j + 1 \in 1..n /\ 1 < j + 1
    BY <1>2
<1>6. p \in P /\ Head(s) = Content(f[p])
    BY <1>3, <1>4, <1>5, Zenon
<1>7. ASSUME NEW q \in P \ {p} PROVE p < q /\ \E j \in 1..n - 1 : at[j + 1] = q
  <2>1. PICK j \in 1..n : at[j] = q
      BY <1>4, <1>7, Zenon
  <2>2. j # 1
      BY <1>7, <2>1
  <2>3. 1 < j /\ j - 1 \in 1..n - 1 /\ (j - 1) + 1 = j
      BY <1>2, <2>2
  <2>4. p < q
      BY <1>4, <1>5, <2>1, <2>3, Zenon
  <2> QED
      BY <2>1, <2>3, <2>4, Zenon
<1>8. \A j \in 1..n - 1 : at2[j] = at[j + 1]
    OBVIOUS
<1>9. \A j \in 1..n - 1 : at[j + 1] \in P \ {p}
  <2> TAKE j \in 1..n - 1
  <2>1. at[j + 1] \in P /\ p < at[j + 1]
      BY <1>4, <1>5, Zenon
  <2>2. p \in Nat /\ at[j + 1] \in Nat
      BY <1>6, <2>1
  <2> QED
      BY <2>1, <2>2
<1>10. at2 \in [1..n - 1 -> P \ {p}]
    BY <1>9, Zenon
<1> HIDE DEF at2, p
<1>11. \A j \in 1..n - 1 : t[j] = Content(f[at2[j]])
    BY <1>3, <1>4, <1>5, <1>8, SMTT(30)
<1>12. ASSUME NEW j \in 1..n - 1, NEW k \in 1..n - 1, j < k PROVE at2[j] < at2[k]
  <2>1. j + 1 \in 1..n /\ k + 1 \in 1..n /\ j + 1 < k + 1
      BY <1>2, <1>12
  <2> QED
      BY <1>4, <1>8, <2>1, Zenon
<1>13. \A q \in P \ {p} : \E j \in 1..n - 1 : at2[j] = q
    BY <1>7, <1>8, Zenon
<1>14. PlacedAt(t, f, P \ {p}, at2)
    BY <1>3, <1>10, <1>11, <1>12, <1>13, Zenon DEF PlacedAt
<1>15. Lists(t, f, P \ {p})
    BY <1>14, ListsPlaced, Zenon
<1> QED
    BY <1>6, <1>7, <1>15, Zenon DEF t

\* A list has no more elements than there are places.
LEMMA ListsBound ==
    ASSUME NEW S, NEW s \in Seq(S), NEW f, NEW P \in SUBSET Nat, Lists(s, f, P),
           NEW Q, IsFiniteSet(Q), P \subseteq Q
    PROVE  Cardinality(Q) >= Len(s)
<1>1. PICK at : PlacedAt(s, f, P, at)
    BY ListsPlaced, Zenon
<1> DEFINE n == Len(s)
           D == 1..n
<1>2. n \in Nat
    BY LenProperties
<1>3. at \in [D -> Q]
    BY <1>1 DEF PlacedAt
<1>4. \A j, k \in D : at[j] = at[k] => j = k
  <2>1. \A j, k \in D : j < k => at[j] < at[k]
      BY <1>1, Zenon DEF PlacedAt
  <2>2. \A j \in D : at[j] \in Nat
      BY <1>1 DEF PlacedAt
  <2> SUFFICES ASSUME NEW j \in D, NEW k \in D, at[j] = at[k], j # k PROVE FALSE
      OBVIOUS
  <2>3. j < k \/ k < j
      BY <1>2
  <2>4. at[j] < at[k] \/ at[k] < at[j]
      BY <2>1, <2>3, Zenon
  <2> QED
      BY <2>2, <2>4
<1>5. at \in Injection(D, Q)
    BY <1>3, <1>4, Zenon DEF Injection, IsInjective
<1>6. IsFiniteSet(D) /\ Cardinality(D) = n
  <2>1. IsFiniteSet(D) /\ Cardinality(D) = IF 1 > n THEN 0 ELSE n - 1 + 1
      BY <1>2, FS_Interval
  <2> QED
      BY <1>2, <2>1
<1>7. Cardinality(D) <= Cardinality(Q)
    BY <1>5, FS_Injection, Zenon DEF ExistsInjection
<1>8. Cardinality(Q) \in Nat
    BY FS_CardinalityType
<1> QED
    BY <1>2, <1>6, <1>7, <1>8

----------------------------------------------------------------------------
(* The invariant: types, and what is on the wire. *)

\* What the writer that holds wrMu has still to write.
Missing == IF wrMu = None THEN <<>> ELSE Payload(writing)

TunnelTypes ==
    /\ wrMu \in Writers \cup {None}
    /\ writing \in Capsules \cup {None}
    /\ wrMu # None => writing \in Capsules
    /\ written \in Seq(Capsules) /\ Len(written) <= MaxWritten
    /\ wire \in Seq(Items)
    /\ conn \in {"open", "broken"}
    /\ reader \in {"read", "ended"}
    /\ consumed \in 0..Len(written)
    /\ tun \in Seq(Capsules)
    /\ ctrlCh \in Seq(Capsules \cup {None}) /\ Len(ctrlCh) <= CtrlCap
    /\ handled \in Seq(Capsules)
    /\ dropped \subseteq 1..consumed

\* While the connection is open, what is on the wire and what the writer has still to
\* write are together exactly the capsules the reader has not yet taken; when it has
\* broken, a first part of them is left.
Framed ==
    IF conn = "open" THEN wire \o Missing = FlattenSeq(Untaken) ELSE WireFramed

TunnelInv == TunnelTypes /\ Framed

\* The images of the capsules not yet taken, as the invariant of TunnelConn has them.
LEMMA UntakenImages == Untaken = Images(written, consumed)
BY Zenon DEF Untaken, Images

\* What is to be taken and what is to be written are sequences of items.
LEMMA UntakenType ==
    ASSUME TunnelTypes
    PROVE  FlattenSeq(Untaken) \in Seq(Items) /\ Missing \in Seq(Items)
<1>1. written \in Seq(Capsules) /\ consumed \in 0..Len(written)
    BY Zenon DEF TunnelTypes
<1>2. FlattenSeq(Untaken) \in Seq(Items)
    BY <1>1, UntakenImages, ImagesType, Zenon
<1>3. <<>> \in Seq(Items)
    BY EmptySeq
<1>4. wrMu # None => Payload(writing) \in Seq(Items)
    BY ImageType, Zenon DEF TunnelTypes
<1> QED
    BY <1>2, <1>3, <1>4, Zenon DEF Missing

\* In either case something completes what is on the wire to what is not yet taken.
LEMMA Completion ==
    ASSUME TunnelInv
    PROVE  /\ \E ext \in Seq(Items) : wire \o ext = FlattenSeq(Untaken)
           /\ WireFramed
<1>1. FlattenSeq(Untaken) \in Seq(Items) /\ Missing \in Seq(Items) /\ wire \in Seq(Items)
    BY UntakenType, Zenon DEF TunnelInv, TunnelTypes
<1>2. CASE conn = "open"
  <2>1. wire \o Missing = FlattenSeq(Untaken)
      BY <1>2, Zenon DEF TunnelInv, Framed
  <2>2. IsPrefix(wire, wire \o Missing)
      BY <1>1, ExtendsPrefix, Zenon
  <2> QED
      BY <1>1, <2>1, <2>2, Zenon DEF WireFramed
<1>3. CASE conn # "open"
  <2>1. WireFramed
      BY <1>3, Zenon DEF TunnelInv, Framed
  <2> QED
      BY <1>1, <2>1, PrefixExtends, Zenon DEF WireFramed
<1> QED
    BY <1>2, <1>3

\* The capsule the reader takes next.
Taken == written[consumed + 1]

\* A header that has arrived in full is the header of the next capsule written.
LEMMA NextHeader ==
    ASSUME TunnelTypes, HasHeader, NEW ext \in Seq(Items), wire \o ext = FlattenSeq(Untaken)
    PROVE  /\ consumed # Len(written) /\ consumed + 1 \in 1..Len(written)
           /\ Taken \in Capsules
           /\ Type = Taken.type /\ Length = Taken.len
           /\ AfterHeader \in Seq(Items)
           /\ AfterHeader \o ext = Payload(Taken) \o FlattenSeq(Images(written, consumed + 1))
           /\ FlattenSeq(Images(written, consumed + 1)) \in Seq(Items)
<1>1. written \in Seq(Capsules) /\ consumed \in 0..Len(written) /\ wire \in Seq(Items)
    BY Zenon DEF TunnelTypes
<1>2. consumed # Len(written)
  <2> SUFFICES ASSUME consumed = Len(written) PROVE FALSE
      OBVIOUS
  <2>1. Len(written) - consumed = 0
      BY <1>1, LenProperties
  <2>2. Images(written, consumed) \in Seq(Seq(Items)) /\ Len(Images(written, consumed)) = 0
      BY <1>1, <2>1, ImagesType, Zenon
  <2>3. FlattenSeq(Untaken) = <<>>
      BY <2>2, FlattenType, UntakenImages, Zenon
  <2>4. wire # <<>>
      BY Zenon DEF HasHeader, HasVarint
  <2>5. Len(wire \o ext) = Len(wire) + Len(ext)
      BY <1>1, ConcatProperties, Zenon
  <2>6. Len(wire) \in Nat \ {0} /\ Len(ext) \in Nat
      BY <1>1, <2>4, EmptySeq, LenProperties
  <2>7. Len(wire \o ext) = 0
      BY <2>3, EmptySeq, Zenon
  <2> QED
      BY <2>5, <2>6, <2>7
<1> DEFINE tail == FlattenSeq(Images(written, consumed + 1))
<1>3. FlattenSeq(Untaken) = Image(Taken) \o tail /\ consumed + 1 \in 1..Len(written)
    BY <1>1, <1>2, ImagesTail, UntakenImages, Zenon DEF Taken
<1>4. consumed + 1 \in 0..Len(written)
    BY <1>1, <1>3, LenProperties
<1>5. tail \in Seq(Items)
    BY <1>1, <1>4, ImagesType, Zenon
<1>6. Taken \in Capsules
    BY <1>1, <1>3, ElementOfSeq, Zenon DEF Taken
<1> HIDE DEF tail
<1>7. HeaderParses(Taken, wire, ext, tail)
    BY <1>1, <1>5, <1>6, ParseHeader, Zenon
<1>8. wire \o ext = Image(Taken) \o tail
    BY <1>3, Zenon
<1>9. /\ Type = Taken.type /\ Length = Taken.len
      /\ AfterHeader \in Seq(Items) /\ AfterHeader \o ext = Payload(Taken) \o tail
    BY <1>7, <1>8, Zenon DEF HeaderParses, HasHeader, Type, Length, AfterHeader
<1> QED
    BY <1>2, <1>3, <1>5, <1>6, <1>9, Zenon DEF tail

\* What ReadCapsule leaves on the wire.
Left == IF Length > 0 THEN Tail(AfterHeader) ELSE AfterHeader

\* When its payload has arrived too, ReadPacket gets that payload, and what it leaves
\* begins with the capsule after it.
LEMMA NextCapsule ==
    ASSUME TunnelTypes, HasHeader, NEW ext \in Seq(Items), wire \o ext = FlattenSeq(Untaken),
           Length > 0 => AfterHeader # <<>>
    PROVE  /\ Length > 0 => Head(AfterHeader).payload = Taken
           /\ Left \in Seq(Items)
           /\ Left \o ext = FlattenSeq(Images(written, consumed + 1))
<1> DEFINE tail == FlattenSeq(Images(written, consumed + 1))
<1>1. /\ Taken \in Capsules /\ Length = Taken.len
      /\ AfterHeader \in Seq(Items) /\ AfterHeader \o ext = Payload(Taken) \o tail
      /\ tail \in Seq(Items)
    BY NextHeader, Zenon
<1>2. Taken.len \in Nat
    BY <1>1, CapsuleAssumption
<1> HIDE DEF tail
<1>3. /\ Taken.len = 0 => AfterHeader \o ext = tail
      /\ Taken.len # 0 /\ AfterHeader # <<>> =>
            /\ Head(AfterHeader).payload = Taken
            /\ Tail(AfterHeader) \in Seq(Items)
            /\ Tail(AfterHeader) \o ext = tail
  <2>1. PayloadTaken(Taken, AfterHeader, ext, tail)
      BY <1>1, TakePayload, Zenon
  <2> QED
      BY <1>1, <2>1, Zenon DEF PayloadTaken
<1>4. CASE Taken.len = 0
  <2>1. ~(Length > 0)
      BY <1>1, <1>4
  <2> QED
      BY <1>1, <1>3, <1>4, <2>1, Zenon DEF Left, tail
<1>5. CASE Taken.len # 0
  <2>1. Length > 0
      BY <1>1, <1>2, <1>5
  <2> QED
      BY <1>1, <1>3, <1>5, <2>1, Zenon DEF Left, tail
<1> QED
    BY <1>4, <1>5

----------------------------------------------------------------------------
(* Each action keeps it. *)

\* Nothing is written, nothing is on the wire.
LEMMA TunnelInit == ASSUME Init PROVE TunnelInv
<1>1. <<>> \in Seq(Capsules) /\ <<>> \in Seq(Items) /\ <<>> \in Seq(Capsules \cup {None})
    BY EmptySeq
<1>2. Len(<<>>) = 0
    BY EmptySeq
<1>3. TunnelTypes
    BY <1>1, <1>2, BoundAssumption DEF Init, TunnelTypes
<1>4. FlattenSeq(Untaken) = <<>>
  <2>1. Len(written) - consumed = 0
      BY <1>2 DEF Init
  <2>2. Images(written, consumed) \in Seq(Seq(Items)) /\ Len(Images(written, consumed)) = 0
      BY <1>3, <2>1, ImagesType, Zenon DEF TunnelTypes
  <2> QED
      BY <2>2, FlattenType, UntakenImages, Zenon
<1>5. wire \o Missing = <<>>
    BY <1>1, ConcatEmptySeq, Zenon DEF Init, Missing
<1> QED
    BY <1>3, <1>4, <1>5, Zenon DEF TunnelInv, Framed, Init

\* WriteHeader adds the image of a capsule to what is to be taken, and its header to the
\* wire.
LEMMA HeaderStep ==
    ASSUME TunnelInv, NEW w \in Writers, NEW c \in Capsules, WriteHeader(w, c)
    PROVE  TunnelInv'
<1>1. /\ wire \in Seq(Items) /\ written \in Seq(Capsules) /\ consumed \in 0..Len(written)
      /\ w # None
    BY NoneAssumption, Zenon DEF TunnelInv, TunnelTypes
<1>2. Header(c) \in Seq(Items) /\ Payload(c) \in Seq(Items) /\ Image(c) \in Seq(Items)
    BY HeaderForm, ImageType, Zenon
<1>3. TunnelTypes'
  <2>1. wire \o Header(c) \in Seq(Items)
      BY <1>1, <1>2, ConcatProperties, Zenon
  <2>2. Append(written, c) \in Seq(Capsules) /\ Len(Append(written, c)) = Len(written) + 1
      BY <1>1, AppendProperties
  <2>3. Len(written) \in Nat
      BY <1>1, LenProperties
  <2>4. /\ written' \in Seq(Capsules) /\ Len(written') <= MaxWritten
        /\ consumed' \in 0..Len(written')
    <3>1. Len(written') = Len(written) + 1 /\ written' \in Seq(Capsules)
        BY <2>2 DEF WriteHeader
    <3>2. consumed' = consumed /\ Len(written) < MaxWritten
        BY DEF WriteHeader
    <3> QED
        BY <1>1, <2>3, <3>1, <3>2, BoundAssumption
  <2> QED
      BY <2>1, <2>4 DEF TunnelInv, TunnelTypes, WriteHeader
<1>4. wire = FlattenSeq(Untaken)
  <2>1. conn = "open" /\ wrMu = None
      BY Zenon DEF WriteHeader
  <2>2. wire \o <<>> = FlattenSeq(Untaken)
      BY <2>1, Zenon DEF TunnelInv, Framed, Missing
  <2> QED
      BY <1>1, <2>2, ConcatEmptySeq, Zenon
<1>5. FlattenSeq(Untaken)' = wire \o (Header(c) \o Payload(c))
  <2>1. Untaken' = Images(Append(written, c), consumed)
      BY Zenon DEF Untaken, Images, WriteHeader
  <2>2. Untaken' = Append(Untaken, Image(c))
      BY <1>1, <2>1, ImagesAppend, UntakenImages, Zenon
  <2>3. Untaken \in Seq(Seq(Items))
      BY <1>1, ImagesType, UntakenImages, Zenon
  <2>4. FlattenSeq(Append(Untaken, Image(c))) = FlattenSeq(Untaken) \o Image(c)
      BY <1>2, <2>3, FlattenAppend, Zenon
  <2> QED
      BY <1>4, <2>2, <2>4, Zenon DEF Image
<1>6. (wire \o Missing)' = (wire \o Header(c)) \o Payload(c)
  <2>1. Missing' = Payload(c) /\ wire' = wire \o Header(c)
      BY <1>1, Zenon DEF Missing, WriteHeader
  <2> QED
      BY <2>1, Zenon
<1>7. Associates(wire, Header(c), Payload(c))
    BY <1>1, <1>2, Associativity, Zenon
<1>8. conn' = "open"
    BY Zenon DEF WriteHeader
<1>9. (wire \o Missing)' = FlattenSeq(Untaken)'
    BY <1>5, <1>6, <1>7, Zenon DEF Associates
<1> QED
    BY <1>3, <1>8, <1>9, Zenon DEF TunnelInv, Framed

\* WritePayload completes the capsule its writer has begun.
LEMMA PayloadStep ==
    ASSUME TunnelInv, NEW w \in Writers, WritePayload(w)
    PROVE  TunnelInv'
<1>1. /\ wire \in Seq(Items) /\ wrMu # None /\ writing \in Capsules /\ wrMu' = None
      /\ conn' = conn
    BY NoneAssumption, Zenon DEF TunnelInv, TunnelTypes, WritePayload
<1>2. wire \o Payload(writing) \in Seq(Items)
    BY <1>1, ImageType, ConcatProperties, Zenon
<1>3. TunnelTypes'
    BY <1>1, <1>2 DEF TunnelInv, TunnelTypes, WritePayload
<1>4. Untaken' = Untaken
    BY Zenon DEF Untaken, WritePayload
<1>5. CASE conn = "open"
  <2>1. wire' = FlattenSeq(Untaken)
      BY <1>1, <1>5, Zenon DEF TunnelInv, Framed, Missing, WritePayload
  <2>2. wire' \in Seq(Items)
      BY <1>3, Zenon DEF TunnelTypes
  <2>3. wire' \o <<>> = wire'
      BY <2>2, ConcatEmptySeq, Zenon
  <2>4. Missing' = <<>>
      BY <1>1, Zenon DEF Missing
  <2> QED
      BY <1>1, <1>3, <1>4, <1>5, <2>1, <2>3, <2>4, Zenon DEF TunnelInv, Framed
<1>6. CASE conn # "open"
  <2>1. wire' = wire
      BY <1>6, Zenon DEF WritePayload
  <2> QED
      BY <1>1, <1>3, <1>4, <1>6, <2>1, Zenon DEF TunnelInv, Framed, WireFramed
<1> QED
    BY <1>5, <1>6

\* ReadCapsule takes the next capsule written, and no more.
LEMMA CapsuleStep ==
    ASSUME TunnelInv, ReadCapsule
    PROVE  /\ TunnelInv'
           /\ consumed + 1 \in 1..Len(written) /\ Taken \in Capsules
           /\ Type = Taken.type /\ Length = Taken.len
           /\ Length > 0 => Head(AfterHeader).payload = Taken
<1>1. HasHeader /\ (Length > 0 => AfterHeader # <<>>)
    BY Zenon DEF ReadCapsule
<1>2. TunnelTypes
    BY Zenon DEF TunnelInv
<1>3. PICK ext \in Seq(Items) : wire \o ext = FlattenSeq(Untaken)
    BY Completion, Zenon
<1>4. /\ consumed + 1 \in 1..Len(written) /\ Taken \in Capsules
      /\ Type = Taken.type /\ Length = Taken.len
    BY <1>1, <1>2, <1>3, NextHeader, Zenon
<1>5. /\ Length > 0 => Head(AfterHeader).payload = Taken
      /\ Left \in Seq(Items) /\ Left \o ext = FlattenSeq(Images(written, consumed + 1))
    BY <1>1, <1>2, <1>3, NextCapsule, Zenon
<1>6. wire' = Left /\ consumed' = consumed + 1 /\ written' = written /\ conn' = conn
    BY Zenon DEF ReadCapsule, Left
<1>7. Untaken' = Images(written, consumed + 1)
    BY <1>6, Zenon DEF Untaken, Images
<1>8. TunnelTypes'
  <2> DEFINE payload == IF Length > 0 THEN Head(AfterHeader).payload ELSE None
  <2>1. payload \in Capsules \cup {None}
      BY <1>4, <1>5, Zenon
  <2>2. Len(written) \in Nat /\ Len(ctrlCh) \in Nat
      BY <1>2, LenProperties DEF TunnelTypes
  <2>3. /\ tun' \in Seq(Capsules)
        /\ ctrlCh' \in Seq(Capsules \cup {None}) /\ Len(ctrlCh') <= CtrlCap
        /\ dropped' \subseteq 1..consumed + 1
    <3>1. \/ Type = capsuleTypeControl /\ TakeControl(payload)
          \/ Type = capsuleTypeIPPacket /\ TakePacket(payload)
          \/ UNCHANGED <<tun, ctrlCh, dropped>>
        BY DEF ReadCapsule
    <3>2. 1..consumed \subseteq 1..consumed + 1 /\ consumed + 1 \in 1..consumed + 1
        BY <1>2, <2>2 DEF TunnelTypes
    <3>3. /\ tun \in Seq(Capsules) /\ ctrlCh \in Seq(Capsules \cup {None})
          /\ Len(ctrlCh) <= CtrlCap /\ dropped \subseteq 1..consumed + 1
        BY <1>2, <3>2 DEF TunnelTypes
    <3>4. CASE TakeControl(payload)
      <4>1. CASE Len(ctrlCh) < CtrlCap
        <5>1. /\ Append(ctrlCh, payload) \in Seq(Capsules \cup {None})
              /\ Len(Append(ctrlCh, payload)) = Len(ctrlCh) + 1
          <6> HIDE DEF payload
          <6> QED
              BY <2>1, <3>3, AppendProperties
        <5>2. ctrlCh' = Append(ctrlCh, payload) /\ tun' = tun /\ dropped' = dropped
            BY <3>4, <4>1, Zenon DEF TakeControl
        <5>3. Len(ctrlCh) + 1 <= CtrlCap
            BY <2>2, <4>1, BoundAssumption
        <5> QED
            BY <3>3, <5>1, <5>2, <5>3, Zenon
      <4>2. CASE ~(Len(ctrlCh) < CtrlCap)
        <5>1. ctrlCh' = ctrlCh /\ tun' = tun /\ dropped' = dropped \cup {consumed + 1}
            BY <3>4, <4>2, Zenon DEF TakeControl
        <5> QED
            BY <3>2, <3>3, <5>1
      <4> QED
          BY <4>1, <4>2
    <3>5. CASE TakePacket(payload)
      <4>1. ctrlCh' = ctrlCh /\ dropped' = dropped
          BY <3>5, Zenon DEF TakePacket
      <4>2. tun' = tun \/ (Length > 0 /\ tun' = Append(tun, payload))
          BY <3>5, Zenon DEF TakePacket
      <4>3. Length > 0 => payload \in Capsules
          BY <1>4, <1>5, Zenon
      <4> HIDE DEF payload
      <4>4. tun' \in Seq(Capsules)
          BY <3>3, <4>2, <4>3, AppendProperties, SMTT(30)
      <4> QED
          BY <3>3, <4>1, <4>4, Zenon
    <3>6. CASE UNCHANGED <<tun, ctrlCh, dropped>>
      <4>1. tun' = tun /\ ctrlCh' = ctrlCh /\ dropped' = dropped
          BY <3>6
      <4> QED
          BY <3>3, <4>1, Zenon
    <3> QED
        BY <3>1, <3>4, <3>5, <3>6, Zenon
  <2>4. consumed' \in 0..Len(written')
      BY <1>4, <1>6, <2>2
  <2>5. UNCHANGED <<wrMu, writing, reader, handled>>
      BY DEF ReadCapsule
  <2> QED
      BY <1>2, <1>5, <1>6, <2>3, <2>4, <2>5, Zenon DEF TunnelTypes
<1>9. Framed'
  <2>1. CASE conn = "open"
    <3>1. wire \o Missing = FlattenSeq(Untaken) /\ Missing \in Seq(Items)
        BY <1>2, <2>1, UntakenType, Zenon DEF TunnelInv, Framed
    <3>2. Left \o Missing = FlattenSeq(Images(written, consumed + 1))
        BY <1>1, <1>2, <3>1, NextCapsule, Zenon
    <3>3. Missing' = Missing
        BY Zenon DEF Missing, ReadCapsule
    <3> QED
        BY <1>6, <1>7, <2>1, <3>2, <3>3, Zenon DEF Framed
  <2>2. CASE conn # "open"
    <3>1. IsPrefix(Left, Left \o ext)
        BY <1>5, ExtendsPrefix, Zenon
    <3> QED
        BY <1>5, <1>6, <1>7, <2>2, <3>1, Zenon DEF Framed, WireFramed
  <2> QED
      BY <2>1, <2>2
<1> QED
    BY <1>4, <1>5, <1>8, <1>9, Zenon DEF TunnelInv

\* HandleControl touches the control messages only.
LEMMA ControlStep == ASSUME TunnelInv, HandleControl PROVE TunnelInv'
<1>1. /\ ctrlCh \in Seq(Capsules \cup {None}) /\ ctrlCh # <<>> /\ Len(ctrlCh) <= CtrlCap
      /\ handled \in Seq(Capsules) /\ ctrlCh' = Tail(ctrlCh)
    BY Zenon DEF TunnelInv, TunnelTypes, HandleControl
<1>2. /\ Head(ctrlCh) \in Capsules \cup {None} /\ Tail(ctrlCh) \in Seq(Capsules \cup {None})
      /\ Len(Tail(ctrlCh)) = Len(ctrlCh) - 1 /\ Len(ctrlCh) \in Nat
    BY <1>1, HeadTailProperties, LenProperties
<1>3. ctrlCh' \in Seq(Capsules \cup {None}) /\ Len(ctrlCh') <= CtrlCap
    BY <1>1, <1>2, BoundAssumption
<1>4. handled' \in Seq(Capsules)
  <2>1. handled' = handled \/ (Head(ctrlCh) # None /\ handled' = Append(handled, Head(ctrlCh)))
      BY Zenon DEF HandleControl
  <2> QED
      BY <1>1, <1>2, <2>1, AppendProperties
<1>5. /\ wrMu' = wrMu /\ writing' = writing /\ written' = written /\ wire' = wire
      /\ conn' = conn /\ reader' = reader /\ consumed' = consumed /\ tun' = tun
      /\ dropped' = dropped
    BY DEF HandleControl
<1>6. TunnelTypes'
    BY <1>3, <1>4, <1>5, Zenon DEF TunnelInv, TunnelTypes
<1>7. Framed'
    BY <1>5, Zenon DEF TunnelInv, Framed, WireFramed, Missing, Untaken
<1> QED
    BY <1>6, <1>7, Zenon DEF TunnelInv

\* When the connection breaks a first part of what is on the wire is left.
LEMMA BreakStep == ASSUME TunnelInv, Break PROVE TunnelInv'
<1>1. PICK k \in 0..Len(wire) : wire' = SubSeq(wire, 1, k)
    BY Zenon DEF Break
<1>2. wire \in Seq(Items) /\ Missing \in Seq(Items)
    BY UntakenType, Zenon DEF TunnelInv, TunnelTypes
<1>3. k \in Nat /\ k <= Len(wire) /\ Len(wire) \in Nat
    BY <1>2, LenProperties
<1> DEFINE a == SubSeq(wire, 1, k)
           b == SubSeq(wire, k + 1, Len(wire))
<1>4. a \in Seq(Items) /\ b \in Seq(Items)
    BY <1>2, <1>3, SubSeqProperties
<1>5. wire = a \o b
  <2>1. SubSeq(wire, 1, Len(wire)) = wire
      BY <1>2, SubSeqFull, Zenon
  <2>2. 1 \in 1..Len(wire) + 1 /\ k \in 1 - 1 .. Len(wire) /\ Len(wire) \in k..Len(wire)
      BY <1>3
  <2>3. SubSeq(wire, 1, k) \o SubSeq(wire, k + 1, Len(wire)) = SubSeq(wire, 1, Len(wire))
      BY <1>2, <2>2, ConcatAdjacentSubSeq, Zenon
  <2> QED
      BY <2>1, <2>3, Zenon
<1> HIDE DEF a, b
<1>6. wire \o Missing = FlattenSeq(Untaken)
    BY Zenon DEF TunnelInv, Framed, Break
<1>7. Associates(a, b, Missing)
    BY <1>2, <1>4, Associativity, Zenon
<1>8. FlattenSeq(Untaken) = a \o (b \o Missing)
    BY <1>5, <1>6, <1>7, Zenon DEF Associates
<1>9. b \o Missing \in Seq(Items)
    BY <1>2, <1>4, ConcatProperties, Zenon
<1>10. IsPrefix(a, FlattenSeq(Untaken))
    BY <1>4, <1>8, <1>9, ExtendsPrefix, Zenon
<1>11. /\ wire' = a /\ conn' = "broken"
       /\ wrMu' = wrMu /\ writing' = writing /\ written' = written /\ handled' = handled
       /\ reader' = reader /\ consumed' = consumed /\ tun' = tun
       /\ ctrlCh' = ctrlCh /\ dropped' = dropped
    BY <1>1 DEF Break, a
<1>12. WireFramed'
    BY <1>10, <1>11, Zenon DEF WireFramed, Untaken
<1>13. TunnelTypes'
    BY <1>4, <1>11, Zenon DEF TunnelInv, TunnelTypes
<1>14. conn' # "open"
    BY <1>11
<1> QED
    BY <1>12, <1>13, <1>14, Zenon DEF TunnelInv, Framed

\* A step that at most ends the reader.
LEMMA FrameStep ==
    ASSUME TunnelInv, NEW r \in {"read", "ended"}, reader' = r,
           UNCHANGED <<wrMu, writing, written, wire, conn, consumed, tun, ctrlCh, handled,
                       dropped>>
    PROVE  TunnelInv'
<1>1. /\ wrMu' = wrMu /\ writing' = writing /\ written' = written /\ handled' = handled
      /\ wire' = wire /\ conn' = conn /\ consumed' = consumed /\ tun' = tun
      /\ ctrlCh' = ctrlCh /\ dropped' = dropped /\ reader' \in {"read", "ended"}
    OBVIOUS
<1>2. TunnelTypes'
    BY <1>1, Zenon DEF TunnelInv, TunnelTypes
<1>3. Framed'
    BY <1>1, Zenon DEF TunnelInv, Framed, WireFramed, Missing, Untaken
<1> QED
    BY <1>2, <1>3, Zenon DEF TunnelInv

\* Every step of Next keeps the invariant.
LEMMA TunnelStep == ASSUME TunnelInv, [Next]_vars PROVE TunnelInv'
<1>1. CASE \E w \in Writers : WritePayload(w)
    BY <1>1, PayloadStep, Zenon
<1>2. CASE \E w \in Writers, c \in Capsules : WriteHeader(w, c)
    BY <1>2, HeaderStep, Zenon
<1>3. CASE ReadCapsule
    BY <1>3, CapsuleStep, Zenon
<1>4. CASE ReadFails
  <2>1. /\ reader' = "ended"
        /\ UNCHANGED <<wrMu, writing, written, wire, conn, consumed, tun, ctrlCh, handled,
                       dropped>>
      BY <1>4, Zenon DEF ReadFails
  <2> QED
      BY <2>1, FrameStep
<1>5. CASE HandleControl
    BY <1>5, ControlStep, Zenon
<1>6. CASE Break
    BY <1>6, BreakStep, Zenon
<1>7. CASE UNCHANGED vars
  <2>1. /\ reader' = reader
        /\ UNCHANGED <<wrMu, writing, written, wire, conn, consumed, tun, ctrlCh, handled,
                       dropped>>
      BY <1>7 DEF vars
  <2>2. reader \in {"read", "ended"}
      BY Zenon DEF TunnelInv, TunnelTypes
  <2> QED
      BY <2>1, <2>2, FrameStep
<1> QED
    BY <1>1, <1>2, <1>3, <1>4, <1>5, <1>6, <1>7, Zenon DEF Next

\* The invariant holds in every state TunnelConn reaches.
THEOREM TunnelInvariant == Spec => []TunnelInv
BY TunnelInit, TunnelStep, PTL DEF Spec

\* Every variable of the tunnel keeps its type; the reader never takes more capsules than
\* were written, and ctrlCh never holds more than its capacity.
THEOREM TunnelTypeCorrect == Spec => []TypeOK
<1>1. ASSUME TunnelInv PROVE TypeOK
  <2>1. TunnelTypes
      BY <1>1, Zenon DEF TunnelInv
  <2>2. Len(written) \in Nat
      BY <2>1, LenProperties DEF TunnelTypes
  <2>3. consumed \in 0..MaxWritten
      BY <2>1, <2>2, BoundAssumption DEF TunnelTypes
  <2> QED
      BY <2>1, <2>3, Zenon DEF TunnelTypes, TypeOK
<1> QED
    BY <1>1, TunnelInvariant, PTL

\* The reader of a tunnel stays at the beginning of a capsule: whatever goroutines call
\* WritePacket and WriteControl, and wherever the connection breaks, what is under way is a
\* first part of the capsules not yet taken, each whole and in the order of their headers.
THEOREM TunnelFramed == Spec => []WireFramed
<1>1. TunnelInv => WireFramed
    BY Completion, Zenon
<1> QED
    BY <1>1, TunnelInvariant, PTL

----------------------------------------------------------------------------
(* What a step does to the places the reader has passed, to the TUN device and to the
   reader. *)

\* What is written does not change the places the reader has passed.
LEMMA PassedPlaces ==
    ASSUME TunnelInv, NEW w \in Writers, NEW c \in Capsules, WriteHeader(w, c)
    PROVE  /\ \A i \in 1..Len(written) : i \in 1..Len(written') /\ written'[i] = written[i]
           /\ \A i \in 1..consumed : i \in 1..Len(written)
           /\ tun' = tun /\ ctrlCh' = ctrlCh /\ handled' = handled /\ dropped' = dropped
           /\ consumed' = consumed /\ reader' = reader /\ conn' = conn
<1>1. written \in Seq(Capsules) /\ consumed \in 0..Len(written)
    BY Zenon DEF TunnelInv, TunnelTypes
<1>2. written' = Append(written, c)
    BY Zenon DEF WriteHeader
<1>3. Len(written) \in Nat
    BY <1>1, LenProperties
<1>4. /\ Len(written') = Len(written) + 1
      /\ \A i \in 1..Len(written) : written'[i] = written[i]
    BY <1>1, <1>2, AppendProperties
<1>5. \A i \in 1..Len(written) : i \in 1..Len(written')
    BY <1>3, <1>4
<1>6. \A i \in 1..consumed : i \in 1..Len(written)
    BY <1>1, <1>3
<1>7. /\ tun' = tun /\ ctrlCh' = ctrlCh /\ handled' = handled /\ dropped' = dropped
      /\ consumed' = consumed /\ reader' = reader /\ conn' = conn
    BY DEF WriteHeader
<1> QED
    BY <1>4, <1>5, <1>6, <1>7, Zenon

\* What ReadCapsule does with the capsule it takes.
LEMMA CapsuleEffect ==
    ASSUME TunnelInv, ReadCapsule
    PROVE  /\ consumed' = consumed + 1 /\ written' = written /\ handled' = handled
           /\ reader' = reader /\ conn' = conn
           /\ Forwarded(Taken) => tun' = Append(tun, Taken)
           /\ ~Forwarded(Taken) => tun' = tun
           /\ Taken.type = capsuleTypeControl /\ Len(ctrlCh) < CtrlCap =>
                 ctrlCh' = Append(ctrlCh, Content(Taken)) /\ dropped' = dropped
           /\ Taken.type = capsuleTypeControl /\ ~(Len(ctrlCh) < CtrlCap) =>
                 ctrlCh' = ctrlCh /\ dropped' = dropped \cup {consumed + 1}
           /\ Taken.type # capsuleTypeControl => ctrlCh' = ctrlCh /\ dropped' = dropped
<1> DEFINE payload == IF Length > 0 THEN Head(AfterHeader).payload ELSE None
<1>1. /\ Type = Taken.type /\ Length = Taken.len
      /\ Length > 0 => Head(AfterHeader).payload = Taken
    BY CapsuleStep, Zenon
<1>2. payload = Content(Taken)
    BY <1>1, Zenon DEF Content
<1>3. /\ Type = capsuleTypeControl => TakeControl(payload)
      /\ Type # capsuleTypeControl /\ Type = capsuleTypeIPPacket => TakePacket(payload)
      /\ Type # capsuleTypeControl /\ Type # capsuleTypeIPPacket =>
            UNCHANGED <<tun, ctrlCh, dropped>>
    BY DEF ReadCapsule, capsuleTypeControl, capsuleTypeIPPacket
<1> HIDE DEF payload
<1>4. /\ consumed' = consumed + 1 /\ written' = written /\ handled' = handled
      /\ reader' = reader /\ conn' = conn
    BY DEF ReadCapsule
<1>5. capsuleTypeControl # capsuleTypeIPPacket
    BY DEF capsuleTypeControl, capsuleTypeIPPacket
<1>6. CASE Taken.type = capsuleTypeControl
  <2>1. TakeControl(Content(Taken)) /\ ~Forwarded(Taken)
      BY <1>1, <1>2, <1>3, <1>5, <1>6, Zenon DEF Forwarded
  <2>2. /\ tun' = tun
        /\ Len(ctrlCh) < CtrlCap =>
              ctrlCh' = Append(ctrlCh, Content(Taken)) /\ dropped' = dropped
        /\ ~(Len(ctrlCh) < CtrlCap) =>
              ctrlCh' = ctrlCh /\ dropped' = dropped \cup {consumed + 1}
      BY <2>1, Zenon DEF TakeControl
  <2> QED
      BY <1>4, <1>6, <2>1, <2>2, Zenon
<1>7. CASE Taken.type # capsuleTypeControl /\ Taken.type = capsuleTypeIPPacket
  <2>1. TakePacket(Content(Taken))
      BY <1>1, <1>2, <1>3, <1>7, Zenon
  <2>2. Taken.len > 0 => Content(Taken) = Taken
      BY Zenon DEF Content
  <2>3. Forwarded(Taken) <=>
            Length > 0 /\ malonAllowedIPsContains(AllowedIPs, malonExtractSrcIP(Content(Taken)))
      BY <1>1, <1>7, <2>2, Zenon DEF Forwarded, malonAllowedIPsContains
  <2>4. /\ ctrlCh' = ctrlCh /\ dropped' = dropped
        /\ Forwarded(Taken) => tun' = Append(tun, Content(Taken))
        /\ ~Forwarded(Taken) => tun' = tun
      BY <2>1, <2>3, Zenon DEF TakePacket
  <2>5. Forwarded(Taken) => Content(Taken) = Taken
      BY <2>2, Zenon DEF Forwarded
  <2> QED
      BY <1>4, <1>7, <2>4, <2>5, Zenon
<1>8. CASE Taken.type # capsuleTypeControl /\ Taken.type # capsuleTypeIPPacket
  <2>1. tun' = tun /\ ctrlCh' = ctrlCh /\ dropped' = dropped
      BY <1>1, <1>3, <1>8
  <2>2. ~Forwarded(Taken)
      BY <1>8, Zenon DEF Forwarded
  <2> QED
      BY <1>4, <1>8, <2>1, <2>2, Zenon
<1> QED
    BY <1>6, <1>7, <1>8, Zenon

----------------------------------------------------------------------------

ForwardedPlaces == {i \in 1..consumed : Forwarded(written[i])}

\* Every step keeps TunExact: only ReadCapsule writes to the TUN device.
LEMMA TunStep == ASSUME TunnelInv, TunExact, [Next]_vars PROVE TunExact'
<1>1. Lists(tun, written, ForwardedPlaces) /\ ForwardedPlaces \in SUBSET Nat
  <2>1. Lists(tun, written, ForwardedPlaces)
      BY Zenon DEF TunExact, ForwardedPlaces
  <2>2. ForwardedPlaces \in SUBSET Nat
      BY DEF ForwardedPlaces, TunnelInv, TunnelTypes
  <2> QED
      BY <2>1, <2>2
<1>2. SUFFICES Lists(tun, written, ForwardedPlaces)'
    BY Zenon DEF TunExact, ForwardedPlaces
<1>3. CASE UNCHANGED <<tun, written, consumed>>
  <2>1. tun' = tun /\ written' = written /\ consumed' = consumed
      BY <1>3
  <2>2. ForwardedPlaces' = ForwardedPlaces
      BY <2>1, Zenon DEF ForwardedPlaces
  <2> QED
      BY <1>1, <2>1, <2>2, Zenon
<1>4. ASSUME NEW w \in Writers, NEW c \in Capsules, WriteHeader(w, c)
      PROVE  Lists(tun, written, ForwardedPlaces)'
  <2>1. /\ \A i \in 1..consumed : written'[i] = written[i]
        /\ consumed' = consumed /\ tun' = tun
      BY <1>4, PassedPlaces, Zenon
  <2>2. ForwardedPlaces' = ForwardedPlaces
      BY <2>1, Zenon DEF ForwardedPlaces
  <2>3. \A i \in ForwardedPlaces : written[i] = written'[i]
      BY <2>1, Zenon DEF ForwardedPlaces
  <2>4. Lists(tun, written', ForwardedPlaces)
      BY <1>1, <2>3, ListsSame, Zenon
  <2> QED
      BY <2>1, <2>2, <2>4, Zenon
<1>5. CASE ReadCapsule
  <2>1. /\ consumed' = consumed + 1 /\ written' = written
        /\ Forwarded(Taken) => tun' = Append(tun, Taken)
        /\ ~Forwarded(Taken) => tun' = tun
        /\ Taken \in Capsules
      BY <1>5, CapsuleEffect, CapsuleStep, Zenon
  <2>2. consumed \in Nat /\ tun \in Seq(Capsules)
      BY DEF TunnelInv, TunnelTypes
  <2>3. 1..consumed + 1 = 1..consumed \cup {consumed + 1}
      BY <2>2
  <2>4. ForwardedPlaces' = {i \in 1..consumed \cup {consumed + 1} : Forwarded(written[i])}
      BY <2>1, <2>3, Zenon DEF ForwardedPlaces
  <2>5. CASE Forwarded(Taken)
    <3>1. ForwardedPlaces' = ForwardedPlaces \cup {consumed + 1}
        BY <2>4, <2>5, Zenon DEF ForwardedPlaces, Taken
    <3>2. consumed + 1 \in Nat /\ \A q \in ForwardedPlaces : q < consumed + 1
        BY <2>2 DEF ForwardedPlaces
    <3>3. Taken = Content(written[consumed + 1])
        BY <2>5, Zenon DEF Taken, Content, Forwarded
    <3>4. Lists(Append(tun, Taken), written, ForwardedPlaces \cup {consumed + 1})
        BY <1>1, <2>1, <2>2, <3>2, <3>3, ListsAppend, Zenon
    <3> QED
        BY <2>1, <2>5, <3>1, <3>4, Zenon
  <2>6. CASE ~Forwarded(Taken)
    <3>1. ForwardedPlaces' = ForwardedPlaces
        BY <2>4, <2>6, Zenon DEF ForwardedPlaces, Taken
    <3> QED
        BY <1>1, <2>1, <2>6, <3>1, Zenon
  <2> QED
      BY <2>5, <2>6
<1>6. CASE ReadFails \/ HandleControl \/ Break \/ (\E w \in Writers : WritePayload(w))
    BY <1>3, <1>6 DEF ReadFails, HandleControl, Break, WritePayload
<1>7. CASE UNCHANGED vars
    BY <1>3, <1>7 DEF vars
<1> QED
    BY <1>4, <1>5, <1>6, <1>7, Zenon DEF Next

\* forwardConnToTUN writes to the TUN device exactly the packets with an accepted source
\* among the capsules it has taken, once and in the order they were written.
THEOREM TunnelTunExact == Spec => []TunExact
<1>1. Init => TunExact
  <2> SUFFICES ASSUME Init PROVE TunExact
      OBVIOUS
  <2>1. {i \in 1..consumed : Forwarded(written[i])} = {}
      BY DEF Init
  <2> QED
      BY <2>1, ListsNothing, Zenon DEF TunExact, Init
<1>2. TunnelInv /\ TunExact /\ [Next]_vars => TunExact'
    BY TunStep, Zenon
<1> QED
    BY <1>1, <1>2, TunnelInvariant, PTL DEF Spec

----------------------------------------------------------------------------

\* Every step keeps EndsForCause: what the reader refuses is the next capsule written.
LEMMA CauseStep == ASSUME TunnelInv, EndsForCause, [Next]_vars PROVE EndsForCause'
<1> DEFINE over(c) == c.len > maxCapsuleLen \/ (c.type = capsuleTypeIPPacket /\ c.len > MTU)
           cause == conn = "broken" \/ \E i \in 1..Len(written) : over(written[i])
<1>1. reader = "ended" => cause
    BY Zenon DEF EndsForCause
<1>2. SUFFICES reader' = "ended" => cause'
    BY Zenon DEF EndsForCause
<1>3. CASE UNCHANGED <<reader, conn, written>>
    BY <1>1, <1>3
<1>4. ASSUME NEW w \in Writers, NEW c \in Capsules, WriteHeader(w, c)
      PROVE  reader' = "ended" => cause'
  <2>1. /\ \A i \in 1..Len(written) : i \in 1..Len(written') /\ written'[i] = written[i]
        /\ reader' = reader /\ conn' = conn
      BY <1>4, PassedPlaces, Zenon
  <2> QED
      BY <1>1, <2>1, Zenon
<1>5. CASE ReadFails
  <2>1. conn' = conn /\ written' = written
      BY <1>5 DEF ReadFails
  <2>2. CASE conn = "broken"
      BY <2>1, <2>2, Zenon
  <2>3. CASE HasHeader /\ Refused
    <3>1. PICK ext \in Seq(Items) : wire \o ext = FlattenSeq(Untaken)
        BY Completion, Zenon
    <3>2. consumed + 1 \in 1..Len(written) /\ Type = Taken.type /\ Length = Taken.len
        BY <2>3, <3>1, NextHeader, Zenon DEF TunnelInv
    <3>3. over(written[consumed + 1])
        BY <2>3, <3>2, Zenon DEF Refused, Taken
    <3> QED
        BY <2>1, <3>2, <3>3, Zenon
  <2> QED
      BY <1>5, <2>2, <2>3, Zenon DEF ReadFails
<1>6. CASE Break
    BY <1>6, Zenon DEF Break
<1>7. CASE ReadCapsule \/ HandleControl \/ (\E w \in Writers : WritePayload(w))
    BY <1>3, <1>7 DEF ReadCapsule, HandleControl, WritePayload
<1>8. CASE UNCHANGED vars
    BY <1>3, <1>8 DEF vars
<1> QED
    BY <1>4, <1>5, <1>6, <1>7, <1>8, Zenon DEF Next

\* forwardConnToTUN returns only on a broken connection or after a capsule above the limits
\* was written; never on a keepalive, an unknown type or a packet of exactly the MTU.
THEOREM TunnelEndsForCause == Spec => []EndsForCause
<1>1. Init => EndsForCause
    BY DEF Init, EndsForCause
<1>2. TunnelInv /\ EndsForCause /\ [Next]_vars => EndsForCause'
    BY CauseStep, Zenon
<1> QED
    BY <1>1, <1>2, TunnelInvariant, PTL DEF Spec

----------------------------------------------------------------------------
(* The control messages. *)

HandledPlaces(h) == {i \in Kept : i <= h /\ Candidates(written[i])}

WaitingPlaces(h) == {i \in Kept : i > h}

ControlBefore(i) == {j \in 1..i - 1 : IsControl(j)}

\* ControlOrdered, with its first part for one h.
OrderedAt(h) ==
    /\ Lists(handled, written, HandledPlaces(h))
    /\ Lists(ctrlCh, written, WaitingPlaces(h))

DroppedFull == \A i \in dropped : Cardinality(ControlBefore(i)) >= CtrlCap

\* ControlOrdered in these terms.
LEMMA OrderedForm ==
    ControlOrdered <=> (\E h \in 0..consumed : OrderedAt(h)) /\ DroppedFull
BY Zenon DEF ControlOrdered, OrderedAt, DroppedFull, HandledPlaces, WaitingPlaces,
   ControlBefore

\* The same after a step.
LEMMA OrderedNext ==
    ControlOrdered' <=> (\E h \in 0..consumed' : OrderedAt(h)') /\ DroppedFull'
BY Zenon DEF ControlOrdered, OrderedAt, DroppedFull, HandledPlaces, WaitingPlaces,
   ControlBefore

\* All these places are numbers of capsules taken.
LEMMA KeptTypes ==
    ASSUME TunnelInv, NEW h \in Nat
    PROVE  /\ HandledPlaces(h) \in SUBSET Nat /\ WaitingPlaces(h) \in SUBSET Nat
           /\ \A i \in Kept : i \in 1..consumed /\ i \in Nat
           /\ consumed \in Nat
<1>1. consumed \in Nat
    BY DEF TunnelInv, TunnelTypes
<1>2. \A i \in Kept : i \in 1..consumed /\ i \in Nat
    BY <1>1 DEF Kept
<1> QED
    BY <1>1, <1>2 DEF HandledPlaces, WaitingPlaces

\* A step that changes nothing the property speaks of.
LEMMA ControlSame ==
    ASSUME ControlOrdered, UNCHANGED <<written, consumed, ctrlCh, handled, dropped>>
    PROVE  ControlOrdered'
<1>1. /\ written' = written /\ consumed' = consumed /\ ctrlCh' = ctrlCh
      /\ handled' = handled /\ dropped' = dropped
    OBVIOUS
<1> QED
    BY <1>1, Zenon DEF ControlOrdered, Kept, IsControl

\* A capsule written changes no place the reader has passed.
LEMMA ControlWrite ==
    ASSUME TunnelInv, ControlOrdered, NEW w \in Writers, NEW c \in Capsules, WriteHeader(w, c)
    PROVE  ControlOrdered'
<1>1. /\ \A i \in 1..consumed : written'[i] = written[i]
      /\ consumed' = consumed /\ ctrlCh' = ctrlCh /\ handled' = handled /\ dropped' = dropped
    BY PassedPlaces, Zenon
<1>2. PICK h \in 0..consumed : OrderedAt(h)
    BY OrderedForm, Zenon
<1>3. consumed \in Nat /\ dropped \subseteq 1..consumed
    BY DEF TunnelInv, TunnelTypes
<1>4. \A i \in 1..consumed : IsControl(i)' = IsControl(i)
    BY <1>1, Zenon DEF IsControl
<1>5. Kept' = Kept
    BY <1>1, <1>4, Zenon DEF Kept
<1>6. \A i \in Kept : written[i] = written'[i]
    BY <1>1, Zenon DEF Kept
<1>7. HandledPlaces(h)' = HandledPlaces(h) /\ WaitingPlaces(h)' = WaitingPlaces(h)
    BY <1>5, <1>6, Zenon DEF HandledPlaces, WaitingPlaces
<1>8. Lists(handled, written', HandledPlaces(h)) /\ Lists(ctrlCh, written', WaitingPlaces(h))
  <2>1. /\ \A i \in HandledPlaces(h) : written[i] = written'[i]
        /\ \A i \in WaitingPlaces(h) : written[i] = written'[i]
      BY <1>6, Zenon DEF HandledPlaces, WaitingPlaces
  <2>2. Lists(handled, written, HandledPlaces(h)) /\ Lists(ctrlCh, written, WaitingPlaces(h))
      BY <1>2, Zenon DEF OrderedAt
  <2>3. Lists(handled, written', HandledPlaces(h))
      BY <2>1, <2>2, ListsSame, Zenon
  <2>4. Lists(ctrlCh, written', WaitingPlaces(h))
      BY <2>1, <2>2, ListsSame, Zenon
  <2> QED
      BY <2>3, <2>4
<1>9. OrderedAt(h)'
    BY <1>1, <1>7, <1>8, Zenon DEF OrderedAt
<1>10. DroppedFull'
  <2>1. \A i \in dropped : \A j \in 1..i - 1 : j \in 1..consumed
      BY <1>3
  <2>2. \A i \in dropped : ControlBefore(i)' = ControlBefore(i)
      BY <1>4, <2>1, Zenon DEF ControlBefore
  <2>3. DroppedFull
      BY OrderedForm, Zenon
  <2> QED
      BY <1>1, <2>2, <2>3, Zenon DEF DroppedFull
<1>11. h \in 0..consumed'
    BY <1>1
<1> QED
    BY <1>9, <1>10, <1>11, OrderedNext, Zenon

\* A control message taken is the last to wait; when ctrlCh is full, as many control
\* messages as it holds came before.
LEMMA ControlRead ==
    ASSUME TunnelInv, ControlOrdered, ReadCapsule
    PROVE  ControlOrdered'
<1> DEFINE n == consumed + 1
<1>1. /\ consumed' = n /\ written' = written /\ handled' = handled
      /\ Taken.type = capsuleTypeControl /\ Len(ctrlCh) < CtrlCap =>
            ctrlCh' = Append(ctrlCh, Content(Taken)) /\ dropped' = dropped
      /\ Taken.type = capsuleTypeControl /\ ~(Len(ctrlCh) < CtrlCap) =>
            ctrlCh' = ctrlCh /\ dropped' = dropped \cup {n}
      /\ Taken.type # capsuleTypeControl => ctrlCh' = ctrlCh /\ dropped' = dropped
      /\ Taken \in Capsules
    BY CapsuleEffect, CapsuleStep, Zenon
<1>2. PICK h \in 0..consumed : OrderedAt(h)
    BY OrderedForm, Zenon
<1>3. /\ consumed \in Nat /\ dropped \subseteq 1..consumed
      /\ ctrlCh \in Seq(Capsules \cup {None}) /\ Len(ctrlCh) <= CtrlCap
    BY DEF TunnelInv, TunnelTypes
<1>4. /\ 1..n = 1..consumed \cup {n} /\ n \notin 1..consumed /\ n \in Nat
      /\ h \in 0..n /\ h \in Nat /\ n > h /\ ~(n <= h)
    BY <1>3
<1>5. n \notin dropped
    BY <1>3, <1>4, Zenon
<1> HIDE DEF n
<1>6. \A i : IsControl(i)' = IsControl(i)
    BY <1>1, Zenon DEF IsControl
<1>7. Kept' = {i \in 1..consumed \cup {n} : IsControl(i) /\ i \notin dropped'}
    BY <1>1, <1>4, <1>6, Zenon DEF Kept
<1>8. IsControl(n) <=> Taken.type = capsuleTypeControl
    BY Zenon DEF IsControl, Taken, n
<1>9. DroppedFull /\ \A i \in dropped : Cardinality(ControlBefore(i)') >= CtrlCap
  <2>1. DroppedFull
      BY OrderedForm, Zenon
  <2>2. \A i : ControlBefore(i)' = ControlBefore(i)
      BY <1>6, Zenon DEF ControlBefore
  <2> QED
      BY <2>1, <2>2, Zenon DEF DroppedFull
<1>10. Lists(handled, written, HandledPlaces(h)) /\ Lists(ctrlCh, written, WaitingPlaces(h))
    BY <1>2, Zenon DEF OrderedAt
<1>11. SUFFICES OrderedAt(h)' /\ DroppedFull'
    BY <1>1, <1>4, OrderedNext, Zenon
<1>12. CASE Kept' = Kept /\ ctrlCh' = ctrlCh
  <2>1. HandledPlaces(h)' = HandledPlaces(h) /\ WaitingPlaces(h)' = WaitingPlaces(h)
      BY <1>1, <1>12, Zenon DEF HandledPlaces, WaitingPlaces
  <2>2. OrderedAt(h)'
      BY <1>1, <1>10, <1>12, <2>1, Zenon DEF OrderedAt
  <2>3. CASE dropped' = dropped
      BY <1>9, <2>2, <2>3, Zenon DEF DroppedFull
  <2>4. CASE dropped' # dropped
    <3>1. dropped' = dropped \cup {n} /\ ~(Len(ctrlCh) < CtrlCap)
        BY <1>1, <2>4, Zenon
    <3>2. Cardinality(ControlBefore(n)) >= CtrlCap
      <4>1. ControlBefore(n) = {j \in 1..consumed : IsControl(j)}
        <5>1. n - 1 = consumed
            BY <1>3 DEF n
        <5> QED
            BY <5>1, Zenon DEF ControlBefore
      <4>2. WaitingPlaces(h) \subseteq ControlBefore(n)
          BY <4>1, Zenon DEF WaitingPlaces, Kept
      <4>3. IsFiniteSet(ControlBefore(n))
        <5>1. IsFiniteSet(1..consumed)
            BY <1>3, FS_Interval
        <5>2. ControlBefore(n) \subseteq 1..consumed
            BY <4>1, Zenon
        <5> QED
            BY <5>1, <5>2, FS_Subset, Zenon
      <4>4. WaitingPlaces(h) \in SUBSET Nat
          BY <1>4, KeptTypes, Zenon
      <4>5. Cardinality(ControlBefore(n)) >= Len(ctrlCh)
          BY <1>3, <1>10, <4>2, <4>3, <4>4, ListsBound, Zenon
      <4>6. Cardinality(ControlBefore(n)) \in Nat
          BY <4>3, FS_CardinalityType, Zenon
      <4>7. Len(ctrlCh) \in Nat
          BY <1>3, LenProperties
      <4> QED
          BY <3>1, <4>5, <4>6, <4>7, BoundAssumption
    <3>3. \A i : {j \in 1..i - 1 : IsControl(j)'} = ControlBefore(i)
        BY <1>6, Zenon DEF ControlBefore
    <3>4. \A i \in dropped' : Cardinality({j \in 1..i - 1 : IsControl(j)'}) >= CtrlCap
        BY <1>9, <3>1, <3>2, <3>3, Zenon DEF DroppedFull
    <3>5. DroppedFull'
        BY <3>4, Zenon DEF DroppedFull, ControlBefore
    <3> QED
        BY <2>2, <3>5
  <2> QED
      BY <2>3, <2>4
<1>13. CASE Taken.type # capsuleTypeControl
  <2>1. Kept' = Kept
      BY <1>1, <1>7, <1>8, <1>13, Zenon DEF Kept
  <2> QED
      BY <1>1, <1>12, <1>13, <2>1, Zenon
<1>14. CASE Taken.type = capsuleTypeControl /\ ~(Len(ctrlCh) < CtrlCap)
  <2>1. dropped' = dropped \cup {n} /\ ctrlCh' = ctrlCh
      BY <1>1, <1>14, Zenon
  <2>2. Kept' = Kept
      BY <1>4, <1>7, <2>1, Zenon DEF Kept
  <2> QED
      BY <1>12, <2>1, <2>2, Zenon
<1>15. CASE Taken.type = capsuleTypeControl /\ Len(ctrlCh) < CtrlCap
  <2>1. dropped' = dropped /\ ctrlCh' = Append(ctrlCh, Content(Taken))
      BY <1>1, <1>15, Zenon
  <2>2. Kept' = Kept \cup {n}
      BY <1>5, <1>7, <1>8, <1>15, <2>1, Zenon DEF Kept
  <2>3. HandledPlaces(h)' = HandledPlaces(h)
      BY <1>1, <1>4, <2>2, Zenon DEF HandledPlaces
  <2>4. WaitingPlaces(h)' = WaitingPlaces(h) \cup {n}
      BY <1>4, <2>2, Zenon DEF WaitingPlaces
  <2>5. Content(Taken) \in Capsules \cup {None} /\ Content(Taken) = Content(written[n])
      BY <1>1, Zenon DEF Content, Taken, n
  <2>6. WaitingPlaces(h) \in SUBSET Nat
      BY <1>4, KeptTypes, Zenon
  <2>7. \A q \in WaitingPlaces(h) : q < n
    <3>1. \A q \in WaitingPlaces(h) : q \in 1..consumed
        BY Zenon DEF WaitingPlaces, Kept
    <3> QED
        BY <1>3, <3>1 DEF n
  <2>8. Lists(Append(ctrlCh, Content(Taken)), written, WaitingPlaces(h) \cup {n})
      BY <1>3, <1>4, <1>10, <2>5, <2>6, <2>7, ListsAppend, Zenon
  <2>9. OrderedAt(h)'
      BY <1>1, <1>10, <2>1, <2>3, <2>4, <2>8, Zenon DEF OrderedAt
  <2>10. DroppedFull'
      BY <1>9, <2>1, Zenon DEF DroppedFull
  <2> QED
      BY <2>9, <2>10
<1> QED
    BY <1>13, <1>14, <1>15, Zenon

\* The message controlReadLoop takes is at the first place that waits.
LEMMA ControlHandle ==
    ASSUME TunnelInv, ControlOrdered, HandleControl
    PROVE  ControlOrdered'
<1>1. PICK h \in 0..consumed : OrderedAt(h)
    BY OrderedForm, Zenon
<1>2. /\ consumed \in Nat /\ h \in Nat
      /\ ctrlCh \in Seq(Capsules \cup {None}) /\ handled \in Seq(Capsules)
      /\ written \in Seq(Capsules) /\ consumed \in 0..Len(written)
    BY DEF TunnelInv, TunnelTypes
<1>3. /\ ctrlCh # <<>> /\ ctrlCh' = Tail(ctrlCh)
      /\ handled' = IF Head(ctrlCh) # None /\ Head(ctrlCh).body = "candidates"
                    THEN Append(handled, Head(ctrlCh)) ELSE handled
      /\ written' = written /\ consumed' = consumed /\ dropped' = dropped
    BY DEF HandleControl
<1>4. /\ WaitingPlaces(h) \in SUBSET Nat /\ HandledPlaces(h) \in SUBSET Nat
      /\ \A i \in Kept : i \in 1..consumed /\ i \in Nat
    BY <1>2, KeptTypes, Zenon
<1>5. Lists(handled, written, HandledPlaces(h)) /\ Lists(ctrlCh, written, WaitingPlaces(h))
    BY <1>1, Zenon DEF OrderedAt
<1>6. PICK p \in WaitingPlaces(h) : /\ Head(ctrlCh) = Content(written[p])
                                    /\ \A q \in WaitingPlaces(h) \ {p} : p < q
                                    /\ Lists(Tail(ctrlCh), written, WaitingPlaces(h) \ {p})
    BY <1>2, <1>3, <1>4, <1>5, ListsTail, Zenon
<1>7. p \in Kept /\ p > h /\ p \in 1..consumed /\ p \in Nat
    BY <1>4, <1>6, Zenon DEF WaitingPlaces
<1>8. p \in 0..consumed /\ p \in 1..Len(written)
    BY <1>2, <1>7, LenProperties
<1>9. written[p] \in Capsules
    BY <1>2, <1>8, ElementOfSeq, Zenon
<1>10. /\ \A i \in Kept : i > p <=> (i > h /\ i # p)
       /\ \A i \in Kept : i <= p <=> (i <= h \/ i = p)
  <2>1. \A i \in Kept : i > h /\ i # p => p < i
      BY <1>6, Zenon DEF WaitingPlaces
  <2>2. \A i \in Kept : i \in Nat
      BY <1>4, Zenon
  <2> QED
      BY <1>2, <1>7, <2>1, <2>2
<1>11. WaitingPlaces(p) = WaitingPlaces(h) \ {p}
    BY <1>10, Zenon DEF WaitingPlaces
<1>12. /\ Candidates(written[p]) => HandledPlaces(p) = HandledPlaces(h) \cup {p}
       /\ ~Candidates(written[p]) => HandledPlaces(p) = HandledPlaces(h)
    BY <1>7, <1>10, Zenon DEF HandledPlaces
<1>13. /\ Candidates(written[p]) =>
              handled' = Append(handled, written[p]) /\ Content(written[p]) = written[p]
       /\ ~Candidates(written[p]) => handled' = handled
  <2>1. written[p] # None
      BY <1>9, NoneAssumption, Zenon
  <2>2. Candidates(written[p]) <=> Head(ctrlCh) # None /\ Head(ctrlCh).body = "candidates"
      BY <1>6, <2>1, Zenon DEF Candidates, Content
  <2>3. Candidates(written[p]) => Content(written[p]) = written[p]
      BY Zenon DEF Candidates, Content
  <2> QED
      BY <1>3, <1>6, <2>2, <2>3, Zenon
<1>14. Lists(handled', written, HandledPlaces(p))
  <2>1. CASE Candidates(written[p])
    <3>1. \A q \in HandledPlaces(h) : q < p
      <4>1. \A q \in HandledPlaces(h) : q \in Nat /\ q <= h
          BY <1>4, Zenon DEF HandledPlaces
      <4> QED
          BY <1>2, <1>7, <4>1
    <3>2. Lists(Append(handled, written[p]), written, HandledPlaces(h) \cup {p})
        BY <1>2, <1>4, <1>5, <1>7, <1>9, <1>13, <2>1, <3>1, ListsAppend, Zenon
    <3> QED
        BY <1>12, <1>13, <2>1, <3>2, Zenon
  <2>2. CASE ~Candidates(written[p])
      BY <1>5, <1>12, <1>13, <2>2, Zenon
  <2> QED
      BY <2>1, <2>2
<1>15. \A i : IsControl(i)' = IsControl(i)
    BY <1>3, Zenon DEF IsControl
<1>16. Kept' = Kept
    BY <1>3, <1>15, Zenon DEF Kept
<1>17. HandledPlaces(p)' = HandledPlaces(p) /\ WaitingPlaces(p)' = WaitingPlaces(p)
    BY <1>3, <1>16, Zenon DEF HandledPlaces, WaitingPlaces
<1>18. OrderedAt(p)'
    BY <1>3, <1>6, <1>11, <1>14, <1>17, Zenon DEF OrderedAt
<1>19. DroppedFull'
  <2>1. DroppedFull
      BY OrderedForm, Zenon
  <2>2. \A i : ControlBefore(i)' = ControlBefore(i)
      BY <1>15, Zenon DEF ControlBefore
  <2> QED
      BY <1>3, <2>1, <2>2, Zenon DEF DroppedFull
<1> QED
    BY <1>3, <1>8, <1>18, <1>19, OrderedNext, Zenon

\* controlReadLoop goes through the control messages in the order they were written, each
\* candidates message handled once; one is missing only when ctrlCh was full.
THEOREM TunnelControlOrdered == Spec => []ControlOrdered
<1>1. Init => ControlOrdered
  <2> SUFFICES ASSUME Init PROVE ControlOrdered
      OBVIOUS
  <2>1. Kept = {} /\ dropped = {} /\ 0 \in 0..consumed
      BY DEF Init, Kept
  <2>2. HandledPlaces(0) = {} /\ WaitingPlaces(0) = {}
      BY <2>1, Zenon DEF HandledPlaces, WaitingPlaces
  <2>3. OrderedAt(0)
      BY <2>2, ListsNothing, Zenon DEF OrderedAt, Init
  <2>4. DroppedFull
      BY <2>1, Zenon DEF DroppedFull
  <2> QED
      BY <2>1, <2>3, <2>4, OrderedForm, Zenon
<1>2. TunnelInv /\ ControlOrdered /\ [Next]_vars => ControlOrdered'
  <2> SUFFICES ASSUME TunnelInv, ControlOrdered, [Next]_vars PROVE ControlOrdered'
      OBVIOUS
  <2>1. CASE \E w \in Writers, c \in Capsules : WriteHeader(w, c)
      BY <2>1, ControlWrite, Zenon
  <2>2. CASE ReadCapsule
      BY <2>2, ControlRead, Zenon
  <2>3. CASE HandleControl
      BY <2>3, ControlHandle, Zenon
  <2>4. CASE ReadFails \/ Break \/ (\E w \in Writers : WritePayload(w))
    <3>1. UNCHANGED <<written, consumed, ctrlCh, handled, dropped>>
        BY <2>4 DEF ReadFails, Break, WritePayload
    <3> QED
        BY <3>1, ControlSame
  <2>5. CASE UNCHANGED vars
    <3>1. UNCHANGED <<written, consumed, ctrlCh, handled, dropped>>
        BY <2>5 DEF vars
    <3> QED
        BY <3>1, ControlSame
  <2> QED
      BY <2>1, <2>2, <2>3, <2>4, <2>5, Zenon DEF Next
<1> QED
    BY <1>1, <1>2, TunnelInvariant, PTL DEF Spec

----------------------------------------------------------------------------
(* The tunnel implements CapsuleQueue. *)

\* What is left of s after its first k elements.
After(s, k) == [i \in 1..Len(s) - k |-> s[k + i]]

\* After(s, k) is a sequence, and shorter than s by k.
LEMMA AfterType ==
    ASSUME NEW s \in Seq(Capsules), NEW k \in 0..Len(s)
    PROVE  /\ After(s, k) \in Seq(Capsules) /\ Len(After(s, k)) = Len(s) - k
           /\ \A i \in 1..Len(s) - k : After(s, k)[i] = s[k + i]
<1> DEFINE n == Len(s) - k
           f == [i \in 1..n |-> s[k + i]]
<1>1. n \in Nat
    BY LenProperties
<1>2. \A i \in 1..n : k + i \in 1..Len(s)
    BY LenProperties
<1>3. \A i \in 1..n : s[k + i] \in Capsules
    BY <1>2, ElementOfSeq
<1> HIDE DEF n
<1>4. f \in [1..n -> Capsules] /\ \A i \in 1..n : f[i] = s[k + i]
    BY <1>3, Zenon
<1>5. After(s, k) = f
    BY Zenon DEF After, n
<1> HIDE DEF f
<1>6. f \in Seq(Capsules) /\ Len(f) = n
    BY <1>1, <1>4
<1> QED
    BY <1>4, <1>5, <1>6, Zenon DEF n

\* What is appended to s comes last of what is left.
LEMMA AfterAppend ==
    ASSUME NEW s \in Seq(Capsules), NEW k \in 0..Len(s), NEW c \in Capsules
    PROVE  After(Append(s, c), k) = Append(After(s, k), c)
<1> DEFINE t == Append(s, c)
           x == After(s, k)
           y == After(t, k)
           z == Append(x, c)
<1>1. /\ t \in Seq(Capsules) /\ Len(t) = Len(s) + 1 /\ t[Len(s) + 1] = c
      /\ \A i \in 1..Len(s) : t[i] = s[i]
    BY AppendProperties
<1> HIDE DEF t
<1>2. Len(s) \in Nat
    BY LenProperties
<1>3. k \in 0..Len(t)
    BY <1>1, <1>2
<1>4. x \in Seq(Capsules) /\ Len(x) = Len(s) - k /\ \A i \in 1..Len(s) - k : x[i] = s[k + i]
    BY AfterType, Zenon
<1>5. y \in Seq(Capsules) /\ Len(y) = Len(t) - k /\ \A i \in 1..Len(t) - k : y[i] = t[k + i]
    BY <1>1, <1>3, AfterType, Zenon
<1> HIDE DEF x, y
<1>6. /\ z \in Seq(Capsules) /\ Len(z) = Len(x) + 1 /\ z[Len(x) + 1] = c
      /\ \A i \in 1..Len(x) : z[i] = x[i]
    BY <1>4, AppendProperties
<1> HIDE DEF z
<1>7. Len(y) = Len(z)
    BY <1>1, <1>2, <1>4, <1>5, <1>6
<1>8. ASSUME NEW i \in 1..Len(y) PROVE y[i] = z[i]
  <2>1. i \in 1..Len(t) - k /\ y[i] = t[k + i]
      BY <1>5, Zenon
  <2>2. CASE i = Len(x) + 1
    <3>1. k + i = Len(s) + 1
        BY <1>2, <1>4, <2>2
    <3> QED
        BY <1>1, <1>6, <2>1, <2>2, <3>1, Zenon
  <2>3. CASE i # Len(x) + 1
    <3>1. i \in 1..Len(s) - k /\ i \in 1..Len(x) /\ k + i \in 1..Len(s)
        BY <1>1, <1>2, <1>4, <2>1, <2>3
    <3> QED
        BY <1>1, <1>4, <1>6, <2>1, <3>1, Zenon
  <2> QED
      BY <2>2, <2>3
<1> QED
    BY <1>5, <1>6, <1>7, <1>8, SeqEqual, Zenon DEF t, x, y, z

\* One element less is left after one more.
LEMMA AfterTail ==
    ASSUME NEW s \in Seq(Capsules), NEW k \in 0..Len(s), k + 1 \in 1..Len(s)
    PROVE  /\ After(s, k) # <<>> /\ Head(After(s, k)) = s[k + 1]
           /\ After(s, k + 1) = Tail(After(s, k))
<1> DEFINE x == After(s, k)
           y == After(s, k + 1)
           z == Tail(x)
<1>1. Len(s) \in Nat
    BY LenProperties
<1>2. k + 1 \in 0..Len(s) /\ 1 \in 1..Len(s) - k /\ Len(s) - k # 0
    BY <1>1
<1>3. x \in Seq(Capsules) /\ Len(x) = Len(s) - k /\ \A i \in 1..Len(s) - k : x[i] = s[k + i]
    BY AfterType, Zenon
<1>4. /\ y \in Seq(Capsules) /\ Len(y) = Len(s) - (k + 1)
      /\ \A i \in 1..Len(s) - (k + 1) : y[i] = s[(k + 1) + i]
    BY <1>2, AfterType, Zenon
<1> HIDE DEF x, y
<1>5. x # <<>>
    BY <1>2, <1>3, EmptySeq, Zenon
<1>6. /\ Tail(x) \in Seq(Capsules) /\ Len(Tail(x)) = Len(x) - 1
      /\ \A i \in 1..Len(Tail(x)) : Tail(x)[i] = x[i + 1]
    BY <1>3, <1>5, HeadTailProperties, Zenon
<1> HIDE DEF z
<1>7. /\ z \in Seq(Capsules) /\ Len(z) = Len(x) - 1
      /\ \A i \in 1..Len(z) : z[i] = x[i + 1]
    BY <1>6, Zenon DEF z
<1>8. Head(x) = x[1]
    BY <1>3, <1>5
<1>9. Len(y) = Len(z)
    BY <1>1, <1>3, <1>4, <1>7
<1>10. ASSUME NEW i \in 1..Len(y) PROVE y[i] = z[i]
  <2>1. i \in 1..Len(s) - (k + 1) /\ i + 1 \in 1..Len(s) - k /\ (k + 1) + i = k + (i + 1)
      BY <1>1, <1>4
  <2>2. i \in 1..Len(z)
      BY <1>9, Zenon
  <2> QED
      BY <1>3, <1>4, <1>7, <2>1, <2>2, Zenon
<1>11. y = z
    BY <1>4, <1>7, <1>9, <1>10, SeqEqual, Zenon
<1> QED
    BY <1>2, <1>3, <1>5, <1>8, <1>11, Zenon DEF x, y, z

\* The queue of the refinement mapping.
LEMMA QueueAfter == Queue = After(written, consumed) /\ Queue' = After(written', consumed')
BY Zenon DEF Queue, After

\* The capsule the reader takes next is the first of the queue.
LEMMA QueueHead ==
    ASSUME TunnelTypes, consumed + 1 \in 1..Len(written)
    PROVE  /\ Queue # <<>> /\ Head(Queue) = Taken
           /\ After(written, consumed + 1) = Tail(Queue)
BY AfterTail, QueueAfter, Zenon DEF TunnelTypes, Taken

\* Steps that neither write a header nor take a capsule leave the queue as it is.
LEMMA QueueSame == ASSUME UNCHANGED <<written, consumed>> PROVE Queue' = Queue
<1>1. written' = written /\ consumed' = consumed
    OBVIOUS
<1> QED
    BY <1>1, QueueAfter, Zenon

\* A header that is written puts its capsule into the queue: the payload adds nothing.
LEMMA SendStep ==
    ASSUME TunnelInv, NEW w \in Writers, NEW c \in Capsules, WriteHeader(w, c)
    PROVE  Abstract!Send(c)
<1>1. written \in Seq(Capsules) /\ consumed \in 0..Len(written)
    BY Zenon DEF TunnelInv, TunnelTypes
<1>2. /\ conn = "open" /\ written' = Append(written, c) /\ consumed' = consumed
      /\ conn' = conn /\ reader' = reader /\ tun' = tun /\ ctrlCh' = ctrlCh
      /\ handled' = handled
    BY DEF WriteHeader
<1>3. Queue' = Append(Queue, c)
    BY <1>1, <1>2, AfterAppend, QueueAfter, Zenon
<1> QED
    BY <1>2, <1>3, Zenon DEF Abstract!Send

\* ReadCapsule takes the first of the queue and does with it what its kind asks for.
LEMMA TakeStep == ASSUME TunnelInv, ReadCapsule PROVE Abstract!Take
<1>1. /\ consumed + 1 \in 1..Len(written) /\ Taken \in Capsules
      /\ Type = Taken.type /\ Length = Taken.len
    BY CapsuleStep, Zenon
<1>2. TunnelTypes
    BY Zenon DEF TunnelInv
<1>3. Queue # <<>> /\ Head(Queue) = Taken /\ After(written, consumed + 1) = Tail(Queue)
    BY <1>1, <1>2, QueueHead, Zenon
<1>4. reader = "read" /\ ~Refused
    BY Zenon DEF ReadCapsule
<1>5. ~OverLimit(Taken)
    BY <1>1, <1>4, Zenon DEF Refused, OverLimit
<1>6. /\ consumed' = consumed + 1 /\ written' = written /\ handled' = handled
      /\ reader' = reader /\ conn' = conn
    BY CapsuleEffect, Zenon
<1>7. Queue' = Tail(Queue)
    BY <1>3, <1>6, QueueAfter, Zenon
<1>8. tun' = IF Taken \in {c \in Capsules : Forwarded(c)} THEN Append(tun, Taken) ELSE tun
    BY <1>1, CapsuleEffect, Zenon
<1>9. ctrlCh' = IF Taken \in {c \in Capsules : c.type = capsuleTypeControl} /\ Len(ctrlCh) < CtrlCap
                THEN Append(ctrlCh, Content(Taken)) ELSE ctrlCh
    BY <1>1, CapsuleEffect, Zenon
<1>10. Taken \notin {c \in Capsules : OverLimit(c)}
    BY <1>5, Zenon
<1> QED
    BY <1>3, <1>4, <1>6, <1>7, <1>8, <1>9, <1>10, Zenon DEF Abstract!Take

\* forwardConnToTUN gives up on a lost connection, or on the first of the queue.
LEMMA StopStep == ASSUME TunnelInv, ReadFails PROVE Abstract!Stop
<1>1. /\ reader = "read" /\ reader' = "ended" /\ written' = written /\ consumed' = consumed
      /\ conn' = conn /\ tun' = tun /\ ctrlCh' = ctrlCh /\ handled' = handled
    BY DEF ReadFails
<1>2. Queue' = Queue
    BY <1>1, QueueSame, Zenon
<1>3. ~(conn = "open") \/ (Queue # <<>> /\ Head(Queue) \in {c \in Capsules : OverLimit(c)})
  <2>1. CASE conn = "broken"
      BY <2>1
  <2>2. CASE HasHeader /\ Refused
    <3>1. PICK ext \in Seq(Items) : wire \o ext = FlattenSeq(Untaken)
        BY Completion, Zenon
    <3>2. /\ consumed + 1 \in 1..Len(written) /\ Taken \in Capsules
          /\ Type = Taken.type /\ Length = Taken.len
        BY <2>2, <3>1, NextHeader, Zenon DEF TunnelInv
    <3>3. OverLimit(Taken)
        BY <2>2, <3>2, Zenon DEF Refused, OverLimit
    <3>4. Queue # <<>> /\ Head(Queue) = Taken
        BY <3>2, QueueHead, Zenon DEF TunnelInv
    <3> QED
        BY <3>2, <3>3, <3>4, Zenon
  <2> QED
      BY <2>1, <2>2, Zenon DEF ReadFails
<1>4. (reader' = "read") = FALSE
    BY <1>1
<1> QED
    BY <1>1, <1>2, <1>3, <1>4, Zenon DEF Abstract!Stop

\* controlReadLoop handles the messages that wait, in turn.
LEMMA HandleStep == ASSUME TunnelInv, HandleControl PROVE Abstract!Handle
<1>1. ctrlCh # <<>> /\ ctrlCh \in Seq(Capsules \cup {None})
    BY DEF TunnelInv, TunnelTypes, HandleControl
<1>2. Head(ctrlCh) \in Capsules \cup {None}
    BY <1>1, HeadTailProperties, Zenon
<1>3. Head(ctrlCh) \in {c \in Capsules : c.body = "candidates"} <=>
          Head(ctrlCh) # None /\ Head(ctrlCh).body = "candidates"
    BY <1>2, NoneAssumption, Zenon
<1>4. /\ ctrlCh' = Tail(ctrlCh)
      /\ handled' = IF Head(ctrlCh) # None /\ Head(ctrlCh).body = "candidates"
                    THEN Append(handled, Head(ctrlCh)) ELSE handled
      /\ written' = written /\ consumed' = consumed /\ conn' = conn /\ reader' = reader
      /\ tun' = tun
    BY DEF HandleControl
<1>5. Queue' = Queue
    BY <1>4, QueueSame, Zenon
<1>6. handled' = IF Head(ctrlCh) \in {c \in Capsules : c.body = "candidates"}
                 THEN Append(handled, Head(ctrlCh)) ELSE handled
    BY <1>3, <1>4, Zenon
<1> QED
    BY <1>1, <1>4, <1>5, <1>6, Zenon DEF Abstract!Handle

\* Every step of the tunnel is a step of the queue, or none.
LEMMA QueueStep == ASSUME TunnelInv, [Next]_vars PROVE [Abstract!Next]_(Abstract!vars)
<1>1. ASSUME UNCHANGED <<written, consumed, conn, reader, tun, ctrlCh, handled>>
      PROVE  UNCHANGED Abstract!vars
  <2>1. /\ written' = written /\ consumed' = consumed /\ conn' = conn /\ reader' = reader
        /\ tun' = tun /\ ctrlCh' = ctrlCh /\ handled' = handled
      BY <1>1
  <2>2. Queue' = Queue
      BY <2>1, QueueSame, Zenon
  <2> QED
      BY <2>1, <2>2, Zenon DEF Abstract!vars
<1>2. CASE \E w \in Writers, c \in Capsules : WriteHeader(w, c)
    BY <1>2, SendStep, Zenon DEF Abstract!Next
<1>3. CASE ReadCapsule
    BY <1>3, TakeStep, Zenon DEF Abstract!Next
<1>4. CASE ReadFails
    BY <1>4, StopStep, Zenon DEF Abstract!Next
<1>5. CASE HandleControl
    BY <1>5, HandleStep, Zenon DEF Abstract!Next
<1>6. CASE Break
  <2>1. /\ conn = "open" /\ conn' = "broken" /\ written' = written /\ consumed' = consumed
        /\ reader' = reader /\ tun' = tun /\ ctrlCh' = ctrlCh /\ handled' = handled
      BY <1>6 DEF Break
  <2>2. Queue' = Queue
      BY <2>1, QueueSame, Zenon
  <2>3. (conn' = "open") = FALSE
      BY <2>1
  <2>4. Abstract!Lose
      BY <2>1, <2>2, <2>3, Zenon DEF Abstract!Lose
  <2> QED
      BY <2>4, Zenon DEF Abstract!Next
<1>7. CASE \E w \in Writers : WritePayload(w)
  <2>1. UNCHANGED <<written, consumed, conn, reader, tun, ctrlCh, handled>>
      BY <1>7 DEF WritePayload
  <2> QED
      BY <1>1, <2>1, Zenon
<1>8. CASE UNCHANGED vars
  <2>1. UNCHANGED <<written, consumed, conn, reader, tun, ctrlCh, handled>>
      BY <1>8 DEF vars
  <2> QED
      BY <1>1, <2>1, Zenon
<1> QED
    BY <1>2, <1>3, <1>4, <1>5, <1>6, <1>7, <1>8, Zenon DEF Next

\* A relay tunnel implements CapsuleQueue: for any writers, capsules, MTU and capacity of
\* ctrlCh, the headers and payloads that goroutines write in two steps and ReadPacket
\* parses byte by byte cannot be told from a queue of whole capsules, and forwardConnToTUN
\* and controlReadLoop do with each exactly what its kind asks for.
THEOREM TunnelImplementsQueue == Spec => ImplementsQueue
<1>1. Init => Abstract!Init
  <2> SUFFICES ASSUME Init PROVE Abstract!Init
      OBVIOUS
  <2>1. <<>> \in Seq(Capsules) /\ Len(<<>>) = 0
      BY EmptySeq
  <2>2. /\ written = <<>> /\ consumed = 0 /\ conn = "open" /\ reader = "read"
        /\ tun = <<>> /\ ctrlCh = <<>> /\ handled = <<>>
      BY DEF Init
  <2>3. 0 \in 0..0 /\ 0 - 0 = 0
      OBVIOUS
  <2>4. Queue \in Seq(Capsules) /\ Len(Queue) = 0
      BY <2>1, <2>2, <2>3, AfterType, QueueAfter, Zenon
  <2>5. Queue = <<>>
      BY <2>4, EmptySeq, Zenon
  <2> QED
      BY <2>2, <2>5, Zenon DEF Abstract!Init
<1>2. TunnelInv /\ [Next]_vars => [Abstract!Next]_(Abstract!vars)
    BY QueueStep, Zenon
<1> QED
    BY <1>1, <1>2, TunnelInvariant, PTL DEF Spec, ImplementsQueue, Abstract!Spec

=============================================================================
