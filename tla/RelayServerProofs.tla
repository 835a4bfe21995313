------------------------ MODULE RelayServerProofs ------------------------
(***************************************************************************)
(* Proofs about RelayServer for any number of peers, handlers and          *)
(* envelopes.                                                              *)
(***************************************************************************)
EXTENDS RelayServer, SequenceTheorems, TLAPS

\* What one Write of handler h puts on a stream.
Chunk(h, part) == [src |-> h, dst |-> env[h].dst, n |-> env[h].n, part |-> part]

\* A handler that holds an envelope has one, belongs to a peer once accepted, and a
\* handler inside Encode writes to a stream of the peer the envelope is addressed to.
HandlerInv ==
    \A h \in Handlers :
        /\ pc[h] \notin {"new", "done"} => peer[h] \in Peers
        /\ pc[h] \in {"lookup", "header", "payload"} =>
               env[h] \in Envelopes /\ env[h].n <= decoded
        /\ Writing(h) =>
               dst[h] \in Handlers /\ pc[dst[h]] # "new" /\ peer[dst[h]] = env[h].dst

RelayInv == TypeOK /\ HandlerInv /\ RegisteredIsServing

\* A Write that puts something on a stream puts its chunk there, in a race behind what
\* was in the buffer.
LEMMA WriteShape ==
    ASSUME RelayInv, NEW h \in Handlers, NEW part \in {"header", "payload"},
           pc[h] = part, NEW next \in {"payload", "flush"}, Write(h, part, next)
    PROVE  /\ Chunk(h, part) \in Chunks
           /\ \/ UNCHANGED bufVars
              \/ Buffer(dst[h], <<>>, Chunk(h, part))
              \/ Racing(h) /\ Buffer(dst[h], Unsent(dst[h]), Chunk(h, part))
           /\ \E q \in {next, "decode", "unregister"} : pc' = [pc EXCEPT ![h] = q]
<1>1. Chunk(h, part) \in Chunks
  BY DEF RelayInv, HandlerInv, Envelopes, Chunks, Chunk
<1>2. \/ UNCHANGED bufVars
      \/ Buffer(dst[h], <<>>, Chunk(h, part))
      \/ Racing(h) /\ Buffer(dst[h], Unsent(dst[h]), Chunk(h, part))
  BY Zenon DEF Write, Chunk
<1>3. \E q \in {next, "decode", "unregister"} : pc' = [pc EXCEPT ![h] = q]
  BY DEF Write
<1> QED BY <1>1, <1>2, <1>3, Zenon

\* What is in a buffer has been written to its stream before.
LEMMA UnsentShape ==
    ASSUME TypeOK, NEW w \in Handlers
    PROVE  /\ Unsent(w) \in Seq(Chunks)
           /\ Len(Unsent(w)) = unsent[w]
           /\ \A i \in 1..Len(Unsent(w)) :
                  \E j \in 1..Len(out[w]) : Unsent(w)[i] = out[w][j]
<1> DEFINE t == out[w]
           m == Len(t) - unsent[w] + 1
<1>1. t \in Seq(Chunks) /\ Len(t) \in Nat /\ unsent[w] \in Nat /\ unsent[w] <= Len(t)
  BY DEF TypeOK
<1>2. Unsent(w) = SubSeq(t, m, Len(t))
  BY DEF Unsent
<1> HIDE DEF t
<1>3. /\ SubSeq(t, m, Len(t)) \in Seq(Chunks)
      /\ Len(SubSeq(t, m, Len(t))) = unsent[w]
      /\ \A i \in 1..unsent[w] : SubSeq(t, m, Len(t))[i] = t[m + i - 1]
  BY <1>1, SubSeqProperties
<1>4. \A i \in 1..unsent[w] : m + i - 1 \in 1..Len(t)
  BY <1>1
<1> QED BY <1>2, <1>3, <1>4, Zenon DEF t

\* A stream that is given s has it after all it had.
LEMMA Grown ==
    ASSUME TypeOK, NEW w \in Handlers, NEW s \in Seq(Chunks),
           out' = [out EXCEPT ![w] = @ \o s]
    PROVE  /\ out' \in [Handlers -> Seq(Chunks)]
           /\ Len(out[w]) \in Nat /\ Len(s) \in Nat
           /\ Len(out'[w]) = Len(out[w]) + Len(s)
           /\ \A i \in 1..Len(out[w]) : out'[w][i] = out[w][i]
           /\ \A i \in 1..Len(s) : out'[w][Len(out[w]) + i] = s[i]
           /\ \A g \in Handlers \ {w} : out'[g] = out[g]
<1>1. out \in [Handlers -> Seq(Chunks)] /\ out[w] \in Seq(Chunks)
  BY DEF TypeOK
<1>2. out'[w] = out[w] \o s /\ \A g \in Handlers \ {w} : out'[g] = out[g]
  BY <1>1
<1>3. /\ out[w] \o s \in Seq(Chunks)
      /\ Len(out[w] \o s) = Len(out[w]) + Len(s)
      /\ Len(out[w]) \in Nat /\ Len(s) \in Nat
      /\ \A i \in 1..Len(out[w]) : (out[w] \o s)[i] = out[w][i]
      /\ \A i \in 1..Len(s) : (out[w] \o s)[Len(out[w]) + i] = s[i]
  BY <1>1
<1>4. out' \in [Handlers -> Seq(Chunks)]
  BY <1>1, <1>3
<1> QED BY <1>2, <1>3, <1>4

\* The chunk is on the stream of g.
OnStream(g, c) == \E j \in 1..Len(out[g]) : c = out[g][j]

\* The chunk is in the sequence.
In(c, s) == \E j \in 1..Len(s) : c = s[j]

\* What is on a stream afterwards was there before, or comes from s.
LEMMA Contents ==
    ASSUME TypeOK, NEW w \in Handlers, NEW s \in Seq(Chunks),
           out' = [out EXCEPT ![w] = @ \o s]
    PROVE  \A g \in Handlers : \A i \in 1..Len(out'[g]) :
               OnStream(g, out'[g][i]) \/ (g = w /\ In(out'[g][i], s))
<1> TAKE g \in Handlers
<1> TAKE i \in 1..Len(out'[g])
<1> DEFINE k == Len(out[w])
           m == Len(s)
<1>1. /\ k \in Nat /\ m \in Nat /\ Len(out'[w]) = k + m
      /\ \A l \in 1..k : out'[w][l] = out[w][l]
      /\ \A l \in 1..m : out'[w][k + l] = s[l]
      /\ \A f \in Handlers \ {w} : out'[f] = out[f]
  BY Grown, ZenonT(60)
<1>2. CASE g # w
  <2>1. out'[g] = out[g]
    BY <1>1, <1>2
  <2> QED BY <2>1, Zenon DEF OnStream
<1>3. CASE g = w
  <2> HIDE DEF m
  <2>1. i \in 1..(k + m)
    BY <1>1, <1>3
  <2>2. CASE i \in 1..k
    BY <1>1, <1>3, <2>2 DEF OnStream
  <2>3. CASE i \notin 1..k
    <3> HIDE DEF k
    <3>1. PICK l \in 1..m : i = k + l
      <4>1. i - k \in 1..m /\ i = k + (i - k)
        BY <1>1, <2>1, <2>3
      <4> QED BY <4>1
    <3>2. out'[g][i] = s[l]
      BY <1>1, <1>3, <3>1
    <3> QED BY <1>3, <3>2 DEF m, In
  <2> QED BY <2>2, <2>3
<1> QED BY <1>2, <1>3

\* Every step of the relay keeps the types, the handlers' state and the streams map
\* consistent with each other.
LEMMA RelayInductive == RelayInv /\ [Next]_vars => RelayInv'
<1> SUFFICES ASSUME RelayInv, [Next]_vars PROVE RelayInv'
  OBVIOUS
<1> USE NoneAssumption, MaxEnvAssumption
<1>1. ASSUME NEW h \in Handlers, WriteHeader(h) \/ WritePayload(h) PROVE RelayInv'
  <2>1. PICK part \in {"header", "payload"}, next \in {"payload", "flush"} :
             pc[h] = part /\ Write(h, part, next)
    BY <1>1 DEF WriteHeader, WritePayload
  <2>2. UNCHANGED <<streams, peer, env, dst, decoded, open, shared>>
    BY <1>1 DEF WriteHeader, WritePayload
  <2>3. PICK q \in {"payload", "flush", "decode", "unregister"} : pc' = [pc EXCEPT ![h] = q]
    BY <2>1, WriteShape
  <2>4. dst[h] \in Handlers
    BY <2>1 DEF RelayInv, HandlerInv, Writing
  <2>5. /\ out' \in [Handlers -> Seq(Chunks)] /\ unsent' \in [Handlers -> Nat]
        /\ \A g \in Handlers : unsent'[g] <= Len(out'[g])
    <3>1. CASE UNCHANGED bufVars
      BY <3>1 DEF RelayInv, TypeOK, bufVars
    <3>2. ASSUME NEW again \in Seq(Chunks), Buffer(dst[h], again, Chunk(h, part))
          PROVE  /\ out' \in [Handlers -> Seq(Chunks)] /\ unsent' \in [Handlers -> Nat]
                 /\ \A g \in Handlers : unsent'[g] <= Len(out'[g])
      <4> DEFINE s == Append(again, Chunk(h, part))
      <4>1. s \in Seq(Chunks) /\ Len(s) >= 1
        BY <2>1, <3>2, WriteShape
      <4>2. out' = [out EXCEPT ![dst[h]] = @ \o s]
        BY <3>2 DEF Buffer
      <4> HIDE DEF s
      <4>3. /\ out' \in [Handlers -> Seq(Chunks)]
            /\ Len(out[dst[h]]) \in Nat /\ Len(s) \in Nat
            /\ Len(out'[dst[h]]) = Len(out[dst[h]]) + Len(s)
            /\ \A g \in Handlers \ {dst[h]} : out'[g] = out[g]
        BY <2>4, <4>1, <4>2, Grown, Zenon DEF RelayInv
      <4>4. /\ unsent \in [Handlers -> Nat]
            /\ \A g \in Handlers : unsent[g] <= Len(out[g])
        BY DEF RelayInv, TypeOK
      <4>5. unsent' = [unsent EXCEPT ![dst[h]] = @ + 1]
        BY <3>2 DEF Buffer
      <4>6. /\ unsent' \in [Handlers -> Nat] /\ unsent'[dst[h]] = unsent[dst[h]] + 1
            /\ \A g \in Handlers \ {dst[h]} : unsent'[g] = unsent[g]
        BY <2>4, <4>4, <4>5
      <4>7. unsent'[dst[h]] <= Len(out'[dst[h]])
        BY <2>4, <4>1, <4>3, <4>4, <4>6
      <4>8. \A g \in Handlers : unsent'[g] <= Len(out'[g])
        BY <4>3, <4>4, <4>6, <4>7, Zenon
      <4> QED BY <4>3, <4>6, <4>8
    <3>3. <<>> \in Seq(Chunks) /\ Unsent(dst[h]) \in Seq(Chunks)
      BY <2>4, UnsentShape DEF RelayInv
    <3> QED BY <3>1, <3>2, <3>3, <2>1, WriteShape, Zenon
  <2>6. TypeOK'
    BY <2>1, <2>2, <2>3, <2>4, <2>5, Zenon DEF RelayInv, HandlerInv, TypeOK, States, Writing
  <2>7. HandlerInv'
    BY <2>1, <2>2, <2>3, Zenon DEF RelayInv, HandlerInv, TypeOK, Writing
  <2>8. RegisteredIsServing'
    BY <2>1, <2>2, <2>3 DEF RelayInv, RegisteredIsServing, TypeOK, Serving
  <2> QED BY <2>6, <2>7, <2>8 DEF RelayInv
<1> USE DEF RelayInv, TypeOK, HandlerInv, RegisteredIsServing, Serving, Writing, States,
            bufVars, Take
<1>2. ASSUME NEW h \in Handlers, Reject(h) PROVE RelayInv'
  <2>1. TypeOK' BY <1>2 DEF Reject
  <2>2. HandlerInv' BY <1>2 DEF Reject
  <2>3. RegisteredIsServing' BY <1>2 DEF Reject
  <2> QED BY <2>1, <2>2, <2>3
<1>3. ASSUME NEW h \in Handlers, NEW p \in Peers, Accept(h, p) PROVE RelayInv'
  <2>1. TypeOK' BY <1>3 DEF Accept
  <2>2. HandlerInv' BY <1>3 DEF Accept
  <2>3. RegisteredIsServing' BY <1>3 DEF Accept
  <2> QED BY <2>1, <2>2, <2>3
<1>4. ASSUME NEW h \in Handlers, Register(h) PROVE RelayInv'
  <2>1. TypeOK' BY <1>4, Zenon DEF Register
  <2>2. HandlerInv' BY <1>4, Zenon DEF Register
  <2>3. RegisteredIsServing' BY <1>4 DEF Register
  <2> QED BY <2>1, <2>2, <2>3
<1>5. ASSUME NEW h \in Handlers, NEW e \in Envelopes, Decode(h, e) PROVE RelayInv'
  <2>1. TypeOK' BY <1>5 DEF Decode, Envelopes
  <2>2. HandlerInv' BY <1>5 DEF Decode, Envelopes
  <2>3. RegisteredIsServing' BY <1>5 DEF Decode, Envelopes
  <2> QED BY <2>1, <2>2, <2>3
<1>6. ASSUME NEW h \in Handlers, DecodeError(h) PROVE RelayInv'
  <2>1. TypeOK' BY <1>6 DEF DecodeError
  <2>2. HandlerInv' BY <1>6 DEF DecodeError
  <2>3. RegisteredIsServing' BY <1>6 DEF DecodeError
  <2> QED BY <2>1, <2>2, <2>3
<1>7. ASSUME NEW h \in Handlers, Lookup(h) PROVE RelayInv'
  <2>1. env[h] \in Envelopes /\ env[h].dst \in Peers
    BY <1>7 DEF Lookup, Envelopes
  <2>2. TypeOK' BY <1>7, <2>1 DEF Lookup
  <2>3. HandlerInv'
    <3>1. CASE streams[env[h].dst] = None
      BY <1>7, <2>1, <3>1, ZenonT(60) DEF Lookup
    <3>2. CASE streams[env[h].dst] # None
      <4> DEFINE w == streams[env[h].dst]
      <4>1. w \in Handlers /\ pc[w] \in Serving /\ peer[w] = env[h].dst
        BY <2>1, <3>2
      <4>2. /\ pc' = [pc EXCEPT ![h] = "header"]
            /\ dst' = [dst EXCEPT ![h] = w]
            /\ UNCHANGED <<peer, env, decoded>>
        BY <1>7, <3>2 DEF Lookup
      <4> HIDE DEF w
      <4> QED BY <1>7, <4>1, <4>2 DEF Lookup
    <3> QED BY <3>1, <3>2
  <2>4. RegisteredIsServing' BY <1>7 DEF Lookup
  <2> QED BY <2>2, <2>3, <2>4
<1>8. ASSUME NEW h \in Handlers, Unregister(h) PROVE RelayInv'
  <2>1. TypeOK' BY <1>8, Zenon DEF Unregister
  <2>2. HandlerInv' BY <1>8 DEF Unregister
  <2>3. RegisteredIsServing' BY <1>8 DEF Unregister
  <2> QED BY <2>1, <2>2, <2>3
<1>9. ASSUME NEW h \in Handlers, StreamBroken(h) PROVE RelayInv'
  <2>1. TypeOK' BY <1>9 DEF StreamBroken
  <2>2. HandlerInv' BY <1>9 DEF StreamBroken
  <2>3. RegisteredIsServing' BY <1>9 DEF StreamBroken
  <2> QED BY <2>1, <2>2, <2>3
<1>10. ASSUME NEW h \in Handlers, Flush(h) PROVE RelayInv'
  <2>1. dst[h] \in Handlers
    BY <1>10 DEF Flush
  <2>2. /\ out' \in [Handlers -> Seq(Chunks)] /\ unsent' \in [Handlers -> Nat]
        /\ \A g \in Handlers : unsent'[g] <= Len(out'[g])
    <3>1. CASE UNCHANGED out /\ unsent' = [unsent EXCEPT ![dst[h]] = 0]
      BY <2>1, <3>1
    <3>2. CASE UNCHANGED unsent /\ out' = [out EXCEPT ![dst[h]] = @ \o Unsent(dst[h])]
      <4>1. Unsent(dst[h]) \in Seq(Chunks)
        BY <2>1, UnsentShape DEF RelayInv
      <4>2. /\ out' \in [Handlers -> Seq(Chunks)]
            /\ Len(out[dst[h]]) \in Nat /\ Len(Unsent(dst[h])) \in Nat
            /\ Len(out'[dst[h]]) = Len(out[dst[h]]) + Len(Unsent(dst[h]))
            /\ \A g \in Handlers \ {dst[h]} : out'[g] = out[g]
        BY <2>1, <3>2, <4>1, Grown DEF RelayInv
      <4> QED BY <2>1, <3>2, <4>2
    <3> QED BY <1>10, <3>1, <3>2, Zenon DEF Flush
  <2>3. TypeOK' BY <1>10, <2>2 DEF Flush
  <2>4. HandlerInv' BY <1>10 DEF Flush
  <2>5. RegisteredIsServing' BY <1>10 DEF Flush
  <2> QED BY <2>3, <2>4, <2>5
<1>11. CASE UNCHANGED vars
  BY <1>11 DEF vars
<1> HIDE DEF RelayInv, Take
<1> QED BY <1>1, <1>2, <1>3, <1>4, <1>5, <1>6, <1>7, <1>8, <1>9, <1>10, <1>11
       DEF Next, HandlerNext

\* RelayInv is an invariant of the relay.
LEMMA RelayInvariant == Spec => []RelayInv
<1>1. Init => RelayInv
  BY NoneAssumption, MaxEnvAssumption
     DEF Init, RelayInv, TypeOK, HandlerInv, RegisteredIsServing, States, Writing
<1> QED BY <1>1, RelayInductive, PTL DEF Spec

\* TypeOK is an invariant of the relay.
THEOREM RelayTypeCorrect == Spec => []TypeOK
<1>1. RelayInv => TypeOK
  BY DEF RelayInv
<1> QED BY <1>1, RelayInvariant, PTL

\* The streams map never holds the writer of a handler that has returned, nor a writer
\* under the wrong peer.
THEOREM RelayMapServing == Spec => []RegisteredIsServing
<1>1. RelayInv => RegisteredIsServing
  BY DEF RelayInv
<1> QED BY <1>1, RelayInvariant, PTL

\* Every step keeps the entry of a serving handler unless an older one returns.
LEMMA ReachableInductive ==
    RelayInv /\ UnreachableAfterReturn /\ [Next]_vars => UnreachableAfterReturn'
<1> SUFFICES ASSUME RelayInv, UnreachableAfterReturn, [Next]_vars
             PROVE  UnreachableAfterReturn'
  OBVIOUS
<1> USE DEF RelayInv, TypeOK, HandlerInv, UnreachableAfterReturn, Serving
\* A step of one handler that is not its registration, its return or its acceptance.
<1>1. ASSUME NEW h \in Handlers, NEW q \in States, UNCHANGED <<streams, peer>>,
             pc[h] \in Serving, pc' = [pc EXCEPT ![h] = q]
      PROVE  UnreachableAfterReturn'
  BY <1>1
<1>2. ASSUME NEW h \in Handlers, NEW p \in Peers, Accept(h, p) PROVE UnreachableAfterReturn'
  <2> SUFFICES ASSUME NEW f \in Handlers, pc'[f] \in Serving, streams'[peer'[f]] = None
               PROVE  \E g \in Handlers \ {f} : peer'[g] = peer'[f] /\ pc'[g] = "done"
    OBVIOUS
  <2>1. /\ pc[h] = "new" /\ pc'[h] = "register" /\ streams' = streams
        /\ \A g \in Handlers : g # h => pc'[g] = pc[g] /\ peer'[g] = peer[g]
    BY <1>2 DEF Accept
  <2>2. f # h /\ pc[f] \in Serving /\ streams[peer[f]] = None
    BY <2>1
  <2>3. PICK g \in Handlers \ {f} : peer[g] = peer[f] /\ pc[g] = "done"
    BY <2>2
  <2>4. g # h
    BY <2>1, <2>3
  <2> QED BY <2>1, <2>2, <2>3, <2>4, Zenon
<1>3. ASSUME NEW h \in Handlers, Reject(h) \/ StreamBroken(h) PROVE UnreachableAfterReturn'
  <2>1. UNCHANGED <<streams, peer>>
    BY <1>3, Zenon DEF Reject, StreamBroken
  <2>2. \A g \in Handlers : pc'[g] = pc[g] \/ (pc[g] = "new" /\ pc'[g] = "done")
    BY <1>3 DEF Reject, StreamBroken
  <2> SUFFICES ASSUME NEW f \in Handlers, pc'[f] \in Serving, streams[peer[f]] = None
               PROVE  \E g \in Handlers \ {f} : peer[g] = peer[f] /\ pc'[g] = "done"
    BY <2>1
  <2>3. pc[f] \in Serving
    BY <2>2
  <2>4. PICK g \in Handlers \ {f} : peer[g] = peer[f] /\ pc[g] = "done"
    BY <2>3, Zenon DEF UnreachableAfterReturn
  <2>5. pc'[g] = "done"
    BY <2>2, <2>4
  <2> QED BY <2>4, <2>5, Zenon
<1>4. ASSUME NEW h \in Handlers, Register(h) PROVE UnreachableAfterReturn'
  <2> SUFFICES ASSUME NEW f \in Handlers, pc'[f] \in Serving, streams'[peer'[f]] = None
               PROVE  \E g \in Handlers \ {f} : peer'[g] = peer'[f] /\ pc'[g] = "done"
    OBVIOUS
  <2>1. /\ pc[h] = "register" /\ peer[h] \in Peers /\ peer' = peer
        /\ \A g \in Handlers : g # h => pc'[g] = pc[g]
        /\ \A p \in Peers : streams'[p] = IF p = peer[h] THEN h ELSE streams[p]
    BY <1>4, Zenon DEF Register
  <2>2. h # None
    BY NoneAssumption
  <2>3. f # h
    BY <2>1, <2>2
  <2>4. pc[f] \in Serving /\ peer[f] \in Peers
    BY <2>1, <2>3, Zenon
  <2>5. streams[peer[f]] = None
    BY <2>1, <2>2, <2>4
  <2>6. PICK g \in Handlers \ {f} : peer[g] = peer[f] /\ pc[g] = "done"
    BY <2>4, <2>5
  <2> QED BY <2>1, <2>6, Zenon
<1>5. ASSUME NEW h \in Handlers, Unregister(h) PROVE UnreachableAfterReturn'
  <2> SUFFICES ASSUME NEW f \in Handlers, pc'[f] \in Serving, streams'[peer'[f]] = None
               PROVE  \E g \in Handlers \ {f} : peer'[g] = peer'[f] /\ pc'[g] = "done"
    OBVIOUS
  <2>1. f # h /\ pc'[h] = "done" /\ pc'[f] = pc[f] /\ peer' = peer
    BY <1>5 DEF Unregister
  <2>2. CASE peer[f] = peer[h]
    BY <2>1, <2>2
  <2>3. CASE peer[f] # peer[h]
    <3>1. peer[f] \in Peers /\ peer[h] \in Peers
      BY <1>5, <2>1, Zenon DEF Unregister
    <3>2. streams[peer[f]] = None
      BY <1>5, <2>1, <2>3, <3>1 DEF Unregister
    <3>3. PICK g \in Handlers \ {f} : peer[g] = peer[f] /\ pc[g] = "done"
      BY <2>1, <3>2
    <3>4. pc'[g] = "done"
      BY <1>5, <3>3 DEF Unregister
    <3> QED BY <2>1, <3>3, <3>4
  <2> QED BY <2>2, <2>3
<1>6. ASSUME NEW h \in Handlers, NEW e \in Envelopes, Decode(h, e)
      PROVE  UnreachableAfterReturn'
  BY <1>1, <1>6, Zenon DEF Decode, States
<1>7. ASSUME NEW h \in Handlers, DecodeError(h) \/ Lookup(h) \/ Flush(h)
      PROVE  UnreachableAfterReturn'
  <2>1. UNCHANGED <<streams, peer>> /\ pc[h] \in Serving
    BY <1>7 DEF DecodeError, Lookup, Take, Flush
  <2>2. PICK q \in {"decode", "header", "unregister"} : pc' = [pc EXCEPT ![h] = q]
    BY <1>7, Zenon DEF DecodeError, Lookup, Take, Flush
  <2>3. q \in States
    BY DEF States
  <2> QED BY <1>1, <2>1, <2>2, <2>3
<1>8. ASSUME NEW h \in Handlers, WriteHeader(h) \/ WritePayload(h)
      PROVE  UnreachableAfterReturn'
  <2>1. UNCHANGED <<streams, peer>> /\ pc[h] \in Serving
    BY <1>8 DEF WriteHeader, WritePayload
  <2>2. \E q \in {"payload", "flush", "decode", "unregister"} : pc' = [pc EXCEPT ![h] = q]
    BY <1>8 DEF WriteHeader, WritePayload, Write
  <2>3. PICK q \in {"payload", "flush", "decode", "unregister"} : pc' = [pc EXCEPT ![h] = q]
    BY <2>2, Zenon
  <2>4. q \in States
    BY DEF States
  <2> QED BY <1>1, <2>1, <2>3, <2>4
<1>9. CASE UNCHANGED vars
  BY <1>9 DEF vars
<1> QED BY <1>2, <1>3, <1>4, <1>5, <1>6, <1>7, <1>8, <1>9 DEF Next, HandlerNext

\* A served peer becomes unreachable only through the return of another handler of the
\* same peer.
THEOREM RelayReachable == Spec => []UnreachableAfterReturn
<1>1. Init => UnreachableAfterReturn
  BY DEF Init, UnreachableAfterReturn, Serving
<1> QED BY <1>1, RelayInvariant, ReachableInductive, PTL DEF Spec

----------------------------------------------------------------------------
(* What reaches a stream: the right peer and, on a stream of its own, in order and once. *)

\* A handler that has not been accepted has an empty stream.
DeliveredInv ==
    \A h \in Handlers : \A i \in 1..Len(out[h]) :
        pc[h] # "new" /\ out[h][i].dst = peer[h]

\* A chunk belongs to an earlier envelope than the one its handler is about to write, or
\* is the header of the envelope whose payload the handler is about to write.
Before(c) ==
    /\ c \in Chunks /\ c.n <= decoded
    /\ pc[c.src] \in {"lookup", "header"} => c.n < env[c.src].n
    /\ pc[c.src] = "payload" =>
           c.n < env[c.src].n \/ (c.n = env[c.src].n /\ c.part = "header")

WrittenBefore == \A h \in Handlers : \A i \in 1..Len(out[h]) : Before(out[h][i])

\* Two handlers that use one stream have made it a shared one.
SharedInv == \A h \in Handlers : Racing(h) => dst[h] \in shared

OutInv == SharedInv /\ DeliveredInv /\ WrittenBefore /\ PerSourceOrder

\* A chunk stays Before if no handler takes up an old envelope.
LEMMA BeforeKept ==
    ASSUME RelayInv, decoded' \in Nat, decoded <= decoded', NEW c, Before(c),
           \A h \in Handlers : pc'[h] \in {"lookup", "header", "payload"} =>
               \/ pc'[h] = pc[h] /\ env'[h] = env[h]
               \/ pc'[h] = "lookup" /\ env'[h] \in Envelopes /\ env'[h].n > decoded
               \/ pc'[h] = "header" /\ pc[h] = "lookup" /\ env'[h] = env[h]
               \/ pc'[h] = "payload" /\ pc[h] = "header" /\ env'[h] = env[h]
    PROVE  /\ c \in Chunks /\ c.n <= decoded'
           /\ pc'[c.src] \in {"lookup", "header"} => c.n < env'[c.src].n
           /\ pc'[c.src] = "payload" =>
                  c.n < env'[c.src].n \/ (c.n = env'[c.src].n /\ c.part = "header")
<1> USE MaxEnvAssumption
<1>1. /\ c \in Chunks /\ c.n <= decoded
      /\ pc[c.src] \in {"lookup", "header"} => c.n < env[c.src].n
      /\ pc[c.src] = "payload" =>
             c.n < env[c.src].n \/ (c.n = env[c.src].n /\ c.part = "header")
  BY DEF Before
<1>2. c.src \in Handlers /\ c.n \in Nat /\ decoded \in Nat
  BY <1>1 DEF Chunks, RelayInv, TypeOK
<1>3. \A e \in Envelopes : e.n \in Nat
  BY DEF Envelopes
<1>4. c \in Chunks /\ c.n <= decoded'
  BY <1>1, <1>2
<1>5. pc'[c.src] \in {"lookup", "header"} => c.n < env'[c.src].n
  BY <1>1, <1>2, <1>3
<1>6. pc'[c.src] = "payload" =>
          c.n < env'[c.src].n \/ (c.n = env'[c.src].n /\ c.part = "header")
  BY <1>1, <1>2, <1>3
<1> QED BY <1>4, <1>5, <1>6

\* What is already on its stream may be there again without harm to either invariant.
LEMMA Repeated ==
    ASSUME RelayInv, DeliveredInv, WrittenBefore, decoded' \in Nat, decoded <= decoded',
           \A h \in Handlers : \A i \in 1..Len(out'[h]) : OnStream(h, out'[h][i]),
           \A h \in Handlers : pc[h] # "new" => pc'[h] # "new" /\ peer'[h] = peer[h],
           \A h \in Handlers : pc'[h] \in {"lookup", "header", "payload"} =>
               \/ pc'[h] = pc[h] /\ env'[h] = env[h]
               \/ pc'[h] = "lookup" /\ env'[h] \in Envelopes /\ env'[h].n > decoded
               \/ pc'[h] = "header" /\ pc[h] = "lookup" /\ env'[h] = env[h]
               \/ pc'[h] = "payload" /\ pc[h] = "header" /\ env'[h] = env[h]
    PROVE  DeliveredInv' /\ WrittenBefore'
<1>1. ASSUME NEW h \in Handlers, NEW i \in 1..Len(out'[h])
      PROVE  pc'[h] # "new" /\ out'[h][i].dst = peer'[h] /\ Before(out'[h][i])
  <2>1. PICK j \in 1..Len(out[h]) : out'[h][i] = out[h][j]
    BY <1>1 DEF OnStream
  <2> QED BY <2>1 DEF DeliveredInv, WrittenBefore
<1>2. DeliveredInv'
  BY <1>1 DEF DeliveredInv
<1>3. WrittenBefore'
  <2> SUFFICES ASSUME NEW h \in Handlers, NEW i \in 1..Len(out'[h])
               PROVE  LET c == out'[h][i]
                      IN  /\ c \in Chunks /\ c.n <= decoded'
                          /\ pc'[c.src] \in {"lookup", "header"} => c.n < env'[c.src].n
                          /\ pc'[c.src] = "payload" =>
                                 \/ c.n < env'[c.src].n
                                 \/ c.n = env'[c.src].n /\ c.part = "header"
    BY DEF WrittenBefore, Before
  <2>1. Before(out'[h][i])
    BY <1>1
  <2> QED BY <2>1, BeforeKept
<1> QED BY <1>2, <1>3

\* The order on the streams that are not shared is kept when nothing is written to them.
LEMMA OrderKept ==
    ASSUME PerSourceOrder, shared \subseteq shared',
           \A h \in Handlers \ shared : out'[h] = out[h]
    PROVE  PerSourceOrder'
<1> SUFFICES ASSUME NEW h \in Handlers \ shared', NEW i \in 1..Len(out'[h]),
                    NEW j \in 1..Len(out'[h]), i < j, out'[h][i].src = out'[h][j].src
             PROVE  \/ out'[h][i].n < out'[h][j].n
                    \/ /\ out'[h][i].n = out'[h][j].n
                       /\ out'[h][i].part = "header" /\ out'[h][j].part = "payload"
  BY DEF PerSourceOrder
<1>1. out'[h] = out[h] /\ h \in Handlers \ shared
  OBVIOUS
<1> QED BY <1>1 DEF PerSourceOrder

\* A Write that succeeds and is alone keeps OutInv but for the order: its chunk comes
\* after all that h has written.
LEMMA OrderAppended ==
    ASSUME RelayInv, WrittenBefore, PerSourceOrder,
           NEW h \in Handlers, NEW part \in {"header", "payload"}, pc[h] = part,
           UNCHANGED shared, Buffer(dst[h], <<>>, Chunk(h, part))
    PROVE  PerSourceOrder'
<1> USE MaxEnvAssumption
<1> DEFINE w == dst[h]
           ch == Chunk(h, part)
           k == Len(out[w])
<1>1. /\ w \in Handlers /\ env[h] \in Envelopes /\ ch \in Chunks /\ ch.src = h
      /\ ch.n = env[h].n /\ ch.part = part
  BY DEF RelayInv, HandlerInv, Writing, Envelopes, Chunk, Chunks
<1>2. <<ch>> \in Seq(Chunks) /\ Len(<<ch>>) = 1 /\ <<ch>>[1] = ch /\ Append(<<>>, ch) = <<ch>>
  BY <1>1
<1>3. out' = [out EXCEPT ![w] = @ \o <<ch>>]
  BY <1>2 DEF Buffer
<1> HIDE DEF ch, w
<1> DEFINE s == <<ch>>
<1>4. /\ k \in Nat /\ Len(out'[w]) = k + 1 /\ out'[w][k + 1] = ch
      /\ \A i \in 1..k : out'[w][i] = out[w][i]
      /\ \A g \in Handlers \ {w} : out'[g] = out[g]
  <2>1. s \in Seq(Chunks) /\ Len(s) = 1 /\ s[1] = ch /\ out' = [out EXCEPT ![w] = @ \o s]
    BY <1>2, <1>3
  <2> HIDE DEF s
  <2>2. /\ k \in Nat /\ Len(out'[w]) = k + Len(s)
        /\ \A i \in 1..k : out'[w][i] = out[w][i]
        /\ \A i \in 1..Len(s) : out'[w][k + i] = s[i]
        /\ \A g \in Handlers \ {w} : out'[g] = out[g]
    BY <1>1, <2>1, Grown, ZenonT(60) DEF RelayInv
  <2> HIDE DEF k
  <2> QED BY <2>1, <2>2
<1> HIDE DEF k
<1> SUFFICES ASSUME NEW g \in Handlers \ shared, NEW i \in 1..Len(out'[g]),
                    NEW j \in 1..Len(out'[g]), i < j, out'[g][i].src = out'[g][j].src
             PROVE  \/ out'[g][i].n < out'[g][j].n
                    \/ /\ out'[g][i].n = out'[g][j].n
                       /\ out'[g][i].part = "header" /\ out'[g][j].part = "payload"
  BY SMTT(30) DEF PerSourceOrder
<1>5. CASE g # w
  <2>1. out'[g] = out[g]
    BY <1>4, <1>5
  <2> QED BY <2>1 DEF PerSourceOrder
<1>6. CASE g = w /\ j \in 1..k
  <2>1. i \in 1..k /\ out'[g][i] = out[g][i] /\ out'[g][j] = out[g][j]
    BY <1>4, <1>6
  <2>2. i \in 1..Len(out[g]) /\ j \in 1..Len(out[g]) /\ out[g][i].src = out[g][j].src
    BY <1>6, <2>1 DEF k
  <2>3. \/ out[g][i].n < out[g][j].n
        \/ /\ out[g][i].n = out[g][j].n
           /\ out[g][i].part = "header" /\ out[g][j].part = "payload"
    BY <2>2, Zenon DEF PerSourceOrder
  <2> QED BY <2>1, <2>3
<1>7. CASE g = w /\ j = k + 1
  <2>1. i \in 1..k /\ out'[g][i] = out[g][i] /\ out'[g][j] = ch
    BY <1>4, <1>7
  <2>2. Before(out[g][i]) /\ out[g][i].src = h
    BY <1>1, <1>7, <2>1 DEF WrittenBefore, k
  <2>3. /\ part = "header" => out[g][i].n < env[h].n
        /\ part = "payload" =>
               \/ out[g][i].n < env[h].n
               \/ out[g][i].n = env[h].n /\ out[g][i].part = "header"
    BY <2>2 DEF Before
  <2> QED BY <1>1, <2>1, <2>3
<1>8. g = w => j \in 1..k \/ j = k + 1
  BY <1>4
<1> QED BY <1>5, <1>6, <1>7, <1>8

\* A Write that succeeds keeps what OutInv says of single chunks: its own is addressed to
\* the peer of the stream, and what it repeats was there before.
LEMMA ChunkBuffered ==
    ASSUME RelayInv, DeliveredInv, WrittenBefore,
           NEW h \in Handlers, NEW part \in {"header", "payload"}, pc[h] = part,
           NEW q \in {"payload", "flush", "decode", "unregister"},
           part = "payload" => q # "payload",
           pc' = [pc EXCEPT ![h] = q], UNCHANGED <<peer, env, decoded>>,
           NEW again \in {<<>>, Unsent(dst[h])}, Buffer(dst[h], again, Chunk(h, part))
    PROVE  DeliveredInv' /\ WrittenBefore'
<1> USE MaxEnvAssumption
<1> DEFINE w == dst[h]
           ch == Chunk(h, part)
           s == Append(again, ch)
<1>1. /\ w \in Handlers /\ pc[w] # "new" /\ peer[w] = env[h].dst
      /\ env[h] \in Envelopes /\ env[h].n <= decoded
  BY DEF RelayInv, HandlerInv, Writing
<1>2. /\ ch \in Chunks /\ ch.src = h /\ ch.dst = env[h].dst /\ ch.n = env[h].n
      /\ ch.part = part /\ ch.n \in Nat /\ decoded \in Nat
  BY <1>1 DEF Chunk, Chunks, Envelopes, RelayInv, TypeOK
<1>3. pc \in [Handlers -> States] /\ \A g \in Handlers : out[g] \in Seq(Chunks)
  BY DEF RelayInv, TypeOK
<1>4. /\ again \in Seq(Chunks)
      /\ \A i \in 1..Len(again) : \E j \in 1..Len(out[w]) : again[i] = out[w][j]
  <2>1. CASE again = <<>>
    BY <2>1
  <2>2. CASE again = Unsent(w)
    BY <1>1, <2>2, UnsentShape, Zenon DEF RelayInv
  <2> QED BY <2>1, <2>2
<1> HIDE DEF w, ch
<1>5. /\ s \in Seq(Chunks) /\ Len(s) = Len(again) + 1 /\ Len(again) \in Nat
      /\ s[Len(again) + 1] = ch /\ \A i \in 1..Len(again) : s[i] = again[i]
  BY <1>2, <1>4
<1>6. out' = [out EXCEPT ![w] = @ \o s]
  BY DEF Buffer, w, ch
<1> HIDE DEF s
\* Every chunk on a stream afterwards is an old one of the stream, or the new one.
<1>7. \A c : In(c, s) => c = ch \/ OnStream(w, c)
  <2> SUFFICES ASSUME NEW j \in 1..Len(s) PROVE s[j] = ch \/ OnStream(w, s[j])
    BY DEF In
  <2>1. CASE j \in 1..Len(again)
    BY <1>4, <1>5, <2>1 DEF OnStream
  <2>2. CASE j = Len(again) + 1
    BY <1>5, <2>2
  <2> QED BY <1>5, <2>1, <2>2
<1>8. \A g \in Handlers : \A i \in 1..Len(out'[g]) :
          OnStream(g, out'[g][i]) \/ (g = w /\ out'[g][i] = ch)
  <2>1. \A g \in Handlers : \A i \in 1..Len(out'[g]) :
            OnStream(g, out'[g][i]) \/ (g = w /\ In(out'[g][i], s))
    BY <1>1, <1>5, <1>6, Contents, Zenon DEF RelayInv
  <2> QED BY <1>7, <2>1, Zenon
<1>9. \A g \in Handlers : pc'[g] = IF g = h THEN q ELSE pc[g]
  BY <1>3
<1>10. DeliveredInv'
  <2> SUFFICES ASSUME NEW g \in Handlers, NEW i \in 1..Len(out'[g])
               PROVE  pc'[g] # "new" /\ out'[g][i].dst = peer[g]
    BY DEF DeliveredInv
  <2>1. pc[g] # "new" /\ out'[g][i].dst = peer[g]
    BY <1>1, <1>2, <1>8 DEF DeliveredInv, OnStream
  <2> QED BY <1>9, <2>1
<1>11. WrittenBefore'
  <2> SUFFICES ASSUME NEW g \in Handlers, NEW i \in 1..Len(out'[g])
               PROVE  LET c == out'[g][i]
                      IN  /\ c \in Chunks /\ c.n <= decoded'
                          /\ pc'[c.src] \in {"lookup", "header"} => c.n < env'[c.src].n
                          /\ pc'[c.src] = "payload" =>
                                 \/ c.n < env'[c.src].n
                                 \/ c.n = env'[c.src].n /\ c.part = "header"
    BY DEF WrittenBefore, Before
  <2>1. CASE Before(out'[g][i])
    <3>1. \A f \in Handlers : pc'[f] \in {"lookup", "header", "payload"} =>
              \/ pc'[f] = pc[f] /\ env'[f] = env[f]
              \/ pc'[f] = "payload" /\ pc[f] = "header" /\ env'[f] = env[f]
      BY <1>9
    <3>2. decoded' \in Nat /\ decoded <= decoded'
      BY <1>2
    <3> QED BY <2>1, <3>1, <3>2, BeforeKept
  <2>2. CASE out'[g][i] = ch
    <3>1. pc'[h] = q /\ q \notin {"lookup", "header"}
      BY <1>9
    <3> QED BY <1>1, <1>2, <2>2, <3>1
  <2>3. Before(out'[g][i]) \/ out'[g][i] = ch
    BY <1>8 DEF WrittenBefore, OnStream
  <2> QED BY <2>1, <2>2, <2>3
<1> QED BY <1>10, <1>11

\* Every step of the relay keeps what SharedInv says of the streams in use.
LEMMA SharedInductive == RelayInv /\ SharedInv /\ [Next]_vars => SharedInv'
<1> SUFFICES ASSUME RelayInv, SharedInv, [Next]_vars PROVE SharedInv'
  OBVIOUS
<1>0. pc \in [Handlers -> States] /\ dst \in [Handlers -> Handlers \cup {None}]
  BY Zenon DEF RelayInv, TypeOK
\* Steps in which no handler takes a stream.
<1>1. ASSUME \A g \in Handlers : Writing(g)' => Writing(g) /\ dst'[g] = dst[g],
             UNCHANGED shared
      PROVE  SharedInv'
  BY <1>1 DEF SharedInv, Racing
<1>2. ASSUME NEW h \in Handlers, NEW q, pc' = [pc EXCEPT ![h] = q],
             q \in {"header", "payload", "flush"} => Writing(h), UNCHANGED <<dst, shared>>
      PROVE  SharedInv'
  <2>1. \A g \in Handlers : pc'[g] = IF g = h THEN q ELSE pc[g]
    BY <1>0, <1>2
  <2> QED BY <1>1, <1>2, <2>1 DEF Writing
<1>3. ASSUME NEW h \in Handlers, Reject(h) \/ Register(h) \/ DecodeError(h) \/ Unregister(h)
      PROVE  SharedInv'
  BY <1>2, <1>3 DEF Reject, Register, DecodeError, Unregister
<1>4. ASSUME NEW h \in Handlers, NEW p \in Peers, Accept(h, p) PROVE SharedInv'
  BY <1>2, <1>4, Zenon DEF Accept
<1>5. ASSUME NEW h \in Handlers, NEW e \in Envelopes, Decode(h, e) PROVE SharedInv'
  BY <1>2, <1>5, Zenon DEF Decode
<1>6. ASSUME NEW h \in Handlers, Flush(h) PROVE SharedInv'
  <2>1. \E q \in {"unregister", "decode"} : pc' = [pc EXCEPT ![h] = q]
    BY <1>6, Zenon DEF Flush
  <2>2. UNCHANGED <<dst, shared>>
    BY <1>6 DEF Flush
  <2> QED BY <1>2, <2>1, <2>2, Zenon
<1>7. ASSUME NEW h \in Handlers, WriteHeader(h) \/ WritePayload(h) PROVE SharedInv'
  <2>1. UNCHANGED <<dst, shared>> /\ Writing(h)
    BY <1>7 DEF WriteHeader, WritePayload, Writing
  <2>2. \E q : pc' = [pc EXCEPT ![h] = q]
    BY <1>7 DEF WriteHeader, WritePayload, Write
  <2> QED BY <1>2, <2>1, <2>2, Zenon
<1>8. ASSUME NEW h \in Handlers, Lookup(h) PROVE SharedInv'
  <2> DEFINE w == streams[env[h].dst]
  <2>1. /\ ~Writing(h) /\ shared \subseteq shared' /\ dst'[h] = w
        /\ (\E g \in Handlers : Writing(g) /\ dst[g] = w) => w \in shared'
        /\ \A g \in Handlers : g # h => dst'[g] = dst[g] /\ pc'[g] = pc[g]
    BY <1>0, <1>8 DEF Lookup, Take, Writing
  <2> HIDE DEF w
  <2> SUFFICES ASSUME NEW f \in Handlers, NEW g \in Handlers, g # f,
                      Writing(f)', Writing(g)', dst'[g] = dst'[f]
               PROVE  dst'[f] \in shared'
    BY DEF SharedInv, Racing
  <2>2. CASE f = h
    <3>1. Writing(g) /\ dst[g] = w
      BY <2>1, <2>2 DEF Writing
    <3> QED BY <2>1, <2>2, <3>1
  <2>3. CASE g = h
    <3>1. Writing(f) /\ dst[f] = w
      BY <2>1, <2>3 DEF Writing
    <3> QED BY <2>1, <2>3, <3>1
  <2>4. CASE f # h /\ g # h
    <3>1. Writing(f) /\ Writing(g) /\ dst[g] = dst[f] /\ dst'[f] = dst[f]
      BY <2>1, <2>4 DEF Writing
    <3> QED BY <2>1, <3>1 DEF SharedInv, Racing
  <2> QED BY <2>2, <2>3, <2>4
<1>9. ASSUME NEW h \in Handlers, StreamBroken(h) PROVE SharedInv'
  BY <1>1, <1>9 DEF StreamBroken, Writing
<1>10. CASE UNCHANGED vars
  BY <1>1, <1>10 DEF vars, Writing
<1> QED BY <1>3, <1>4, <1>5, <1>6, <1>7, <1>8, <1>9, <1>10 DEF Next, HandlerNext

\* Every step of the relay keeps what OutInv says of the streams.
LEMMA OutInductive == RelayInv /\ RelayInv' /\ OutInv /\ [Next]_vars => OutInv'
<1> SUFFICES ASSUME RelayInv, RelayInv', OutInv, [Next]_vars PROVE OutInv'
  OBVIOUS
<1> USE MaxEnvAssumption
<1> DEFINE Goal == DeliveredInv' /\ WrittenBefore' /\ PerSourceOrder'
<1>0. /\ decoded \in Nat /\ decoded' \in Nat /\ pc \in [Handlers -> States]
      /\ peer \in [Handlers -> Peers \cup {None}]
  BY DEF RelayInv, TypeOK
\* Steps that write nothing.
<1>1. ASSUME UNCHANGED out, shared \subseteq shared', decoded <= decoded',
             \A h \in Handlers : pc[h] # "new" => pc'[h] # "new" /\ peer'[h] = peer[h],
             \A h \in Handlers : pc'[h] \in {"lookup", "header", "payload"} =>
                 \/ pc'[h] = pc[h] /\ env'[h] = env[h]
                 \/ pc'[h] = "lookup" /\ env'[h] \in Envelopes /\ env'[h].n > decoded
                 \/ pc'[h] = "header" /\ pc[h] = "lookup" /\ env'[h] = env[h]
                 \/ pc'[h] = "payload" /\ pc[h] = "header" /\ env'[h] = env[h]
      PROVE  Goal
  <2>1. \A h \in Handlers : \A i \in 1..Len(out'[h]) : OnStream(h, out'[h][i])
    BY <1>1 DEF OnStream
  <2>2. DeliveredInv' /\ WrittenBefore'
    BY <1>0, <1>1, <2>1, Repeated DEF OutInv
  <2>3. PerSourceOrder'
    BY <1>1, OrderKept DEF OutInv
  <2> QED BY <2>2, <2>3
<1>2. ASSUME NEW h \in Handlers, NEW part \in {"header", "payload"}, pc[h] = part,
             NEW next \in {"payload", "flush"}, part = "payload" => next = "flush",
             Write(h, part, next),
             UNCHANGED <<streams, peer, env, dst, decoded, open, shared>>
      PROVE  Goal
  <2>1. PICK q \in {next, "decode", "unregister"} : pc' = [pc EXCEPT ![h] = q]
    BY <1>2, WriteShape
  <2>2. \A g \in Handlers : pc'[g] = IF g = h THEN q ELSE pc[g]
    BY <1>0, <2>1
  <2>3. CASE UNCHANGED bufVars
    <3>1. \A g \in Handlers : pc[g] # "new" => pc'[g] # "new" /\ peer'[g] = peer[g]
      BY <1>2, <2>2
    <3>2. \A g \in Handlers : pc'[g] \in {"lookup", "header", "payload"} =>
              \/ pc'[g] = pc[g] /\ env'[g] = env[g]
              \/ pc'[g] = "payload" /\ pc[g] = "header" /\ env'[g] = env[g]
      BY <1>2, <2>2
    <3> QED BY <1>0, <1>1, <1>2, <2>3, <3>1, <3>2 DEF bufVars
  <2>4. CASE Buffer(dst[h], <<>>, Chunk(h, part))
    <3>1. DeliveredInv' /\ WrittenBefore'
      BY <1>2, <2>1, <2>4, ChunkBuffered, Zenon DEF OutInv
    <3>2. PerSourceOrder'
      BY <1>2, <2>4, OrderAppended DEF OutInv
    <3> QED BY <3>1, <3>2
  <2>5. CASE Racing(h) /\ Buffer(dst[h], Unsent(dst[h]), Chunk(h, part))
    <3>1. DeliveredInv' /\ WrittenBefore'
      BY <1>2, <2>1, <2>5, ChunkBuffered, Zenon DEF OutInv
    <3>2. dst[h] \in shared
      BY <2>5 DEF OutInv, SharedInv
    <3>3. \A g \in Handlers \ shared : out'[g] = out[g]
      BY <2>5, <3>2 DEF Buffer, RelayInv, TypeOK
    <3>4. PerSourceOrder'
      BY <1>2, <3>3, OrderKept DEF OutInv
    <3> QED BY <3>1, <3>4
  <2> QED BY <1>2, <2>3, <2>4, <2>5, WriteShape
<1>3. ASSUME NEW h \in Handlers, WriteHeader(h) PROVE Goal
  <2> DEFINE next == IF env[h].payload THEN "payload" ELSE "flush"
  <2>1. next \in {"payload", "flush"} /\ Write(h, "header", next) /\ pc[h] = "header"
    BY <1>3 DEF WriteHeader
  <2>2. UNCHANGED <<streams, peer, env, dst, decoded, open, shared>>
    BY <1>3 DEF WriteHeader
  <2> HIDE DEF next, Goal
  <2> QED BY <1>2, <2>1, <2>2
<1>4. ASSUME NEW h \in Handlers, WritePayload(h) PROVE Goal
  BY <1>2, <1>4 DEF WritePayload
\* A step of one handler that takes up no envelope and writes nothing.
<1>5. ASSUME NEW h \in Handlers, NEW q, q \notin {"new", "lookup", "payload"},
             q = "header" => pc[h] = "lookup", shared \subseteq shared',
             pc' = [pc EXCEPT ![h] = q], UNCHANGED <<out, decoded, env, peer>>
      PROVE  Goal
  <2>1. \A g \in Handlers : pc'[g] = IF g = h THEN q ELSE pc[g]
    BY <1>0, <1>5
  <2>2. \A g \in Handlers : pc[g] # "new" => pc'[g] # "new" /\ peer'[g] = peer[g]
    BY <1>5, <2>1
  <2>3. \A g \in Handlers : pc'[g] \in {"lookup", "header", "payload"} =>
            \/ pc'[g] = pc[g] /\ env'[g] = env[g]
            \/ pc'[g] = "header" /\ pc[g] = "lookup" /\ env'[g] = env[g]
    BY <1>5, <2>1
  <2> QED BY <1>0, <1>1, <1>5, <2>2, <2>3
<1>6. ASSUME NEW h \in Handlers, Reject(h) \/ Register(h) \/ DecodeError(h) \/ Unregister(h)
      PROVE  Goal
  BY <1>5, <1>6, Zenon DEF Reject, Register, DecodeError, Unregister, bufVars
<1>7. ASSUME NEW h \in Handlers, Flush(h) PROVE Goal
  <2>1. PICK q \in {"unregister", "decode"} : pc' = [pc EXCEPT ![h] = q]
    BY <1>7, Zenon DEF Flush
  <2>2. UNCHANGED <<decoded, env, peer, dst, shared>> /\ pc[h] = "flush"
    BY <1>7 DEF Flush
  <2>3. CASE UNCHANGED out
    BY <1>5, <2>1, <2>2, <2>3, Zenon
  <2>4. CASE Racing(h) /\ out' = [out EXCEPT ![dst[h]] = @ \o Unsent(dst[h])]
    <3> DEFINE w == dst[h]
    <3>1. w \in shared /\ w \in Handlers
      BY <2>2, <2>4 DEF OutInv, SharedInv, RelayInv, HandlerInv, Writing
    <3>2. /\ Unsent(w) \in Seq(Chunks)
          /\ \A i \in 1..Len(Unsent(w)) :
                 \E j \in 1..Len(out[w]) : Unsent(w)[i] = out[w][j]
      BY <3>1, UnsentShape, Zenon DEF RelayInv
    <3>3. \A g \in Handlers \ {w} : out'[g] = out[g]
      BY <2>4 DEF RelayInv, TypeOK
    <3>4. \A g \in Handlers : \A i \in 1..Len(out'[g]) : OnStream(g, out'[g][i])
      <4>1. \A g \in Handlers : \A i \in 1..Len(out'[g]) :
                OnStream(g, out'[g][i]) \/ (g = w /\ In(out'[g][i], Unsent(w)))
        BY <2>4, <3>1, <3>2, Contents, Zenon DEF RelayInv
      <4>2. \A c : In(c, Unsent(w)) => OnStream(w, c)
        BY <3>2 DEF In, OnStream
      <4> QED BY <4>1, <4>2, Zenon
    <3> HIDE DEF w
    <3>5. \A g \in Handlers : pc'[g] = IF g = h THEN q ELSE pc[g]
      BY <1>0, <2>1
    <3>6. \A g \in Handlers : pc[g] # "new" => pc'[g] # "new" /\ peer'[g] = peer[g]
      BY <2>2, <3>5
    <3>7. \A g \in Handlers : pc'[g] \in {"lookup", "header", "payload"} =>
              pc'[g] = pc[g] /\ env'[g] = env[g]
      BY <2>2, <3>5
    <3>8. DeliveredInv' /\ WrittenBefore'
      BY <1>0, <2>2, <3>4, <3>6, <3>7, Repeated DEF OutInv
    <3>9. PerSourceOrder'
      BY <2>2, <3>1, <3>3, OrderKept DEF OutInv
    <3> QED BY <3>8, <3>9
  <2> QED BY <1>7, <2>3, <2>4, Zenon DEF Flush
<1>8. ASSUME NEW h \in Handlers, Lookup(h) PROVE Goal
  <2>1. PICK q \in {"decode", "header"} : pc' = [pc EXCEPT ![h] = q]
    BY <1>8, Zenon DEF Lookup, Take
  <2>2. /\ UNCHANGED <<out, decoded, env, peer>> /\ pc[h] = "lookup"
        /\ shared \subseteq shared'
    BY <1>8 DEF Lookup, Take, bufVars
  <2> QED BY <1>5, <2>1, <2>2, Zenon
<1>9. ASSUME NEW h \in Handlers, NEW p \in Peers, Accept(h, p) PROVE Goal
  <2>1. /\ pc[h] = "new" /\ UNCHANGED <<out, decoded, env, shared>>
        /\ \A g \in Handlers : g # h => pc'[g] = pc[g] /\ peer'[g] = peer[g]
        /\ pc'[h] = "register"
    BY <1>0, <1>9 DEF Accept, bufVars
  <2> QED BY <1>0, <1>1, <2>1
<1>10. ASSUME NEW h \in Handlers, NEW e \in Envelopes, Decode(h, e) PROVE Goal
  <2>1. /\ UNCHANGED <<out, peer, shared>> /\ pc[h] = "decode" /\ pc'[h] = "lookup"
        /\ e.n = decoded + 1 /\ decoded' = decoded + 1 /\ env'[h] = e
        /\ \A g \in Handlers : g # h => pc'[g] = pc[g] /\ env'[g] = env[g]
    BY <1>0, <1>10 DEF Decode, RelayInv, TypeOK, bufVars
  <2>2. \A g \in Handlers : pc[g] # "new" => pc'[g] # "new" /\ peer'[g] = peer[g]
    BY <2>1
  <2>3. decoded <= decoded' /\ e.n > decoded
    BY <1>0, <2>1
  <2>4. \A g \in Handlers : pc'[g] \in {"lookup", "header", "payload"} =>
            \/ pc'[g] = pc[g] /\ env'[g] = env[g]
            \/ pc'[g] = "lookup" /\ env'[g] \in Envelopes /\ env'[g].n > decoded
    BY <2>1, <2>3
  <2> QED BY <1>1, <2>1, <2>2, <2>3, <2>4
<1>11. ASSUME UNCHANGED <<out, decoded, env, peer, pc, shared>> PROVE Goal
  BY <1>0, <1>1, <1>11
<1>12. ASSUME NEW h \in Handlers, StreamBroken(h) PROVE Goal
  BY <1>11, <1>12, Zenon DEF StreamBroken, bufVars
<1> HIDE DEF Goal
<1>13. ASSUME UNCHANGED vars PROVE Goal
  BY <1>11, <1>13 DEF vars
<1>14. Goal
  BY <1>3, <1>4, <1>6, <1>7, <1>8, <1>9, <1>10, <1>12, <1>13 DEF Next, HandlerNext
<1> QED BY <1>14, SharedInductive DEF OutInv, Goal

\* OutInv is an invariant of the relay.
LEMMA OutInvariant == Spec => []OutInv
<1>1. Init => OutInv
  BY SMTT(30) DEF Init, OutInv, SharedInv, Racing, Writing, DeliveredInv, WrittenBefore,
     PerSourceOrder
<1> QED BY <1>1, RelayInvariant, OutInductive, PTL DEF Spec

\* Whatever the interleaving of look-ups, registrations and writes, an envelope only
\* reaches streams of the peer it is addressed to.
THEOREM RelayDelivers == Spec => []DeliveredToDst
<1>1. OutInv => DeliveredToDst
  BY DEF OutInv, DeliveredInv, DeliveredToDst
<1> QED BY <1>1, OutInvariant, PTL

\* On a stream that no two handlers have used at the same time, the chunks of one handler
\* are in order, without duplicates: sharing a stream is the only way to disturb it.
THEOREM RelayKeepsOrder == Spec => []PerSourceOrder
<1>1. OutInv => PerSourceOrder
  BY DEF OutInv
<1> QED BY <1>1, OutInvariant, PTL

----------------------------------------------------------------------------
(* What the documents say of the relay, and the one thing the code leaves to chance that
   it depends on. *)

\* The request of a handler has been accepted and the handler has not returned.
Present(h) == pc[h] = "register" \/ pc[h] \in Serving

\* No peer has two requests at the relay at the same time, as when it connects again
\* before the relay has noticed the end of its old stream.
OneHandlerPerPeer ==
    \A g, h \in Handlers : Present(g) /\ Present(h) /\ peer[g] = peer[h] => g = h

\* The entry of a served peer is that of the handler that serves it.
OwnEntry == \A h \in Handlers : pc[h] \in Serving => streams[peer[h]] = h

\* While a peer has one handler, every step keeps the entry of that handler.
LEMMA OwnEntryInductive ==
    RelayInv /\ OneHandlerPerPeer /\ OwnEntry /\ [Next]_vars => OwnEntry'
<1> SUFFICES ASSUME RelayInv, OneHandlerPerPeer, OwnEntry, [Next]_vars PROVE OwnEntry'
  OBVIOUS
\* Steps that leave the map alone and let no handler begin to serve.
<1>1. ASSUME UNCHANGED streams,
             \A g \in Handlers : pc'[g] \in Serving => pc[g] \in Serving /\ peer'[g] = peer[g]
      PROVE  OwnEntry'
  BY <1>1 DEF OwnEntry
<1>2. /\ pc \in [Handlers -> States] /\ streams \in [Peers -> Handlers \cup {None}]
      /\ peer \in [Handlers -> Peers \cup {None}]
  BY Zenon DEF RelayInv, TypeOK
<1>3. ASSUME NEW h \in Handlers, NEW q, UNCHANGED <<streams, peer>>,
             pc[h] \in Serving \/ q \notin Serving, pc' = [pc EXCEPT ![h] = q]
      PROVE  OwnEntry'
  BY <1>1, <1>2, <1>3
<1>4. ASSUME NEW h \in Handlers, Reject(h) PROVE OwnEntry'
  BY <1>3, <1>4, Zenon DEF Reject, Serving
<1>5. ASSUME NEW h \in Handlers, NEW p \in Peers, Accept(h, p) PROVE OwnEntry'
  <2>1. /\ UNCHANGED streams
        /\ \A g \in Handlers : g # h => pc'[g] = pc[g] /\ peer'[g] = peer[g]
        /\ pc'[h] = "register"
    BY <1>2, <1>5 DEF Accept
  <2> QED BY <1>1, <2>1 DEF Serving
<1>6. ASSUME NEW h \in Handlers, Register(h) PROVE OwnEntry'
  <2>1. /\ pc[h] = "register" /\ peer[h] \in Peers /\ peer' = peer
        /\ \A g \in Handlers : g # h => pc'[g] = pc[g]
        /\ \A p \in Peers : streams'[p] = IF p = peer[h] THEN h ELSE streams[p]
    BY <1>2, <1>6 DEF Register, RelayInv, HandlerInv
  <2>2. ASSUME NEW g \in Handlers, g # h, pc[g] \in Serving
        PROVE  peer[g] \in Peers /\ peer[g] # peer[h]
    BY <2>1, <2>2 DEF OneHandlerPerPeer, Present, RelayInv, HandlerInv, Serving
  <2> QED BY <2>1, <2>2 DEF OwnEntry
<1>7. ASSUME NEW h \in Handlers, Unregister(h) PROVE OwnEntry'
  <2>1. /\ pc[h] = "unregister" /\ pc'[h] = "done" /\ peer[h] \in Peers /\ peer' = peer
        /\ \A g \in Handlers : g # h => pc'[g] = pc[g]
        /\ \A p \in Peers : p # peer[h] => streams'[p] = streams[p]
    BY <1>2, <1>7 DEF Unregister, RelayInv, HandlerInv
  <2>2. ASSUME NEW g \in Handlers, g # h, pc[g] \in Serving
        PROVE  peer[g] \in Peers /\ peer[g] # peer[h]
    BY <2>1, <2>2 DEF OneHandlerPerPeer, Present, RelayInv, HandlerInv, Serving
  <2> QED BY <2>1, <2>2 DEF OwnEntry, Serving
<1>8. ASSUME NEW h \in Handlers, NEW e \in Envelopes, Decode(h, e) PROVE OwnEntry'
  BY <1>3, <1>8, Zenon DEF Decode, Serving
<1>9. ASSUME NEW h \in Handlers, DecodeError(h) \/ Lookup(h) \/ Flush(h) PROVE OwnEntry'
  <2>1. UNCHANGED <<streams, peer>> /\ pc[h] \in Serving
    BY <1>9, Zenon DEF DecodeError, Lookup, Take, Flush, Serving
  <2>2. \E q : pc' = [pc EXCEPT ![h] = q]
    BY <1>9, Zenon DEF DecodeError, Lookup, Take, Flush
  <2> QED BY <1>3, <2>1, <2>2, Zenon
<1>10. ASSUME NEW h \in Handlers, WriteHeader(h) \/ WritePayload(h) PROVE OwnEntry'
  <2>1. UNCHANGED <<streams, peer>> /\ pc[h] \in Serving
    BY <1>10 DEF WriteHeader, WritePayload, Serving
  <2>2. \E q : pc' = [pc EXCEPT ![h] = q]
    BY <1>10 DEF WriteHeader, WritePayload, Write
  <2> QED BY <1>3, <2>1, <2>2, Zenon
<1>11. ASSUME NEW h \in Handlers, StreamBroken(h) PROVE OwnEntry'
  BY <1>1, <1>11 DEF StreamBroken
<1>12. CASE UNCHANGED vars
  BY <1>1, <1>12 DEF vars
<1> QED BY <1>4, <1>5, <1>6, <1>7, <1>8, <1>9, <1>10, <1>11, <1>12 DEF Next, HandlerNext

\* A served peer is reachable as long as no peer has two requests at the relay at once:
\* the deferred unregister of an overlapping older request is all that can take a served
\* peer off the map.
THEOREM RelayReachableIfOneHandler == Spec /\ []OneHandlerPerPeer => []ServedPeerReachable
<1>1. Init => OwnEntry
  BY DEF Init, OwnEntry, Serving
<1>2. OwnEntry => ServedPeerReachable
  BY NoneAssumption DEF OwnEntry, ServedPeerReachable
<1> QED BY <1>1, <1>2, RelayInvariant, OwnEntryInductive, PTL DEF Spec

----------------------------------------------------------------------------

\* A handler about to write a payload to a working stream of its own has just written the
\* header.
HeaderLast ==
    \A h \in Handlers :
        pc[h] = "payload" /\ dst[h] \in open \ shared =>
            /\ Len(out[dst[h]]) > 0
            /\ out[dst[h]][Len(out[dst[h]])] = Chunk(h, "header")

WholeInv == EnvelopesWhole /\ HeaderLast

\* A step that writes nothing, or only to shared streams, keeps the envelopes whole.
LEMMA WholeKept ==
    ASSUME WholeInv, dst \in [Handlers -> Handlers \cup {None}], open \subseteq Handlers,
           shared \subseteq shared', \A h \in Handlers \ shared : out'[h] = out[h],
           \A h \in Handlers : pc'[h] = "payload" /\ dst'[h] \in open' \ shared' =>
               /\ pc[h] = "payload" /\ dst[h] \in open
               /\ dst'[h] = dst[h] /\ env'[h] = env[h]
    PROVE  WholeInv'
<1>1. EnvelopesWhole'
  BY DEF WholeInv, EnvelopesWhole
<1>2. HeaderLast'
  <2> SUFFICES ASSUME NEW h \in Handlers, pc'[h] = "payload", dst'[h] \in open' \ shared'
               PROVE  /\ Len(out'[dst'[h]]) > 0
                      /\ out'[dst'[h]][Len(out'[dst'[h]])] = Chunk(h, "header")'
    BY DEF HeaderLast
  <2>1. /\ pc[h] = "payload" /\ dst[h] \in open \ shared /\ dst'[h] = dst[h]
        /\ env'[h] = env[h]
    OBVIOUS
  <2>2. out'[dst[h]] = out[dst[h]]
    BY <2>1
  <2>3. Len(out[dst[h]]) > 0 /\ out[dst[h]][Len(out[dst[h]])] = Chunk(h, "header")
    BY <2>1 DEF WholeInv, HeaderLast
  <2> QED BY <2>1, <2>2, <2>3 DEF Chunk
<1> QED BY <1>1, <1>2 DEF WholeInv

\* A Write without a rival puts its chunk on a working stream, or nothing on a broken one.
LEMMA WriteAlone ==
    ASSUME NEW h \in Handlers, NEW part, NEW next, Write(h, part, next), ~Racing(h)
    PROVE  \/ /\ dst[h] \in open
              /\ Buffer(dst[h], <<>>, Chunk(h, part))
              /\ pc' = [pc EXCEPT ![h] = next]
           \/ /\ UNCHANGED out
              /\ \E q : /\ pc' = [pc EXCEPT ![h] = q]
                        /\ q = "payload" => dst[h] \notin open
  BY Zenon DEF Write, Chunk, bufVars

\* The chunk of a Write without a rival keeps the envelopes whole.
LEMMA WholeAppended ==
    ASSUME RelayInv, SharedInv, WholeInv,
           NEW h \in Handlers, NEW part \in {"header", "payload"}, pc[h] = part,
           NEW q, q = "payload" => part = "header", pc' = [pc EXCEPT ![h] = q],
           dst[h] \in open \ shared, UNCHANGED <<env, dst, open, shared>>,
           Chunk(h, part) \in Chunks, Buffer(dst[h], <<>>, Chunk(h, part))
    PROVE  WholeInv'
<1> DEFINE w == dst[h]
           ch == Chunk(h, part)
           k == Len(out[w])
           s == <<ch>>
<1>1. /\ w \in Handlers /\ pc \in [Handlers -> States]
  BY Zenon DEF RelayInv, TypeOK
<1>2. /\ s \in Seq(Chunks) /\ Len(s) = 1 /\ s[1] = ch
      /\ out' = [out EXCEPT ![w] = @ \o s]
  BY DEF Buffer
<1> HIDE DEF s
<1>3. /\ k \in Nat /\ Len(out'[w]) = k + 1 /\ out'[w][k + 1] = ch
      /\ \A i \in 1..k : out'[w][i] = out[w][i]
      /\ \A g \in Handlers : g # w => out'[g] = out[g]
  <2>1. /\ k \in Nat /\ Len(out'[w]) = k + Len(s)
        /\ \A i \in 1..k : out'[w][i] = out[w][i]
        /\ \A i \in 1..Len(s) : out'[w][k + i] = s[i]
        /\ \A g \in Handlers \ {w} : out'[g] = out[g]
    BY <1>1, <1>2, Grown, ZenonT(60) DEF RelayInv
  <2> HIDE DEF w, ch, k
  <2> QED BY <1>2, <2>1
<1>4. ch.part = part /\ (part = "payload" => [ch EXCEPT !.part = "header"] = Chunk(h, "header"))
  BY DEF Chunk
<1>5. /\ pc'[h] = q
      /\ \A g \in Handlers : g # h => pc'[g] = pc[g]
  BY <1>1
<1>6. ASSUME part = "payload" PROVE k > 0 /\ out[w][k] = [ch EXCEPT !.part = "header"]
  BY <1>4, <1>6 DEF WholeInv, HeaderLast
<1>7. part = "header" => ch = Chunk(h, "header")
  OBVIOUS
<1> HIDE DEF w, ch, k
<1>8. ASSUME NEW g \in Handlers \ shared, NEW i \in 1..Len(out'[g]),
             out'[g][i].part = "payload"
      PROVE  i > 1 /\ out'[g][i - 1] = [out'[g][i] EXCEPT !.part = "header"]
  <2>1. CASE g # w
    <3>1. out'[g] = out[g]
      BY <1>3, <2>1
    <3> QED BY <1>8, <3>1 DEF WholeInv, EnvelopesWhole
  <2>2. CASE g = w /\ i = k + 1
    <3>1. out'[g][i] = ch /\ part = "payload"
      BY <1>3, <1>4, <1>8, <2>2
    <3>2. k > 0 /\ i - 1 = k /\ k \in 1..k
      BY <1>3, <1>6, <2>2, <3>1
    <3>3. out'[g][i - 1] = out[w][k]
      BY <1>3, <2>2, <3>2
    <3>4. out'[g][i - 1] = [out'[g][i] EXCEPT !.part = "header"]
      BY <1>6, <3>1, <3>3, Zenon
    <3>5. i > 1
      BY <1>3, <2>2, <3>2
    <3> QED BY <3>4, <3>5
  <2>3. CASE g = w /\ i # k + 1
    <3>1. i \in 1..k
      BY <1>3, <2>3
    <3>2. out'[g][i] = out[w][i]
      BY <1>3, <2>3, <3>1
    <3>3. i > 1 /\ out[w][i - 1] = [out[w][i] EXCEPT !.part = "header"]
      BY <1>8, <2>3, <3>1, <3>2 DEF WholeInv, EnvelopesWhole, k
    <3>4. i - 1 \in 1..k
      BY <1>3, <3>1, <3>3
    <3>5. out'[g][i - 1] = out[w][i - 1]
      BY <1>3, <2>3, <3>4
    <3> QED BY <3>2, <3>3, <3>5
  <2> QED BY <2>1, <2>2, <2>3
<1>9. EnvelopesWhole'
  BY <1>8, Zenon DEF EnvelopesWhole
<1>10. ASSUME NEW g \in Handlers, pc'[g] = "payload", dst[g] \in open \ shared
       PROVE  /\ Len(out'[dst[g]]) > 0
              /\ out'[dst[g]][Len(out'[dst[g]])] = Chunk(g, "header")
  <2>1. CASE g = h
    <3>1. part = "header" /\ dst[g] = w
      BY <1>5, <1>10, <2>1 DEF w
    <3> QED BY <1>3, <1>7, <2>1, <3>1
  <2>2. CASE g # h
    <3>1. pc[g] = "payload"
      BY <1>5, <1>10, <2>2
    <3>2. dst[g] # w
      BY <1>10, <2>2, <3>1 DEF SharedInv, Racing, Writing, w
    <3>3. dst[g] \in Handlers /\ out'[dst[g]] = out[dst[g]]
      BY <1>3, <1>10, <3>2 DEF RelayInv, TypeOK
    <3> QED BY <1>10, <3>1, <3>3, Zenon DEF WholeInv, HeaderLast
  <2> QED BY <2>1, <2>2
<1>11. HeaderLast'
  BY <1>10 DEF HeaderLast, Chunk
<1> QED BY <1>9, <1>11 DEF WholeInv

\* Every step keeps the envelopes whole on the streams that are not shared.
LEMMA WholeInductive ==
    RelayInv /\ SharedInv /\ WholeInv /\ [Next]_vars => WholeInv'
<1> SUFFICES ASSUME RelayInv, SharedInv, WholeInv, [Next]_vars PROVE WholeInv'
  OBVIOUS
<1>0. /\ pc \in [Handlers -> States] /\ open \subseteq Handlers
      /\ dst \in [Handlers -> Handlers \cup {None}] /\ out \in [Handlers -> Seq(Chunks)]
  BY Zenon DEF RelayInv, TypeOK
<1>1. ASSUME NEW h \in Handlers, NEW part \in {"header", "payload"}, pc[h] = part,
             NEW next \in {"payload", "flush"}, next = "payload" => part = "header",
             Write(h, part, next), UNCHANGED <<env, dst, open, shared>>
      PROVE  WholeInv'
  <2>0. Chunk(h, part) \in Chunks
    BY <1>1, WriteShape
  <2>1. CASE dst[h] \in shared
    <3>1. PICK q : pc' = [pc EXCEPT ![h] = q]
      BY <1>1, WriteShape
    <3>2. \A g \in Handlers : pc'[g] = IF g = h THEN q ELSE pc[g]
      BY <1>0, <3>1
    <3>3. \A g \in Handlers \ shared : out'[g] = out[g]
      <4>1. \/ UNCHANGED bufVars
            \/ Buffer(dst[h], <<>>, Chunk(h, part))
            \/ Buffer(dst[h], Unsent(dst[h]), Chunk(h, part))
        BY <1>1, WriteShape, Zenon
      <4>2. UNCHANGED out \/ \E t : out' = [out EXCEPT ![dst[h]] = t]
        BY <4>1, Zenon DEF bufVars, Buffer
      <4> QED BY <1>0, <2>1, <4>2
    <3>4. \A g \in Handlers : pc'[g] = "payload" /\ dst'[g] \in open' \ shared' =>
              /\ pc[g] = "payload" /\ dst[g] \in open
              /\ dst'[g] = dst[g] /\ env'[g] = env[g]
      BY <1>1, <2>1, <3>2
    <3> QED BY <1>0, <1>1, <3>3, <3>4, WholeKept
  <2>2. CASE dst[h] \notin shared
    <3>1. ~Racing(h)
      BY <2>2 DEF SharedInv
    <3>2. CASE /\ dst[h] \in open
               /\ Buffer(dst[h], <<>>, Chunk(h, part))
               /\ pc' = [pc EXCEPT ![h] = next]
      <4>1. dst[h] \in open \ shared
        BY <2>2, <3>2
      <4> QED BY <1>1, <2>0, <3>2, <4>1, WholeAppended, Zenon
    <3>3. CASE /\ UNCHANGED out
               /\ \E q : /\ pc' = [pc EXCEPT ![h] = q]
                         /\ q = "payload" => dst[h] \notin open
      <4>1. PICK q : /\ pc' = [pc EXCEPT ![h] = q]
                     /\ q = "payload" => dst[h] \notin open
        BY <3>3, Zenon
      <4>2. \A g \in Handlers : pc'[g] = IF g = h THEN q ELSE pc[g]
        BY <1>0, <4>1
      <4> QED BY <1>0, <1>1, <3>3, <4>1, <4>2, WholeKept
    <3> QED BY <1>1, <3>1, <3>2, <3>3, WriteAlone, Zenon
  <2> QED BY <2>1, <2>2
<1>2. ASSUME NEW h \in Handlers, WriteHeader(h) PROVE WholeInv'
  <2> DEFINE next == IF env[h].payload THEN "payload" ELSE "flush"
  <2>1. /\ next \in {"payload", "flush"} /\ Write(h, "header", next) /\ pc[h] = "header"
        /\ UNCHANGED <<env, dst, open, shared>>
    BY <1>2 DEF WriteHeader
  <2> HIDE DEF next
  <2> QED BY <1>1, <2>1
<1>3. ASSUME NEW h \in Handlers, WritePayload(h) PROVE WholeInv'
  BY <1>1, <1>3 DEF WritePayload
\* A step of one handler that writes to no stream of one handler and does not enter
\* "payload".
<1>4. ASSUME NEW h \in Handlers, NEW q, q # "payload", pc' = [pc EXCEPT ![h] = q],
             open' \subseteq open, shared \subseteq shared',
             \A g \in Handlers \ shared : out'[g] = out[g],
             \A g \in Handlers : g # h => dst'[g] = dst[g] /\ env'[g] = env[g]
      PROVE  WholeInv'
  <2>1. \A g \in Handlers : pc'[g] = IF g = h THEN q ELSE pc[g]
    BY <1>0, <1>4
  <2>2. \A g \in Handlers : pc'[g] = "payload" /\ dst'[g] \in open' \ shared' =>
            /\ pc[g] = "payload" /\ dst[g] \in open
            /\ dst'[g] = dst[g] /\ env'[g] = env[g]
    BY <1>4, <2>1
  <2> QED BY <1>0, <1>4, <2>2, WholeKept
<1>5. ASSUME NEW h \in Handlers, Reject(h) \/ Register(h) \/ DecodeError(h) \/ Unregister(h)
      PROVE  WholeInv'
  <2>1. UNCHANGED <<out, dst, env, shared>> /\ open' \subseteq open
    BY <1>5 DEF Reject, Register, DecodeError, Unregister, bufVars
  <2>2. \E q \in {"done", "decode", "unregister"} : pc' = [pc EXCEPT ![h] = q]
    BY <1>5, Zenon DEF Reject, Register, DecodeError, Unregister
  <2> QED BY <1>4, <2>1, <2>2, Zenon
<1>6. ASSUME NEW h \in Handlers, Flush(h) PROVE WholeInv'
  <2>1. UNCHANGED <<dst, env, shared, open>> /\ pc[h] = "flush"
    BY <1>6 DEF Flush
  <2>2. \E q \in {"unregister", "decode"} : pc' = [pc EXCEPT ![h] = q]
    BY <1>6, Zenon DEF Flush
  <2>3. \A g \in Handlers \ shared : out'[g] = out[g]
    <3>1. UNCHANGED out \/ (Racing(h) /\ \E t : out' = [out EXCEPT ![dst[h]] = t])
      BY <1>6, Zenon DEF Flush
    <3> QED BY <1>0, <3>1 DEF SharedInv
  <2> QED BY <1>4, <2>1, <2>2, <2>3, Zenon
<1>7. ASSUME NEW h \in Handlers, Lookup(h) PROVE WholeInv'
  <2>1. \A g \in Handlers : g # h => dst'[g] = dst[g] /\ env'[g] = env[g]
    BY <1>0, <1>7 DEF Lookup, Take
  <2>2. UNCHANGED <<out, open>> /\ shared \subseteq shared'
    BY <1>7 DEF Lookup, Take, bufVars
  <2>3. \E q \in {"decode", "header"} : pc' = [pc EXCEPT ![h] = q]
    BY <1>7, Zenon DEF Lookup, Take
  <2> QED BY <1>4, <2>1, <2>2, <2>3, Zenon
<1>8. ASSUME NEW h \in Handlers, NEW e \in Envelopes, Decode(h, e) PROVE WholeInv'
  <2>1. \A g \in Handlers : g # h => dst'[g] = dst[g] /\ env'[g] = env[g]
    BY <1>8 DEF Decode, RelayInv, TypeOK
  <2>2. UNCHANGED <<out, open, shared>> /\ pc' = [pc EXCEPT ![h] = "lookup"]
    BY <1>8 DEF Decode, bufVars
  <2> QED BY <1>4, <2>1, <2>2, Zenon
\* The stream of a new handler is nobody's destination yet.
<1>9. ASSUME NEW h \in Handlers, NEW p \in Peers, Accept(h, p) PROVE WholeInv'
  <2>1. /\ \A g \in Handlers : pc'[g] = IF g = h THEN "register" ELSE pc[g]
        /\ pc[h] = "new" /\ open' = open \cup {h} /\ UNCHANGED <<out, dst, env, shared>>
    BY <1>0, <1>9 DEF Accept, bufVars
  <2>2. \A g \in Handlers : pc[g] = "payload" => dst[g] # h
    BY <2>1 DEF RelayInv, HandlerInv, Writing
  <2> QED BY <1>0, <2>1, <2>2, WholeKept
<1>10. ASSUME NEW h \in Handlers, StreamBroken(h) PROVE WholeInv'
  BY <1>0, <1>10, WholeKept DEF StreamBroken, bufVars
<1>11. CASE UNCHANGED vars
  BY <1>0, <1>11, WholeKept DEF vars
<1> QED BY <1>2, <1>3, <1>5, <1>6, <1>7, <1>8, <1>9, <1>10, <1>11 DEF Next, HandlerNext

\* The relay forwards whole envelopes on every stream that no two handlers have used at
\* the same time: neither broken streams, nor handlers that return, nor a map that changes
\* between the look-up and the writes separates a payload from its header.
THEOREM RelayKeepsWhole == Spec => []EnvelopesWhole
<1>1. Init => WholeInv
  BY DEF Init, WholeInv, EnvelopesWhole, HeaderLast
<1>2. WholeInv => EnvelopesWhole
  BY DEF WholeInv
<1>3. OutInv => SharedInv
  BY DEF OutInv
<1> QED BY <1>1, <1>2, <1>3, RelayInvariant, OutInvariant, WholeInductive, PTL DEF Spec

=============================================================================
