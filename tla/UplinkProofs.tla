---------------------------- MODULE UplinkProofs ----------------------------
(***************************************************************************)
(* Proofs about Uplink for any number of sessions that write, streams and  *)
(* envelopes.                                                              *)
(***************************************************************************)
EXTENDS Uplink, TLAPS

Encoding(w) == pc[w] \in {"header", "payload"}

Chunk(w, part) == [n |-> env[w].n, part |-> part, payload |-> env[w].payload]

\* The condition FramesWhole places on what one stream carries.
Whole(q) ==
    \A i \in 1..Len(q) :
        /\ q[i].part = "header" /\ q[i].payload /\ i < Len(q) =>
              q[i + 1] = [q[i] EXCEPT !.part = "payload"]
        /\ q[i].part = "payload" => i > 1 /\ q[i - 1] = [q[i] EXCEPT !.part = "header"]

\* It ends with a header whose payload is missing.
Cut(q) == q # <<>> /\ q[Len(q)].part = "header" /\ q[Len(q)].payload

\* Whoever is inside Encode holds wrMu and has an envelope and a pipe; wrMu protects
\* the pipe, and streams that do not exist yet carry nothing.
LockInv ==
    /\ \A w \in Writers :
          /\ Encoding(w) => wrMu = w
          /\ pc[w] # "idle" => env[w] \in Envelopes
    /\ connect = "established" => stream > 0
    /\ writer # None => writer <= stream
    /\ \A k \in body : k <= stream
    /\ \A k \in Streams : k > stream => carried[k] = <<>>

\* A writer about to send a payload has just sent the header.
PayloadInv ==
    \A w \in Writers :
        pc[w] = "payload" =>
            /\ env[w].payload /\ carried[writer] # <<>>
            /\ carried[writer][Len(carried[writer])] = Chunk(w, "header")

UplinkInv == TypeOK /\ LockInv /\ PayloadInv /\ FramesWhole /\ CutOnlyWhenLost

----------------------------------------------------------------------------

\* FramesWhole, stream by stream.
LEMMA WholeFrames == FramesWhole <=> \A k \in Streams : Whole(carried[k])
  BY DEF FramesWhole, Whole

\* CutOnlyWhenLost, stream by stream.
LEMMA CutFrames ==
    CutOnlyWhenLost <=>
        \A k \in body : Cut(carried[k]) =>
            \E w \in Writers : /\ pc[w] = "payload" /\ writer = k
                               /\ env[w].n = carried[k][Len(carried[k])].n
  BY DEF CutOnlyWhenLost, Cut

\* A header may follow whole envelopes, and a payload its header.
LEMMA AppendWhole ==
    ASSUME NEW q \in Seq(Chunks), NEW c \in Chunks, Whole(q),
           c.part = "header" => ~Cut(q),
           c.part = "payload" => q # <<>> /\ q[Len(q)] = [c EXCEPT !.part = "header"]
    PROVE  Whole(Append(q, c))
<1> DEFINE a == Append(q, c)
<1>1. /\ Len(a) = Len(q) + 1 /\ Len(q) \in Nat
      /\ \A i \in 1..(Len(q) + 1) : a[i] = IF i = Len(q) + 1 THEN c ELSE q[i]
  OBVIOUS
<1>2. q # <<>> => Len(q) > 0
  OBVIOUS
<1>3. \A i \in 1..Len(q) : q[i] \in Chunks
  OBVIOUS
<1> HIDE DEF a
<1>4. ASSUME NEW i \in 1..Len(a), a[i].part = "header", a[i].payload, i < Len(a)
      PROVE  a[i + 1] = [a[i] EXCEPT !.part = "payload"]
  <2>1. i \in 1..Len(q) /\ a[i] = q[i]
    BY <1>1, <1>4
  <2>2. CASE i < Len(q)
    <3>1. a[i + 1] = q[i + 1]
      BY <1>1, <2>1, <2>2
    <3> QED BY <1>4, <2>1, <2>2, <3>1 DEF Whole
  <2>3. CASE i = Len(q)
    <3>1. a[i + 1] = c /\ Cut(q)
      BY <1>1, <1>4, <2>1, <2>3 DEF Cut
    <3>2. c.part = "payload"
      BY <3>1 DEF Chunks
    <3>3. a[i] = [c EXCEPT !.part = "header"]
      BY <2>1, <2>3, <3>2
    <3>4. [a[i] EXCEPT !.part = "payload"] = c
      BY <3>2, <3>3 DEF Chunks
    <3> QED BY <3>1, <3>4
  <2> QED BY <1>1, <2>1, <2>2, <2>3
<1>5. ASSUME NEW i \in 1..Len(a), a[i].part = "payload"
      PROVE  i > 1 /\ a[i - 1] = [a[i] EXCEPT !.part = "header"]
  <2>1. CASE i = Len(q) + 1
    <3>1. a[i] = c /\ q # <<>> /\ q[Len(q)] = [c EXCEPT !.part = "header"]
      BY <1>1, <1>5, <2>1
    <3>2. i > 1 /\ i - 1 \in 1..Len(q) /\ i - 1 = Len(q)
      BY <1>1, <1>2, <2>1, <3>1
    <3>3. a[i - 1] = q[Len(q)]
      BY <1>1, <3>2
    <3> QED BY <3>1, <3>2, <3>3
  <2>2. CASE i \in 1..Len(q)
    <3>1. a[i] = q[i]
      BY <1>1, <2>2
    <3>2. i > 1 /\ q[i - 1] = [q[i] EXCEPT !.part = "header"]
      BY <1>5, <2>2, <3>1 DEF Whole
    <3>3. a[i - 1] = q[i - 1]
      BY <1>1, <2>2, <3>2
    <3> QED BY <3>1, <3>2, <3>3
  <2> QED BY <1>1, <2>1, <2>2
<1>6. Whole(a)
  BY <1>4, <1>5 DEF Whole
<1> QED BY <1>6 DEF a

\* The steps that leave the pipe, the writers and what was carried alone.
LEMMA QuietStep ==
    ASSUME UplinkInv, TypeOK', UNCHANGED <<wrMu, writer, pc, env, carried>>,
           body' \subseteq body, stream' = stream, connect' \in {connect, "cleanup", "down"}
    PROVE  UplinkInv'
<1>1. LockInv'
  BY DEF UplinkInv, TypeOK, LockInv, Encoding
<1>2. PayloadInv'
  BY DEF UplinkInv, PayloadInv, Chunk
<1>3. FramesWhole'
  BY DEF UplinkInv, FramesWhole
<1>4. CutOnlyWhenLost'
  BY DEF UplinkInv, CutOnlyWhenLost
<1> QED BY <1>1, <1>2, <1>3, <1>4 DEF UplinkInv

\* The transport takes the next chunk of the writer that holds wrMu.
LEMMA TakeKeeps ==
    ASSUME UplinkInv, NEW w \in Writers, NEW part \in {"header", "payload"}, pc[w] = part,
           Take(w, part)
    PROVE  /\ writer \in body /\ writer \in Streams
           /\ Chunk(w, part) \in Chunks /\ carried[writer] \in Seq(Chunks)
           /\ carried' = [carried EXCEPT ![writer] = Append(@, Chunk(w, part))]
           /\ carried' \in [Streams -> Seq(Chunks)]
           /\ FramesWhole'
           /\ \A v \in Writers : v # w => ~Encoding(v)
<1>1. writer \in body /\ writer \in Streams /\ carried[writer] \in Seq(Chunks)
  BY DEF Take, UplinkInv, TypeOK
<1>2. Chunk(w, part) \in Chunks
  BY DEF UplinkInv, LockInv, Envelopes, Chunks, Chunk
<1>3. carried' = [carried EXCEPT ![writer] = Append(@, Chunk(w, part))]
  BY DEF Take, Chunk
<1>4. \A v \in Writers : v # w => ~Encoding(v)
  BY DEF UplinkInv, LockInv, Encoding
<1>5. \A k \in Streams : carried'[k] =
          IF k = writer THEN Append(carried[writer], Chunk(w, part)) ELSE carried[k]
  BY <1>1, <1>3 DEF UplinkInv, TypeOK
<1>6. Append(carried[writer], Chunk(w, part)) \in Seq(Chunks)
  BY <1>1, <1>2
<1>7. Whole(carried[writer])
  BY <1>1, WholeFrames DEF UplinkInv
<1>8. Chunk(w, part).part = part
  BY DEF Chunk
<1>9. part = "header" => ~Cut(carried[writer])
  <2> SUFFICES ASSUME part = "header", Cut(carried[writer]) PROVE FALSE
    OBVIOUS
  <2>1. PICK v \in Writers : pc[v] = "payload"
    BY <1>1, CutFrames DEF UplinkInv
  <2> QED BY <1>4, <2>1 DEF Encoding
<1>10. part = "payload" =>
           /\ carried[writer] # <<>>
           /\ carried[writer][Len(carried[writer])] = [Chunk(w, part) EXCEPT !.part = "header"]
  BY DEF UplinkInv, PayloadInv, Chunk
<1>11. Whole(Append(carried[writer], Chunk(w, part)))
  BY <1>1, <1>2, <1>7, <1>8, <1>9, <1>10, AppendWhole
<1>12. \A k \in Streams : Whole(carried'[k])
  BY <1>5, <1>11, WholeFrames DEF UplinkInv
<1>13. FramesWhole'
  BY <1>12 DEF FramesWhole, Whole
<1>14. carried' \in [Streams -> Seq(Chunks)]
  BY <1>1, <1>3, <1>6 DEF UplinkInv, TypeOK
<1> QED BY <1>1, <1>2, <1>3, <1>4, <1>13, <1>14

----------------------------------------------------------------------------

\* Every step of the sending side keeps envelopes whole.
LEMMA UplinkInductive == UplinkInv /\ [Next]_vars => UplinkInv'
<1> SUFFICES ASSUME UplinkInv, [Next]_vars PROVE UplinkInv'
  OBVIOUS
<1> USE BoundAssumption, NoneAssumption
<1>1. CASE RoundTrip
  <2>1. stream + 1 \in Streams /\ stream \in Nat
    BY <1>1 DEF RoundTrip, UplinkInv, TypeOK, Streams
  <2>2. TypeOK'
    BY <1>1, <2>1 DEF RoundTrip, UplinkInv, TypeOK
  <2>3. LockInv'
    BY <1>1, <2>1 DEF RoundTrip, UplinkInv, TypeOK, LockInv, Encoding, Streams
  <2>4. PayloadInv' /\ FramesWhole'
    BY <1>1 DEF RoundTrip, UplinkInv, PayloadInv, FramesWhole, Chunk
  <2>5. CutOnlyWhenLost'
    <3>1. carried[stream + 1] = <<>>
      BY <2>1 DEF UplinkInv, LockInv
    <3> QED BY <1>1, <3>1 DEF RoundTrip, UplinkInv, CutOnlyWhenLost
  <2> QED BY <2>2, <2>3, <2>4, <2>5 DEF UplinkInv
\* Connect changes the pipe only while nobody holds wrMu.
<1>2. CASE Install \/ Cleanup
  <2>1. /\ wrMu = None /\ UNCHANGED <<wrMu, stream, body, pc, env, carried>>
        /\ writer' = None \/ (connect = "established" /\ writer' = stream)
    BY <1>2 DEF Install, Cleanup
  <2>2. \A w \in Writers : ~Encoding(w)
    BY <2>1 DEF UplinkInv, LockInv
  <2>3. TypeOK'
    <3>1. connect = "established" => stream \in Streams
      BY DEF UplinkInv, TypeOK, LockInv, Streams
    <3>2. writer' \in Streams \cup {None}
      BY <2>1, <3>1
    <3>3. \A w \in Writers : pc'[w] \notin {"header", "payload"}
      BY <2>1, <2>2 DEF Encoding
    <3> QED BY <1>2, <3>2, <3>3 DEF Install, Cleanup, UplinkInv, TypeOK
  <2>4. LockInv'
    BY <1>2, <2>1, <2>2 DEF Install, Cleanup, UplinkInv, TypeOK, LockInv, Encoding
  <2>5. PayloadInv' /\ FramesWhole'
    BY <2>1, <2>2 DEF UplinkInv, PayloadInv, FramesWhole, Encoding
  <2>6. CutOnlyWhenLost'
    BY <2>1, <2>2 DEF UplinkInv, CutOnlyWhenLost, Encoding
  <2> QED BY <2>3, <2>4, <2>5, <2>6 DEF UplinkInv
<1>3. CASE ReadFails \/ Return \/ FlowControl
  <2>1. TypeOK'
    BY <1>3 DEF ReadFails, Return, FlowControl, UplinkInv, TypeOK
  <2> QED BY <1>3, <2>1, QuietStep DEF ReadFails, Return, FlowControl
<1>4. ASSUME NEW c \in Callers, Ask(c) \/ Answer(c) PROVE UplinkInv'
  <2>1. TypeOK'
    BY <1>4 DEF Ask, Answer, UplinkInv, TypeOK
  <2> QED BY <1>4, <2>1, QuietStep DEF Ask, Answer
<1>5. ASSUME NEW k \in Streams, Abort(k) \/ ResponseEnds(k) \/ ResetBody(k) PROVE UplinkInv'
  <2>1. TypeOK'
    BY <1>5 DEF Abort, ResponseEnds, ResetBody, UplinkInv, TypeOK
  <2> QED BY <1>5, <2>1, QuietStep DEF Abort, ResponseEnds, ResetBody
<1>6. ASSUME NEW w \in Writers, NEW payload \in BOOLEAN, Submit(w, payload) PROVE UplinkInv'
  <2> DEFINE e == [n |-> submitted + 1, payload |-> payload]
  <2>1. /\ pc[w] = "idle" /\ pc' = [pc EXCEPT ![w] = "lock"] /\ env' = [env EXCEPT ![w] = e]
        /\ UNCHANGED <<wrMu, writer, stream, body, carried>>
    BY <1>6 DEF Submit
  <2>2. e \in Envelopes
    BY <1>6 DEF Submit, UplinkInv, TypeOK, Envelopes
  <2> HIDE DEF e
  <2>3. TypeOK'
    BY <1>6, <2>1, <2>2 DEF Submit, UplinkInv, TypeOK
  <2>4. \A v \in Writers : /\ Encoding(v)' <=> Encoding(v) /\ v # w
                           /\ pc'[w] = "lock"
                           /\ v # w => env'[v] = env[v] /\ pc'[v] = pc[v]
    BY <2>1 DEF UplinkInv, TypeOK, Encoding
  <2>5. LockInv'
    BY <1>6, <2>1, <2>2, <2>4 DEF Submit, UplinkInv, TypeOK, LockInv
  <2>6. PayloadInv' /\ FramesWhole'
    <3>1. PayloadInv'
      BY <2>1, <2>4 DEF UplinkInv, PayloadInv, Chunk
    <3> QED BY <2>1, <3>1 DEF UplinkInv, FramesWhole
  <2>7. CutOnlyWhenLost'
    BY <2>1, <2>4 DEF UplinkInv, CutOnlyWhenLost
  <2> QED BY <2>3, <2>5, <2>6, <2>7 DEF UplinkInv
<1>7. ASSUME NEW w \in Writers, Lock(w) PROVE UplinkInv'
  <2>1. /\ pc[w] = "lock" /\ wrMu = None
        /\ UNCHANGED <<writer, connect, stream, body, carried>>
        /\ \/ /\ pc' = [pc EXCEPT ![w] = "idle"] /\ env' = [env EXCEPT ![w] = None]
              /\ wrMu' = None
           \/ /\ pc' = [pc EXCEPT ![w] = "header"] /\ env' = env /\ wrMu' = w
              /\ writer # None
    BY <1>7 DEF Lock
  <2>2. \A v \in Writers : ~Encoding(v)
    BY <2>1 DEF UplinkInv, LockInv
  <2>3. \A v \in Writers : /\ pc'[v] # "payload"
                           /\ v # w => pc'[v] = pc[v] /\ env'[v] = env[v]
    BY <2>1, <2>2 DEF UplinkInv, TypeOK, Encoding
  <2>4. TypeOK'
    BY <1>7, <2>1, <2>2 DEF Lock, UplinkInv, TypeOK, Encoding
  <2>5. LockInv'
    BY <2>1, <2>2, <2>3 DEF UplinkInv, TypeOK, LockInv, Encoding
  <2>6. PayloadInv' /\ FramesWhole'
    BY <2>1, <2>3 DEF UplinkInv, PayloadInv, FramesWhole
  <2>7. CutOnlyWhenLost'
    BY <2>1, <2>2 DEF UplinkInv, CutOnlyWhenLost, Encoding
  <2> QED BY <2>4, <2>5, <2>6, <2>7 DEF UplinkInv
<1>8. ASSUME NEW w \in Writers, WriteFails(w) PROVE UplinkInv'
  <2>1. /\ Encoding(w) /\ writer \notin body
        /\ UNCHANGED <<writer, connect, stream, body, carried>>
        /\ pc' = [pc EXCEPT ![w] = "idle"] /\ env' = [env EXCEPT ![w] = None]
        /\ wrMu' = None
    BY <1>8 DEF WriteFails, Unlock, Encoding
  <2>2. \A v \in Writers : v # w => ~Encoding(v) /\ pc'[v] = pc[v] /\ env'[v] = env[v]
    BY <2>1 DEF UplinkInv, TypeOK, LockInv, Encoding
  <2>3. TypeOK'
    BY <1>8, <2>1, <2>2 DEF WriteFails, UplinkInv, TypeOK, Encoding
  <2>4. LockInv'
    BY <2>1, <2>2 DEF UplinkInv, TypeOK, LockInv, Encoding
  <2>5. PayloadInv' /\ FramesWhole'
    BY <2>1, <2>2 DEF UplinkInv, TypeOK, PayloadInv, FramesWhole, Encoding
  <2>6. CutOnlyWhenLost'
    BY <2>1, <2>2 DEF UplinkInv, CutOnlyWhenLost, Encoding
  <2> QED BY <2>3, <2>4, <2>5, <2>6 DEF UplinkInv
<1>9. ASSUME NEW w \in Writers, TakeHeader(w) \/ TakePayload(w) PROVE UplinkInv'
  <2>0. PICK part \in {"header", "payload"} :
            /\ pc[w] = part /\ Take(w, part)
            /\ \/ /\ part = "header" /\ env[w].payload /\ pc' = [pc EXCEPT ![w] = "payload"]
                  /\ UNCHANGED <<env, wrMu>>
               \/ (part = "header" => ~env[w].payload) /\ Unlock(w)
    BY <1>9 DEF TakeHeader, TakePayload
  <2>1. /\ writer \in body /\ writer \in Streams /\ carried[writer] \in Seq(Chunks)
        /\ Chunk(w, part) \in Chunks
        /\ carried' = [carried EXCEPT ![writer] = Append(@, Chunk(w, part))]
        /\ carried' \in [Streams -> Seq(Chunks)] /\ FramesWhole'
        /\ \A v \in Writers : v # w => ~Encoding(v)
    BY <2>0, TakeKeeps
  <2>2. UNCHANGED <<writer, connect, stream, response, body, reading, submitted, asked>>
    BY <2>0 DEF Take
  <2>3. /\ \A v \in Writers : v # w => pc'[v] = pc[v] /\ env'[v] = env[v]
        /\ \/ /\ part = "header" /\ env[w].payload /\ pc'[w] = "payload"
              /\ env' = env /\ wrMu' = wrMu
           \/ /\ (part = "header" => ~env[w].payload) /\ pc'[w] = "idle"
              /\ env'[w] = None /\ wrMu' = None
    BY <2>0 DEF Unlock, UplinkInv, TypeOK
  <2>4. /\ pc' \in [Writers -> {"idle", "lock", "header", "payload"}]
        /\ env' \in [Writers -> Envelopes \cup {None}]
        /\ wrMu' \in Writers \cup {None}
    BY <2>0 DEF Unlock, UplinkInv, TypeOK
  <2>5. writer # None
    BY <2>1
  <2>6. TypeOK'
    BY <2>1, <2>2, <2>4, <2>5 DEF UplinkInv, TypeOK
  <2>7. LockInv'
    <3>1. ASSUME NEW k \in Streams, k > stream PROVE carried'[k] = <<>>
      <4>1. writer <= stream /\ writer \in Nat /\ stream \in Nat /\ k \in Nat
        BY <2>1, <2>5 DEF UplinkInv, TypeOK, LockInv, Streams
      <4>2. k # writer
        BY <3>1, <4>1
      <4>3. carried'[k] = carried[k]
        BY <2>1, <4>2 DEF UplinkInv, TypeOK
      <4> QED BY <3>1, <4>3 DEF UplinkInv, LockInv
    <3>2. ASSUME NEW v \in Writers
          PROVE  (Encoding(v)' => wrMu' = v) /\ (pc'[v] # "idle" => env'[v] \in Envelopes)
      BY <2>0, <2>1, <2>3 DEF UplinkInv, LockInv, Encoding
    <3> QED BY <2>2, <3>1, <3>2 DEF UplinkInv, LockInv
  <2>8. /\ carried'[writer] = Append(carried[writer], Chunk(w, part))
        /\ \A k \in Streams : k # writer => carried'[k] = carried[k]
    BY <2>1 DEF UplinkInv, TypeOK
  <2>9. carried'[writer] # <<>> /\ carried'[writer][Len(carried'[writer])] = Chunk(w, part)
    <3> DEFINE q == carried[writer]  c == Chunk(w, part)
    <3>1. q \in Seq(Chunks) /\ c \in Chunks
      BY <2>1
    <3> HIDE DEF q, c
    <3>2. Append(q, c) # <<>> /\ Append(q, c)[Len(Append(q, c))] = c
      BY <3>1
    <3> QED BY <2>8, <3>2 DEF q, c
  <2>10. PayloadInv'
    <3> SUFFICES ASSUME NEW v \in Writers, pc'[v] = "payload"
                 PROVE  /\ env'[v].payload /\ carried'[writer] # <<>>
                        /\ carried'[writer][Len(carried'[writer])]
                              = [n |-> env'[v].n, part |-> "header", payload |-> env'[v].payload]
      BY <2>2 DEF PayloadInv, Chunk
    <3>1. v = w /\ part = "header" /\ env' = env /\ env[w].payload
      BY <2>1, <2>3 DEF Encoding
    <3> QED BY <2>9, <3>1 DEF Chunk
  <2>11. CutOnlyWhenLost'
    <3> SUFFICES ASSUME NEW k \in body, carried'[k] # <<>>,
                        carried'[k][Len(carried'[k])].part = "header",
                        carried'[k][Len(carried'[k])].payload
                 PROVE  \E v \in Writers : /\ pc'[v] = "payload" /\ writer = k
                                           /\ env'[v].n = carried'[k][Len(carried'[k])].n
      BY <2>2 DEF CutOnlyWhenLost
    <3>1. CASE k = writer
      <4>1. part = "header" /\ env[w].payload
        BY <2>9, <3>1 DEF Chunk
      <4>2. pc'[w] = "payload" /\ env' = env
        BY <2>3, <4>1
      <4>3. env[w].n = carried'[k][Len(carried'[k])].n
        BY <2>9, <3>1 DEF Chunk
      <4> QED BY <3>1, <4>2, <4>3
    <3>2. CASE k # writer
      <4>1. carried'[k] = carried[k]
        BY <2>8, <3>2 DEF UplinkInv, TypeOK
      <4>2. Cut(carried[k])
        BY <4>1 DEF Cut
      <4> QED BY <3>2, <4>2, CutFrames DEF UplinkInv
    <3> QED BY <3>1, <3>2
  <2> QED BY <2>1, <2>6, <2>7, <2>10, <2>11 DEF UplinkInv
<1>10. CASE UNCHANGED vars
  <2>1. TypeOK'
    BY <1>10 DEF vars, UplinkInv, TypeOK
  <2> QED BY <1>10, <2>1, QuietStep DEF vars
<1> QED BY <1>1, <1>2, <1>3, <1>4, <1>5, <1>6, <1>7, <1>8, <1>9, <1>10
       DEF Next, ConnectNext, WriteNext

\* UplinkInv is an invariant of the sending side.
LEMMA UplinkInvariant == Spec => []UplinkInv
<1>1. Init => UplinkInv
  <2> SUFFICES ASSUME Init PROVE UplinkInv
    OBVIOUS
  <2> USE BoundAssumption, NoneAssumption DEF Init
  <2>1. TypeOK
    BY DEF TypeOK
  <2>2. LockInv /\ PayloadInv
    BY DEF LockInv, PayloadInv, Encoding
  <2>3. FramesWhole /\ CutOnlyWhenLost
    BY DEF FramesWhole, CutOnlyWhenLost
  <2> QED BY <2>1, <2>2, <2>3 DEF UplinkInv
<1> QED BY <1>1, UplinkInductive, PTL DEF Spec

\* The variables of the sending side keep their types, and a writer inside Encode always
\* has a pipe, although the deferred function of Connect (proxy.go:182) removes it.
THEOREM UplinkTypeCorrect == Spec => []TypeOK
<1>1. UplinkInv => TypeOK
  BY DEF UplinkInv
<1> QED BY <1>1, UplinkInvariant, PTL

\* For any number of sessions, envelopes never mix on the CONNECT stream: what follows a
\* header is its own payload.
THEOREM UplinkFramesWhole == Spec => []FramesWhole
<1>1. UplinkInv => FramesWhole
  BY DEF UplinkInv
<1> QED BY <1>1, UplinkInvariant, PTL

\* ... and while its request body is open, an envelope without its payload is one that a
\* writer is still sending.
THEOREM UplinkCutOnlyWhenLost == Spec => []CutOnlyWhenLost
<1>1. UplinkInv => CutOnlyWhenLost
  BY DEF UplinkInv
<1> QED BY <1>1, UplinkInvariant, PTL

=============================================================================
