---------------------------- MODULE RelayServer ----------------------------
(***************************************************************************)
(* The relay server (internal/relay) and the part of envelope.Encode that  *)
(* it runs: one handler goroutine per CONNECT request, the streams map     *)
(* under r.mu, and the bytes each handler writes to the response stream of *)
(* another one.                                                            *)
(*                                                                         *)
(* Encode writes the header and the payload with two calls of Write, Flush *)
(* follows, and nothing serialises two handlers that use the same stream.  *)
(* The http2 response writer (external) buffers without a lock: when two   *)
(* handlers use it at once, a Write may be overwritten and lost, and what  *)
(* is in the buffer may be sent a second time.  A Write on a broken stream *)
(* fails or stays in the buffer; a Write or Flush on a handler that has    *)
(* returned panics, and the http2 server recovers the panic after the      *)
(* deferred calls of the calling handler have run.                         *)
(***************************************************************************)
EXTENDS Naturals, Sequences

CONSTANTS
    Peers,     \* peer identifiers
    Handlers,  \* bound: CONNECT requests in one behaviour
    MaxEnv,    \* bound: envelopes decoded in one behaviour
    None       \* no stream, no peer, no envelope

ASSUME NoneAssumption == None \notin Peers \cup Handlers

ASSUME MaxEnvAssumption == MaxEnv \in Nat

VARIABLES
    streams,  \* Relay.streams: the handler whose ResponseWriter is registered
    pc,       \* where each handler stands
    peer,     \* the handler's peerID
    env,      \* the envelope the handler is forwarding
    dst,      \* its local dst: the handler whose stream it writes to
    decoded,  \* how many envelopes have been decoded
    open,     \* handlers whose HTTP/2 stream still accepts data
    out,      \* what each handler's response stream has been given to send
    unsent,   \* how much of the end of it is still in the buffer
    shared    \* history: the streams two handlers have used at the same time

vars == <<streams, pc, peer, env, dst, decoded, open, out, unsent, shared>>
bufVars == <<out, unsent>>

States == {"new", "register", "decode", "lookup", "header", "payload", "flush",
           "unregister", "done"}

Serving == {"decode", "lookup", "header", "payload", "flush", "unregister"}

\* What a property has to tell about an envelope: its destination, its place in the
\* order of decoding, and whether it has a payload.
Envelopes == [dst : Peers, n : 1..MaxEnv, payload : BOOLEAN]

Chunks == [src : Handlers, dst : Peers, n : 1..MaxEnv, part : {"header", "payload"}]

Init ==
    /\ streams = [p \in Peers |-> None]
    /\ pc = [h \in Handlers |-> "new"]
    /\ peer = [h \in Handlers |-> None]
    /\ env = [h \in Handlers |-> None]
    /\ dst = [h \in Handlers |-> None]
    /\ decoded = 0
    /\ open = {}
    /\ out = [h \in Handlers |-> <<>>]
    /\ unsent = [h \in Handlers |-> 0]
    /\ shared = {}

----------------------------------------------------------------------------

\* handleHTTP and handleConnect refuse the request: another method than CONNECT, or a
\* missing or malformed X-Peer-Id.
Reject(h) ==
    /\ pc[h] = "new"
    /\ pc' = [pc EXCEPT ![h] = "done"]
    /\ UNCHANGED <<streams, peer, env, dst, decoded, open, bufVars, shared>>

\* handleConnect answers 200 and flushes: the peer now believes it is connected.
Accept(h, p) ==
    /\ pc[h] = "new"
    /\ pc' = [pc EXCEPT ![h] = "register"]
    /\ peer' = [peer EXCEPT ![h] = p]
    /\ open' = open \cup {h}
    /\ UNCHANGED <<streams, env, dst, decoded, bufVars, shared>>

\* Mutant: the handler serves a peer it has not registered.
RegisterSkipped(h) ==
    /\ pc[h] = "register"
    /\ pc' = [pc EXCEPT ![h] = "decode"]
    /\ UNCHANGED <<streams, peer, env, dst, decoded, open, bufVars, shared>>

Register(h) ==
    /\ pc[h] = "register"
    /\ streams' = [streams EXCEPT ![peer[h]] = h]
    /\ pc' = [pc EXCEPT ![h] = "decode"]
    /\ UNCHANGED <<peer, env, dst, decoded, open, bufVars, shared>>

\* Decode returns an envelope; data that arrived before the stream broke can still be
\* read afterwards.
Decode(h, e) ==
    /\ pc[h] = "decode"
    /\ e.n = decoded + 1
    /\ decoded' = e.n
    /\ env' = [env EXCEPT ![h] = e]
    /\ pc' = [pc EXCEPT ![h] = "lookup"]
    /\ UNCHANGED <<streams, peer, dst, open, bufVars, shared>>

\* Decode fails: end of the request body, or bytes that are no envelope.
DecodeError(h) ==
    /\ pc[h] = "decode"
    /\ pc' = [pc EXCEPT ![h] = "unregister"]
    /\ UNCHANGED <<streams, peer, env, dst, decoded, open, bufVars, shared>>

\* The handler is inside Encode, or flushes what Encode wrote.
Writing(h) == pc[h] \in {"header", "payload", "flush"}

\* Mutant: the missing entry is not noticed.
LookupUnchecked(h) ==
    /\ pc[h] = "lookup"
    /\ dst' = [dst EXCEPT ![h] = streams[env[h].dst]]
    /\ pc' = [pc EXCEPT ![h] = "header"]
    /\ UNCHANGED <<streams, peer, env, decoded, open, bufVars, shared>>

\* forward takes stream w for the envelope, or drops it when there is none.
Take(h, w) ==
    /\ pc[h] = "lookup"
    /\ dst' = [dst EXCEPT ![h] = w]
    /\ pc' = [pc EXCEPT ![h] = IF w = None THEN "decode" ELSE "header"]
    /\ shared' = IF \E g \in Handlers : Writing(g) /\ dst[g] = w
                 THEN shared \cup {w} ELSE shared
    /\ UNCHANGED <<streams, peer, env, decoded, open, bufVars>>

\* Mutant: the envelope is sent back to its source.
LookupSource(h) == Take(h, streams[peer[h]])

\* forward reads the map under r.mu.RLock; without an entry the envelope is dropped.
Lookup(h) == Take(h, streams[env[h].dst])

\* Another handler uses the same stream.
Racing(h) == \E g \in Handlers \ {h} : Writing(g) /\ Writing(h) /\ dst[g] = dst[h]

\* What is in the buffer of w, which a race may send twice.
Unsent(w) == SubSeq(out[w], Len(out[w]) - unsent[w] + 1, Len(out[w]))

\* The chunk joins what is in the buffer of w; all that was in it may be there for the
\* second time.
Buffer(w, again, chunk) ==
    /\ out' = [out EXCEPT ![w] = @ \o Append(again, chunk)]
    /\ unsent' = [unsent EXCEPT ![w] = @ + 1]

\* One Write of Encode: it succeeds, is lost or makes the buffer be sent again in a race,
\* fails or is buffered in vain on a broken stream, or panics.  An error ends forward
\* without a Flush.
Write(h, part, next) ==
    LET chunk == [src |-> h, dst |-> env[h].dst, n |-> env[h].n, part |-> part]
        w     == dst[h]
    IN  \/ /\ pc[w] # "done" /\ w \in open
           /\ pc' = [pc EXCEPT ![h] = next]
           /\ \/ Buffer(w, <<>>, chunk)
              \/ /\ Racing(h)
                 /\ Buffer(w, Unsent(w), chunk) \/ UNCHANGED bufVars
        \/ /\ pc[w] # "done" /\ w \notin open
           /\ \E q \in {next, "decode"} : pc' = [pc EXCEPT ![h] = q]
           /\ UNCHANGED bufVars
        \/ /\ pc[w] = "done"
           /\ pc' = [pc EXCEPT ![h] = "unregister"]
           /\ UNCHANGED bufVars

\* Mutant: Encode starts again after the header.
WriteHeaderAgain(h) ==
    /\ pc[h] = "header"
    /\ Write(h, "header", IF env[h].payload THEN "payload" ELSE "header")
    /\ UNCHANGED <<streams, peer, env, dst, decoded, open, shared>>

WriteHeader(h) ==
    /\ pc[h] = "header"
    /\ Write(h, "header", IF env[h].payload THEN "payload" ELSE "flush")
    /\ UNCHANGED <<streams, peer, env, dst, decoded, open, shared>>

\* Mutant: the payload goes to the stream that is registered by now.
WritePayloadAnew(h) ==
    /\ pc[h] = "payload" /\ streams[env[h].dst] # None
    /\ Buffer(streams[env[h].dst], <<>>,
              [src |-> h, dst |-> env[h].dst, n |-> env[h].n, part |-> "payload"])
    /\ pc' = [pc EXCEPT ![h] = "flush"]
    /\ UNCHANGED <<streams, peer, env, dst, decoded, open, shared>>

WritePayload(h) ==
    /\ pc[h] = "payload"
    /\ Write(h, "payload", "flush")
    /\ UNCHANGED <<streams, peer, env, dst, decoded, open, shared>>

\* Flush sends what is in the buffer; in a race it may stay there and be sent again.
Flush(h) ==
    LET w == dst[h]
    IN  /\ pc[h] = "flush"
        /\ pc' = [pc EXCEPT ![h] = IF pc[w] = "done" THEN "unregister" ELSE "decode"]
        /\ \/ /\ unsent' = [unsent EXCEPT ![w] = 0]
              /\ UNCHANGED out
           \/ /\ Racing(h) /\ pc[w] # "done" /\ w \in open
              /\ out' = [out EXCEPT ![w] = @ \o Unsent(w)]
              /\ UNCHANGED unsent
        /\ UNCHANGED <<streams, peer, env, dst, decoded, open, shared>>

\* Mutant: the handler returns without the deferred unregister.
UnregisterSkipped(h) ==
    /\ pc[h] = "unregister"
    /\ pc' = [pc EXCEPT ![h] = "done"]
    /\ open' = open \ {h}
    /\ UNCHANGED <<streams, peer, env, dst, decoded, bufVars, shared>>

\* The deferred unregister: it deletes whatever the map holds for the peer.  The
\* handler then returns and the server ends its stream.
Unregister(h) ==
    /\ pc[h] = "unregister"
    /\ streams' = [streams EXCEPT ![peer[h]] = None]
    /\ pc' = [pc EXCEPT ![h] = "done"]
    /\ open' = open \ {h}
    /\ UNCHANGED <<peer, env, dst, decoded, bufVars, shared>>

\* The network or the peer breaks the HTTP/2 stream.
StreamBroken(h) ==
    /\ h \in open
    /\ open' = open \ {h}
    /\ UNCHANGED <<streams, pc, peer, env, dst, decoded, bufVars, shared>>

----------------------------------------------------------------------------

HandlerNext(h) ==
    \/ Register(h) \/ DecodeError(h) \/ Lookup(h) \/ WriteHeader(h) \/ WritePayload(h)
    \/ Flush(h) \/ Unregister(h)

Next ==
    \E h \in Handlers :
        \/ HandlerNext(h) \/ Reject(h) \/ StreamBroken(h)
        \/ \E p \in Peers : Accept(h, p)
        \/ \E e \in Envelopes : Decode(h, e)

Spec == Init /\ [][Next]_vars

----------------------------------------------------------------------------
(* Properties. *)

\* Every variable keeps its type, and a handler that writes has a stream to write to.
TypeOK ==
    /\ streams \in [Peers -> Handlers \cup {None}]
    /\ pc \in [Handlers -> States]
    /\ peer \in [Handlers -> Peers \cup {None}]
    /\ env \in [Handlers -> Envelopes \cup {None}]
    /\ dst \in [Handlers -> Handlers \cup {None}]
    /\ decoded \in 0..MaxEnv
    /\ open \subseteq Handlers
    /\ out \in [Handlers -> Seq(Chunks)]
    /\ unsent \in [Handlers -> Nat]
    /\ shared \subseteq Handlers
    /\ \A h \in Handlers : unsent[h] <= Len(out[h])
    /\ \A h \in Handlers : Writing(h) => dst[h] # None

\* The streams map never holds the writer of a handler that has returned or of
\* another peer's handler, although a newer handler of the same peer overwrites the
\* entry and each handler's deferred unregister deletes by peer, not by handler.
RegisteredIsServing ==
    \A p \in Peers :
        streams[p] # None => pc[streams[p]] \in Serving /\ peer[streams[p]] = p

\* An envelope only ever reaches a stream of the peer it is addressed to, although the
\* stream is looked up before the write and the map may change in between.
DeliveredToDst ==
    \A h \in Handlers : \A i \in 1..Len(out[h]) : out[h][i].dst = peer[h]

\* A handler that serves its peer finds it unreachable only after another handler of the
\* same peer has returned: that handler's deferred unregister is the one way to lose the
\* entry of a newer one, and neither a race on a stream nor an error of another handler
\* removes it.
UnreachableAfterReturn ==
    \A h \in Handlers :
        pc[h] \in Serving /\ streams[peer[h]] = None =>
            \E g \in Handlers \ {h} : peer[g] = peer[h] /\ pc[g] = "done"

\* On a stream that no two handlers have used at the same time, what one handler
\* forwarded appears in the order it decoded it, a header before its payload, and nothing
\* twice, whichever handlers take turns on it and whatever happens to the other streams.
PerSourceOrder ==
    \A h \in Handlers \ shared : \A i, j \in 1..Len(out[h]) :
        LET a == out[h][i]
            b == out[h][j]
        IN  i < j /\ a.src = b.src =>
                \/ a.n < b.n
                \/ a.n = b.n /\ a.part = "header" /\ b.part = "payload"

\* The relay "forwards Envelopes": on a stream that no two handlers have used at the same
\* time the payload of an envelope comes directly after its header, although Encode
\* writes them separately and the stream may break, or be replaced in the map, between
\* the two.
EnvelopesWhole ==
    \A h \in Handlers \ shared : \A i \in 1..Len(out[h]) :
        LET c == out[h][i]
        IN  c.part = "payload" =>
                i > 1 /\ out[h][i - 1] = [c EXCEPT !.part = "header"]

----------------------------------------------------------------------------
(* What a comment says of the relay and the code does not keep: TLC violates it when it
   is added to RelayServer.cfg. *)

\* The relay "maintains one HTTP/2 CONNECT stream per peer": a peer that is being
\* served on a working stream can be reached.
ServedPeerReachable ==
    \A h \in Handlers :
        pc[h] \in Serving \ {"unregister"} /\ h \in open => streams[peer[h]] # None

=============================================================================
