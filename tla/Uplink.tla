------------------------------- MODULE Uplink -------------------------------
(***************************************************************************)
(* The sending side of InternalProxy (internal/h2proxy): every session of  *)
(* the node writes its envelopes to one CONNECT stream, through wrMu and   *)
(* the io.Pipe that is the body of the HTTP/2 request, while Connect       *)
(* installs the pipe, loses the stream and cleans up.                      *)
(*                                                                         *)
(* A Write on an io.Pipe returns when the http2 transport (external) has   *)
(* taken its bytes or when the pipe is closed.  The transport stops taking *)
(* bytes while the relay does not read (flow control), and closes the      *)
(* request body when the stream is aborted or reset.                       *)
(***************************************************************************)
EXTENDS Naturals, Sequences

CONSTANTS
    Writers,     \* goroutines inside EnvelopeNetConn.Write
    Callers,     \* goroutines inside IsConnected
    MaxStreams,  \* bound: CONNECT streams in one behaviour
    MaxEnv,      \* bound: envelopes in one behaviour
    None         \* no holder of wrMu, no stream, no envelope

ASSUME BoundAssumption == MaxStreams \in Nat /\ MaxEnv \in Nat

Streams == 1..MaxStreams

ASSUME NoneAssumption ==
    /\ None \notin Streams
    /\ None \notin Writers
    /\ None \notin 1..MaxEnv

VARIABLES
    wrMu,       \* the writer that holds InternalProxy.wrMu across a blocking call
    writer,     \* InternalProxy.writer: the stream whose pipe is installed
    connect,    \* where the Connect goroutine stands
    stream,     \* the stream of the current or last Connect
    response,   \* streams whose response body can still be read
    body,       \* streams whose request body (the pipe) is still open
    reading,    \* the relay reads the stream: flow control lets bytes pass
    pc,         \* where each writer stands
    env,        \* the envelope each writer is sending
    submitted,  \* how many envelopes have been submitted
    carried,    \* what the transport has taken from each pipe
    asked       \* callers waiting inside IsConnected

vars == <<wrMu, writer, connect, stream, response, body, reading, pc, env, submitted,
          carried, asked>>

Envelopes == [n : 1..MaxEnv, payload : BOOLEAN]

Chunks == [n : 1..MaxEnv, part : {"header", "payload"}, payload : BOOLEAN]

Init ==
    /\ wrMu = None
    /\ writer = None
    /\ connect = "down"
    /\ stream = 0
    /\ response = {}
    /\ body = {}
    /\ reading = TRUE
    /\ pc = [w \in Writers |-> "idle"]
    /\ env = [w \in Writers |-> None]
    /\ submitted = 0
    /\ carried = [k \in Streams |-> <<>>]
    /\ asked = {}

----------------------------------------------------------------------------
(* Connect. *)

\* RoundTrip returns with status 200: the stream exists.  (A Connect that fails before
\* changes nothing here.)
RoundTrip ==
    /\ connect = "down" /\ stream < MaxStreams
    /\ stream' = stream + 1
    /\ response' = response \cup {stream + 1}
    /\ body' = body \cup {stream + 1}
    /\ connect' = "established"
    /\ UNCHANGED <<wrMu, writer, reading, pc, env, submitted, carried, asked>>

\* The pipe becomes p.writer under wrMu and connectedCh is closed.
Install ==
    /\ connect = "established" /\ wrMu = None
    /\ writer' = stream
    /\ connect' = "read"
    /\ UNCHANGED <<wrMu, stream, response, body, reading, pc, env, submitted, carried,
                   asked>>

\* readLoop returns: the response body has ended.
ReadFails ==
    /\ connect = "read" /\ stream \notin response
    /\ connect' = "cleanup"
    /\ UNCHANGED <<wrMu, writer, stream, response, body, reading, pc, env, submitted,
                   carried, asked>>

\* Mutant: the pipe is removed without the lock.
CleanupUnlocked ==
    /\ connect = "cleanup"
    /\ writer' = None
    /\ connect' = "closing"
    /\ UNCHANGED <<wrMu, stream, response, body, reading, pc, env, submitted, carried,
                   asked>>

\* The deferred function takes wrMu and removes the pipe.
Cleanup ==
    /\ connect = "cleanup" /\ wrMu = None
    /\ writer' = None
    /\ connect' = "closing"
    /\ UNCHANGED <<wrMu, stream, response, body, reading, pc, env, submitted, carried,
                   asked>>

\* closeAllSessions, pw.Close, and Connect returns; the caller may Connect again.
Return ==
    /\ connect = "closing"
    /\ body' = body \ {stream}
    /\ connect' = "down"
    /\ UNCHANGED <<wrMu, writer, stream, response, reading, pc, env, submitted, carried,
                   asked>>

----------------------------------------------------------------------------
(* Write. *)

\* A session writes: EnvelopeNetConn.Write builds the envelope and calls writeEnvelope.
\* A session that closeAllSessions has closed is not kept from writing.
Submit(w, payload) ==
    /\ pc[w] = "idle" /\ submitted < MaxEnv
    /\ submitted' = submitted + 1
    /\ env' = [env EXCEPT ![w] = [n |-> submitted + 1, payload |-> payload]]
    /\ pc' = [pc EXCEPT ![w] = "lock"]
    /\ UNCHANGED <<wrMu, writer, connect, stream, response, body, reading, carried, asked>>

\* Mutant: Encode runs without the lock.
WriteUnlocked(w) ==
    /\ pc[w] = "lock" /\ wrMu = None
    /\ pc' = [pc EXCEPT ![w] = IF writer = None THEN "idle" ELSE "header"]
    /\ env' = [env EXCEPT ![w] = IF writer = None THEN None ELSE @]
    /\ UNCHANGED <<wrMu, writer, connect, stream, response, body, reading, submitted,
                   carried, asked>>

\* Mutant: a missing writer is not noticed.
LockUnchecked(w) ==
    /\ pc[w] = "lock" /\ wrMu = None
    /\ pc' = [pc EXCEPT ![w] = "header"]
    /\ wrMu' = w
    /\ UNCHANGED <<writer, connect, stream, response, body, reading, env, submitted,
                   carried, asked>>

\* writeEnvelope takes wrMu; without a writer it returns an error and unlocks.
Lock(w) ==
    /\ pc[w] = "lock" /\ wrMu = None
    /\ IF writer = None
       THEN /\ pc' = [pc EXCEPT ![w] = "idle"]
            /\ env' = [env EXCEPT ![w] = None]
            /\ UNCHANGED wrMu
       ELSE /\ pc' = [pc EXCEPT ![w] = "header"]
            /\ wrMu' = w
            /\ UNCHANGED env
    /\ UNCHANGED <<writer, connect, stream, response, body, reading, submitted, carried,
                   asked>>

\* Write returns to the session and the deferred Unlock runs.
Unlock(w) ==
    /\ pc' = [pc EXCEPT ![w] = "idle"]
    /\ env' = [env EXCEPT ![w] = None]
    /\ wrMu' = None

\* The transport takes the bytes of the Write that blocks on the pipe.
Take(w, part) ==
    /\ writer \in body /\ reading
    /\ carried' = [carried EXCEPT ![writer] = Append(@,
            [n |-> env[w].n, part |-> part, payload |-> env[w].payload])]
    /\ UNCHANGED <<writer, connect, stream, response, body, reading, submitted, asked>>

\* Mutant: an envelope without payload returns early, and the lock stays.
TakeHeaderLocked(w) ==
    /\ pc[w] = "header"
    /\ Take(w, "header")
    /\ pc' = [pc EXCEPT ![w] = IF env[w].payload THEN "payload" ELSE "idle"]
    /\ UNCHANGED <<env, wrMu>>

TakeHeader(w) ==
    /\ pc[w] = "header"
    /\ Take(w, "header")
    /\ IF env[w].payload
       THEN pc' = [pc EXCEPT ![w] = "payload"] /\ UNCHANGED <<env, wrMu>>
       ELSE Unlock(w)

TakePayload(w) ==
    /\ pc[w] = "payload"
    /\ Take(w, "payload")
    /\ Unlock(w)

\* Mutant: the error path returns without unlocking.
WriteFailsLocked(w) ==
    /\ pc[w] \in {"header", "payload"} /\ writer \notin body
    /\ pc' = [pc EXCEPT ![w] = "idle"]
    /\ env' = [env EXCEPT ![w] = None]
    /\ UNCHANGED <<wrMu, writer, connect, stream, response, body, reading, submitted,
                   carried, asked>>

\* The pipe is closed while Encode writes: the Write fails, the envelope is cut short.
WriteFails(w) ==
    /\ pc[w] \in {"header", "payload"} /\ writer \notin body
    /\ Unlock(w)
    /\ UNCHANGED <<writer, connect, stream, response, body, reading, submitted, carried,
                   asked>>

----------------------------------------------------------------------------
(* IsConnected, called by retryConnectPeer before it dials again. *)

Ask(c) ==
    /\ c \notin asked
    /\ asked' = asked \cup {c}
    /\ UNCHANGED <<wrMu, writer, connect, stream, response, body, reading, pc, env,
                   submitted, carried>>

\* It takes wrMu to look at p.writer, unless connectedCh is still open, and then nobody
\* holds wrMu.
Answer(c) ==
    /\ c \in asked /\ wrMu = None
    /\ asked' = asked \ {c}
    /\ UNCHANGED <<wrMu, writer, connect, stream, response, body, reading, pc, env,
                   submitted, carried>>

----------------------------------------------------------------------------
(* The network and the relay (external). *)

\* The stream is aborted: both bodies are closed.
Abort(k) ==
    /\ k \in body /\ k \in response
    /\ response' = response \ {k}
    /\ body' = body \ {k}
    /\ UNCHANGED <<wrMu, writer, connect, stream, reading, pc, env, submitted, carried,
                   asked>>

\* The relay handler returns: the response ends first, and the reset that follows
\* closes the request body.
ResponseEnds(k) ==
    /\ k \in response
    /\ response' = response \ {k}
    /\ UNCHANGED <<wrMu, writer, connect, stream, body, reading, pc, env, submitted,
                   carried, asked>>

ResetBody(k) ==
    /\ k \in body \ response
    /\ body' = body \ {k}
    /\ UNCHANGED <<wrMu, writer, connect, stream, response, reading, pc, env, submitted,
                   carried, asked>>

\* The relay stops reading this node's stream, blocked on a slow destination, or resumes.
FlowControl ==
    /\ reading' = ~reading
    /\ UNCHANGED <<wrMu, writer, connect, stream, response, body, pc, env, submitted,
                   carried, asked>>

----------------------------------------------------------------------------

ConnectNext == RoundTrip \/ Install \/ ReadFails \/ Cleanup \/ Return

WriteNext(w) == Lock(w) \/ TakeHeader(w) \/ TakePayload(w) \/ WriteFails(w)

Next ==
    \/ ConnectNext \/ FlowControl
    \/ \E w \in Writers : WriteNext(w) \/ \E payload \in BOOLEAN : Submit(w, payload)
    \/ \E c \in Callers : Ask(c) \/ Answer(c)
    \/ \E k \in Streams : Abort(k) \/ ResponseEnds(k) \/ ResetBody(k)

Spec == Init /\ [][Next]_vars

\* Goroutines that can run do run, sync.Mutex starves none of those that wait for it,
\* and the reset of a stream whose response has ended arrives.  Nothing is assumed of
\* the relay: it may stop reading for ever.
Fairness ==
    /\ WF_vars(ReadFails \/ Return)
    /\ SF_vars(Install) /\ SF_vars(Cleanup)
    /\ \A w \in Writers :
        /\ SF_vars(Lock(w))
        /\ WF_vars(TakeHeader(w) \/ TakePayload(w) \/ WriteFails(w))
    /\ \A c \in Callers : SF_vars(Answer(c))
    /\ \A k \in Streams : WF_vars(ResetBody(k))

FairSpec == Spec /\ Fairness

----------------------------------------------------------------------------
(* Properties. *)

\* Every variable keeps its type, and a writer inside Encode has a pipe to write to.
TypeOK ==
    /\ wrMu \in Writers \cup {None}
    /\ writer \in Streams \cup {None}
    /\ connect \in {"down", "established", "read", "cleanup", "closing"}
    /\ stream \in 0..MaxStreams
    /\ response \subseteq Streams
    /\ body \subseteq Streams
    /\ reading \in BOOLEAN
    /\ pc \in [Writers -> {"idle", "lock", "header", "payload"}]
    /\ env \in [Writers -> Envelopes \cup {None}]
    /\ submitted \in 0..MaxEnv
    /\ carried \in [Streams -> Seq(Chunks)]
    /\ asked \subseteq Callers
    /\ \A w \in Writers : pc[w] \in {"header", "payload"} => writer # None

\* Envelopes of concurrent sessions never mix on the stream, although Encode uses two
\* writes and the pipe may be replaced between two envelopes: what follows a header
\* with a payload is that payload, and a payload only ever follows its own header.
FramesWhole ==
    \A k \in Streams : \A i \in 1..Len(carried[k]) :
        LET c == carried[k][i]
        IN  /\ c.part = "header" /\ c.payload /\ i < Len(carried[k]) =>
                  carried[k][i + 1] = [c EXCEPT !.part = "payload"]
            /\ c.part = "payload" =>
                  i > 1 /\ carried[k][i - 1] = [c EXCEPT !.part = "header"]

\* An envelope is cut short only at the end of a stream that is lost: while the request
\* body is open, a header whose payload is missing has a writer that still sends it.
CutOnlyWhenLost ==
    \A k \in body :
        LET last == carried[k][Len(carried[k])]
        IN  carried[k] # <<>> /\ last.part = "header" /\ last.payload =>
                \E w \in Writers : pc[w] = "payload" /\ env[w].n = last.n /\ writer = k

\* A lost stream is always cleaned up and Connect returns, so that the node can connect
\* again, although the deferred function needs the lock that a writer holds while it
\* blocks on the pipe, and whether or not the relay ever reads again.
LostStreamCleanedUp ==
    stream > 0 /\ stream \notin response ~> connect = "down"

\* Once the relay keeps reading, every Write returns and every IsConnected too,
\* whatever was lost or blocked before.
CallsReturn ==
    <>[]reading =>
        /\ \A w \in Writers : pc[w] # "idle" ~> pc[w] = "idle"
        /\ \A c \in Callers : c \in asked ~> c \notin asked

=============================================================================
