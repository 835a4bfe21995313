------------------------- MODULE CandidateGathering -------------------------
(***************************************************************************)
(* How a node finds the addresses it offers to its peers: sendCandidates   *)
(* (internal/manager), one goroutine per relay session, with               *)
(* CollectEmbedded (internal/candidate) and QueryFromTransport or Query    *)
(* (internal/stun).                                                        *)
(*                                                                         *)
(* With a direct listener all STUN queries share its UDP socket, and the   *)
(* read loop of one pion/stun client (external) may get the answer to      *)
(* another's request.  Answers are lost, late, duplicated and reordered.   *)
(***************************************************************************)
EXTENDS Naturals, FiniteSets

CONSTANTS
    Sessions,    \* bound: relay sessions, each with its sendCandidates
    Interfaces,  \* what net.Interfaces() returns
    Overlay,     \* the addresses inside overlayPrefix
    LinkLocal,   \* the link-local addresses
    None

ASSUME InterfaceAssumption ==
    \A i \in Interfaces : i.up \in BOOLEAN /\ i.loopback \in BOOLEAN

VARIABLES
    directLn,   \* the node has a direct listener
    send,       \* where sendCandidates stands
    message,    \* the candidates it writes to the tunnel, or has written
    query,      \* where its STUN goroutine stands
    stunned,    \* the query's result
    stunCh,     \* how many results stunCh holds (capacity 1)
    ctxDone,    \* the two seconds of stunCtx are over
    exchange,   \* where the goroutine that calls c.Do stands
    xorAddr,    \* the address it has been given
    ch,         \* the result channel of that goroutine (capacity 1)
    client,     \* the read loop of the pion/stun client
    requested,  \* a request has been sent
    socket      \* the answers waiting to be read

sendVars  == <<send, message>>
queryVars == <<query, stunned, stunCh, ctxDone>>
doVars    == <<exchange, xorAddr, ch>>
netVars   == <<client, requested, socket>>

vars == <<directLn, sendVars, queryVars, doVars, netVars>>

\* The mapped address in the answer to the request of s.
Mapped(s) == <<"stuned", s>>

Embedded(a) == <<"embedded", a>>

Init ==
    /\ directLn \in BOOLEAN
    /\ send = [s \in Sessions |-> "idle"]
    /\ message = [s \in Sessions |-> {}]
    /\ query = [s \in Sessions |-> "none"]
    /\ stunned = [s \in Sessions |-> {}]
    /\ stunCh = [s \in Sessions |-> 0]
    /\ ctxDone = [s \in Sessions |-> FALSE]
    /\ exchange = [s \in Sessions |-> "none"]
    /\ xorAddr = [s \in Sessions |-> {}]
    /\ ch = [s \in Sessions |-> None]
    /\ client = [s \in Sessions |-> "none"]
    /\ requested = {}
    /\ socket = {}

----------------------------------------------------------------------------
(* sendCandidates. *)

CollectEmbedded ==
    LET usable == {i \in Interfaces : i.up /\ ~i.loopback}
    IN  {Embedded(a) : a \in (UNION {i.addrs : i \in usable}) \ (LinkLocal \cup Overlay)}

\* The goroutine that asks the STUN server is started.
StartSend(s) ==
    /\ send[s] = "idle"
    /\ send' = [send EXCEPT ![s] = "gather"]
    /\ query' = [query EXCEPT ![s] = "resolve"]
    /\ UNCHANGED <<directLn, message, stunned, stunCh, ctxDone, doVars, netVars>>

\* The result is taken from stunCh and, unless there are no candidates at all, the message
\* made; net.Interfaces may have failed.
TakeResult(s) ==
    /\ send[s] = "gather" /\ stunCh[s] > 0
    /\ stunCh' = [stunCh EXCEPT ![s] = @ - 1]
    /\ \E embedded \in {{}, IF directLn THEN CollectEmbedded ELSE {}} :
          LET all == embedded \cup stunned[s]
          IN  /\ message' = [message EXCEPT ![s] = all]
              /\ send' = [send EXCEPT ![s] = IF all = {} THEN "done" ELSE "write"]
    /\ UNCHANGED <<directLn, query, stunned, ctxDone, doVars, netVars>>

\* WriteControl returns, with an error or without; on a relay session it may also wait for
\* the uplink for ever.
WriteControl(s) ==
    /\ send[s] = "write"
    /\ send' = [send EXCEPT ![s] = "done"]
    /\ \/ UNCHANGED message
       \/ message' = [message EXCEPT ![s] = {}]
    /\ UNCHANGED <<directLn, queryVars, doVars, netVars>>

----------------------------------------------------------------------------
(* QueryFromTransport and Query, which differ in the socket. *)

\* The server's name does not resolve, or the client cannot be made.
ResolveFails(s) ==
    /\ query[s] = "resolve"
    /\ query' = [query EXCEPT ![s] = "post"]
    /\ UNCHANGED <<directLn, sendVars, stunned, stunCh, ctxDone, doVars, netVars>>

\* The client starts its read loop and c.Do is called in a goroutine of its own.
StartDo(s) ==
    /\ query[s] = "resolve"
    /\ query' = [query EXCEPT ![s] = "select"]
    /\ exchange' = [exchange EXCEPT ![s] = "waiting"]
    /\ client' = [client EXCEPT ![s] = "open"]
    /\ requested' = requested \cup {s}
    /\ UNCHANGED <<directLn, sendVars, stunned, stunCh, ctxDone, xorAddr, ch, socket>>

\* stunCtx runs out.
CtxDone(s) ==
    /\ query[s] \notin {"none", "ended"} /\ ~ctxDone[s]
    /\ ctxDone' = [ctxDone EXCEPT ![s] = TRUE]
    /\ UNCHANGED <<directLn, sendVars, query, stunned, stunCh, doVars, netVars>>

\* The select takes the end of the context or the result; if both are there, either.
SelectDone(s) ==
    /\ query[s] = "select" /\ ctxDone[s]
    /\ query' = [query EXCEPT ![s] = "close"]
    /\ UNCHANGED <<directLn, sendVars, stunned, stunCh, ctxDone, doVars, netVars>>

SelectResult(s) ==
    /\ query[s] = "select" /\ ch[s] # None
    /\ query' = [query EXCEPT ![s] = "close"]
    /\ stunned' = [stunned EXCEPT ![s] = ch[s]]
    /\ ch' = [ch EXCEPT ![s] = None]
    /\ UNCHANGED <<directLn, sendVars, stunCh, ctxDone, exchange, xorAddr, netVars>>

\* The deferred c.Close tells the read loop to end ...
CloseClient(s) ==
    /\ query[s] = "close" /\ client[s] = "open"
    /\ client' = [client EXCEPT ![s] = "closing"]
    /\ UNCHANGED <<directLn, sendVars, queryVars, doVars, requested, socket>>

\* ... and returns when it has.
CloseReturns(s) ==
    /\ query[s] = "close" /\ client[s] = "closed"
    /\ query' = [query EXCEPT ![s] = "post"]
    /\ UNCHANGED <<directLn, sendVars, stunned, stunCh, ctxDone, doVars, netVars>>

\* Mutant: a query that was closed by its context posts and goes on.
PostAgain(s) ==
    /\ query[s] = "post" /\ stunCh[s] < 2
    /\ query' = [query EXCEPT ![s] = IF ctxDone[s] THEN "post" ELSE "ended"]
    /\ stunCh' = [stunCh EXCEPT ![s] = @ + 1]
    /\ UNCHANGED <<directLn, sendVars, stunned, ctxDone, doVars, netVars>>

\* The result, or nothing, goes into stunCh.
Post(s) ==
    /\ query[s] = "post"
    /\ query' = [query EXCEPT ![s] = "ended"]
    /\ stunCh' = [stunCh EXCEPT ![s] = @ + 1]
    /\ UNCHANGED <<directLn, sendVars, stunned, ctxDone, doVars, netVars>>

\* Mutant: ch has no buffer.
DoReturnsUnbuffered(s) ==
    /\ exchange[s] \in {"answered", "failed"} /\ query[s] = "select" /\ ch[s] = None
    /\ exchange' = [exchange EXCEPT ![s] = "ended"]
    /\ ch' = [ch EXCEPT ![s] = xorAddr[s]]
    /\ UNCHANGED <<directLn, sendVars, queryVars, xorAddr, netVars>>

\* c.Do has returned; its goroutine sends the result to ch.
DoReturns(s) ==
    /\ exchange[s] \in {"answered", "failed"} /\ ch[s] = None
    /\ exchange' = [exchange EXCEPT ![s] = "ended"]
    /\ ch' = [ch EXCEPT ![s] = xorAddr[s]]
    /\ UNCHANGED <<directLn, sendVars, queryVars, xorAddr, netVars>>

----------------------------------------------------------------------------
(* transportConn, the pion/stun client and the network (external). *)

\* An answer arrives, for the first time or again, in time or late.
Answer(s) ==
    /\ s \in requested
    /\ socket' = socket \cup {s}
    /\ UNCHANGED <<directLn, sendVars, queryVars, doVars, client, requested>>

\* The transaction times out, or the client gives it up because it is being closed.
ExchangeFails(s) ==
    /\ exchange[s] = "waiting"
    /\ exchange' = [exchange EXCEPT ![s] = "failed"]
    /\ UNCHANGED <<directLn, sendVars, queryVars, xorAddr, ch, netVars>>

\* Mutant: the transaction of the answer is not compared.
ReadAnswerAny(t, s) ==
    /\ client[t] \in {"open", "closing"} /\ s \in socket /\ (directLn \/ s = t)
    /\ socket' = socket \ {s}
    /\ IF exchange[t] = "waiting" /\ client[t] = "open"
       THEN /\ exchange' = [exchange EXCEPT ![t] = "answered"]
            /\ xorAddr' = [xorAddr EXCEPT ![t] = {Mapped(s)}]
       ELSE UNCHANGED <<exchange, xorAddr>>
    /\ client' = IF client[t] = "closing" THEN [client EXCEPT ![t] = "closed"] ELSE client
    /\ UNCHANGED <<directLn, sendVars, queryVars, ch, requested>>

\* The read loop of t gets the answer to s: on the shared socket any, on a socket of its
\* own its own.  An answer to another transaction is ignored, and is gone.
ReadAnswer(t, s) ==
    /\ client[t] \in {"open", "closing"} /\ s \in socket /\ (directLn \/ s = t)
    /\ socket' = socket \ {s}
    /\ IF s = t /\ exchange[t] = "waiting" /\ client[t] = "open"
       THEN /\ exchange' = [exchange EXCEPT ![t] = "answered"]
            /\ xorAddr' = [xorAddr EXCEPT ![t] = {Mapped(s)}]
       ELSE UNCHANGED <<exchange, xorAddr>>
    /\ client' = IF client[t] = "closing" THEN [client EXCEPT ![t] = "closed"] ELSE client
    /\ UNCHANGED <<directLn, sendVars, queryVars, ch, requested>>

\* Mutant: Read does not look at the context.
ReadEndsOwnSocket(t) ==
    /\ client[t] = "closing" /\ ~directLn
    /\ client' = [client EXCEPT ![t] = "closed"]
    /\ UNCHANGED <<directLn, sendVars, queryVars, doVars, requested, socket>>

\* The read loop sees that the client is closed.  Close of transportConn leaves the
\* shared socket open, so a Read under way only ends with the context; closing a socket
\* of its own ends it at once.
ReadEnds(t) ==
    /\ client[t] = "closing" /\ (ctxDone[t] \/ ~directLn)
    /\ client' = [client EXCEPT ![t] = "closed"]
    /\ UNCHANGED <<directLn, sendVars, queryVars, doVars, requested, socket>>

----------------------------------------------------------------------------

QueryStep(s) ==
    \/ ResolveFails(s) \/ StartDo(s) \/ SelectDone(s) \/ SelectResult(s)
    \/ CloseClient(s) \/ CloseReturns(s) \/ Post(s)

Next ==
    \E s \in Sessions :
        \/ StartSend(s) \/ TakeResult(s) \/ WriteControl(s) \/ QueryStep(s) \/ CtxDone(s)
        \/ DoReturns(s) \/ Answer(s) \/ ExchangeFails(s) \/ ReadEnds(s)
        \/ \E t \in Sessions : ReadAnswer(t, s)

Spec == Init /\ [][Next]_vars

\* The goroutines run and the timer of stunCtx fires.  No answer need ever arrive, and a
\* WriteControl need not return.
FairSpec ==
    /\ Spec
    /\ \A s \in Sessions :
          /\ WF_vars(TakeResult(s)) /\ WF_vars(QueryStep(s)) /\ WF_vars(DoReturns(s))
          /\ WF_vars(CtxDone(s)) /\ WF_vars(ReadEnds(s))

----------------------------------------------------------------------------
(* Properties. *)

\* Every variable keeps its type.
TypeOK ==
    /\ directLn \in BOOLEAN /\ ctxDone \in [Sessions -> BOOLEAN]
    /\ send \in [Sessions -> {"idle", "gather", "write", "done"}]
    /\ query \in [Sessions -> {"none", "resolve", "select", "close", "post", "ended"}]
    /\ stunCh \in [Sessions -> 0..1]
    /\ exchange \in [Sessions -> {"none", "waiting", "answered", "failed", "ended"}]
    /\ client \in [Sessions -> {"none", "open", "closing", "closed"}]
    /\ requested \subseteq Sessions /\ socket \subseteq Sessions

\* What a session offers is its own: the external address is the one that was observed
\* for its own request, although its answer and those of other sessions, late ones
\* included, end up with any of the read loops; and no embedded address belongs to the
\* overlay, which only exists inside the tunnel.
OffersOwnAddresses ==
    \A s \in Sessions :
        /\ message[s] \cap {Mapped(t) : t \in Sessions} \subseteq {Mapped(s)}
        /\ message[s] \cap {Embedded(a) : a \in Overlay} = {}

\* sendCandidates always comes to write its candidates, or returns without any, because
\* its context ends: whether or not the server answers, whoever reads the answer, and
\* although the read loop it has to wait for reads from a socket that nobody closes.
GatheringEnds == \A s \in Sessions : send[s] = "gather" ~> send[s] \in {"write", "done"}

\* The goroutine around c.Do is never left blocked on its result channel when the query
\* has already returned because of its context.
ResultSent ==
    \A s \in Sessions : exchange[s] \in {"answered", "failed"} ~> exchange[s] = "ended"

=============================================================================
