---------------------------- MODULE DirectSetup ----------------------------
(***************************************************************************)
(* A client that probes the candidates of a proxy and dials it             *)
(* (CandidateProbing) and the proxy's listener (DirectListener), over a    *)
(* network that at times lets nothing through.                             *)
(***************************************************************************)
EXTENDS CandidateProbing, DirectListener

VARIABLES
    uses,      \* the QUIC connection of each dialling goroutine
    active,    \* the direct connection the client's mion sends on
    reading,   \* the connections that have a forwarder on the client
    reachable  \* packets between the two nodes arrive

vars == <<probingVars, listenerVars, uses, active, reading, reachable>>

Init ==
    /\ ProbingInit /\ ListenerInit
    /\ uses = [g \in Probers |-> None]
    /\ active = None
    /\ reading = {}
    /\ reachable = TRUE

----------------------------------------------------------------------------
(* The steps that are one node's alone. *)

Alone(A) == A /\ UNCHANGED <<listenerVars, uses, active, reading, reachable>>

\* What the client's goroutines do without meeting the network or a connection.
ReceiveStep ==
    \E received \in SUBSET Candidates : Alone(ReceiveCandidates(received))

LoopStep(g) ==
    Alone(CheckDirect(g) \/ ProbeAgain(g) \/ TimeLeft(g) \/ PromoteCheck(g))

AcceptStep ==
    /\ AcceptProbe \/ AcceptConnect
    /\ UNCHANGED <<probingVars, uses, active, reading, reachable>>

ServerStep(c) ==
    /\ \/ Reply(c) \/ HandlerOk(c) \/ HandlerFails(c)
       \/ handleDirectConnect(c) \/ ProxyForwardEnds(c)
    /\ UNCHANGED <<probingVars, uses, active, reading, reachable>>

----------------------------------------------------------------------------
(* The steps of the client that meet the proxy. *)

\* Probe: the handshake succeeds, or its context ends first.
Probe(g) ==
    /\ IF reachable THEN ProbeOk(g) /\ Arrive("probe")
                    ELSE ProbeFails(g) /\ UNCHANGED acceptQ
    /\ UNCHANGED <<handling, conn, srv, proxyDirect, uses, active, reading, reachable>>

\* The connections that no variable refers to.
Free ==
    {c \in Conns : /\ conn[c] = "down" /\ srv[c] = "none"
                   /\ c \notin reading \cup {active, handling}
                   /\ \A g \in Probers : uses[g] # c
                   /\ \A i \in 1..Len(acceptQ) : acceptQ[i] # c}

\* Dial: the QUIC handshake, which fails or is refused when the proxy's queue is full.
\* Connections are all alike, so a new one gets any identifier that is free.
DialQUIC(g) ==
    /\ prober[g] = "dial" /\ Free # {}
    /\ IF reachable /\ Len(acceptQ) < AcceptCap
       THEN LET c == CHOOSE free \in Free : TRUE
            IN  /\ DialConnected(g)
                /\ Arrive(c)
                /\ conn' = [conn EXCEPT ![c] = "up"]
                /\ uses' = [uses EXCEPT ![g] = c]
       ELSE DialFails(g) /\ UNCHANGED <<acceptQ, conn, uses>>
    /\ UNCHANGED <<handling, srv, proxyDirect, active, reading, reachable>>

\* The request of Dial travels to the handler.
Request(g) ==
    /\ prober[g] = "request"
    /\ RequestArrives(uses[g])
    /\ UNCHANGED <<probingVars, uses, active, reading, reachable>>

\* Dial returns: with the session once the proxy has replied, or with an error when the
\* connection is gone.  It has no time-out of its own.
DialEnds(g) ==
    /\ uses[g] # None
    /\ \/ /\ conn[uses[g]] = "up" /\ srv[uses[g]] \in {"replied", "accepted", "forward"}
          /\ DialReturns(g)
          /\ UNCHANGED uses
       \/ /\ conn[uses[g]] = "down"
          /\ DialFails(g)
          /\ uses' = [uses EXCEPT ![g] = None]
    /\ UNCHANGED <<listenerVars, active, reading, reachable>>

\* The session becomes the direct path, or is closed because there is one already.
CommitDial(g) ==
    \/ Commit(g) /\ UNCHANGED <<listenerVars, uses, active, reading, reachable>>
    \/ /\ CommitLate(g)
       /\ conn' = [conn EXCEPT ![uses[g]] = "down"]
       /\ uses' = [uses EXCEPT ![g] = None]
       /\ UNCHANGED <<acceptQ, handling, srv, proxyDirect, active, reading, reachable>>

InstallDial(g) ==
    /\ Install(g)
    /\ active' = uses[g]
    /\ reading' = reading \cup {uses[g]}
    /\ uses' = [uses EXCEPT ![g] = None]
    /\ UNCHANGED <<listenerVars, reachable>>

\* The client's forwarder: ClearConnIf and fallbackToRelay.
ClientForwardEnds(c) ==
    /\ c \in reading /\ conn[c] = "down"
    /\ DirectPathEnds
    /\ reading' = reading \ {c}
    /\ active' = IF active = c THEN None ELSE active
    /\ UNCHANGED <<listenerVars, uses, reachable>>

----------------------------------------------------------------------------
(* The network (external). *)

NetworkChanges ==
    /\ reachable' = ~reachable
    /\ UNCHANGED <<probingVars, listenerVars, uses, active, reading>>

\* MaxIdleTimeout passes without a packet.
IdleTimeout(c) ==
    /\ ~reachable /\ conn[c] = "up"
    /\ conn' = [conn EXCEPT ![c] = "down"]
    /\ UNCHANGED <<probingVars, acceptQ, handling, srv, proxyDirect, uses, active,
                   reading, reachable>>

ProberStep(g) ==
    \/ Probe(g) \/ DialQUIC(g) \/ Request(g) \/ DialEnds(g)
    \/ CommitDial(g) \/ InstallDial(g)

Next ==
    \/ Alone(RelayConnected) \/ ReceiveStep \/ AcceptStep \/ NetworkChanges
    \/ \E a \in IPv4 : Alone(CooldownEnds(a) \/ CheckCooldown(a))
    \/ \E g \in Probers : LoopStep(g) \/ Alone(TimeUp(g)) \/ ProberStep(g)
    \/ \E c \in Conns : ServerStep(c) \/ ClientForwardEnds(c) \/ IdleTimeout(c)

Spec == Init /\ [][Next]_vars

\* Goroutines run, cooldowns end, and a probing loop that goes on finds its deadline
\* over.  Nothing says that the network becomes reachable, that a relay session starts
\* or that candidates arrive.
FairSpec ==
    /\ Spec
    /\ WF_vars(AcceptStep)
    /\ \A g \in Probers :
          /\ WF_vars(LoopStep(g) \/ ProberStep(g))
          /\ SF_vars(Alone(TimeUp(g)))
          /\ SF_vars(DialQUIC(g))
    /\ \A a \in IPv4 :
          /\ WF_vars(Alone(CooldownEnds(a)))
          /\ WF_vars(Alone(CheckCooldown(a)))
    /\ \A c \in Conns : WF_vars(ServerStep(c)) /\ WF_vars(ClientForwardEnds(c))

----------------------------------------------------------------------------
(* Properties. *)

\* Every variable keeps its type.
TypeOK ==
    /\ probeCooldown \subseteq IPv4 /\ fresh \subseteq IPv4
    /\ hasDirectPath \in BOOLEAN /\ reachable \in BOOLEAN
    /\ prober \in [Probers -> ProbeStates \cup DialStates \cup {"none"}]
    /\ addr \in [Probers -> IPv4 \cup {NoAddr}]
    /\ acceptQ \in Seq(Conns \cup {"probe"}) /\ Len(acceptQ) <= AcceptCap
    /\ handling \in Conns \cup {None}
    /\ conn \in [Conns -> {"up", "down"}]
    /\ srv \in [Conns -> ServerStates]
    /\ active \in Conns \cup {None} /\ proxyDirect \in BOOLEAN
    /\ uses \in [Probers -> Conns \cup {None}]
    /\ reading \subseteq Conns

\* What the client sends on its direct path is read: as long as the connection is up,
\* the proxy has a forwarder on it or is about to start one, although several
\* goroutines may dial at the same time and the proxy lets the last connection replace
\* the others.
DirectPathRead ==
    active # None /\ conn[active] = "up" =>
        srv[active] \in {"replied", "accepted", "forward"}

\* hasDirectPath is true exactly while one goroutine or one forwarder of the client has
\* the direct path: dialling goroutines that all found the flag false never install two,
\* and the flag is not left behind by a path that has ended.
OneDirectPath ==
    Cardinality(reading) + Cardinality({g \in Probers : prober[g] = "install"}) =
        (IF hasDirectPath THEN 1 ELSE 0)

\* As long as no connection dies between its handshake and its request in the proxy's
\* handleConnect, a dialling goroutine ends although Dial has no time-out: the listener
\* comes round to every connection in its queue.
DialsEnd ==
    []~Stuck => \A g \in Probers : prober[g] \in DialStates ~> prober[g] = "none"

\* Under the same condition the direct path is found again after any number of losses:
\* if in the end the network stays up, the accept queue has room and candidates keep
\* arriving, the client ends up with a direct path and keeps it.  Cooldowns, loops that
\* gave up, and paths that broke at a bad moment do not prevent it.
PathConverges ==
    /\ []~Stuck /\ <>[]reachable /\ <>[](Len(acceptQ) < AcceptCap)
    /\ []<>(fresh # {})
    => <>[](active # None /\ conn[active] = "up")

=============================================================================
