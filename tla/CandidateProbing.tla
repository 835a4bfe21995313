-------------------------- MODULE CandidateProbing --------------------------
(***************************************************************************)
(* What a node does with the candidates of a peer: validateCandidates, its *)
(* probing goroutines and tryPromotePath (internal/manager), with Probe    *)
(* (internal/h3path) and Dial (internal/direct) as their network calls.    *)
(* Each action is a step of one goroutine; the ones that meet the peer are *)
(* joined with a step of its listener in module DirectSetup.               *)
(***************************************************************************)
EXTENDS Naturals, FiniteSets

CONSTANTS
    Role,        \* mion.Role(): "client" or "proxy"
    Candidates,  \* addresses a peer may send
    IPv4,        \* those that parse and have the version of the listener's socket
    Probers,     \* bound: addresses being probed or dialled at one time
    NoAddr

ASSUME CandidateAssumption == IPv4 \subseteq Candidates /\ NoAddr \notin Candidates

VARIABLES
    probeCooldown,  \* addresses whose cooldown has not run out
    hasDirectPath,  \* peerEntry.hasDirectPath
    fresh,          \* usable addresses that validateCandidates has yet to look at
    prober,         \* where the work on each address stands
    addr            \* the address it is about

probingVars == <<probeCooldown, hasDirectPath, fresh, prober, addr>>

ProbeStates == {"start", "check", "probe", "head"}

DialStates == {"promote", "dial", "request", "commit", "install"}

ProbingInit ==
    /\ probeCooldown = {}
    /\ hasDirectPath = FALSE
    /\ fresh = {}
    /\ prober = [g \in Probers |-> "none"]
    /\ addr = [g \in Probers |-> NoAddr]

Goto(g, state) ==
    /\ prober' = [prober EXCEPT ![g] = state]
    /\ addr' = IF state = "none" THEN [addr EXCEPT ![g] = NoAddr] ELSE addr

----------------------------------------------------------------------------
(* relayConnectLoop and validateCandidates. *)

\* A new relay session: every cooldown is forgotten.
RelayConnected ==
    /\ probeCooldown' = {}
    /\ UNCHANGED <<hasDirectPath, fresh, prober, addr>>

\* The clock passes the end of a cooldown.
CooldownEnds(a) ==
    /\ a \in probeCooldown
    /\ probeCooldown' = probeCooldown \ {a}
    /\ UNCHANGED <<hasDirectPath, fresh, prober, addr>>

\* Mutant: no address is skipped.
ReceiveAll(received) ==
    /\ fresh' = fresh \cup received
    /\ UNCHANGED <<probeCooldown, hasDirectPath, prober, addr>>

\* handleControl starts validateCandidates on a message.  An address that does not
\* parse, or has another IP version, is skipped.
ReceiveCandidates(received) ==
    /\ fresh' = fresh \cup (received \cap IPv4)
    /\ UNCHANGED <<probeCooldown, hasDirectPath, prober, addr>>

\* An address in cooldown is skipped; another one is gone on with.
CheckCooldown(a) ==
    /\ a \in fresh
    /\ fresh' = fresh \ {a}
    /\ IF a \in probeCooldown THEN UNCHANGED <<prober, addr>>
       ELSE LET idle == {g \in Probers : prober[g] = "none"}
                g    == CHOOSE any \in idle : TRUE
            IN  /\ idle # {}
                /\ prober' = [prober EXCEPT ![g] = "start"]
                /\ addr' = [addr EXCEPT ![g] = a]
    /\ UNCHANGED <<probeCooldown, hasDirectPath>>

\* It is skipped as well if there is a direct path; if not, the goroutine starts.
CheckDirect(g) ==
    /\ prober[g] = "start"
    /\ Goto(g, IF hasDirectPath THEN "none" ELSE "check")
    /\ UNCHANGED <<probeCooldown, hasDirectPath, fresh>>

----------------------------------------------------------------------------
(* The probing goroutine. *)

\* The body of the loop starts with another look at hasDirectPath.
ProbeAgain(g) ==
    /\ prober[g] = "check"
    /\ Goto(g, IF hasDirectPath THEN "none" ELSE "probe")
    /\ UNCHANGED <<probeCooldown, hasDirectPath, fresh>>

ProbeFails(g) ==
    /\ prober[g] = "probe"
    /\ Goto(g, "head")
    /\ UNCHANGED <<probeCooldown, hasDirectPath, fresh>>

\* The address loses its cooldown; a client goes on with tryPromotePath.
ProbeOk(g) ==
    /\ prober[g] = "probe"
    /\ probeCooldown' = probeCooldown \ {addr[g]}
    /\ Goto(g, IF Role = "client" THEN "promote" ELSE "none")
    /\ UNCHANGED <<hasDirectPath, fresh>>

\* After retryInterval the head of the loop finds time left ...
TimeLeft(g) ==
    /\ prober[g] = "head"
    /\ Goto(g, "check")
    /\ UNCHANGED <<probeCooldown, hasDirectPath, fresh>>

\* ... or totalTimeout over: the address gets a cooldown, also when its relay session is
\* no longer the last one.
TimeUp(g) ==
    /\ prober[g] = "head"
    /\ probeCooldown' = probeCooldown \cup {addr[g]}
    /\ Goto(g, "none")
    /\ UNCHANGED <<hasDirectPath, fresh>>

----------------------------------------------------------------------------
(* tryPromotePath. *)

PromoteCheck(g) ==
    /\ prober[g] = "promote"
    /\ Goto(g, IF hasDirectPath THEN "none" ELSE "dial")
    /\ UNCHANGED <<probeCooldown, hasDirectPath, fresh>>

\* The QUIC handshake of Dial is done; the CONNECT-IP request comes next.
DialConnected(g) ==
    /\ prober[g] = "dial"
    /\ Goto(g, "request")
    /\ UNCHANGED <<probeCooldown, hasDirectPath, fresh>>

\* Dial returns an error.
DialFails(g) ==
    /\ prober[g] \in {"dial", "request"}
    /\ Goto(g, "none")
    /\ UNCHANGED <<probeCooldown, hasDirectPath, fresh>>

\* Dial returns the session.
DialReturns(g) ==
    /\ prober[g] = "request"
    /\ Goto(g, "commit")
    /\ UNCHANGED <<probeCooldown, hasDirectPath, fresh>>

\* Mutant: hasDirectPath is not looked at again after Dial.
CommitUnchecked(g) ==
    /\ prober[g] = "commit"
    /\ hasDirectPath' = TRUE
    /\ Goto(g, "install")
    /\ UNCHANGED <<probeCooldown, fresh>>

\* hasDirectPath is looked at again, and set, under the lock.
Commit(g) ==
    /\ prober[g] = "commit" /\ ~hasDirectPath
    /\ hasDirectPath' = TRUE
    /\ Goto(g, "install")
    /\ UNCHANGED <<probeCooldown, fresh>>

CommitLate(g) ==
    /\ prober[g] = "commit" /\ hasDirectPath
    /\ Goto(g, "none")
    /\ UNCHANGED <<probeCooldown, hasDirectPath, fresh>>

\* SetConn, and the forwarder starts.
Install(g) ==
    /\ prober[g] = "install"
    /\ Goto(g, "none")
    /\ UNCHANGED <<probeCooldown, hasDirectPath, fresh>>

\* Mutant: the flag stays set.
DirectPathEndsKept ==
    UNCHANGED probingVars

\* fallbackToRelay, called by the forwarder of a direct connection that has failed.
DirectPathEnds ==
    /\ hasDirectPath' = FALSE
    /\ UNCHANGED <<probeCooldown, fresh, prober, addr>>

=============================================================================
