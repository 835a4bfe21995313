------------------------- MODULE DirectSetupProofs -------------------------
(***************************************************************************)
(* Proofs that a client has one direct path at most and that the proxy     *)
(* reads it, for any number of goroutines, addresses and connections.      *)
(***************************************************************************)
EXTENDS DirectSetup, FiniteSetTheorems, TLAPS

\* The types the proofs need, the capacity of the accept queue not being among them;
\* and a goroutine that has dialled has a connection.
Types ==
    /\ hasDirectPath \in BOOLEAN
    /\ prober \in [Probers -> ProbeStates \cup DialStates \cup {"none"}]
    /\ acceptQ \in Seq(Conns \cup {"probe"})
    /\ conn \in [Conns -> {"up", "down"}]
    /\ srv \in [Conns -> ServerStates]
    /\ active \in Conns \cup {None}
    /\ uses \in [Probers -> Conns \cup {None}]
    /\ reading \subseteq Conns
    /\ \A g \in Probers : prober[g] \in {"request", "commit", "install"} => uses[g] # None

Installing == {g \in Probers : prober[g] = "install"}

\* Who has the direct path: nobody, a goroutine about to install it, or a forwarder.
PathInv ==
    IF hasDirectPath
    THEN \/ reading = {} /\ \E g \in Probers : Installing = {g}
         \/ Installing = {} /\ \E c \in Conns : reading = {c}
    ELSE reading = {} /\ Installing = {}

----------------------------------------------------------------------------
(* One direct path. *)

LEMMA TypesInit == Init => Types
<1> SUFFICES ASSUME Init PROVE Types
    OBVIOUS
<1> USE DEF Init, ProbingInit, ListenerInit
<1>1. hasDirectPath \in BOOLEAN
    OBVIOUS
<1>2. prober \in [Probers -> ProbeStates \cup DialStates \cup {"none"}]
    OBVIOUS
<1>3. acceptQ \in Seq(Conns \cup {"probe"})
    OBVIOUS
<1>4. /\ conn \in [Conns -> {"up", "down"}]
      /\ srv \in [Conns -> ServerStates]
      /\ active \in Conns \cup {None}
      /\ uses \in [Probers -> Conns \cup {None}]
      /\ reading \subseteq Conns
      /\ \A g \in Probers : prober[g] = "none"
    BY DEF ServerStates
<1> QED
    BY <1>1, <1>2, <1>3, <1>4 DEF Types

LEMMA TypesInductive == Types /\ [Next]_vars => Types'
<1> SUFFICES ASSUME Types, [Next]_vars PROVE Types'
    OBVIOUS
<1> USE DEF Types, ProbeStates, DialStates, ServerStates, probingVars, listenerVars
<1>1. CASE Alone(RelayConnected) BY <1>1 DEF Alone, RelayConnected
<1>2. CASE ReceiveStep BY <1>2 DEF ReceiveStep, Alone, ReceiveCandidates
<1>3. CASE AcceptStep
  <2>1. acceptQ # <<>> /\ acceptQ' = Tail(acceptQ)
      BY <1>3 DEF AcceptStep, AcceptProbe, AcceptConnect
  <2>2. acceptQ' \in Seq(Conns \cup {"probe"})
      BY <2>1
  <2> QED
      BY <1>3, <2>2 DEF AcceptStep, AcceptProbe, AcceptConnect
<1>4. CASE NetworkChanges BY <1>4 DEF NetworkChanges
<1>5. ASSUME NEW a \in IPv4, Alone(CooldownEnds(a) \/ CheckCooldown(a)) PROVE Types'
    BY <1>5 DEF Alone, CooldownEnds, CheckCooldown
<1>6. ASSUME NEW g \in Probers, LoopStep(g) PROVE Types'
    BY <1>6 DEF LoopStep, Alone, CheckDirect, ProbeAgain, TimeLeft, PromoteCheck, Goto
<1>7. ASSUME NEW g \in Probers, Alone(TimeUp(g)) PROVE Types'
    BY <1>7 DEF Alone, TimeUp, Goto
<1>8. ASSUME NEW g \in Probers, Probe(g) PROVE Types'
  <2>1. acceptQ' = acceptQ \/ acceptQ' = Append(acceptQ, "probe")
      BY <1>8 DEF Probe, Arrive
  <2>2. acceptQ' \in Seq(Conns \cup {"probe"})
      BY <2>1
  <2>3. \E state \in {"promote", "none", "head"} : Goto(g, state)
      BY <1>8 DEF Probe, ProbeOk, ProbeFails
  <2>4. /\ prober' \in [Probers -> ProbeStates \cup DialStates \cup {"none"}]
        /\ \A h \in Probers : prober'[h] \in {"request", "commit", "install"} =>
                                  prober[h] = prober'[h]
      BY <2>3 DEF Goto
  <2>5. UNCHANGED <<hasDirectPath, conn, srv, active, uses, reading>>
      BY <1>8 DEF Probe, ProbeOk, ProbeFails
  <2> QED
      BY <2>2, <2>4, <2>5
<1>9. ASSUME NEW g \in Probers, DialQUIC(g) PROVE Types'
  <2>1. (CHOOSE free \in Free : TRUE) \in Conns
      BY <1>9 DEF DialQUIC, Free
  <2>2. acceptQ' \in Seq(Conns \cup {"probe"})
    <3> DEFINE c == CHOOSE free \in Free : TRUE
    <3>1. acceptQ' = acceptQ \/ acceptQ' = Append(acceptQ, c)
        BY <1>9 DEF DialQUIC, Arrive
    <3>2. c \in Conns \cup {"probe"}
        BY <2>1
    <3> HIDE DEF c
    <3> QED
        BY <3>1, <3>2
  <2>3. prober' \in [Probers -> ProbeStates \cup DialStates \cup {"none"}]
      BY <1>9 DEF DialQUIC, DialConnected, DialFails, Goto
  <2>4. hasDirectPath' = hasDirectPath
      BY <1>9 DEF DialQUIC, DialConnected, DialFails
  <2>5. conn' \in [Conns -> {"up", "down"}] /\ uses' \in [Probers -> Conns \cup {None}]
      BY <1>9, <2>1 DEF DialQUIC
  <2>6. \A h \in Probers :
           prober'[h] \in {"request", "commit", "install"} => uses'[h] # None
    <3> DEFINE c == CHOOSE free \in Free : TRUE
    <3>1. \/ /\ prober' = [prober EXCEPT ![g] = "request"]
             /\ uses' = [uses EXCEPT ![g] = c]
          \/ /\ prober' = [prober EXCEPT ![g] = "none"]
             /\ uses' = uses
        BY <1>9 DEF DialQUIC, DialConnected, DialFails, Goto
    <3>2. c # None
        BY <2>1, ConnAssumption
    <3> HIDE DEF c
    <3> QED
        BY <3>1, <3>2
  <2> QED
      BY <1>9, <2>2, <2>3, <2>4, <2>5, <2>6 DEF DialQUIC
<1>10. ASSUME NEW g \in Probers, Request(g) PROVE Types'
    BY <1>10 DEF Request, RequestArrives
<1>11. ASSUME NEW g \in Probers, DialEnds(g) PROVE Types'
    BY <1>11 DEF DialEnds, DialReturns, DialFails, Goto
<1>12. ASSUME NEW g \in Probers, CommitDial(g) PROVE Types'
  <2>1. CASE Commit(g) /\ UNCHANGED <<listenerVars, uses, active, reading, reachable>>
    <3>1. hasDirectPath' \in BOOLEAN
        BY <2>1 DEF Commit
    <3> QED
        BY <2>1, <3>1 DEF Commit, Goto
  <2>2. CASE CommitLate(g) /\ conn' = [conn EXCEPT ![uses[g]] = "down"]
             /\ uses' = [uses EXCEPT ![g] = None]
             /\ UNCHANGED <<acceptQ, handling, srv, proxyDirect, active, reading, reachable>>
      BY <2>2 DEF CommitLate, Goto
  <2> QED
      BY <1>12, <2>1, <2>2 DEF CommitDial
<1>13. ASSUME NEW g \in Probers, InstallDial(g) PROVE Types'
    BY <1>13 DEF InstallDial, Install, Goto
<1>14. ASSUME NEW c \in Conns, ServerStep(c) PROVE Types'
    BY <1>14 DEF ServerStep, Reply, HandlerOk, HandlerFails, handleDirectConnect,
                 ProxyForwardEnds
<1>15. ASSUME NEW c \in Conns, ClientForwardEnds(c) PROVE Types'
  <2>1. hasDirectPath' \in BOOLEAN
      BY <1>15 DEF ClientForwardEnds, DirectPathEnds
  <2> QED
      BY <1>15, <2>1 DEF ClientForwardEnds, DirectPathEnds
<1>16. ASSUME NEW c \in Conns, IdleTimeout(c) PROVE Types'
    BY <1>16 DEF IdleTimeout
<1>17. CASE UNCHANGED vars BY <1>17 DEF vars
<1> QED
    BY <1>1, <1>2, <1>3, <1>4, <1>5, <1>6, <1>7, <1>8, <1>9, <1>10, <1>11, <1>12, <1>13,
       <1>14, <1>15, <1>16, <1>17 DEF Next, ProberStep

\* A step that moves no goroutine into or out of "install" changes nothing about the path.
LEMMA PathQuiet ==
    ASSUME PathInv, hasDirectPath' = hasDirectPath, reading' = reading,
           \A g \in Probers : prober'[g] = "install" <=> prober[g] = "install"
    PROVE  PathInv'
<1>1. Installing' = Installing
    BY DEF Installing
<1> QED
    BY <1>1 DEF PathInv

LEMMA PathInductive == Types /\ PathInv /\ [Next]_vars => PathInv'
<1> SUFFICES ASSUME Types, PathInv, [Next]_vars PROVE PathInv'
    OBVIOUS
<1> USE DEF probingVars, listenerVars
<1>1. CASE Alone(RelayConnected)
    BY <1>1, PathQuiet DEF Alone, RelayConnected
<1>2. CASE ReceiveStep
    BY <1>2, PathQuiet DEF ReceiveStep, Alone, ReceiveCandidates
<1>3. CASE AcceptStep
    BY <1>3, PathQuiet DEF AcceptStep
<1>4. CASE NetworkChanges
    BY <1>4, PathQuiet DEF NetworkChanges
<1>5. ASSUME NEW a \in IPv4, Alone(CooldownEnds(a) \/ CheckCooldown(a)) PROVE PathInv'
  <2>1. \A g \in Probers : prober'[g] = "install" <=> prober[g] = "install"
      BY <1>5 DEF Types, Alone, CooldownEnds, CheckCooldown
  <2> QED
      BY <1>5, <2>1, PathQuiet DEF Alone, CooldownEnds, CheckCooldown
<1>6. ASSUME NEW g \in Probers, LoopStep(g) \/ Alone(TimeUp(g)) PROVE PathInv'
  <2>1. \A h \in Probers : prober'[h] = "install" <=> prober[h] = "install"
      BY <1>6 DEF Types, LoopStep, Alone, CheckDirect, ProbeAgain, TimeLeft,
                  PromoteCheck, TimeUp, Goto
  <2> QED
      BY <1>6, <2>1, PathQuiet DEF LoopStep, Alone, CheckDirect, ProbeAgain, TimeLeft,
                                   PromoteCheck, TimeUp
<1>7. ASSUME NEW g \in Probers, Probe(g) PROVE PathInv'
  <2>1. \A h \in Probers : prober'[h] = "install" <=> prober[h] = "install"
      BY <1>7 DEF Types, Probe, ProbeOk, ProbeFails, Goto
  <2> QED
      BY <1>7, <2>1, PathQuiet DEF Probe, ProbeOk, ProbeFails
<1>8. ASSUME NEW g \in Probers, DialQUIC(g) PROVE PathInv'
  <2>1. \A h \in Probers : prober'[h] = "install" <=> prober[h] = "install"
      BY <1>8 DEF Types, DialQUIC, DialConnected, DialFails, Goto
  <2> QED
      BY <1>8, <2>1, PathQuiet DEF DialQUIC, DialConnected, DialFails
<1>9. ASSUME NEW g \in Probers, Request(g) PROVE PathInv'
    BY <1>9, PathQuiet DEF Request
<1>10. ASSUME NEW g \in Probers, DialEnds(g) PROVE PathInv'
  <2>1. \A h \in Probers : prober'[h] = "install" <=> prober[h] = "install"
      BY <1>10 DEF Types, DialEnds, DialReturns, DialFails, Goto
  <2> QED
      BY <1>10, <2>1, PathQuiet DEF DialEnds, DialReturns, DialFails
<1>11. ASSUME NEW g \in Probers, CommitDial(g) PROVE PathInv'
  <2>1. CASE Commit(g) /\ reading' = reading
    <3>1. Installing = {} /\ reading = {}
        BY <2>1 DEF Commit, PathInv
    <3>2. Installing' = {g}
        BY <2>1, <3>1 DEF Commit, Goto, Installing, Types
    <3> QED
        BY <2>1, <3>1, <3>2 DEF Commit, PathInv
  <2>2. CASE CommitLate(g) /\ reading' = reading
    <3>1. \A h \in Probers : prober'[h] = "install" <=> prober[h] = "install"
        BY <2>2 DEF Types, CommitLate, Goto
    <3> QED
        BY <2>2, <3>1, PathQuiet DEF CommitLate
  <2> QED
      BY <1>11, <2>1, <2>2 DEF CommitDial
<1>12. ASSUME NEW g \in Probers, InstallDial(g) PROVE PathInv'
  <2>1. g \in Installing /\ uses[g] \in Conns
      BY <1>12 DEF InstallDial, Install, Installing, Types
  <2>2. hasDirectPath /\ reading = {} /\ Installing = {g}
      BY <2>1 DEF PathInv
  <2>3. Installing' = {}
      BY <1>12, <2>2 DEF InstallDial, Install, Goto, Installing, Types
  <2>4. reading' = {uses[g]} /\ hasDirectPath' = hasDirectPath
      BY <1>12, <2>2 DEF InstallDial, Install
  <2> QED
      BY <2>1, <2>2, <2>3, <2>4 DEF PathInv
<1>13. ASSUME NEW c \in Conns, ServerStep(c) PROVE PathInv'
    BY <1>13, PathQuiet DEF ServerStep
<1>14. ASSUME NEW c \in Conns, ClientForwardEnds(c) PROVE PathInv'
  <2>1. reading = {c} /\ Installing = {}
      BY <1>14 DEF ClientForwardEnds, PathInv
  <2>2. reading' = {} /\ Installing' = {} /\ hasDirectPath' = FALSE
      BY <1>14, <2>1 DEF ClientForwardEnds, DirectPathEnds, Installing
  <2> QED
      BY <2>2 DEF PathInv
<1>15. ASSUME NEW c \in Conns, IdleTimeout(c) PROVE PathInv'
    BY <1>15, PathQuiet DEF IdleTimeout
<1>16. CASE UNCHANGED vars
    BY <1>16, PathQuiet DEF vars
<1> QED
    BY <1>1, <1>2, <1>3, <1>4, <1>5, <1>6, <1>7, <1>8, <1>9, <1>10, <1>11, <1>12, <1>13,
       <1>14, <1>15, <1>16 DEF Next, ProberStep

LEMMA PathImplies == PathInv => OneDirectPath
<1>1. Cardinality({}) = 0 /\ \A x : Cardinality({x}) = 1
    BY FS_EmptySet, FS_Singleton
<1> SUFFICES ASSUME PathInv
             PROVE  Cardinality(reading) + Cardinality(Installing) =
                        (IF hasDirectPath THEN 1 ELSE 0)
    BY DEF OneDirectPath, Installing
<1>2. CASE ~hasDirectPath
  <2>1. Cardinality(reading) = 0 /\ Cardinality(Installing) = 0
      BY <1>1, <1>2, Zenon DEF PathInv
  <2> QED
      BY <1>2, <2>1
<1>3. ASSUME hasDirectPath, reading = {}, NEW g \in Probers, Installing = {g}
      PROVE  Cardinality(reading) + Cardinality(Installing) = 1
  <2>1. Cardinality(reading) = 0 /\ Cardinality(Installing) = 1
      BY <1>1, <1>3, Zenon
  <2> QED
      BY <2>1
<1>4. ASSUME hasDirectPath, Installing = {}, NEW c \in Conns, reading = {c}
      PROVE  Cardinality(reading) + Cardinality(Installing) = 1
  <2>1. Cardinality(reading) = 1 /\ Cardinality(Installing) = 0
      BY <1>1, <1>4, Zenon
  <2> QED
      BY <2>1
<1> QED
    BY <1>2, <1>3, <1>4 DEF PathInv

\* OneDirectPath for any number of goroutines, addresses and connections: hasDirectPath
\* (set in tryPromotePath, manager.go:821, reset in fallbackToRelay, manager.go:881) is
\* true exactly while one goroutine or one forwarder has the direct path.
THEOREM DirectPathUnique == Spec => []OneDirectPath
<1>1. Init => Types /\ PathInv
  <2>1. Init => PathInv
      BY DEF Init, ProbingInit, PathInv, Installing
  <2> QED
      BY <2>1, TypesInit
<1>2. Types /\ PathInv /\ [Next]_vars => (Types /\ PathInv)'
    BY TypesInductive, PathInductive
<1> QED
    BY <1>1, <1>2, PathImplies, PTL DEF Spec

----------------------------------------------------------------------------
(* The direct path is read. *)

\* The proxy has answered on a connection, and reads it or is about to.
Served == {"replied", "accepted", "forward"}

\* The connection the client sends on, and those of the goroutines whose Dial is over.
Held ==
    {c \in Conns : \/ c = active
                   \/ \E g \in Probers : prober[g] \in {"commit", "install"} /\ uses[g] = c}

HeldServed == \A c \in Held : conn[c] = "up" => srv[c] \in Served

\* A connection is in the accept queue once, and the proxy has not started on it.
QueueFresh ==
    /\ \A i \in 1..Len(acceptQ) : acceptQ[i] \in Conns => srv[acceptQ[i]] = "none"
    /\ \A i, j \in 1..Len(acceptQ) :
          acceptQ[i] \in Conns /\ acceptQ[i] = acceptQ[j] => i = j

ReadInv == HeldServed /\ QueueFresh

\* A step of the client: the queue and the proxy stay as they are.
LEMMA ReadQuiet ==
    ASSUME ReadInv, acceptQ' = acceptQ, srv' = srv,
           \A c \in Conns : conn'[c] = "up" => conn[c] = "up",
           \A c \in Held' : c \in Held \/ srv[c] \in Served
    PROVE  ReadInv'
<1>1. HeldServed'
    BY DEF ReadInv, HeldServed, Held
<1>2. QueueFresh'
    BY DEF ReadInv, QueueFresh
<1> QED
    BY <1>1, <1>2 DEF ReadInv

\* A step of the proxy on a connection that is no longer in the queue.
LEMMA ReadServer ==
    ASSUME Types, ReadInv, NEW c \in Conns, NEW s,
           srv[c] # "none", srv' = [srv EXCEPT ![c] = s],
           conn[c] = "up" /\ srv[c] \in Served => s \in Served,
           UNCHANGED <<acceptQ, conn, prober, uses, active>>
    PROVE  ReadInv'
<1>1. Held' = Held
    BY DEF Held
<1>2. HeldServed'
    BY <1>1 DEF ReadInv, HeldServed, Held, Types
<1>3. QueueFresh'
    BY DEF ReadInv, QueueFresh, Types
<1> QED
    BY <1>2, <1>3 DEF ReadInv

\* A handshake completes on a connection that is not in the queue.
LEMMA QueueArrive ==
    ASSUME Types, QueueFresh, NEW item \in Conns \cup {"probe"}, Arrive(item), srv' = srv,
           item \in Conns =>
               srv[item] = "none" /\ \A i \in 1..Len(acceptQ) : acceptQ[i] # item
    PROVE  QueueFresh'
<1>1. CASE acceptQ' = acceptQ
    BY <1>1 DEF QueueFresh
<1>2. CASE acceptQ' = Append(acceptQ, item)
  <2>1. /\ Len(acceptQ) \in Nat /\ Len(acceptQ') = Len(acceptQ) + 1
        /\ \A i \in 1..Len(acceptQ) : acceptQ'[i] = acceptQ[i]
        /\ acceptQ'[Len(acceptQ) + 1] = item
      BY <1>2 DEF Types
  <2>2. \A i \in 1..Len(acceptQ') : i \in 1..Len(acceptQ) \/ i = Len(acceptQ) + 1
      BY <2>1
  <2> QED
      BY <2>1, <2>2 DEF QueueFresh
<1> QED
    BY <1>1, <1>2 DEF Arrive

LEMMA ReadInductive == Types /\ ReadInv /\ [Next]_vars => ReadInv'
<1> SUFFICES ASSUME Types, ReadInv, [Next]_vars PROVE ReadInv'
    OBVIOUS
<1> USE DEF probingVars, listenerVars
<1>1. CASE Alone(RelayConnected)
    BY <1>1, ReadQuiet DEF Alone, RelayConnected, Held
<1>2. CASE ReceiveStep
    BY <1>2, ReadQuiet DEF ReceiveStep, Alone, ReceiveCandidates, Held
<1>3. CASE AcceptStep
  <2>1. acceptQ # <<>> /\ acceptQ' = Tail(acceptQ)
      BY <1>3 DEF AcceptStep, AcceptProbe, AcceptConnect
  <2>2. /\ Len(acceptQ) \in Nat /\ Len(acceptQ) > 0 /\ Len(acceptQ') = Len(acceptQ) - 1
        /\ \A i \in 1..Len(acceptQ') : acceptQ'[i] = acceptQ[i + 1]
        /\ Head(acceptQ) = acceptQ[1]
      BY <2>1 DEF Types
  <2>3. Held' = Held /\ conn' = conn
      BY <1>3 DEF AcceptStep, AcceptProbe, AcceptConnect, Held
  <2>4. CASE srv' = srv
    <3>1. QueueFresh'
        BY <2>2, <2>4 DEF ReadInv, QueueFresh
    <3>2. HeldServed'
        BY <2>3, <2>4 DEF ReadInv, HeldServed
    <3> QED
        BY <3>1, <3>2 DEF ReadInv
  <2>5. CASE Head(acceptQ) \in Conns /\ srv' = [srv EXCEPT ![Head(acceptQ)] = "serving"]
    <3>1. srv[acceptQ[1]] = "none" /\ acceptQ[1] \in Conns
        BY <2>2, <2>5 DEF ReadInv, QueueFresh
    <3>2. \A i \in 1..Len(acceptQ') :
              i + 1 \in 1..Len(acceptQ) /\ (acceptQ'[i] \in Conns => acceptQ'[i] # acceptQ[1])
        BY <2>2 DEF ReadInv, QueueFresh
    <3>3. QueueFresh'
      <4>1. \A d \in Conns : d # acceptQ[1] => srv'[d] = srv[d]
          BY <2>2, <2>5 DEF Types
      <4>2. \A i \in 1..Len(acceptQ') : acceptQ'[i] \in Conns => srv'[acceptQ'[i]] = "none"
          BY <2>2, <3>2, <4>1 DEF ReadInv, QueueFresh
      <4>3. \A i, j \in 1..Len(acceptQ') :
                acceptQ'[i] \in Conns /\ acceptQ'[i] = acceptQ'[j] => i = j
          BY <2>2 DEF ReadInv, QueueFresh
      <4> QED
          BY <4>2, <4>3 DEF QueueFresh
    <3>4. HeldServed'
        BY <2>2, <2>3, <2>5, <3>1 DEF ReadInv, HeldServed, Held, Types, Served
    <3> QED
        BY <3>3, <3>4 DEF ReadInv
  <2> QED
      BY <1>3, <2>4, <2>5 DEF AcceptStep, AcceptProbe, AcceptConnect
<1>4. CASE NetworkChanges
    BY <1>4, ReadQuiet DEF NetworkChanges, Held
<1>5. ASSUME NEW a \in IPv4, Alone(CooldownEnds(a) \/ CheckCooldown(a)) PROVE ReadInv'
  <2>1. \A c \in Held' : c \in Held
      BY <1>5 DEF Types, Alone, CooldownEnds, CheckCooldown, Held
  <2> QED
      BY <1>5, <2>1, ReadQuiet DEF Alone, CooldownEnds, CheckCooldown
<1>6. ASSUME NEW g \in Probers, LoopStep(g) \/ Alone(TimeUp(g)) PROVE ReadInv'
  <2>1. \A c \in Held' : c \in Held
      BY <1>6 DEF Types, LoopStep, Alone, CheckDirect, ProbeAgain, TimeLeft,
                  PromoteCheck, TimeUp, Goto, Held
  <2> QED
      BY <1>6, <2>1, ReadQuiet DEF LoopStep, Alone
<1>7. ASSUME NEW g \in Probers, Probe(g) PROVE ReadInv'
  <2>1. \A c \in Held' : c \in Held
      BY <1>7 DEF Types, Probe, ProbeOk, ProbeFails, Goto, Held
  <2>2. HeldServed'
      BY <1>7, <2>1 DEF Probe, ReadInv, HeldServed
  <2>3. CASE Arrive("probe")
      BY <1>7, <2>2, <2>3, QueueArrive, ConnAssumption DEF Probe, ReadInv
  <2>4. CASE acceptQ' = acceptQ
      BY <1>7, <2>2, <2>4 DEF Probe, ReadInv, QueueFresh
  <2> QED
      BY <1>7, <2>3, <2>4 DEF Probe
<1>8. ASSUME NEW g \in Probers, DialQUIC(g) PROVE ReadInv'
  <2> DEFINE c == CHOOSE free \in Free : TRUE
  <2>1. c \in Free
      BY <1>8 DEF DialQUIC
  <2>2. CASE /\ DialConnected(g) /\ Arrive(c)
             /\ conn' = [conn EXCEPT ![c] = "up"]
             /\ uses' = [uses EXCEPT ![g] = c]
    <3> HIDE DEF c
    <3>1. \A d \in Held' : d \in Held /\ d # c
        BY <1>8, <2>1, <2>2 DEF Types, DialQUIC, DialConnected, Goto, Held, Free
    <3>2. HeldServed'
        BY <1>8, <2>1, <2>2, <3>1 DEF Types, DialQUIC, ReadInv, HeldServed, Held
    <3>3. QueueFresh'
        BY <1>8, <2>1, <2>2, QueueArrive DEF DialQUIC, ReadInv, Free
    <3> QED
        BY <3>2, <3>3 DEF ReadInv
  <2>3. CASE DialFails(g) /\ UNCHANGED <<acceptQ, conn, uses>>
    <3>1. \A d \in Held' : d \in Held
        BY <1>8, <2>3 DEF Types, DialQUIC, DialFails, Goto, Held
    <3> QED
        BY <1>8, <2>3, <3>1, ReadQuiet DEF DialQUIC
  <2> QED
      BY <1>8, <2>2, <2>3 DEF DialQUIC
<1>9. ASSUME NEW g \in Probers, Request(g) PROVE ReadInv'
  <2>1. uses[g] \in Conns
      BY <1>9 DEF Request, Types
  <2> QED
      BY <1>9, <2>1, ReadServer DEF Request, RequestArrives, Served
<1>10. ASSUME NEW g \in Probers, DialEnds(g) PROVE ReadInv'
  <2>1. \A c \in Held' : c \in Held \/ srv[c] \in Served
      BY <1>10 DEF Types, DialEnds, DialReturns, DialFails, Goto, Held, Served
  <2> QED
      BY <1>10, <2>1, ReadQuiet DEF DialEnds
<1>11. ASSUME NEW g \in Probers, CommitDial(g) PROVE ReadInv'
  <2>1. \A c \in Held' : c \in Held
      BY <1>11 DEF Types, CommitDial, Commit, CommitLate, Goto, Held
  <2>2. \A c \in Conns : conn'[c] = "up" => conn[c] = "up"
      BY <1>11 DEF Types, CommitDial
  <2> QED
      BY <1>11, <2>1, <2>2, ReadQuiet DEF CommitDial
<1>12. ASSUME NEW g \in Probers, InstallDial(g) PROVE ReadInv'
  <2>1. \A c \in Held' : c \in Held
      BY <1>12 DEF Types, InstallDial, Install, Goto, Held
  <2> QED
      BY <1>12, <2>1, ReadQuiet DEF InstallDial
<1>13. ASSUME NEW c \in Conns, ServerStep(c) PROVE ReadInv'
  <2> USE DEF ServerStep, Served
  <2>1. CASE Reply(c)
      BY <1>13, <2>1, ReadServer DEF Reply
  <2>2. CASE HandlerOk(c)
      BY <1>13, <2>2, ReadServer DEF HandlerOk
  <2>3. CASE HandlerFails(c)
      BY <1>13, <2>3, ReadServer DEF HandlerFails
  <2>4. CASE handleDirectConnect(c)
      BY <1>13, <2>4, ReadServer DEF handleDirectConnect
  <2>5. CASE ProxyForwardEnds(c)
      BY <1>13, <2>5, ReadServer DEF ProxyForwardEnds
  <2> QED
      BY <1>13, <2>1, <2>2, <2>3, <2>4, <2>5
<1>14. ASSUME NEW c \in Conns, ClientForwardEnds(c) PROVE ReadInv'
  <2>1. \A d \in Held' : d \in Held
      BY <1>14, ConnAssumption DEF ClientForwardEnds, DirectPathEnds, Held
  <2> QED
      BY <1>14, <2>1, ReadQuiet DEF ClientForwardEnds
<1>15. ASSUME NEW c \in Conns, IdleTimeout(c) PROVE ReadInv'
  <2>1. \A d \in Conns : conn'[d] = "up" => conn[d] = "up"
      BY <1>15 DEF Types, IdleTimeout
  <2>2. Held' = Held
      BY <1>15 DEF IdleTimeout, Held
  <2> QED
      BY <1>15, <2>1, <2>2, ReadQuiet DEF IdleTimeout
<1>16. CASE UNCHANGED vars
    BY <1>16, ReadQuiet DEF vars, Held
<1> QED
    BY <1>1, <1>2, <1>3, <1>4, <1>5, <1>6, <1>7, <1>8, <1>9, <1>10, <1>11, <1>12, <1>13,
       <1>14, <1>15, <1>16 DEF Next, ProberStep

\* DirectPathRead for any number of goroutines, addresses and connections and any length
\* of the accept queue: the connection that tryPromotePath hands to SetConn has a reader
\* on the proxy, or one that handleDirectConnect is about to start, as long as it is up.
THEOREM DirectPathHasReader == Spec => []DirectPathRead
<1>1. Init => Types /\ ReadInv
  <2>1. Init => HeldServed
      BY DEF Init, ListenerInit, HeldServed, Held
  <2>2. Init => QueueFresh
      BY DEF Init, ListenerInit, QueueFresh
  <2> QED
      BY <2>1, <2>2, TypesInit DEF ReadInv
<1>2. Types /\ ReadInv /\ [Next]_vars => (Types /\ ReadInv)'
    BY TypesInductive, ReadInductive
<1>3. Types /\ ReadInv => DirectPathRead
    BY DEF Types, ReadInv, HeldServed, Held, Served, DirectPathRead
<1> QED
    BY <1>1, <1>2, <1>3, PTL DEF Spec

----------------------------------------------------------------------------
(* Types: the rest of TypeOK. *)

\* Only usable addresses are probed, dialled or put into the cooldown table.
AddrInv ==
    /\ probeCooldown \subseteq IPv4 /\ fresh \subseteq IPv4
    /\ addr \in [Probers -> IPv4 \cup {NoAddr}]
    /\ \A g \in Probers : prober[g] # "none" => addr[g] \in IPv4

ListenerTypes ==
    /\ Len(acceptQ) <= AcceptCap
    /\ handling \in Conns \cup {None}

Booleans == reachable \in BOOLEAN /\ proxyDirect \in BOOLEAN

LEMMA AddrInductive == Types /\ AddrInv /\ [Next]_vars => AddrInv'
<1> SUFFICES ASSUME Types, AddrInv, [Next]_vars PROVE AddrInv'
    OBVIOUS
<1> USE DEF AddrInv, probingVars
<1>1. CASE Alone(RelayConnected) BY <1>1 DEF Alone, RelayConnected
<1>2. CASE ReceiveStep BY <1>2 DEF ReceiveStep, Alone, ReceiveCandidates
<1>3. CASE AcceptStep BY <1>3 DEF AcceptStep
<1>4. CASE NetworkChanges BY <1>4 DEF NetworkChanges
<1>5. ASSUME NEW a \in IPv4, Alone(CooldownEnds(a) \/ CheckCooldown(a)) PROVE AddrInv'
  <2>1. CASE CooldownEnds(a) BY <2>1 DEF CooldownEnds
  <2>2. CASE CheckCooldown(a)
    <3> DEFINE idle == {h \in Probers : prober[h] = "none"}
               g == CHOOSE any \in idle : TRUE
    <3>1. CASE UNCHANGED <<prober, addr>>
        BY <2>2, <3>1 DEF CheckCooldown
    <3>2. CASE /\ idle # {} /\ prober' = [prober EXCEPT ![g] = "start"]
               /\ addr' = [addr EXCEPT ![g] = a]
      <4>1. g \in Probers
          BY <3>2
      <4> HIDE DEF g
      <4> QED
          BY <2>2, <3>2, <4>1 DEF CheckCooldown, Types
    <3> QED
        BY <2>2, <3>1, <3>2 DEF CheckCooldown
  <2> QED
      BY <1>5, <2>1, <2>2 DEF Alone
<1>6. ASSUME NEW g \in Probers, LoopStep(g) PROVE AddrInv'
    BY <1>6 DEF LoopStep, Alone, CheckDirect, ProbeAgain, TimeLeft, PromoteCheck, Goto, Types
<1>7. ASSUME NEW g \in Probers, Alone(TimeUp(g)) PROVE AddrInv'
    BY <1>7 DEF Alone, TimeUp, Goto, Types
<1>8. ASSUME NEW g \in Probers, Probe(g) PROVE AddrInv'
  <2>1. PICK state \in {"promote", "none", "head"} : Goto(g, state) /\ prober[g] = "probe"
      BY <1>8 DEF Probe, ProbeOk, ProbeFails
  <2>2. probeCooldown' \subseteq IPv4 /\ fresh' = fresh
      BY <1>8 DEF Probe, ProbeOk, ProbeFails
  <2>3. addr' \in [Probers -> IPv4 \cup {NoAddr}]
      BY <2>1 DEF Goto
  <2>4. \A h \in Probers : prober'[h] # "none" => addr'[h] \in IPv4
      BY <2>1 DEF Goto, Types
  <2> QED
      BY <2>2, <2>3, <2>4
<1>9. ASSUME NEW g \in Probers, DialQUIC(g) PROVE AddrInv'
  <2>1. DialConnected(g) \/ DialFails(g)
      BY <1>9 DEF DialQUIC
  <2> QED
      BY <2>1 DEF DialConnected, DialFails, Goto, Types
<1>10. ASSUME NEW g \in Probers, Request(g) PROVE AddrInv'
    BY <1>10 DEF Request
<1>11. ASSUME NEW g \in Probers, DialEnds(g) PROVE AddrInv'
  <2>1. DialReturns(g) \/ DialFails(g)
      BY <1>11 DEF DialEnds
  <2> QED
      BY <2>1 DEF DialReturns, DialFails, Goto, Types
<1>12. ASSUME NEW g \in Probers, CommitDial(g) PROVE AddrInv'
  <2>1. Commit(g) \/ CommitLate(g)
      BY <1>12 DEF CommitDial
  <2> QED
      BY <2>1 DEF Commit, CommitLate, Goto, Types
<1>13. ASSUME NEW g \in Probers, InstallDial(g) PROVE AddrInv'
    BY <1>13 DEF InstallDial, Install, Goto, Types
<1>14. ASSUME NEW c \in Conns, ServerStep(c) PROVE AddrInv'
    BY <1>14 DEF ServerStep
<1>15. ASSUME NEW c \in Conns, ClientForwardEnds(c) PROVE AddrInv'
    BY <1>15 DEF ClientForwardEnds, DirectPathEnds
<1>16. ASSUME NEW c \in Conns, IdleTimeout(c) PROVE AddrInv'
    BY <1>16 DEF IdleTimeout
<1>17. CASE UNCHANGED vars BY <1>17 DEF vars
<1> QED
    BY <1>1, <1>2, <1>3, <1>4, <1>5, <1>6, <1>7, <1>8, <1>9, <1>10, <1>11, <1>12, <1>13,
       <1>14, <1>15, <1>16, <1>17 DEF Next, ProberStep

\* What a step may do to the queue: nothing, take the head, or add an item if there is room.
LEMMA QueueSteps ==
    ASSUME Types, [Next]_vars
    PROVE  \/ acceptQ' = acceptQ
           \/ acceptQ # <<>> /\ acceptQ' = Tail(acceptQ)
           \/ \E item \in Conns \cup {"probe"} :
                 Len(acceptQ) < AcceptCap /\ acceptQ' = Append(acceptQ, item)
<1> USE DEF listenerVars
<1>1. CASE AcceptStep BY <1>1 DEF AcceptStep, AcceptProbe, AcceptConnect
<1>2. ASSUME NEW g \in Probers, Probe(g)
      PROVE  acceptQ' = acceptQ \/ (Len(acceptQ) < AcceptCap /\ acceptQ' = Append(acceptQ, "probe"))
    BY <1>2 DEF Probe, Arrive
<1>3. ASSUME NEW g \in Probers, DialQUIC(g)
      PROVE  \/ acceptQ' = acceptQ
             \/ \E c \in Conns : Len(acceptQ) < AcceptCap /\ acceptQ' = Append(acceptQ, c)
  <2>1. (CHOOSE free \in Free : TRUE) \in Conns
      BY <1>3 DEF DialQUIC, Free
  <2> QED
      BY <1>3, <2>1 DEF DialQUIC, Arrive
<1>4. ASSUME NEW g \in Probers, LoopStep(g) \/ Alone(TimeUp(g)) \/ Request(g) \/ DialEnds(g)
                                \/ CommitDial(g) \/ InstallDial(g)
      PROVE  acceptQ' = acceptQ
    BY <1>4 DEF LoopStep, Alone, Request, RequestArrives, DialEnds, CommitDial, InstallDial
<1>5. ASSUME NEW c \in Conns, ServerStep(c) \/ ClientForwardEnds(c) \/ IdleTimeout(c)
      PROVE  acceptQ' = acceptQ
    BY <1>5 DEF ServerStep, Reply, HandlerOk, HandlerFails, handleDirectConnect,
                ProxyForwardEnds, ClientForwardEnds, IdleTimeout
<1>6. CASE Alone(RelayConnected) \/ ReceiveStep \/ NetworkChanges
    BY <1>6 DEF Alone, ReceiveStep, NetworkChanges
<1>7. ASSUME NEW a \in IPv4, Alone(CooldownEnds(a) \/ CheckCooldown(a))
      PROVE  acceptQ' = acceptQ
    BY <1>7 DEF Alone
<1>8. CASE UNCHANGED vars BY <1>8 DEF vars
<1> QED
    BY <1>1, <1>2, <1>3, <1>4, <1>5, <1>6, <1>7, <1>8 DEF Next, ProberStep

LEMMA ListenerInductive == Types /\ ListenerTypes /\ [Next]_vars => ListenerTypes'
<1> SUFFICES ASSUME Types, ListenerTypes, [Next]_vars PROVE ListenerTypes'
    OBVIOUS
<1>1. Len(acceptQ') <= AcceptCap
  <2>1. Len(acceptQ) \in Nat /\ Len(acceptQ) <= AcceptCap
      BY DEF Types, ListenerTypes
  <2>2. CASE acceptQ' = acceptQ
      BY <2>1, <2>2
  <2>3. CASE acceptQ # <<>> /\ acceptQ' = Tail(acceptQ)
    <3>1. Len(acceptQ') = Len(acceptQ) - 1
        BY <2>3 DEF Types
    <3> QED
        BY <2>1, <3>1, CapAssumption
  <2>4. ASSUME NEW item \in Conns \cup {"probe"}, Len(acceptQ) < AcceptCap,
               acceptQ' = Append(acceptQ, item)
        PROVE  Len(acceptQ') <= AcceptCap
    <3>1. Len(acceptQ') = Len(acceptQ) + 1
        BY <2>4 DEF Types
    <3> QED
        BY <2>1, <2>4, <3>1, CapAssumption
  <2> QED
      BY <2>2, <2>3, <2>4, QueueSteps
<1>2. handling' \in Conns \cup {None}
  <2>1. handling' = handling \/ handling' \in Conns \cup {None}
    BY DEF Next, ProberStep, vars, listenerVars, Alone, ReceiveStep, AcceptStep, AcceptProbe,
           AcceptConnect, NetworkChanges, LoopStep, Probe, DialQUIC, Request, RequestArrives,
           DialEnds, CommitDial, InstallDial, ServerStep, Reply, HandlerOk, HandlerFails,
           handleDirectConnect, ProxyForwardEnds, ClientForwardEnds, IdleTimeout
  <2> QED
      BY <2>1 DEF ListenerTypes
<1> QED
    BY <1>1, <1>2 DEF ListenerTypes

LEMMA BooleansInductive == Booleans /\ [Next]_vars => Booleans'
<1> SUFFICES ASSUME Booleans, [Next]_vars PROVE Booleans'
    OBVIOUS
<1>1. reachable' = reachable \/ reachable' = ~reachable
    BY Zenon DEF Next, ProberStep, vars, Alone, ReceiveStep, AcceptStep, NetworkChanges,
           LoopStep, Probe, DialQUIC, Request, DialEnds, CommitDial, InstallDial, ServerStep,
           ClientForwardEnds, IdleTimeout
<1>2. proxyDirect' = proxyDirect \/ proxyDirect' \in BOOLEAN
    BY Zenon DEF Next, ProberStep, vars, listenerVars, Alone, ReceiveStep, AcceptStep,
           AcceptProbe, AcceptConnect, NetworkChanges, LoopStep, Probe, DialQUIC, Request,
           RequestArrives, DialEnds, CommitDial, InstallDial, ServerStep, Reply, HandlerOk,
           HandlerFails, handleDirectConnect, ProxyForwardEnds, ClientForwardEnds, IdleTimeout
<1> QED
    BY <1>1, <1>2, Zenon DEF Booleans

\* The variables of the set-up keep their types: no address of another IP version is ever
\* dialled or put into the cooldown table (validateCandidates, manager.go:688), and the
\* accept queue never exceeds its capacity.
THEOREM SetupTypeCorrect == Spec => []TypeOK
<1> DEFINE Inv == Types /\ AddrInv /\ ListenerTypes /\ Booleans
<1>1. Init => Inv
  <2>1. Init => AddrInv
      BY DEF Init, ProbingInit, AddrInv
  <2>2. Init => ListenerTypes
      BY CapAssumption DEF Init, ListenerInit, ListenerTypes
  <2>3. Init => Booleans
      BY Zenon DEF Init, ListenerInit, Booleans
  <2> QED
      BY <2>1, <2>2, <2>3, TypesInit
<1>2. Inv /\ [Next]_vars => Inv'
    BY TypesInductive, AddrInductive, ListenerInductive, BooleansInductive
<1>3. Inv => TypeOK
    BY Zenon DEF Types, AddrInv, ListenerTypes, Booleans, TypeOK
<1> QED
    BY <1>1, <1>2, <1>3, PTL DEF Spec

=============================================================================
