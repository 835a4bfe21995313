------------------------ MODULE PathManagerProofs ------------------------
(***************************************************************************)
(* Proofs about PathManager for any number of connections and goroutines.  *)
(***************************************************************************)
EXTENDS PathManager, TLAPS

\* Every step of the manager keeps the types of its variables.
LEMMA TypeInductive == TypeOK /\ [Next]_vars => TypeOK'
<1> SUFFICES ASSUME TypeOK, [Next]_vars PROVE TypeOK'
  OBVIOUS
<1> USE DEF TypeOK, OptRelay, Conns
<1>1. CASE LoopNext
  <2> USE RoleAssumption DEF entryVars, loopVars, retryVars, relayVars, directVars, connVars
  <2>1. CASE ConnectFail BY <2>1 DEF ConnectFail, ConnectStates
  <2>2. CASE ConnectOk BY <2>2 DEF ConnectOk, ConnectStates
  <2>3. CASE RelayLost BY <2>3 DEF RelayLost, ConnectStates
  <2>4. CASE CloseAllSessions BY <2>4 DEF CloseAllSessions, ConnectStates
  <2>5. CASE LoopConnected BY <2>5 DEF LoopConnected, LoopStates
  <2>6. CASE LoopDisconnected BY <2>6 DEF LoopDisconnected, LoopStates
  <2>7. CASE LoopReconnect BY <2>7 DEF LoopReconnect, LoopStates, ConnectStates
  <2>8. CASE SetupClear BY <2>8 DEF SetupClear, LoopStates, IsClient
  <2>9. CASE SetupSpawn BY <2>9 DEF SetupSpawn, StartRetryUnlessRunning, LoopStates, RetryStates
  <2> QED BY <1>1, <2>1, <2>2, <2>3, <2>4, <2>5, <2>6, <2>7, <2>8, <2>9 DEF LoopNext
<1>2. ASSUME NEW r \in Retriers, RetryNext(r) PROVE TypeOK'
  <2> USE DEF entryVars, loopVars, retryVars, relayVars, directVars, connVars, RetryStates
  <2>1. CASE RetryCheck(r) BY <2>1 DEF RetryCheck
  <2>2. CASE RetryIsConnected(r) BY <2>2 DEF RetryIsConnected
  <2>3. CASE RetryBackoff(r) BY <2>3 DEF RetryBackoff
  <2>4. CASE RetryExit(r) BY <2>4 DEF RetryExit
  <2>5. ASSUME NEW c \in RelayConns, RetryNewSession(r, c) PROVE TypeOK'
    BY <2>5 DEF RetryNewSession, OpenSession, RelayStates
  <2> QED BY <1>2, <2>1, <2>2, <2>3, <2>4, <2>5 DEF RetryNext
<1>3. ASSUME NEW c \in RelayConns, RelayNext(c) PROVE TypeOK'
  <2> USE DEF entryVars, loopVars, retryVars, relayVars, directVars, connVars, RelayStates
  <2>1. CASE AcceptIncoming(c) BY <2>1 DEF AcceptIncoming, OpenSession
  <2>2. CASE HandshakeOk(c) BY <2>2 DEF HandshakeOk
  <2>3. CASE HandshakeFail(c) BY <2>3 DEF HandshakeFail, RetryStates
  <2>4. CASE PublishRelay(c) BY <2>4 DEF PublishRelay
  <2>5. CASE CloseDisplaced(c) BY <2>5 DEF CloseDisplaced, CloseRelay
  <2>6. CASE InstallRelay(c) BY <2>6 DEF InstallRelay, RetryStates
  <2>7. CASE ForwardRelayEnd(c) BY <2>7 DEF ForwardRelayEnd, ClearConnIf
  <2>8. CASE RelayBroken(c) BY <2>8 DEF RelayBroken
  <2>9. CASE ReceiveCandidates(c) BY <2>9 DEF ReceiveCandidates
  <2> QED BY <1>3, <2>1, <2>2, <2>3, <2>4, <2>5, <2>6, <2>7, <2>8, <2>9 DEF RelayNext
<1>4. ASSUME NEW d \in DirectConns, DirectNext(d) PROVE TypeOK'
  <2> USE DEF entryVars, loopVars, retryVars, relayVars, directVars, connVars, DirectStates
  <2>1. CASE PromoteStart(d) BY <2>1 DEF PromoteStart
  <2>2. CASE PromoteDialFail(d) BY <2>2 DEF PromoteDialFail
  <2>3. CASE PromoteDialOk(d) BY <2>3 DEF PromoteDialOk
  <2>4. CASE AcceptDirect(d) BY <2>4 DEF AcceptDirect
  <2>5. CASE CommitDirect(d) BY <2>5 DEF CommitDirect
  <2>6. CASE InstallDirect(d) BY <2>6 DEF InstallDirect
  <2>7. CASE DirectBroken(d) BY <2>7 DEF DirectBroken
  <2>8. CASE ForwardDirectEnd(d) BY <2>8 DEF ForwardDirectEnd, ClearConnIf
  <2>9. CASE FallbackClaim(d) BY <2>9 DEF FallbackClaim
  <2>10. CASE FallbackRestoreRead(d) BY <2>10 DEF FallbackRestoreRead
  <2>11. CASE FallbackRestoreSet(d) BY <2>11 DEF FallbackRestoreSet
  <2>12. CASE FallbackDropRelay(d) BY <2>12 DEF FallbackDropRelay
  <2>13. CASE FallbackCloseRelay(d) BY <2>13 DEF FallbackCloseRelay, CloseRelay
  <2>14. CASE FallbackStartRetry(d)
    BY <2>14 DEF FallbackStartRetry, StartRetryUnlessRunning, RetryStates
  <2> QED BY <1>4, <2>1, <2>2, <2>3, <2>4, <2>5, <2>6, <2>7, <2>8, <2>9, <2>10, <2>11,
             <2>12, <2>13, <2>14 DEF DirectNext
<1>5. CASE UNCHANGED vars
  BY <1>5 DEF vars, entryVars, loopVars, retryVars, relayVars, directVars, connVars
<1> QED BY <1>1, <1>2, <1>3, <1>4, <1>5 DEF Next

\* TypeOK is an invariant of the manager, in either role.
THEOREM TypeCorrect == Spec => []TypeOK
<1>1. ASSUME Init PROVE TypeOK
  <2> USE <1>1 DEF Init
  <2>1. /\ hasDirectPath \in BOOLEAN /\ retryingConn \in BOOLEAN
        /\ connectedCh \in BOOLEAN /\ candidates \in BOOLEAN
    OBVIOUS
  <2>2. /\ relayConn \in OptRelay /\ activeConn \in Conns \cup {None}
        /\ live \subseteq Conns /\ closed \subseteq RelayConns
    BY DEF OptRelay
  <2>3. loop \in LoopStates /\ connect \in ConnectStates
    BY DEF LoopStates, ConnectStates
  <2>4. retry \in [Retriers -> RetryStates] /\ dialing \in [Retriers -> OptRelay]
    BY DEF RetryStates, OptRelay
  <2>5. rc \in [RelayConns -> RelayStates] /\ displaced \in [RelayConns -> OptRelay]
    BY DEF RelayStates, OptRelay
  <2>6. dc \in [DirectConns -> DirectStates] /\ saved \in [DirectConns -> OptRelay]
    BY DEF DirectStates, OptRelay
  <2> QED BY <2>1, <2>2, <2>3, <2>4, <2>5, <2>6 DEF TypeOK
<1> QED BY <1>1, TypeInductive, PTL DEF Spec

----------------------------------------------------------------------------
(* retryConnectPeer is single-flight. *)

\* RetryFlagExact is not inductive: the end of a dial moves every goroutine that has
\* the connection in dialing, so such a goroutine has to be one that is dialling.
DialingIsRetrying == \A r \in Retriers : dialing[r] # None => retry[r] = "dial"

RetryInv == RetryFlagExact /\ DialingIsRetrying

\* Starting the goroutine under m.mu behind the flag keeps it the only one.
LEMMA StartRetryKeeps ==
    ASSUME TypeOK, RetryInv, StartRetryUnlessRunning, UNCHANGED dialing
    PROVE  RetryInv'
<1> USE DEF RetryInv, RetryFlagExact, DialingIsRetrying, Retrying, TypeOK, RetryStates
<1>1. CASE retryingConn /\ UNCHANGED <<retryingConn, retry>>
  BY <1>1
<1>2. CASE ~retryingConn /\ retryingConn' = TRUE
  <2>1. PICK r \in Retriers : retry[r] = "none" /\ retry' = [retry EXCEPT ![r] = "check"]
    BY <1>2 DEF StartRetryUnlessRunning
  <2>2. \A q \in Retriers : retry[q] = "none"
    BY <1>2
  <2>3. Retrying' = {r}
    BY <2>1, <2>2
  <2> QED BY <1>2, <2>1, <2>2, <2>3
<1> QED BY <1>1, <1>2 DEF StartRetryUnlessRunning

\* Every step keeps the flag and the goroutines in agreement.
LEMMA RetryInductive == TypeOK /\ RetryInv /\ [Next]_vars => RetryInv'
<1> SUFFICES ASSUME TypeOK, RetryInv, [Next]_vars PROVE RetryInv'
  OBVIOUS
<1> USE DEF RetryInv, RetryFlagExact, DialingIsRetrying, Retrying
<1>1. CASE UNCHANGED <<retryingConn, retryVars>>
  BY <1>1 DEF retryVars
<1>2. CASE SetupSpawn
  BY <1>2, StartRetryKeeps DEF SetupSpawn
<1>3. ASSUME NEW d \in DirectConns, FallbackStartRetry(d) PROVE RetryInv'
  BY <1>3, StartRetryKeeps DEF FallbackStartRetry
<1>4. ASSUME NEW r \in Retriers, RetryNext(r) PROVE RetryInv'
  <2> USE DEF TypeOK, RetryStates, OptRelay
  <2>1. CASE RetryCheck(r) BY <2>1 DEF RetryCheck, entryVars
  <2>2. CASE RetryIsConnected(r) BY <2>2 DEF RetryIsConnected, entryVars
  <2>3. CASE RetryBackoff(r) BY <2>3 DEF RetryBackoff, entryVars
  <2>4. CASE RetryExit(r) BY <2>4 DEF RetryExit
  <2>5. ASSUME NEW c \in RelayConns, RetryNewSession(r, c) PROVE RetryInv'
    BY <2>5 DEF RetryNewSession, entryVars
  <2> QED BY <1>4, <2>1, <2>2, <2>3, <2>4, <2>5 DEF RetryNext
<1>5. ASSUME NEW c \in RelayConns, HandshakeFail(c) PROVE RetryInv'
  BY <1>5, ConnAssumption DEF HandshakeFail, entryVars, TypeOK, RetryStates, OptRelay
<1>6. ASSUME NEW c \in RelayConns, InstallRelay(c) PROVE RetryInv'
  BY <1>6, ConnAssumption DEF InstallRelay, entryVars, TypeOK, RetryStates, OptRelay
<1>7. CASE LoopNext
  BY <1>7, <1>1, <1>2 DEF LoopNext, ConnectFail, ConnectOk, RelayLost, CloseAllSessions,
     LoopConnected, LoopDisconnected, LoopReconnect, SetupClear, entryVars
<1>8. ASSUME NEW c \in RelayConns, RelayNext(c) PROVE RetryInv'
  BY <1>8, <1>1, <1>5, <1>6 DEF RelayNext, AcceptIncoming, HandshakeOk, PublishRelay,
     CloseDisplaced, ForwardRelayEnd, RelayBroken, ReceiveCandidates, entryVars
<1>9. ASSUME NEW d \in DirectConns, DirectNext(d) PROVE RetryInv'
  BY <1>9, <1>1, <1>3 DEF DirectNext, PromoteStart, PromoteDialFail, PromoteDialOk,
     AcceptDirect, CommitDirect, InstallDirect, DirectBroken, ForwardDirectEnd,
     FallbackClaim, FallbackRestoreRead, FallbackRestoreSet, FallbackDropRelay,
     FallbackCloseRelay, entryVars
<1>10. CASE UNCHANGED vars
  BY <1>10, <1>1 DEF vars, entryVars
<1> QED BY <1>4, <1>7, <1>8, <1>9, <1>10 DEF Next

\* At every moment at most one retryConnectPeer goroutine runs for the peer, and
\* retryingConn is set exactly while it does.
THEOREM RetrySingleFlight == Spec => []RetryFlagExact
<1>1. Init => RetryInv
  BY DEF Init, RetryInv, RetryFlagExact, DialingIsRetrying, Retrying
<1>2. RetryInv => RetryFlagExact
  BY DEF RetryInv
<1> QED BY <1>1, <1>2, TypeCorrect, RetryInductive, PTL DEF Spec

----------------------------------------------------------------------------
(* entry.relayConn is never a connection that the manager has closed. *)

\* Until it is published, a session is known to its own goroutine only.
FreshUnknown ==
    \A c \in RelayConns : rc[c] \in {"handshake", "publish"} =>
        /\ c # relayConn /\ c \notin closed
        /\ \A b \in RelayConns : displaced[b] # c
        /\ \A d \in DirectConns : saved[d] # c

\* A connection that some goroutine is about to close is not entry.relayConn.
PendingNotCurrent ==
    /\ \A b \in RelayConns : displaced[b] # None => displaced[b] # relayConn
    /\ \A d \in DirectConns :
           dc[d] = "closeRelay" /\ saved[d] # None => saved[d] # relayConn

ClosedInv == RelayConnNotClosed /\ FreshUnknown /\ PendingNotCurrent

\* Every step of either role keeps ClosedInv.
LEMMA ClosedInductive == TypeOK /\ ClosedInv /\ [Next]_vars => ClosedInv'
<1> SUFFICES ASSUME TypeOK, ClosedInv, [Next]_vars PROVE ClosedInv'
  OBVIOUS
<1> USE ConnAssumption
    DEF ClosedInv, RelayConnNotClosed, FreshUnknown, PendingNotCurrent, TypeOK, OptRelay
<1>1. CASE UNCHANGED <<relayConn, closed, relayVars, directVars>>
  BY <1>1 DEF relayVars, directVars
<1>2. CASE LoopNext
  <2>1. CASE SetupClear
    BY <2>1 DEF SetupClear, relayVars, directVars, connVars
  <2>2. CASE SetupSpawn
    BY <2>2, <1>1 DEF SetupSpawn, connVars
  <2> QED BY <1>1, <1>2, <2>1, <2>2 DEF LoopNext, ConnectFail, ConnectOk, RelayLost,
      CloseAllSessions, LoopConnected, LoopDisconnected, LoopReconnect, entryVars, connVars
<1>3. ASSUME NEW c \in RelayConns, OpenSession(c),
             UNCHANGED <<relayConn, displaced, directVars>>
      PROVE  ClosedInv'
  BY <1>3 DEF OpenSession, FreeRelay, directVars, RelayStates
<1>4. ASSUME NEW r \in Retriers, RetryNext(r) PROVE ClosedInv'
  <2>1. CASE \E c \in RelayConns : RetryNewSession(r, c)
    BY <2>1, <1>3 DEF RetryNewSession, entryVars
  <2> QED BY <1>1, <1>4, <2>1 DEF RetryNext, RetryCheck, RetryIsConnected, RetryBackoff,
      RetryExit, entryVars, connVars
<1>5. ASSUME NEW c \in RelayConns, RelayNext(c) PROVE ClosedInv'
  <2> USE DEF entryVars, directVars, connVars, RelayStates
  <2>1. CASE AcceptIncoming(c) BY <2>1, <1>3 DEF AcceptIncoming
  <2>2. CASE HandshakeOk(c) BY <2>2 DEF HandshakeOk
  <2>3. CASE HandshakeFail(c) BY <2>3 DEF HandshakeFail
  <2>4. CASE PublishRelay(c) BY <2>4 DEF PublishRelay
  <2>5. CASE CloseDisplaced(c) BY <2>5 DEF CloseDisplaced, CloseRelay
  <2>6. CASE InstallRelay(c) BY <2>6 DEF InstallRelay
  <2>7. CASE ForwardRelayEnd(c) BY <2>7 DEF ForwardRelayEnd
  <2>8. CASE RelayBroken(c) \/ ReceiveCandidates(c)
    BY <2>8, <1>1 DEF RelayBroken, ReceiveCandidates
  <2> QED BY <1>5, <2>1, <2>2, <2>3, <2>4, <2>5, <2>6, <2>7, <2>8 DEF RelayNext
<1>6. ASSUME NEW d \in DirectConns, DirectNext(d) PROVE ClosedInv'
  <2> USE DEF entryVars, relayVars, connVars, DirectStates
  <2>1. CASE PromoteStart(d) BY <2>1 DEF PromoteStart
  <2>2. CASE PromoteDialFail(d) BY <2>2 DEF PromoteDialFail
  <2>3. CASE PromoteDialOk(d) BY <2>3 DEF PromoteDialOk
  <2>4. CASE AcceptDirect(d) BY <2>4 DEF AcceptDirect
  <2>5. CASE CommitDirect(d) BY <2>5 DEF CommitDirect
  <2>6. CASE InstallDirect(d) BY <2>6 DEF InstallDirect
  <2>7. CASE DirectBroken(d) BY <2>7, <1>1 DEF DirectBroken
  <2>8. CASE ForwardDirectEnd(d) BY <2>8 DEF ForwardDirectEnd
  <2>9. CASE FallbackClaim(d) BY <2>9 DEF FallbackClaim
  <2>10. CASE FallbackRestoreRead(d) BY <2>10 DEF FallbackRestoreRead
  <2>11. CASE FallbackRestoreSet(d) BY <2>11 DEF FallbackRestoreSet
  <2>12. CASE FallbackDropRelay(d) BY <2>12 DEF FallbackDropRelay
  <2>13. CASE FallbackCloseRelay(d) BY <2>13 DEF FallbackCloseRelay, CloseRelay
  <2>14. CASE FallbackStartRetry(d) BY <2>14 DEF FallbackStartRetry
  <2> QED BY <1>6, <2>1, <2>2, <2>3, <2>4, <2>5, <2>6, <2>7, <2>8, <2>9, <2>10, <2>11,
             <2>12, <2>13, <2>14 DEF DirectNext
<1>7. CASE UNCHANGED vars
  BY <1>7, <1>1 DEF vars, entryVars, connVars
<1> QED BY <1>2, <1>4, <1>5, <1>6, <1>7 DEF Next

\* In either role, entry.relayConn is never a connection the manager itself closed:
\* not by the replacement of a session, and not by fallbackToRelay.
THEOREM RelayConnUsable == Spec => []RelayConnNotClosed
<1>1. Init => ClosedInv
  BY ConnAssumption
     DEF Init, ClosedInv, RelayConnNotClosed, FreshUnknown, PendingNotCurrent
<1>2. ClosedInv => RelayConnNotClosed
  BY DEF ClosedInv
<1> QED BY <1>1, <1>2, TypeCorrect, ClosedInductive, PTL DEF Spec

----------------------------------------------------------------------------
(* The client: hasDirectPath has one owner, and mion's connection has a reader. *)

\* A client never takes the proxy's branch of fallbackToRelay.
NoRestore == \A d \in DirectConns : dc[d] \notin {"restoreRead", "restoreSet"}

ClientInv == DirectFlagOwned /\ ActiveHasReader /\ NoRestore

\* Every step of a client keeps ClientInv.
LEMMA ClientInductive ==
    ASSUME IsClient PROVE TypeOK /\ ClientInv /\ [Next]_vars => ClientInv'
<1> SUFFICES ASSUME TypeOK, ClientInv, [Next]_vars PROVE ClientInv'
  OBVIOUS
<1> USE IsClient, ConnAssumption
    DEF ClientInv, DirectFlagOwned, HoldsPath, ActiveHasReader, NoRestore, TypeOK, Conns
<1>1. CASE UNCHANGED <<hasDirectPath, activeConn, rc, dc>>
  BY <1>1
<1>2. CASE LoopNext
  BY <1>1, <1>2 DEF LoopNext, ConnectFail, ConnectOk, RelayLost, CloseAllSessions,
     LoopConnected, LoopDisconnected, LoopReconnect, SetupClear, SetupSpawn, entryVars,
     relayVars, directVars
<1>3. ASSUME NEW c \in RelayConns, OpenSession(c), UNCHANGED <<hasDirectPath, activeConn, dc>>
      PROVE  ClientInv'
  BY <1>3 DEF OpenSession, FreeRelay
<1>4. ASSUME NEW r \in Retriers, RetryNext(r) PROVE ClientInv'
  <2>1. CASE \E c \in RelayConns : RetryNewSession(r, c)
    BY <2>1, <1>3 DEF RetryNewSession, entryVars, directVars
  <2> QED BY <1>1, <1>4, <2>1 DEF RetryNext, RetryCheck, RetryIsConnected, RetryBackoff,
      RetryExit, entryVars, relayVars, directVars
<1>5. ASSUME NEW c \in RelayConns, RelayNext(c) PROVE ClientInv'
  <2> USE DEF entryVars, directVars, relayVars
  <2>1. CASE AcceptIncoming(c) BY <2>1 DEF AcceptIncoming
  <2>2. CASE HandshakeOk(c) BY <2>2 DEF HandshakeOk
  <2>3. CASE HandshakeFail(c) BY <2>3 DEF HandshakeFail
  <2>4. CASE PublishRelay(c) BY <2>4 DEF PublishRelay
  <2>5. CASE CloseDisplaced(c) BY <2>5 DEF CloseDisplaced
  <2>6. CASE InstallRelay(c) BY <2>6 DEF InstallRelay
  <2>7. CASE ForwardRelayEnd(c) BY <2>7 DEF ForwardRelayEnd, ClearConnIf
  <2>8. CASE RelayBroken(c) \/ ReceiveCandidates(c)
    BY <2>8, <1>1 DEF RelayBroken, ReceiveCandidates
  <2> QED BY <1>5, <2>1, <2>2, <2>3, <2>4, <2>5, <2>6, <2>7, <2>8 DEF RelayNext
<1>6. ASSUME NEW d \in DirectConns, DirectNext(d) PROVE ClientInv'
  <2> USE DEF entryVars, relayVars, directVars, DirectStates
  <2>1. CASE PromoteStart(d) BY <2>1 DEF PromoteStart, FreeDirect
  <2>2. CASE PromoteDialFail(d) BY <2>2 DEF PromoteDialFail
  <2>3. CASE PromoteDialOk(d) BY <2>3 DEF PromoteDialOk
  <2>4. CASE AcceptDirect(d) BY <2>4 DEF AcceptDirect
  <2>5. CASE CommitDirect(d) BY <2>5 DEF CommitDirect, PromotionLost
  <2>6. CASE InstallDirect(d) BY <2>6 DEF InstallDirect
  <2>7. CASE DirectBroken(d) BY <2>7, <1>1 DEF DirectBroken
  <2>8. CASE ForwardDirectEnd(d) BY <2>8 DEF ForwardDirectEnd, ClearConnIf
  <2>9. CASE FallbackClaim(d) BY <2>9 DEF FallbackClaim
  <2>10. CASE FallbackRestoreRead(d) BY <2>10 DEF FallbackRestoreRead
  <2>11. CASE FallbackRestoreSet(d) BY <2>11 DEF FallbackRestoreSet
  <2>12. CASE FallbackDropRelay(d) BY <2>12 DEF FallbackDropRelay
  <2>13. CASE FallbackCloseRelay(d) BY <2>13 DEF FallbackCloseRelay
  <2>14. CASE FallbackStartRetry(d) BY <2>14 DEF FallbackStartRetry
  <2> QED BY <1>6, <2>1, <2>2, <2>3, <2>4, <2>5, <2>6, <2>7, <2>8, <2>9, <2>10, <2>11,
             <2>12, <2>13, <2>14 DEF DirectNext
<1>7. CASE UNCHANGED vars
  BY <1>7, <1>1 DEF vars, entryVars, relayVars, directVars
<1> QED BY <1>2, <1>4, <1>5, <1>6, <1>7 DEF Next

\* ClientInv is an invariant of a client.
LEMMA ClientInvariant == ASSUME IsClient PROVE Spec => []ClientInv
<1>1. Init => ClientInv
  BY ConnAssumption
     DEF Init, ClientInv, DirectFlagOwned, HoldsPath, ActiveHasReader, NoRestore
<1>2. TypeOK /\ ClientInv /\ [Next]_vars => ClientInv'
  BY ClientInductive
<1> QED BY <1>1, <1>2, TypeCorrect, PTL DEF Spec

\* On a client, hasDirectPath is set exactly while one direct connection holds the
\* path, however many promotions race.
THEOREM ClientDirectFlag == ASSUME IsClient PROVE Spec => []DirectFlagOwned
<1>1. ClientInv => DirectFlagOwned
  BY DEF ClientInv
<1> QED BY <1>1, ClientInvariant, PTL

\* On a client, mion never sends on a connection that no forwarder reads.
THEOREM ClientActiveRead == ASSUME IsClient PROVE Spec => []ActiveHasReader
<1>1. ClientInv => ActiveHasReader
  BY DEF ClientInv
<1> QED BY <1>1, ClientInvariant, PTL

----------------------------------------------------------------------------
(* The proxy: no working session is lost. *)

\* A proxy never takes the client's branch of fallbackToRelay.
NoDrop == \A d \in DirectConns : dc[d] \notin {"dropRelay", "closeRelay"}

\* A goroutine remembers a replaced connection only between the swap and the Close.
DisplacedIsClosing ==
    \A b \in RelayConns : displaced[b] # None => rc[b] = "closeOld"

ProxyInv == NoLostSession /\ NoDrop /\ DisplacedIsClosing

\* Every step of a proxy keeps ProxyInv.
LEMMA ProxyInductive ==
    ASSUME ~IsClient PROVE TypeOK /\ ProxyInv /\ [Next]_vars => ProxyInv'
<1> SUFFICES ASSUME TypeOK, ProxyInv, [Next]_vars PROVE ProxyInv'
  OBVIOUS
<1> USE ~IsClient, ConnAssumption
    DEF ProxyInv, NoLostSession, Published, PendingClose, NoDrop, DisplacedIsClosing,
        TypeOK, OptRelay, Conns
<1>1. CASE /\ UNCHANGED <<relayConn, rc, displaced, dc, saved>>
           /\ live' \cap RelayConns \subseteq live
  BY <1>1
<1>2. CASE LoopNext
  BY <1>1, <1>2 DEF LoopNext, ConnectFail, ConnectOk, RelayLost, CloseAllSessions,
     LoopConnected, LoopDisconnected, LoopReconnect, SetupClear, SetupSpawn, entryVars,
     relayVars, directVars, connVars
<1>3. ASSUME NEW c \in RelayConns, OpenSession(c), UNCHANGED <<relayConn, displaced, dc, saved>>
      PROVE  ProxyInv'
  BY <1>3 DEF OpenSession, FreeRelay, RelayStates
<1>4. ASSUME NEW r \in Retriers, RetryNext(r) PROVE ProxyInv'
  <2>1. CASE \E c \in RelayConns : RetryNewSession(r, c)
    BY <2>1, <1>3 DEF RetryNewSession, entryVars, directVars
  <2> QED BY <1>1, <1>4, <2>1 DEF RetryNext, RetryCheck, RetryIsConnected, RetryBackoff,
      RetryExit, entryVars, relayVars, directVars, connVars
<1>5. ASSUME NEW c \in RelayConns, RelayNext(c) PROVE ProxyInv'
  <2> USE DEF entryVars, directVars, relayVars, connVars, RelayStates
  <2>1. CASE AcceptIncoming(c) BY <2>1, <1>3 DEF AcceptIncoming
  <2>2. CASE HandshakeOk(c) BY <2>2 DEF HandshakeOk
  <2>3. CASE HandshakeFail(c) BY <2>3 DEF HandshakeFail
  <2>4. CASE PublishRelay(c) BY <2>4 DEF PublishRelay
  <2>5. CASE CloseDisplaced(c) BY <2>5 DEF CloseDisplaced, CloseRelay
  <2>6. CASE InstallRelay(c) BY <2>6 DEF InstallRelay
  <2>7. CASE ForwardRelayEnd(c) BY <2>7 DEF ForwardRelayEnd
  <2>8. CASE RelayBroken(c) \/ ReceiveCandidates(c)
    BY <2>8, <1>1 DEF RelayBroken, ReceiveCandidates
  <2> QED BY <1>5, <2>1, <2>2, <2>3, <2>4, <2>5, <2>6, <2>7, <2>8 DEF RelayNext
<1>6. ASSUME NEW d \in DirectConns, DirectNext(d) PROVE ProxyInv'
  <2> USE DEF entryVars, relayVars, directVars, connVars, DirectStates
  <2>1. CASE PromoteStart(d) BY <2>1 DEF PromoteStart
  <2>2. CASE PromoteDialFail(d) BY <2>2 DEF PromoteDialFail
  <2>3. CASE PromoteDialOk(d) BY <2>3 DEF PromoteDialOk
  <2>4. CASE AcceptDirect(d) BY <2>4 DEF AcceptDirect
  <2>5. CASE CommitDirect(d) BY <2>5 DEF CommitDirect
  <2>6. CASE InstallDirect(d) BY <2>6 DEF InstallDirect
  <2>7. CASE DirectBroken(d) BY <2>7, <1>1 DEF DirectBroken
  <2>8. CASE ForwardDirectEnd(d) BY <2>8 DEF ForwardDirectEnd
  <2>9. CASE FallbackClaim(d) BY <2>9 DEF FallbackClaim
  <2>10. CASE FallbackRestoreRead(d) BY <2>10 DEF FallbackRestoreRead
  <2>11. CASE FallbackRestoreSet(d) BY <2>11 DEF FallbackRestoreSet
  <2>12. CASE FallbackDropRelay(d) BY <2>12 DEF FallbackDropRelay
  <2>13. CASE FallbackCloseRelay(d) BY <2>13 DEF FallbackCloseRelay
  <2>14. CASE FallbackStartRetry(d) BY <2>14 DEF FallbackStartRetry
  <2> QED BY <1>6, <2>1, <2>2, <2>3, <2>4, <2>5, <2>6, <2>7, <2>8, <2>9, <2>10, <2>11,
             <2>12, <2>13, <2>14 DEF DirectNext
<1>7. CASE UNCHANGED vars
  BY <1>7, <1>1 DEF vars, entryVars, relayVars, directVars, connVars
<1> QED BY <1>2, <1>4, <1>5, <1>6, <1>7 DEF Next

\* A proxy never loses a relay session that still works: each published one is
\* entry.relayConn, or the goroutine that replaced it is about to close it.
THEOREM ProxyKeepsSessions == ASSUME ~IsClient PROVE Spec => []NoLostSession
<1>1. Init => ProxyInv
  BY DEF Init, ProxyInv, NoLostSession, Published, NoDrop, DisplacedIsClosing
<1>2. TypeOK /\ ProxyInv /\ [Next]_vars => ProxyInv'
  BY ProxyInductive
<1>3. ProxyInv => NoLostSession
  BY DEF ProxyInv
<1> QED BY <1>1, <1>2, <1>3, TypeCorrect, PTL DEF Spec

----------------------------------------------------------------------------
(* hasDirectPath "is true while a direct CONNECT-IP path is active". *)

\* On a client, hasDirectPath is set while mion sends on a direct connection.
THEOREM ClientDirectFlagged == ASSUME IsClient PROVE Spec => []DirectActiveFlagged
<1>1. ClientInv => DirectActiveFlagged
  BY DEF ClientInv, DirectFlagOwned, HoldsPath, ActiveHasReader, DirectActiveFlagged
<1> QED BY <1>1, ClientInvariant, PTL

\* No direct connection takes the path while another one still holds it.  The proxy
\* does not see to that: handleDirectConnect takes every connection that comes in.
OnePathAtATime == \A d, e \in DirectConns : HoldsPath(d) /\ HoldsPath(e) => d = e

PathInv ==
    /\ hasDirectPath <=> \E d \in DirectConns : HoldsPath(d)
    /\ activeConn \in DirectConns => dc[activeConn] = "forward"

\* While connections hold the path one at a time, every step keeps the flag right.
LEMMA PathInductive == TypeOK /\ OnePathAtATime /\ PathInv /\ [Next]_vars => PathInv'
<1> SUFFICES ASSUME TypeOK, OnePathAtATime, PathInv, [Next]_vars PROVE PathInv'
  OBVIOUS
<1>0. dc \in [DirectConns -> DirectStates] /\ saved \in [DirectConns -> OptRelay]
  BY Zenon DEF TypeOK
\* Steps that touch neither the flag nor a direct connection, nor make one active.
<1>1. ASSUME UNCHANGED <<hasDirectPath, dc>>,
             activeConn' \in DirectConns => activeConn' = activeConn
      PROVE  PathInv'
  BY <1>1 DEF PathInv, HoldsPath
\* Steps of a direct connection that does not hold the path, before or after.
<1>2. ASSUME NEW d \in DirectConns, NEW q, ~HoldsPath(d), dc' = [dc EXCEPT ![d] = q],
             q \notin {"setConn", "forward", "fallback"}, UNCHANGED hasDirectPath,
             activeConn' \in DirectConns => activeConn' = activeConn
      PROVE  PathInv'
  <2>1. \A e \in DirectConns : dc'[e] = IF e = d THEN q ELSE dc[e]
    BY <1>0, <1>2
  <2>2. \A e \in DirectConns : HoldsPath(e)' <=> HoldsPath(e)
    BY <1>2, <2>1 DEF HoldsPath
  <2>3. activeConn' \in DirectConns => dc'[activeConn'] = "forward"
    BY <1>2, <2>1 DEF PathInv, HoldsPath
  <2> QED BY <1>2, <2>2, <2>3 DEF PathInv
<1>3. CASE LoopNext
  BY <1>1, <1>3 DEF LoopNext, ConnectFail, ConnectOk, RelayLost, CloseAllSessions,
     LoopConnected, LoopDisconnected, LoopReconnect, SetupClear, SetupSpawn, entryVars,
     directVars
<1>4. ASSUME NEW r \in Retriers, RetryNext(r) PROVE PathInv'
  <2>1. UNCHANGED <<hasDirectPath, dc, activeConn>>
    BY <1>4, Zenon DEF RetryNext, RetryCheck, RetryIsConnected, RetryBackoff, RetryExit,
       RetryNewSession, entryVars, directVars
  <2> QED BY <1>1, <2>1
<1>5. ASSUME NEW c \in RelayConns, RelayNext(c) PROVE PathInv'
  <2>1. UNCHANGED <<hasDirectPath, dc>>
    BY <1>5, Zenon DEF RelayNext, AcceptIncoming, HandshakeOk, HandshakeFail, PublishRelay,
       CloseDisplaced, InstallRelay, ForwardRelayEnd, RelayBroken, ReceiveCandidates,
       entryVars, directVars
  <2>2. activeConn' \in {activeConn, None, c}
    BY <1>5, Zenon DEF RelayNext, AcceptIncoming, HandshakeOk, HandshakeFail, PublishRelay,
       CloseDisplaced, InstallRelay, ForwardRelayEnd, RelayBroken, ReceiveCandidates,
       ClearConnIf
  <2>3. c \notin DirectConns /\ None \notin DirectConns
    BY ConnAssumption
  <2> QED BY <1>1, <2>1, <2>2, <2>3
<1>6. ASSUME NEW d \in DirectConns, DirectNext(d) PROVE PathInv'
  <2>0. None \notin DirectConns /\ RelayConns \cap DirectConns = {}
    BY ConnAssumption
  <2>1. CASE PromoteStart(d) \/ PromoteDialFail(d) \/ PromoteDialOk(d) \/ AcceptDirect(d)
    BY <1>2, <2>1 DEF PromoteStart, PromoteDialFail, PromoteDialOk, AcceptDirect, FreeDirect,
       HoldsPath, entryVars
  <2>2. CASE CommitDirect(d)
    <3>1. CASE PromotionLost
      BY <1>2, <2>2, <3>1 DEF CommitDirect, HoldsPath
    <3>2. CASE ~PromotionLost
      <4>1. /\ dc[d] = "commit" /\ dc' = [dc EXCEPT ![d] = "setConn"]
            /\ hasDirectPath' = TRUE /\ activeConn' = activeConn
        BY <2>2, <3>2 DEF CommitDirect
      <4>2. \A e \in DirectConns : dc'[e] = IF e = d THEN "setConn" ELSE dc[e]
        BY <1>0, <4>1
      <4> QED BY <4>1, <4>2 DEF PathInv, HoldsPath
    <3> QED BY <3>1, <3>2
  <2>3. CASE InstallDirect(d)
    <3>1. /\ dc[d] = "setConn" /\ dc' = [dc EXCEPT ![d] = "forward"] /\ activeConn' = d
          /\ hasDirectPath' = hasDirectPath
      BY <2>3 DEF InstallDirect, entryVars
    <3>2. \A e \in DirectConns : dc'[e] = IF e = d THEN "forward" ELSE dc[e]
      BY <1>0, <3>1
    <3> QED BY <3>1, <3>2 DEF PathInv, HoldsPath
  <2>4. CASE DirectBroken(d)
    BY <1>1, <2>4 DEF DirectBroken, entryVars, directVars
  <2>5. CASE ForwardDirectEnd(d)
    <3>1. /\ dc[d] = "forward" /\ dc' = [dc EXCEPT ![d] = "fallback"]
          /\ activeConn' = IF activeConn = d THEN None ELSE activeConn
          /\ hasDirectPath' = hasDirectPath
      BY <2>5 DEF ForwardDirectEnd, ClearConnIf, entryVars
    <3>2. \A e \in DirectConns : dc'[e] = IF e = d THEN "fallback" ELSE dc[e]
      BY <1>0, <3>1
    <3>3. hasDirectPath' <=> \E e \in DirectConns : HoldsPath(e)'
      BY <3>1, <3>2 DEF PathInv, HoldsPath
    <3>4. activeConn' \in DirectConns => dc'[activeConn'] = "forward"
      BY <2>0, <3>1, <3>2 DEF PathInv
    <3> QED BY <3>3, <3>4 DEF PathInv
  <2>6. CASE FallbackClaim(d)
    <3>1. /\ dc[d] = "fallback" /\ hasDirectPath' = FALSE /\ activeConn' = activeConn
          /\ \E q \in {"idle", "dropRelay", "restoreRead"} : dc' = [dc EXCEPT ![d] = q]
      BY <2>6, Zenon DEF FallbackClaim
    <3>2. PICK q \in {"idle", "dropRelay", "restoreRead"} : dc' = [dc EXCEPT ![d] = q]
      BY <3>1, Zenon
    <3>3. \A e \in DirectConns : dc'[e] = IF e = d THEN q ELSE dc[e]
      BY <1>0, <3>2
    <3>4. \A e \in DirectConns : ~HoldsPath(e)'
      BY <3>1, <3>3 DEF OnePathAtATime, HoldsPath
    <3>5. activeConn' \in DirectConns => dc'[activeConn'] = "forward"
      BY <3>1, <3>3 DEF PathInv
    <3> QED BY <3>1, <3>4, <3>5 DEF PathInv
  <2>7. CASE FallbackRestoreRead(d) \/ FallbackDropRelay(d) \/ FallbackCloseRelay(d)
    BY <1>2, <2>7 DEF FallbackRestoreRead, FallbackDropRelay, FallbackCloseRelay, HoldsPath,
       entryVars
  <2>8. CASE FallbackStartRetry(d)
    BY <1>2, <2>8 DEF FallbackStartRetry, HoldsPath
  <2>9. CASE FallbackRestoreSet(d)
    <3>1. activeConn' \notin DirectConns
      BY <1>0, <2>0, <2>9 DEF FallbackRestoreSet, OptRelay
    <3> QED BY <1>2, <2>9, <3>1 DEF FallbackRestoreSet, HoldsPath, entryVars
  <2> QED BY <1>6, <2>1, <2>2, <2>3, <2>4, <2>5, <2>6, <2>7, <2>8, <2>9 DEF DirectNext
<1>7. CASE UNCHANGED vars
  BY <1>1, <1>7 DEF vars, entryVars, directVars
<1> QED BY <1>3, <1>4, <1>5, <1>6, <1>7 DEF Next

\* In either role, hasDirectPath is set while mion sends on a direct connection, as long
\* as direct connections hold the path one at a time: a connection that takes it from
\* another is the only way to a cleared flag beside a working direct path.
THEOREM DirectFlaggedIfOnePath == Spec /\ []OnePathAtATime => []DirectActiveFlagged
<1>1. Init => PathInv
  BY ConnAssumption DEF Init, PathInv, HoldsPath
<1>2. PathInv => DirectActiveFlagged
  BY DEF PathInv, HoldsPath, DirectActiveFlagged
<1> QED BY <1>1, <1>2, TypeCorrect, PathInductive, PTL DEF Spec

----------------------------------------------------------------------------
(* When the client's retryConnectPeer is lost. *)

\* The goroutine will return without another look at the entry, although its flag is
\* still set: it has seen a connection, or has published one itself.
Settled(r) ==
    \/ retry[r] = "exit"
    \/ \E c \in RelayConns : dialing[r] = c /\ rc[c] \in {"closeOld", "setConn"}

\* A step that does not skip the start of a goroutine because of one that is settled.
StartHeard ==
    SetupSpawn \/ (\E d \in DirectConns : FallbackStartRetry(d)) =>
        \A r \in Retriers : ~Settled(r)

\* The goroutine will look at the entry again.
Seeking(r) == retry[r] # "none" /\ ~Settled(r)

\* The goroutine of d will start one.
Dropping(d) == dc[d] \in {"dropRelay", "closeRelay", "startRetry"}

\* The client has neither kind of path, and the loop has nothing left to do about it.
Pathless == loop = "wait" /\ relayConn = None /\ ~hasDirectPath

SoughtInv ==
    Pathless => (\E r \in Retriers : Seeking(r)) \/ \E d \in DirectConns : Dropping(d)

\* Steps that end no search.
LEMMA SoughtKept ==
    ASSUME SoughtInv, Pathless' => Pathless,
           \A r \in Retriers : Seeking(r) => Seeking(r)',
           \A d \in DirectConns : Dropping(d) => Dropping(d)'
    PROVE  SoughtInv'
  BY Zenon DEF SoughtInv

\* Unless a settled goroutine is in the way, a start leaves one that is seeking.
LEMMA StartSeeks ==
    ASSUME TypeOK, RetryInv, StartRetryUnlessRunning, \A r \in Retriers : ~Settled(r),
           UNCHANGED <<dialing, rc>>
    PROVE  \E r \in Retriers : Seeking(r)'
<1>1. CASE retryingConn /\ UNCHANGED <<retryingConn, retry>>
  <2>1. PICK r \in Retriers : retry[r] # "none"
    BY <1>1 DEF RetryInv, RetryFlagExact, Retrying
  <2> QED BY <1>1, <2>1 DEF Seeking, Settled
<1>2. CASE ~(retryingConn /\ UNCHANGED <<retryingConn, retry>>)
  <2>1. PICK r \in Retriers : retry[r] = "none" /\ retry' = [retry EXCEPT ![r] = "check"]
    BY <1>2 DEF StartRetryUnlessRunning
  <2>2. retry'[r] = "check"
    BY <2>1 DEF TypeOK
  <2>3. dialing[r] = None
    BY <2>1 DEF RetryInv, DialingIsRetrying
  <2> QED BY <2>2, <2>3, ConnAssumption DEF Seeking, Settled
<1> QED BY <1>1, <1>2

\* Every step of a client that skips no start keeps SoughtInv.
LEMMA SoughtInductive ==
    ASSUME IsClient
    PROVE  TypeOK /\ RetryInv /\ SoughtInv /\ [Next]_vars /\ [StartHeard]_vars => SoughtInv'
<1> SUFFICES ASSUME TypeOK, RetryInv, SoughtInv, [Next]_vars, [StartHeard]_vars
             PROVE  SoughtInv'
  OBVIOUS
<1>0. /\ retry \in [Retriers -> RetryStates] /\ dialing \in [Retriers -> OptRelay]
      /\ rc \in [RelayConns -> RelayStates] /\ dc \in [DirectConns -> DirectStates]
      /\ None \notin RelayConns
  BY ConnAssumption, Zenon DEF TypeOK
\* Steps of the loop before it waits, and steps elsewhere.
<1>1. ASSUME UNCHANGED <<retry, dialing, rc, dc>>, Pathless' => Pathless PROVE SoughtInv'
  BY <1>1, SoughtKept DEF Seeking, Settled, Dropping
<1>2. CASE LoopNext
  <2>1. CASE SetupSpawn
    <3>1. loop = "spawn" /\ loop' = "wait" /\ StartRetryUnlessRunning /\ UNCHANGED <<dialing, rc>>
      BY <2>1 DEF SetupSpawn, relayVars
    <3>2. \A r \in Retriers : ~Settled(r)
      <4>1. StartHeard
        BY <3>1 DEF vars, loopVars
      <4> QED BY <2>1, <4>1, Zenon DEF StartHeard
    <3>3. \E r \in Retriers : Seeking(r)'
      BY <3>1, <3>2, StartSeeks
    <3> QED BY <3>3, Zenon DEF SoughtInv
  <2>2. CASE ~SetupSpawn
    <3>1. UNCHANGED <<retry, dialing, rc, dc>>
      BY <1>2, <2>2, Zenon DEF LoopNext, ConnectFail, ConnectOk, RelayLost, CloseAllSessions,
         LoopConnected, LoopDisconnected, LoopReconnect, SetupClear, retryVars, relayVars,
         directVars
    <3>2. Pathless' => Pathless
      BY <1>2, <2>2 DEF LoopNext, ConnectFail, ConnectOk, RelayLost, CloseAllSessions,
         LoopConnected, LoopDisconnected, LoopReconnect, SetupClear, entryVars, Pathless,
         IsClient
    <3> QED BY <1>1, <3>1, <3>2
  <2> QED BY <2>1, <2>2
<1>3. ASSUME NEW r \in Retriers, RetryNext(r) PROVE SoughtInv'
  <2>1. ASSUME NEW q, retry' = [retry EXCEPT ![r] = q], q \notin {"none", "exit"},
               UNCHANGED <<dialing, rc, dc>>, Pathless' => Pathless
        PROVE  SoughtInv'
    <3>1. \A s \in Retriers : retry'[s] = IF s = r THEN q ELSE retry[s]
      BY <1>0, <2>1
    <3>2. \A s \in Retriers : Seeking(s) => Seeking(s)'
      BY <2>1, <3>1 DEF Seeking, Settled
    <3> QED BY <2>1, <3>2, SoughtKept DEF Dropping
  <2>2. CASE RetryCheck(r)
    <3>1. UNCHANGED <<loop, relayConn, hasDirectPath, dialing, rc, dc>>
      BY <2>2 DEF RetryCheck, entryVars, loopVars, relayVars, directVars
    <3>2. CASE hasDirectPath \/ relayConn # None
      BY <3>1, <3>2 DEF SoughtInv, Pathless
    <3>3. CASE ~(hasDirectPath \/ relayConn # None)
      <4>1. retry' = [retry EXCEPT ![r] = "isConnected"]
        BY <2>2, <3>3 DEF RetryCheck
      <4>2. Pathless' => Pathless
        BY <3>1 DEF Pathless
      <4>3. "isConnected" \notin {"none", "exit"}
        OBVIOUS
      <4> QED BY <2>1, <3>1, <4>1, <4>2, <4>3, Zenon
    <3> QED BY <3>2, <3>3
  <2>3. CASE RetryIsConnected(r)
    <3>1. UNCHANGED <<loop, relayConn, hasDirectPath, dialing, rc, dc>>
      BY <2>3 DEF RetryIsConnected, entryVars, loopVars, relayVars, directVars
    <3>2. PICK q \in {"newSession", "backoff"} : retry' = [retry EXCEPT ![r] = q]
      BY <2>3, Zenon DEF RetryIsConnected
    <3>3. Pathless' => Pathless
      BY <3>1 DEF Pathless
    <3>4. q \notin {"none", "exit"}
      OBVIOUS
    <3> QED BY <2>1, <3>1, <3>2, <3>3, <3>4, Zenon
  <2>4. CASE RetryBackoff(r)
    <3>1. /\ UNCHANGED <<loop, relayConn, hasDirectPath, dialing, rc, dc>>
          /\ retry' = [retry EXCEPT ![r] = "check"]
      BY <2>4 DEF RetryBackoff, entryVars, loopVars, relayVars, directVars
    <3>2. Pathless' => Pathless
      BY <3>1 DEF Pathless
    <3>3. "check" \notin {"none", "exit"}
      OBVIOUS
    <3> QED BY <2>1, <3>1, <3>2, <3>3, Zenon
  <2>5. CASE RetryExit(r)
    <3>1. /\ UNCHANGED <<loop, relayConn, hasDirectPath, dialing, rc, dc>>
          /\ retry[r] = "exit" /\ \A s \in Retriers : s # r => retry'[s] = retry[s]
      BY <1>0, <2>5 DEF RetryExit, loopVars, relayVars, directVars
    <3>2. \A s \in Retriers : Seeking(s) => Seeking(s)'
      BY <3>1 DEF Seeking, Settled
    <3> QED BY <3>1, <3>2, SoughtKept DEF Dropping, Pathless
  <2>6. ASSUME NEW c \in RelayConns, RetryNewSession(r, c) PROVE SoughtInv'
    <3>1. /\ UNCHANGED <<loop, relayConn, hasDirectPath, dc>>
          /\ retry' = [retry EXCEPT ![r] = "dial"] /\ dialing' = [dialing EXCEPT ![r] = c]
          /\ rc' = [rc EXCEPT ![c] = "handshake"]
      BY <2>6 DEF RetryNewSession, OpenSession, entryVars, loopVars, directVars
    <3>2. /\ \A s \in Retriers : retry'[s] = IF s = r THEN "dial" ELSE retry[s]
          /\ \A s \in Retriers : dialing'[s] = IF s = r THEN c ELSE dialing[s]
          /\ \A b \in RelayConns : rc'[b] = IF b = c THEN "handshake" ELSE rc[b]
      BY <1>0, <3>1
    <3>3. \A s \in Retriers : Seeking(s) => Seeking(s)'
      BY <3>2 DEF Seeking, Settled
    <3> QED BY <3>1, <3>3, SoughtKept DEF Dropping, Pathless
  <2> QED BY <1>3, <2>2, <2>3, <2>4, <2>5, <2>6 DEF RetryNext
<1>4. ASSUME NEW c \in RelayConns, RelayNext(c) PROVE SoughtInv'
  <2>1. CASE AcceptIncoming(c)
    BY <2>1 DEF AcceptIncoming
  \* The owner of a session goes on, and no search ends with it.
  <2>2. ASSUME NEW q, rc' = [rc EXCEPT ![c] = q],
               q \in {"closeOld", "setConn"} => rc[c] \in {"closeOld", "setConn"},
               UNCHANGED <<loop, relayConn, hasDirectPath, retry, dialing, dc>>
        PROVE  SoughtInv'
    <3>1. \A b \in RelayConns : rc'[b] = IF b = c THEN q ELSE rc[b]
      BY <1>0, <2>2
    <3>2. \A s \in Retriers : Seeking(s) => Seeking(s)'
      BY <2>2, <3>1 DEF Seeking, Settled
    <3> QED BY <2>2, <3>2, SoughtKept DEF Dropping, Pathless
  <2>3. CASE HandshakeOk(c)
    BY <2>2, <2>3 DEF HandshakeOk, entryVars, loopVars, retryVars, directVars
  <2>4. CASE HandshakeFail(c)
    <3>1. /\ UNCHANGED <<loop, relayConn, hasDirectPath, dc>>
          /\ \A s \in Retriers : retry'[s] = IF dialing[s] = c THEN "backoff" ELSE retry[s]
          /\ \A s \in Retriers : dialing'[s] = IF dialing[s] = c THEN None ELSE dialing[s]
      BY <2>4 DEF HandshakeFail, entryVars, loopVars, directVars
    <3>2. \A b \in RelayConns : rc'[b] = IF b = c THEN "idle" ELSE rc[b]
      BY <1>0, <2>4 DEF HandshakeFail
    <3>3. \A s \in Retriers : Seeking(s) => Seeking(s)'
      BY <1>0, <3>1, <3>2 DEF Seeking, Settled
    <3> QED BY <3>1, <3>3, SoughtKept DEF Dropping, Pathless
  <2>5. CASE PublishRelay(c)
    <3>1. relayConn' = c /\ c # None
      BY <1>0, <2>5 DEF PublishRelay
    <3> QED BY <3>1 DEF SoughtInv, Pathless
  <2>6. CASE CloseDisplaced(c)
    BY <2>2, <2>6 DEF CloseDisplaced, entryVars, loopVars, retryVars, directVars
  <2>7. CASE InstallRelay(c)
    <3>1. /\ UNCHANGED <<loop, relayConn, hasDirectPath, dc>> /\ rc[c] = "setConn"
          /\ \A s \in Retriers : retry'[s] = IF dialing[s] = c THEN "exit" ELSE retry[s]
          /\ \A s \in Retriers : dialing'[s] = IF dialing[s] = c THEN None ELSE dialing[s]
      BY <2>7 DEF InstallRelay, entryVars, loopVars, directVars
    <3>2. \A b \in RelayConns : rc'[b] = IF b = c THEN "forward" ELSE rc[b]
      BY <1>0, <2>7 DEF InstallRelay
    <3>3. \A s \in Retriers : Seeking(s) => Seeking(s)'
      BY <1>0, <3>1, <3>2 DEF Seeking, Settled
    <3> QED BY <3>1, <3>3, SoughtKept DEF Dropping, Pathless
  <2>8. CASE ForwardRelayEnd(c)
    BY <2>2, <2>8 DEF ForwardRelayEnd, entryVars, loopVars, retryVars, directVars
  <2>9. CASE RelayBroken(c) \/ ReceiveCandidates(c)
    BY <1>1, <2>9 DEF RelayBroken, ReceiveCandidates, entryVars, loopVars, retryVars,
       relayVars, directVars, Pathless
  <2> QED BY <1>4, <2>1, <2>3, <2>4, <2>5, <2>6, <2>7, <2>8, <2>9 DEF RelayNext
<1>5. ASSUME NEW d \in DirectConns, DirectNext(d) PROVE SoughtInv'
  \* The owner of a direct connection goes on without a start that is still to come.
  <2>1. ASSUME NEW q, dc' = [dc EXCEPT ![d] = q], Dropping(d) => q \in {"closeRelay", "startRetry"},
               UNCHANGED <<retry, dialing, rc>>, Pathless' => Pathless
        PROVE  SoughtInv'
    <3>1. \A e \in DirectConns : dc'[e] = IF e = d THEN q ELSE dc[e]
      BY <1>0, <2>1
    <3>2. \A e \in DirectConns : Dropping(e) => Dropping(e)'
      BY <2>1, <3>1 DEF Dropping
    <3> QED BY <2>1, <3>2, SoughtKept DEF Seeking, Settled
  <2> USE DEF entryVars, loopVars, retryVars, relayVars
  <2>2. CASE PromoteStart(d) \/ PromoteDialFail(d) \/ PromoteDialOk(d)
    BY <2>1, <2>2 DEF PromoteStart, FreeDirect, PromoteDialFail, PromoteDialOk, Dropping, Pathless
  <2>3. CASE AcceptDirect(d)
    BY <2>3 DEF AcceptDirect
  <2>4. CASE CommitDirect(d)
    <3>1. /\ UNCHANGED <<loop, relayConn, retry, dialing, rc>> /\ dc[d] = "commit"
          /\ \E q : dc' = [dc EXCEPT ![d] = q]
          /\ ~hasDirectPath' => ~hasDirectPath
      BY <2>4 DEF CommitDirect
    <3> QED BY <2>1, <3>1 DEF Dropping, Pathless
  <2>5. CASE InstallDirect(d) \/ ForwardDirectEnd(d)
    BY <2>1, <2>5 DEF InstallDirect, ForwardDirectEnd, Dropping, Pathless
  <2>6. CASE DirectBroken(d)
    BY <1>1, <2>6 DEF DirectBroken, directVars, Pathless
  <2>7. CASE FallbackClaim(d)
    <3>1. UNCHANGED <<loop, relayConn, retry, dialing, rc>> /\ dc[d] = "fallback"
      BY <2>7 DEF FallbackClaim
    <3>2. CASE hasDirectPath
      <4>1. dc' = [dc EXCEPT ![d] = "dropRelay"]
        BY <2>7, <3>2 DEF FallbackClaim
      <4>2. dc'[d] = "dropRelay"
        BY <1>0, <4>1
      <4> QED BY <4>2 DEF SoughtInv, Dropping
    <3>3. CASE ~hasDirectPath
      <4>1. dc' = [dc EXCEPT ![d] = "idle"]
        BY <2>7, <3>3 DEF FallbackClaim
      <4> QED BY <2>1, <3>1, <3>3, <4>1 DEF Dropping, Pathless
    <3> QED BY <3>2, <3>3
  <2>8. CASE FallbackRestoreRead(d) \/ FallbackRestoreSet(d)
    <3>1. /\ UNCHANGED <<loop, relayConn, hasDirectPath, retry, dialing, rc>>
          /\ dc[d] \in {"restoreRead", "restoreSet"} /\ \E q : dc' = [dc EXCEPT ![d] = q]
      BY <2>8 DEF FallbackRestoreRead, FallbackRestoreSet
    <3> QED BY <2>1, <3>1 DEF Dropping, Pathless
  <2>9. CASE FallbackDropRelay(d)
    <3>1. dc'[d] = "closeRelay"
      BY <1>0, <2>9 DEF FallbackDropRelay
    <3> QED BY <3>1 DEF SoughtInv, Dropping
  <2>10. CASE FallbackCloseRelay(d)
    <3>1. dc'[d] = "startRetry"
      BY <1>0, <2>10 DEF FallbackCloseRelay
    <3> QED BY <3>1 DEF SoughtInv, Dropping
  <2>11. CASE FallbackStartRetry(d)
    <3>1. dc[d] = "startRetry" /\ dc'[d] = "idle" /\ StartRetryUnlessRunning /\ UNCHANGED <<dialing, rc>>
      BY <1>0, <2>11 DEF FallbackStartRetry
    <3>2. \A r \in Retriers : ~Settled(r)
      <4>1. StartHeard
        BY <3>1 DEF vars, directVars
      <4> QED BY <2>11, <4>1, Zenon DEF StartHeard
    <3>3. \E r \in Retriers : Seeking(r)'
      BY <3>1, <3>2, StartSeeks
    <3> QED BY <3>3, Zenon DEF SoughtInv
  <2> QED BY <1>5, <2>2, <2>3, <2>4, <2>5, <2>6, <2>7, <2>8, <2>9, <2>10, <2>11 DEF DirectNext
<1>6. CASE UNCHANGED vars
  BY <1>1, <1>6 DEF vars, entryVars, loopVars, retryVars, relayVars, directVars, Pathless
<1> QED BY <1>2, <1>3, <1>4, <1>5, <1>6 DEF Next

\* While entry.relayConn is empty and hasDirectPath clear, the relay connected and its
\* set-up done, a retryConnectPeer goroutine exists, or a fallback is about to start one.
RetryNotLost ==
    relayConn = None /\ ~hasDirectPath /\ loop = "wait" /\ IsConnected =>
        \/ Retrying # {}
        \/ \E d \in DirectConns : dc[d] \in {"dropRelay", "closeRelay", "startRetry"}

\* A client whose entry has neither a relay session nor a direct path keeps looking for
\* one, unless fallbackToRelay (manager.go:921) or setupRelayPeers (manager.go:334) skipped
\* the start of retryConnectPeer because of a goroutine that had already settled: that
\* window before its deferred reset of retryingConn is the only way to lose the search.
THEOREM ClientRetryKept ==
    ASSUME IsClient PROVE Spec /\ [][StartHeard]_vars => []RetryNotLost
<1>1. Init => RetryInv
  BY DEF Init, RetryInv, RetryFlagExact, DialingIsRetrying, Retrying
<1>2. Init => SoughtInv
  BY DEF Init, SoughtInv, Pathless
<1>3. SoughtInv => RetryNotLost
  BY DEF SoughtInv, Pathless, Seeking, Dropping, RetryNotLost, Retrying
<1>4. TypeOK /\ RetryInv /\ SoughtInv /\ [Next]_vars /\ [StartHeard]_vars => SoughtInv'
  BY SoughtInductive
<1> QED BY <1>1, <1>2, <1>3, <1>4, TypeCorrect, RetryInductive, PTL DEF Spec

=============================================================================
