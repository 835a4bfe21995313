---------------------------- MODULE PathManager ----------------------------
(***************************************************************************)
(* The Transport Manager of one malon node (internal/manager), restricted  *)
(* to one registered peer: the peerEntry record, mion's active connection  *)
(* for that peer, and every goroutine that reads or writes them.           *)
(*                                                                         *)
(* A step is one critical section of m.mu, or one call that changes shared *)
(* state outside it (SetConn, ClearConnIf, Close, the InternalProxy).      *)
(* Local variables that survive from one step to a later one (a saved      *)
(* relayConn, a checked flag) are state, so a stale value stays stale.     *)
(*                                                                         *)
(* A connection identifier stands for a Go pointer: it may be taken again  *)
(* once no variable refers to the connection (Free).  The numbers of       *)
(* identifiers are the only bounds of the model.                           *)
(***************************************************************************)
EXTENDS Naturals, FiniteSets

CONSTANTS
    Role,         \* mion.Role(): "client" or "proxy"
    RelayConns,   \* bound: RelayTunnelConns in existence at one time
    DirectConns,  \* bound: DirectConns in existence at one time
    Retriers,     \* bound: retryConnectPeer goroutines at one time
    None          \* nil

ASSUME RoleAssumption == Role \in {"client", "proxy"}

ASSUME ConnAssumption ==
    /\ RelayConns \cap DirectConns = {}
    /\ None \notin RelayConns \cup DirectConns

VARIABLES
    relayConn,      \* peerEntry.relayConn
    hasDirectPath,  \* peerEntry.hasDirectPath
    retryingConn,   \* peerEntry.retryingConn
    activeConn,     \* the connection mion's peer.Peer sends on (SetConn, ClearConnIf)
    loop,           \* where relayConnectLoop stands
    connect,        \* where the goroutine that runs InternalProxy.Connect stands
    connectedCh,    \* TRUE once InternalProxy.connectedCh is closed
    retry,          \* where each retryConnectPeer goroutine stands
    dialing,        \* the session a retryConnectPeer goroutine is dialling
    rc,             \* where the goroutine that owns a relay connection stands
    displaced,      \* its local oldRelayConn
    dc,             \* where the goroutine that owns a direct connection stands
    saved,          \* its local liveRelayConn or oldRelayConn in fallbackToRelay
    live,           \* connections on which ReadPacket still succeeds
    closed,         \* relay connections the manager has called Close on
    candidates      \* the peer's candidates have been received at least once

entryVars  == <<relayConn, hasDirectPath, retryingConn>>
loopVars   == <<loop, connect, connectedCh>>
retryVars  == <<retry, dialing>>
relayVars  == <<rc, displaced>>
directVars == <<dc, saved>>
connVars   == <<live, closed>>

vars == <<entryVars, activeConn, loopVars, retryVars, relayVars, directVars,
          connVars, candidates>>

OptRelay == RelayConns \cup {None}
Conns    == RelayConns \cup DirectConns

LoopStates    == {"connecting", "setup", "spawn", "wait", "backoff"}
ConnectStates == {"dial", "serving", "cleanup", "returned"}
RetryStates   == {"none", "check", "isConnected", "newSession", "dial", "backoff", "exit"}
RelayStates   == {"idle", "handshake", "publish", "closeOld", "setConn", "forward"}
DirectStates  == {"idle", "dial", "commit", "setConn", "forward", "fallback",
                  "restoreRead", "restoreSet", "dropRelay", "closeRelay", "startRetry"}

\* The set-up that the parameters and fields of New give one registered peer:
\* nothing connected, relayConnectLoop about to wait for its first Connect.
Init ==
    /\ relayConn = None /\ hasDirectPath = FALSE /\ retryingConn = FALSE
    /\ activeConn = None
    /\ loop = "connecting" /\ connect = "dial" /\ connectedCh = FALSE
    /\ retry = [r \in Retriers |-> "none"]
    /\ dialing = [r \in Retriers |-> None]
    /\ rc = [c \in RelayConns |-> "idle"]
    /\ displaced = [c \in RelayConns |-> None]
    /\ dc = [d \in DirectConns |-> "idle"]
    /\ saved = [d \in DirectConns |-> None]
    /\ live = {} /\ closed = {}
    /\ candidates = FALSE

----------------------------------------------------------------------------
(* Shared helpers. *)

IsClient == Role = "client"

\* InternalProxy.IsConnected: connectedCh is closed and writer is not nil.  The
\* writer is set just before the channel is closed and reset first on the way out.
IsConnected == connect = "serving"

\* No variable refers to the connection any more, so its identifier can be reused.
FreeRelay(c) ==
    /\ rc[c] = "idle" /\ c # relayConn /\ c # activeConn
    /\ \A b \in RelayConns : displaced[b] # c
    /\ \A d \in DirectConns : saved[d] # c

FreeDirect(d) == dc[d] = "idle" /\ d # activeConn

\* peer.ClearConnIf(c): mion forgets c only if c is the connection it sends on.
ClearConnIf(c) == activeConn' = IF activeConn = c THEN None ELSE activeConn

\* Mutant: Close is called without the nil check.
CloseRelayUnchecked(c) ==
    /\ live' = live \ {c}
    /\ closed' = closed \cup {c}

\* rc.Close() on an optional relay connection.
CloseRelay(c) ==
    /\ live' = live \ {c}
    /\ closed' = closed \cup ({c} \ {None})

\* Mutant: the goroutine is started without looking at retryingConn.
StartRetryAlways ==
    /\ retryingConn' = TRUE
    /\ \E r \in Retriers :
          /\ retry[r] = "none"
          /\ retry' = [retry EXCEPT ![r] = "check"]

\* "if !retryingConn { retryingConn = true; go retryConnectPeer }", under m.mu.
StartRetryUnlessRunning ==
    \/ /\ retryingConn
       /\ UNCHANGED <<retryingConn, retry>>
    \/ /\ ~retryingConn
       /\ retryingConn' = TRUE
       /\ \E r \in Retriers :
             /\ retry[r] = "none"
             /\ retry' = [retry EXCEPT ![r] = "check"]

----------------------------------------------------------------------------
(* relayConnectLoop, setupRelayPeers and the Connect goroutine. *)

\* Connect returns an error before the CONNECT stream exists.
ConnectFail ==
    /\ connect = "dial"
    /\ connect' = "returned"
    /\ UNCHANGED <<entryVars, activeConn, loop, connectedCh, retryVars, relayVars,
                   directVars, connVars, candidates>>

\* Connect gets status 200, sets the writer and closes connectedCh.
ConnectOk ==
    /\ connect = "dial"
    /\ connect' = "serving"
    /\ connectedCh' = TRUE
    /\ UNCHANGED <<entryVars, activeConn, loop, retryVars, relayVars, directVars,
                   connVars, candidates>>

\* readLoop fails: the deferred function starts by setting the writer to nil ...
RelayLost ==
    /\ connect = "serving"
    /\ connect' = "cleanup"
    /\ UNCHANGED <<entryVars, activeConn, loop, connectedCh, retryVars, relayVars,
                   directVars, connVars, candidates>>

\* ... and closeAllSessions then ends every session before Connect returns.
CloseAllSessions ==
    /\ connect = "cleanup"
    /\ connect' = "returned"
    /\ live' = live \ RelayConns
    /\ UNCHANGED <<entryVars, activeConn, loop, connectedCh, retryVars, relayVars,
                   directVars, closed, candidates>>

\* The select sees connectedCh closed.
LoopConnected ==
    /\ loop = "connecting" /\ connectedCh
    /\ loop' = "setup"
    /\ UNCHANGED <<entryVars, activeConn, connect, connectedCh, retryVars, relayVars,
                   directVars, connVars, candidates>>

\* The select sees Connect's result: before the stream was up, or after the loop
\* finished the set-up (select picks either case when both channels are ready).
LoopDisconnected ==
    /\ loop \in {"connecting", "wait"} /\ connect = "returned"
    /\ loop' = "backoff"
    /\ UNCHANGED <<entryVars, activeConn, connect, connectedCh, retryVars, relayVars,
                   directVars, connVars, candidates>>

\* The back-off timer fires: Reset gives a fresh connectedCh, Connect starts again.
LoopReconnect ==
    /\ loop = "backoff"
    /\ loop' = "connecting" /\ connect' = "dial" /\ connectedCh' = FALSE
    /\ UNCHANGED <<entryVars, activeConn, retryVars, relayVars, directVars,
                   connVars, candidates>>

\* setupRelayPeers forgets the relay connection of the peers configured with this
\* relay URL.  A proxy's peers have none ("empty for proxy-role nodes"), so a proxy
\* keeps its reference, and it returns here.
SetupClear ==
    /\ loop = "setup"
    /\ relayConn' = IF IsClient THEN None ELSE relayConn
    /\ loop' = IF IsClient THEN "spawn" ELSE "wait"
    /\ UNCHANGED <<hasDirectPath, retryingConn, activeConn, connect, connectedCh,
                   retryVars, relayVars, directVars, connVars, candidates>>

SetupSpawn ==
    /\ loop = "spawn"
    /\ loop' = "wait"
    /\ StartRetryUnlessRunning
    /\ UNCHANGED <<relayConn, hasDirectPath, activeConn, connect, connectedCh, dialing,
                   relayVars, directVars, connVars, candidates>>

----------------------------------------------------------------------------
(* retryConnectPeer. *)

\* The snapshot of hasDirectPath and relayConn under m.mu.RLock.
RetryCheck(r) ==
    /\ retry[r] = "check"
    /\ retry' = [retry EXCEPT ![r] =
                    IF hasDirectPath \/ relayConn # None THEN "exit" ELSE "isConnected"]
    /\ UNCHANGED <<entryVars, activeConn, loopVars, dialing, relayVars, directVars,
                   connVars, candidates>>

RetryIsConnected(r) ==
    /\ retry[r] = "isConnected"
    /\ retry' = [retry EXCEPT ![r] = IF IsConnected THEN "newSession" ELSE "backoff"]
    /\ UNCHANGED <<entryVars, activeConn, loopVars, dialing, relayVars, directVars,
                   connVars, candidates>>

RetryBackoff(r) ==
    /\ retry[r] = "backoff"
    /\ retry' = [retry EXCEPT ![r] = "check"]
    /\ UNCHANGED <<entryVars, activeConn, loopVars, dialing, relayVars, directVars,
                   connVars, candidates>>

\* The deferred function, once the goroutine has decided to return.
RetryExit(r) ==
    /\ retry[r] = "exit"
    /\ retry' = [retry EXCEPT ![r] = "none"]
    /\ retryingConn' = FALSE
    /\ UNCHANGED <<relayConn, hasDirectPath, activeConn, loopVars, dialing, relayVars,
                   directVars, connVars, candidates>>

----------------------------------------------------------------------------
(* A relay session: connectPeerWithCtx on the client, handleIncoming on the
   proxy, then the code both share, then forwardConnToTUN. *)

\* The session of c is registered and the inner mTLS handshake starts.
OpenSession(c) ==
    /\ FreeRelay(c)
    /\ rc' = [rc EXCEPT ![c] = "handshake"]
    /\ live' = live \cup {c}
    /\ closed' = closed \ {c}

\* connectPeerWithCtx up to the handshake.
RetryNewSession(r, c) ==
    /\ retry[r] = "newSession"
    /\ OpenSession(c)
    /\ retry' = [retry EXCEPT ![r] = "dial"]
    /\ dialing' = [dialing EXCEPT ![r] = c]
    /\ UNCHANGED <<entryVars, activeConn, loopVars, displaced, directVars, candidates>>

\* acceptLoop takes a session the peer opened; only clients open sessions.
AcceptIncoming(c) ==
    /\ ~IsClient /\ IsConnected
    /\ OpenSession(c)
    /\ UNCHANGED <<entryVars, activeConn, loopVars, retryVars, displaced, directVars,
                   candidates>>

HandshakeOk(c) ==
    /\ rc[c] = "handshake" /\ c \in live /\ IsConnected
    /\ rc' = [rc EXCEPT ![c] = "publish"]
    /\ UNCHANGED <<entryVars, activeConn, loopVars, retryVars, displaced, directVars,
                   connVars, candidates>>

\* Mutant: retryConnectPeer gives up after one failed handshake.
HandshakeFailGivesUp(c) ==
    /\ rc[c] = "handshake"
    /\ rc' = [rc EXCEPT ![c] = "idle"]
    /\ live' = live \ {c}
    /\ retry' = [r \in Retriers |-> IF dialing[r] = c THEN "exit" ELSE retry[r]]
    /\ dialing' = [r \in Retriers |-> IF dialing[r] = c THEN None ELSE dialing[r]]
    /\ UNCHANGED <<entryVars, activeConn, loopVars, displaced, directVars, closed,
                   candidates>>

\* Time-out, TLS error or a lost stream: envConn.Close, and the caller gets the error.
HandshakeFail(c) ==
    /\ rc[c] = "handshake"
    /\ rc' = [rc EXCEPT ![c] = "idle"]
    /\ live' = live \ {c}
    /\ retry' = [r \in Retriers |-> IF dialing[r] = c THEN "backoff" ELSE retry[r]]
    /\ dialing' = [r \in Retriers |-> IF dialing[r] = c THEN None ELSE dialing[r]]
    /\ UNCHANGED <<entryVars, activeConn, loopVars, displaced, directVars, closed,
                   candidates>>

\* Mutant: the old entry.relayConn is overwritten without being remembered.
PublishRelayForgetsOld(c) ==
    /\ rc[c] = "publish"
    /\ rc' = [rc EXCEPT ![c] = "closeOld"]
    /\ relayConn' = c
    /\ UNCHANGED <<hasDirectPath, retryingConn, activeConn, loopVars, retryVars, displaced,
                   directVars, connVars, candidates>>

\* entry.relayConn is swapped under m.mu.
PublishRelay(c) ==
    /\ rc[c] = "publish"
    /\ rc' = [rc EXCEPT ![c] = "closeOld"]
    /\ displaced' = [displaced EXCEPT ![c] = relayConn]
    /\ relayConn' = c
    /\ UNCHANGED <<hasDirectPath, retryingConn, activeConn, loopVars, retryVars,
                   directVars, connVars, candidates>>

CloseDisplaced(c) ==
    /\ rc[c] = "closeOld"
    /\ CloseRelay(displaced[c])
    /\ rc' = [rc EXCEPT ![c] = "setConn"]
    /\ displaced' = [displaced EXCEPT ![c] = None]
    /\ UNCHANGED <<entryVars, activeConn, loopVars, retryVars, directVars, candidates>>

\* peer.SetConn, the forwarder starts, and connectPeerWithCtx returns nil to the
\* retryConnectPeer goroutine that called it.
InstallRelay(c) ==
    /\ rc[c] = "setConn"
    /\ activeConn' = c
    /\ rc' = [rc EXCEPT ![c] = "forward"]
    /\ retry' = [r \in Retriers |-> IF dialing[r] = c THEN "exit" ELSE retry[r]]
    /\ dialing' = [r \in Retriers |-> IF dialing[r] = c THEN None ELSE dialing[r]]
    /\ UNCHANGED <<entryVars, loopVars, displaced, directVars, connVars, candidates>>

\* Mutant: the forwarder ends without ClearConnIf.
ForwardRelayEndKeepsConn(c) ==
    /\ rc[c] = "forward" /\ c \notin live
    /\ rc' = [rc EXCEPT ![c] = "idle"]
    /\ UNCHANGED <<entryVars, activeConn, loopVars, retryVars, displaced, directVars,
                   connVars, candidates>>

\* ReadPacket fails: ClearConnIf, and the goroutine ends.  Nothing else happens.
ForwardRelayEnd(c) ==
    /\ rc[c] = "forward" /\ c \notin live
    /\ ClearConnIf(c)
    /\ rc' = [rc EXCEPT ![c] = "idle"]
    /\ UNCHANGED <<entryVars, loopVars, retryVars, displaced, directVars, connVars,
                   candidates>>

\* The session breaks by itself while the relay stays up: the peer closed or
\* restarted, or a segment dropped by safeSend broke the TLS stream.
RelayBroken(c) ==
    /\ rc[c] \in {"publish", "closeOld", "setConn", "forward"} /\ c \in live
    /\ live' = live \ {c}
    /\ UNCHANGED <<entryVars, activeConn, loopVars, retryVars, relayVars, directVars,
                   closed, candidates>>

\* The forwarder reads a CONTROL capsule with the peer's candidates, which starts
\* the probes that may later promote a direct path.
ReceiveCandidates(c) ==
    /\ rc[c] = "forward" /\ c \in live
    /\ candidates' = TRUE
    /\ UNCHANGED <<entryVars, activeConn, loopVars, retryVars, relayVars, directVars,
                   connVars>>

----------------------------------------------------------------------------
(* A direct connection: tryPromotePath on the client, handleDirectConnect on
   the proxy, then forwardDirectConnToTUN and fallbackToRelay. *)

\* A probe succeeded and no direct path is active: direct.Dial starts.
PromoteStart(d) ==
    /\ IsClient /\ candidates /\ ~hasDirectPath
    /\ FreeDirect(d)
    /\ dc' = [dc EXCEPT ![d] = "dial"]
    /\ UNCHANGED <<entryVars, activeConn, loopVars, retryVars, relayVars, saved,
                   connVars, candidates>>

PromoteDialFail(d) ==
    /\ dc[d] = "dial"
    /\ dc' = [dc EXCEPT ![d] = "idle"]
    /\ UNCHANGED <<entryVars, activeConn, loopVars, retryVars, relayVars, saved,
                   connVars, candidates>>

PromoteDialOk(d) ==
    /\ dc[d] = "dial"
    /\ dc' = [dc EXCEPT ![d] = "commit"]
    /\ live' = live \cup {d}
    /\ UNCHANGED <<entryVars, activeConn, loopVars, retryVars, relayVars, saved,
                   closed, candidates>>

\* probeAcceptLoop hands an inbound CONNECT-IP session to handleDirectConnect.  The
\* listener takes it at any time: the client may still be dialling a proxy that has
\* restarted and has no relay session yet.
AcceptDirect(d) ==
    /\ ~IsClient
    /\ FreeDirect(d)
    /\ dc' = [dc EXCEPT ![d] = "commit"]
    /\ live' = live \cup {d}
    /\ UNCHANGED <<entryVars, activeConn, loopVars, retryVars, relayVars, saved,
                   closed, candidates>>

\* Mutant: no second look at hasDirectPath after the dial.
PromotionNotRechecked == FALSE

\* The second look at hasDirectPath, under m.mu, after the dial; a proxy has none.
PromotionLost == IsClient /\ hasDirectPath

\* The client re-checks hasDirectPath under m.mu and gives the new connection up if
\* another promotion won; the proxy always takes the new connection.
CommitDirect(d) ==
    /\ dc[d] = "commit"
    /\ \/ /\ PromotionLost
          /\ dc' = [dc EXCEPT ![d] = "idle"]
          /\ live' = live \ {d}
          /\ UNCHANGED hasDirectPath
       \/ /\ ~PromotionLost
          /\ dc' = [dc EXCEPT ![d] = "setConn"]
          /\ hasDirectPath' = TRUE
          /\ UNCHANGED live
    /\ UNCHANGED <<relayConn, retryingConn, activeConn, loopVars, retryVars, relayVars,
                   saved, closed, candidates>>

InstallDirect(d) ==
    /\ dc[d] = "setConn"
    /\ activeConn' = d
    /\ dc' = [dc EXCEPT ![d] = "forward"]
    /\ UNCHANGED <<entryVars, loopVars, retryVars, relayVars, saved, connVars, candidates>>

\* The QUIC session ends: closed by the peer, or the idle time-out expired.
DirectBroken(d) ==
    /\ dc[d] \in {"commit", "setConn", "forward"} /\ d \in live
    /\ live' = live \ {d}
    /\ UNCHANGED <<entryVars, activeConn, loopVars, retryVars, relayVars, directVars,
                   closed, candidates>>

\* Mutant: the forwarder falls back without ClearConnIf.
ForwardDirectEndKeepsConn(d) ==
    /\ dc[d] = "forward" /\ d \notin live
    /\ dc' = [dc EXCEPT ![d] = "fallback"]
    /\ UNCHANGED <<entryVars, activeConn, loopVars, retryVars, relayVars, saved, connVars,
                   candidates>>

\* ReadPacket fails: ClearConnIf, then fallbackToRelay.
ForwardDirectEnd(d) ==
    /\ dc[d] = "forward" /\ d \notin live
    /\ ClearConnIf(d)
    /\ dc' = [dc EXCEPT ![d] = "fallback"]
    /\ UNCHANGED <<entryVars, loopVars, retryVars, relayVars, saved, connVars, candidates>>

\* fallbackToRelay: the first goroutine to find hasDirectPath set takes it.
FallbackClaim(d) ==
    /\ dc[d] = "fallback"
    /\ hasDirectPath' = FALSE
    /\ dc' = [dc EXCEPT ![d] = IF ~hasDirectPath THEN "idle"
                               ELSE IF IsClient THEN "dropRelay" ELSE "restoreRead"]
    /\ UNCHANGED <<relayConn, retryingConn, activeConn, loopVars, retryVars, relayVars,
                   saved, connVars, candidates>>

\* Proxy: read entry.relayConn under m.mu.RLock ...
FallbackRestoreRead(d) ==
    /\ dc[d] = "restoreRead"
    /\ saved' = [saved EXCEPT ![d] = relayConn]
    /\ dc' = [dc EXCEPT ![d] = IF relayConn = None THEN "idle" ELSE "restoreSet"]
    /\ UNCHANGED <<entryVars, activeConn, loopVars, retryVars, relayVars, connVars,
                   candidates>>

\* ... and make it the active connection.
FallbackRestoreSet(d) ==
    /\ dc[d] = "restoreSet"
    /\ activeConn' = saved[d]
    /\ saved' = [saved EXCEPT ![d] = None]
    /\ dc' = [dc EXCEPT ![d] = "idle"]
    /\ UNCHANGED <<entryVars, loopVars, retryVars, relayVars, connVars, candidates>>

\* Mutant: the connection to be closed is left in entry.relayConn.
FallbackDropRelayKeepsRef(d) ==
    /\ dc[d] = "dropRelay"
    /\ saved' = [saved EXCEPT ![d] = relayConn]
    /\ dc' = [dc EXCEPT ![d] = "closeRelay"]
    /\ UNCHANGED <<entryVars, activeConn, loopVars, retryVars, relayVars, connVars,
                   candidates>>

\* Client: take entry.relayConn out under m.mu ...
FallbackDropRelay(d) ==
    /\ dc[d] = "dropRelay"
    /\ saved' = [saved EXCEPT ![d] = relayConn]
    /\ relayConn' = None
    /\ dc' = [dc EXCEPT ![d] = "closeRelay"]
    /\ UNCHANGED <<hasDirectPath, retryingConn, activeConn, loopVars, retryVars,
                   relayVars, connVars, candidates>>

\* ... close it ...
FallbackCloseRelay(d) ==
    /\ dc[d] = "closeRelay"
    /\ CloseRelay(saved[d])
    /\ saved' = [saved EXCEPT ![d] = None]
    /\ dc' = [dc EXCEPT ![d] = "startRetry"]
    /\ UNCHANGED <<entryVars, activeConn, loopVars, retryVars, relayVars, candidates>>

\* ... and dial a new session unless a retryConnectPeer goroutine already runs.
FallbackStartRetry(d) ==
    /\ dc[d] = "startRetry"
    /\ StartRetryUnlessRunning
    /\ dc' = [dc EXCEPT ![d] = "idle"]
    /\ UNCHANGED <<relayConn, hasDirectPath, activeConn, loopVars, dialing, relayVars,
                   saved, connVars, candidates>>

----------------------------------------------------------------------------

LoopNext ==
    \/ ConnectFail \/ ConnectOk \/ RelayLost \/ CloseAllSessions
    \/ LoopConnected \/ LoopDisconnected \/ LoopReconnect
    \/ SetupClear \/ SetupSpawn

RetryNext(r) ==
    \/ RetryCheck(r) \/ RetryIsConnected(r) \/ RetryBackoff(r) \/ RetryExit(r)
    \/ \E c \in RelayConns : RetryNewSession(r, c)

RelayNext(c) ==
    \/ AcceptIncoming(c) \/ HandshakeOk(c) \/ HandshakeFail(c)
    \/ PublishRelay(c) \/ CloseDisplaced(c) \/ InstallRelay(c)
    \/ ForwardRelayEnd(c) \/ RelayBroken(c) \/ ReceiveCandidates(c)

DirectNext(d) ==
    \/ PromoteStart(d) \/ PromoteDialFail(d) \/ PromoteDialOk(d) \/ AcceptDirect(d)
    \/ CommitDirect(d) \/ InstallDirect(d) \/ DirectBroken(d) \/ ForwardDirectEnd(d)
    \/ FallbackClaim(d) \/ FallbackRestoreRead(d) \/ FallbackRestoreSet(d)
    \/ FallbackDropRelay(d) \/ FallbackCloseRelay(d) \/ FallbackStartRetry(d)

Next ==
    \/ LoopNext
    \/ \E r \in Retriers : RetryNext(r)
    \/ \E c \in RelayConns : RelayNext(c)
    \/ \E d \in DirectConns : DirectNext(d)

Spec == Init /\ [][Next]_vars

(* Fairness.  A goroutine that can take a step is eventually scheduled, and the
   handshake it waits for ends (time-out of 3 s or 10 s).  Connect and direct.Dial run
   without a time-out of their own and may never return.  The environment owes nothing:
   connections need not break and nobody has to open sessions.  The strong fairness
   says that the peer exists: a handshake tried again and again over a working relay
   succeeds once. *)

LoopGoroutine ==
    LoopConnected \/ LoopDisconnected \/ LoopReconnect \/ SetupClear \/ SetupSpawn

RelayGoroutine(c) ==
    \/ HandshakeOk(c) \/ HandshakeFail(c) \/ PublishRelay(c) \/ CloseDisplaced(c)
    \/ InstallRelay(c) \/ ForwardRelayEnd(c)

DirectGoroutine(d) ==
    \/ CommitDirect(d) \/ InstallDirect(d) \/ ForwardDirectEnd(d) \/ FallbackClaim(d)
    \/ FallbackRestoreRead(d) \/ FallbackRestoreSet(d)
    \/ FallbackDropRelay(d) \/ FallbackCloseRelay(d) \/ FallbackStartRetry(d)

Fairness ==
    /\ WF_vars(CloseAllSessions) /\ WF_vars(LoopGoroutine)
    /\ \A r \in Retriers : WF_vars(RetryNext(r))
    /\ \A c \in RelayConns : WF_vars(RelayGoroutine(c))
    /\ \A d \in DirectConns : WF_vars(DirectGoroutine(d))
    /\ SF_vars(\E c \in RelayConns : HandshakeOk(c))

FairSpec == Spec /\ Fairness

----------------------------------------------------------------------------
(* Properties. *)

\* Every variable keeps its type.
TypeOK ==
    /\ relayConn \in OptRelay /\ hasDirectPath \in BOOLEAN /\ retryingConn \in BOOLEAN
    /\ activeConn \in Conns \cup {None}
    /\ loop \in LoopStates /\ connect \in ConnectStates /\ connectedCh \in BOOLEAN
    /\ retry \in [Retriers -> RetryStates] /\ dialing \in [Retriers -> OptRelay]
    /\ rc \in [RelayConns -> RelayStates] /\ displaced \in [RelayConns -> OptRelay]
    /\ dc \in [DirectConns -> DirectStates] /\ saved \in [DirectConns -> OptRelay]
    /\ live \subseteq Conns /\ closed \subseteq RelayConns
    /\ candidates \in BOOLEAN

Retrying == {r \in Retriers : retry[r] # "none"}

\* At most one retryConnectPeer goroutine exists, and retryingConn says exactly
\* whether one does, although relayConnectLoop and fallbackToRelay both start it and
\* the goroutine clears the flag itself ("prevents concurrent retryConnectPeer").
RetryFlagExact ==
    /\ retryingConn <=> Retrying # {}
    /\ \A r, s \in Retrying : r = s

\* entry.relayConn never refers to a connection that the manager has closed, although
\* it is swapped under m.mu and the old connection is closed after the unlock.
RelayConnNotClosed == relayConn \notin closed

\* A direct connection holds the path from the critical section that sets
\* hasDirectPath to the one in fallbackToRelay that resets it.
HoldsPath(d) == dc[d] \in {"setConn", "forward", "fallback"}

\* hasDirectPath is set exactly while one direct connection holds the path, so the
\* end of any other connection cannot reset it.  True of the client, whose
\* tryPromotePath checks again after the dial.
DirectFlagOwned ==
    /\ hasDirectPath <=> \E d \in DirectConns : HoldsPath(d)
    /\ \A d, e \in DirectConns : HoldsPath(d) /\ HoldsPath(e) => d = e

\* The connection mion sends on is one that a forwarder goroutine still reads, so
\* that its failure is noticed and ClearConnIf removes it.
ActiveHasReader ==
    /\ activeConn \in RelayConns => rc[activeConn] = "forward"
    /\ activeConn \in DirectConns => dc[activeConn] = "forward"

Published(c) == rc[c] \in {"closeOld", "setConn", "forward"}

\* Some goroutine has taken c out of entry.relayConn and is about to close it.
PendingClose(c) ==
    \/ \E b \in RelayConns : displaced[b] = c
    \/ \E d \in DirectConns : dc[d] = "closeRelay" /\ saved[d] = c

\* No relay session is lost while it still works: a published session that can still
\* be read is entry.relayConn, or the goroutine that replaced it is about to close it.
NoLostSession ==
    \A c \in RelayConns :
        Published(c) /\ c \in live => c = relayConn \/ PendingClose(c)

\* mion does not keep sending on a dead connection for ever.
DeadConnReplaced ==
    \A c \in Conns : (activeConn = c /\ c \notin live) ~> (activeConn # c \/ c \in live)

\* While the relay stays up, retryConnectPeer "keeps trying to establish a relay
\* session ... until it succeeds ... or a direct path is promoted again".
RetryConverges ==
    <>[]IsConnected =>
        \A r \in Retriers : (retry[r] = "check") ~> (relayConn # None \/ hasDirectPath)

----------------------------------------------------------------------------
(* What comments and documents of the repository say of the manager and the
   code does not keep. *)

\* peerEntry.hasDirectPath is "true while a direct CONNECT-IP path is active".  True of
\* the client (it follows from DirectFlagOwned); TLC refutes it as an invariant of
\* PathManagerProxy.cfg, where the end of a replaced connection clears the flag.
DirectActiveFlagged == activeConn \in DirectConns \cap live => hasDirectPath

\* Once fallbackToRelay has closed the relay session, "retryConnectPeer keeps trying to
\* establish a relay session ... until it succeeds ... or a direct path is promoted again":
\* while the relay stays up, the client does not end without a session and a direct path.
FallbackRecovers ==
    <>[]IsConnected =>
        \A d \in DirectConns :
            (dc[d] = "startRetry") ~>
                \/ relayConn # None \/ hasDirectPath
                \/ \E c \in RelayConns : Published(c) /\ c \in live

=============================================================================
