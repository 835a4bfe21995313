--------------------------- MODULE DirectListener ---------------------------
(***************************************************************************)
(* The listening side of direct paths on a proxy: Listener.Accept with its *)
(* handlers (internal/direct), run by probeAcceptLoop, and                 *)
(* handleDirectConnect (internal/manager).  One goroutine accepts; it      *)
(* stays in handleConnect until the HTTP/3 handler it started there has    *)
(* sent a result.                                                          *)
(***************************************************************************)
EXTENDS Naturals, Sequences

CONSTANTS
    Conns,      \* bound: "h3" QUIC connections in existence at one time
    AcceptCap,  \* capacity of the QUIC accept queue (32 in quic-go)
    None

ASSUME ConnAssumption == None \notin Conns /\ "probe" \notin Conns

ASSUME CapAssumption == AcceptCap \in Nat

VARIABLES
    acceptQ,     \* handshaken connections: "probe", or a member of Conns
    handling,    \* the connection of the handleConnect that Accept is in
    conn,        \* each QUIC connection: "up", or "down" before and after
    srv,         \* where the proxy stands with it
    proxyDirect  \* peerEntry.hasDirectPath of the proxy

listenerVars == <<acceptQ, handling, conn, srv, proxyDirect>>

\* "serving": ServeQUICConn waits for the request; "handler": the request has come;
\* "replied": the client has its answer; "accepted": handleDirectConnect has started.
ServerStates == {"none", "serving", "handler", "replied", "accepted", "forward"}

ListenerInit ==
    /\ acceptQ = <<>>
    /\ handling = None
    /\ conn = [c \in Conns |-> "down"]
    /\ srv = [c \in Conns |-> "none"]
    /\ proxyDirect = FALSE

\* A handshake completes (external): the connection is queued, or there is no room.
Arrive(item) ==
    acceptQ' = IF Len(acceptQ) < AcceptCap THEN Append(acceptQ, item) ELSE acceptQ

\* handleProbe closes the connection; the ProbeEvent is logged.
AcceptProbe ==
    /\ handling = None /\ acceptQ # <<>> /\ Head(acceptQ) = "probe"
    /\ acceptQ' = Tail(acceptQ)
    /\ UNCHANGED <<handling, conn, srv, proxyDirect>>

\* handleConnect starts the HTTP/3 server and waits on ch.
AcceptConnect ==
    /\ handling = None /\ acceptQ # <<>> /\ Head(acceptQ) \in Conns
    /\ handling' = Head(acceptQ)
    /\ srv' = [srv EXCEPT ![Head(acceptQ)] = "serving"]
    /\ acceptQ' = Tail(acceptQ)
    /\ UNCHANGED <<conn, proxyDirect>>

\* The client has seen the settings of the HTTP/3 server and its request arrives.
RequestArrives(c) ==
    /\ srv[c] = "serving" /\ conn[c] = "up"
    /\ srv' = [srv EXCEPT ![c] = "handler"]
    /\ UNCHANGED <<acceptQ, handling, conn, proxyDirect>>

\* prxy.Proxy answers the request; AdvertiseRoute follows.
Reply(c) ==
    /\ srv[c] = "handler" /\ conn[c] = "up"
    /\ srv' = [srv EXCEPT ![c] = "replied"]
    /\ UNCHANGED <<acceptQ, handling, conn, proxyDirect>>

\* ch <- result{ipconn}: Accept returns a ConnectEvent.
HandlerOk(c) ==
    /\ srv[c] = "replied"
    /\ srv' = [srv EXCEPT ![c] = "accepted"]
    /\ handling' = None
    /\ UNCHANGED <<acceptQ, conn, proxyDirect>>

\* Mutant: the handler returns without a result on ch.
HandlerFailsSilently(c) ==
    /\ srv[c] \in {"handler", "replied"} /\ conn[c] = "down"
    /\ srv' = [srv EXCEPT ![c] = "none"]
    /\ UNCHANGED <<acceptQ, handling, conn, proxyDirect>>

\* Proxy or AdvertiseRoute fails and its error is sent on ch: the connection is
\* rejected, and Accept takes the next one.  ParseRequest accepts whatever the dialling
\* node sends, the template being made from its own :authority, so that an error comes
\* only from a connection that is down, and CloseWithError finds it closed.
HandlerFails(c) ==
    /\ srv[c] \in {"handler", "replied"} /\ conn[c] = "down"
    /\ srv' = [srv EXCEPT ![c] = "none"]
    /\ handling' = None
    /\ UNCHANGED <<acceptQ, conn, proxyDirect>>

\* Mutant: a connection that comes while there is a direct path gets no forwarder.
HandleDirectConnectOnce(c) ==
    /\ srv[c] = "accepted"
    /\ srv' = [srv EXCEPT ![c] = IF proxyDirect THEN "none" ELSE "forward"]
    /\ proxyDirect' = TRUE
    /\ UNCHANGED <<acceptQ, handling, conn>>

\* The new connection is taken even if there is a direct path, which it replaces, and
\* gets a forwarder of its own.  (SetConn, and mion's connection, are in PathManager.)
handleDirectConnect(c) ==
    /\ srv[c] = "accepted"
    /\ srv' = [srv EXCEPT ![c] = "forward"]
    /\ proxyDirect' = TRUE
    /\ UNCHANGED <<acceptQ, handling, conn>>

\* forwardDirectConnToTUN fails to read, and fallbackToRelay clears the flag, whichever
\* connection has set it.
ProxyForwardEnds(c) ==
    /\ srv[c] = "forward" /\ conn[c] = "down"
    /\ srv' = [srv EXCEPT ![c] = "none"]
    /\ proxyDirect' = FALSE
    /\ UNCHANGED <<acceptQ, handling, conn>>

\* The connection of the running handleConnect is gone and no request has come on it:
\* nothing will ever be sent on ch.
Stuck == \E c \in Conns : handling = c /\ srv[c] = "serving" /\ conn[c] = "down"

=============================================================================
