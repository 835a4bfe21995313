---------------------------- MODULE SessionMux ----------------------------
(***************************************************************************)
(* The session multiplexer of one node (h2proxy.InternalProxy and          *)
(* EnvelopeNetConn): the sessions map under sessMu, the receive channel of *)
(* each session, acceptCh, the readLoop that dispatches DATA envelopes and *)
(* the goroutines that read and close sessions.                            *)
(*                                                                         *)
(* A step is one critical section of sessMu or one channel operation.  The *)
(* readLoop sends on channels after it has left sessMu, with the session   *)
(* it saw inside; that saved session is state.                             *)
(*                                                                         *)
(* A message stands for the payload of one DATA envelope and carries what  *)
(* the properties compare: the stream it belongs to (the sender and the    *)
(* sender's session number) and its place in the order of arrival.         *)
(***************************************************************************)
EXTENDS Naturals, Sequences

CONSTANTS
    Dials,      \* TRUE on a client, which opens sessions; FALSE on a proxy
    Peers,      \* remote peers
    Entries,    \* bound: sessions created in one behaviour
    MaxSID,     \* bound: session numbers in use
    MaxMsg,     \* bound: DATA envelopes received in one behaviour
    RecvCap,    \* capacity of a receive channel (64)
    AcceptCap,  \* capacity of acceptCh (16)
    None        \* nil

ASSUME BoundAssumption ==
    /\ MaxSID \in Nat /\ MaxMsg \in Nat
    /\ RecvCap \in Nat \ {0} /\ AcceptCap \in Nat
    /\ Dials \in BOOLEAN
    /\ None \notin Entries /\ None \notin Peers

ASSUME NilAssumption == None \notin 1..MaxSID

VARIABLES
    sessions,   \* InternalProxy.sessions
    sid,        \* EnvelopeNetConn.sessionID of a session
    peer,       \* sessionEntry.peerID, EnvelopeNetConn.peerID
    recvCh,     \* what waits in a session's channel
    closedCh,   \* sessions whose channel has been closed
    acceptCh,   \* incoming sessions not yet taken by acceptLoop
    holder,     \* who has the EnvelopeNetConn: nobody, acceptCh, a goroutine (that may
                \* have to close it once more), nobody again
    nextSID,    \* InternalProxy.nextSID
    dialled,    \* the sessions that NewSession has created
    reader,     \* where Connect and its readLoop stand
    current,    \* the session readLoop carries from sessMu to the channel operation
    message,    \* the message it carries with it
    received,   \* how many DATA envelopes have been read
    got,        \* what Read has returned on a session
    ended       \* sessions on which Read has returned io.EOF

readerVars == <<reader, current, message>>

vars == <<sessions, sid, peer, recvCh, closedCh, acceptCh, holder, nextSID, dialled,
          readerVars, received, got, ended>>

SIDs     == 1..MaxSID
Messages == [src : Peers, sid : SIDs, n : 1..MaxMsg]

Init ==
    /\ sessions = [s \in SIDs |-> None]
    /\ sid = [e \in Entries |-> None] /\ peer = [e \in Entries |-> None]
    /\ recvCh = [e \in Entries |-> <<>>] /\ closedCh = {} /\ acceptCh = <<>>
    /\ holder = [e \in Entries |-> "none"]
    /\ nextSID = 0 /\ dialled = {}
    /\ reader = "down" /\ current = None /\ message = None
    /\ received = 0
    /\ got = [e \in Entries |-> <<>>] /\ ended = {}

----------------------------------------------------------------------------

\* An identifier that no session has had yet.
Unused(e) == holder[e] = "none" /\ peer[e] = None

\* A new sessionEntry enters the map, in place of whatever it holds under the number.
AddSession(e, s, p) ==
    /\ sessions' = [sessions EXCEPT ![s] = e]
    /\ sid' = [sid EXCEPT ![e] = s]
    /\ peer' = [peer EXCEPT ![e] = p]

\* Mutant: the entry is deleted and its channel left open.
RemoveSessionLeavesOpen(s) ==
    /\ sessions' = [sessions EXCEPT ![s] = None]
    /\ UNCHANGED closedCh

\* removeSession: whatever the map holds under the number is closed and deleted.
RemoveSession(s) ==
    /\ closedCh' = closedCh \cup ({sessions[s]} \ {None})
    /\ sessions' = [sessions EXCEPT ![s] = None]

\* Connect has its stream, and starts readLoop.
Connect ==
    /\ reader = "down"
    /\ reader' = "decode"
    /\ UNCHANGED <<sessions, sid, peer, recvCh, closedCh, acceptCh, holder, nextSID, dialled,
                   current, message, received, got, ended>>

\* Mutant: after creating the session, dispatchData also runs its last line.
DispatchNewFallsThrough(e, p, s) ==
    /\ reader = "decode" /\ received < MaxMsg
    /\ sessions[s] = None /\ Unused(e)
    /\ received' = received + 1
    /\ AddSession(e, s, p)
    /\ recvCh' = [recvCh EXCEPT ![e] = <<[src |-> p, sid |-> s, n |-> received + 1]>>]
    /\ reader' = "send" /\ current' = e
    /\ message' = [src |-> p, sid |-> s, n |-> received + 1]
    /\ UNCHANGED <<closedCh, acceptCh, holder, nextSID, dialled, got, ended>>

\* dispatchData under sessMu, number unknown: a new session that already holds the
\* message is put in the map, to be offered to acceptCh.  Nothing restricts the peer or
\* the number: peers number their own sessions, from 1 again after a restart, and go on
\* writing on sessions this node has closed or had in an earlier run.
DispatchNew(e, p, s) ==
    /\ reader = "decode" /\ received < MaxMsg
    /\ sessions[s] = None /\ Unused(e)
    /\ received' = received + 1
    /\ AddSession(e, s, p)
    /\ recvCh' = [recvCh EXCEPT ![e] = <<[src |-> p, sid |-> s, n |-> received + 1]>>]
    /\ reader' = "offer" /\ current' = e
    /\ UNCHANGED <<closedCh, acceptCh, holder, nextSID, dialled, message, got, ended>>

\* The offer, after the unlock: acceptCh takes the session, or it is removed again.
Offer ==
    /\ reader = "offer"
    /\ reader' = "decode" /\ current' = None
    /\ \/ /\ Len(acceptCh) < AcceptCap
          /\ acceptCh' = Append(acceptCh, current)
          /\ holder' = [holder EXCEPT ![current] = "acceptCh"]
          /\ UNCHANGED <<sessions, closedCh>>
       \/ /\ Len(acceptCh) = AcceptCap
          /\ RemoveSession(sid[current])
          /\ UNCHANGED <<acceptCh, holder>>
    /\ UNCHANGED <<sid, peer, recvCh, nextSID, dialled, message, received, got, ended>>

\* dispatchData under sessMu, number known: the session's channel is remembered.
DispatchKnown(p, s) ==
    /\ reader = "decode" /\ received < MaxMsg
    /\ sessions[s] # None
    /\ received' = received + 1
    /\ reader' = "send" /\ current' = sessions[s]
    /\ message' = [src |-> p, sid |-> s, n |-> received + 1]
    /\ UNCHANGED <<sessions, sid, peer, recvCh, closedCh, acceptCh, holder, nextSID, dialled,
                   got, ended>>

\* Mutant: the send does not look at the capacity.
SafeSendUnbounded ==
    /\ reader = "send"
    /\ reader' = "decode" /\ current' = None /\ message' = None
    /\ recvCh' = IF current \notin closedCh
                 THEN [recvCh EXCEPT ![current] = Append(@, message)]
                 ELSE recvCh
    /\ UNCHANGED <<sessions, sid, peer, closedCh, acceptCh, holder, nextSID, dialled,
                   received, got, ended>>

\* Mutant: a channel closed meanwhile still takes the message.
SafeSendClosed ==
    /\ reader = "send"
    /\ reader' = "decode" /\ current' = None /\ message' = None
    /\ recvCh' = IF Len(recvCh[current]) < RecvCap
                 THEN [recvCh EXCEPT ![current] = Append(@, message)]
                 ELSE recvCh
    /\ UNCHANGED <<sessions, sid, peer, closedCh, acceptCh, holder, nextSID, dialled,
                   received, got, ended>>

\* safeSend, after the unlock: a full or meanwhile closed channel drops the message.
SafeSend ==
    /\ reader = "send"
    /\ reader' = "decode" /\ current' = None /\ message' = None
    /\ recvCh' = IF current \notin closedCh /\ Len(recvCh[current]) < RecvCap
                 THEN [recvCh EXCEPT ![current] = Append(@, message)]
                 ELSE recvCh
    /\ UNCHANGED <<sessions, sid, peer, closedCh, acceptCh, holder, nextSID, dialled,
                   received, got, ended>>

\* readLoop fails; Connect's deferred function is about to run.
StreamLost ==
    /\ reader = "decode"
    /\ reader' = "cleanup"
    /\ UNCHANGED <<sessions, sid, peer, recvCh, closedCh, acceptCh, holder, nextSID, dialled,
                   current, message, received, got, ended>>

\* Mutant: the entries are deleted and the channels left open.
CloseAllSessionsLeavesOpen ==
    /\ reader = "cleanup"
    /\ reader' = "down"
    /\ sessions' = [s \in SIDs |-> None]
    /\ UNCHANGED <<sid, peer, recvCh, closedCh, acceptCh, holder, nextSID, dialled, current,
                   message, received, got, ended>>

CloseAllSessions ==
    /\ reader = "cleanup"
    /\ reader' = "down"
    /\ closedCh' = closedCh \cup ({sessions[s] : s \in SIDs} \ {None})
    /\ sessions' = [s \in SIDs |-> None]
    /\ UNCHANGED <<sid, peer, recvCh, acceptCh, holder, nextSID, dialled, current, message,
                   received, got, ended>>

\* NewSession, on the client only, whether or not the relay is connected.  A peer may
\* have used the number before: its session then loses its place in the map, still open.
NewSession(e, p) ==
    /\ Dials /\ nextSID < MaxSID /\ Unused(e)
    /\ nextSID' = nextSID + 1
    /\ AddSession(e, nextSID + 1, p)
    /\ holder' = [holder EXCEPT ![e] = "held"]
    /\ dialled' = dialled \cup {e}
    /\ UNCHANGED <<recvCh, closedCh, acceptCh, readerVars, received, got, ended>>

\* acceptLoop takes the next incoming session and hands it to handleIncoming.
TakeIncoming ==
    /\ acceptCh # <<>>
    /\ acceptCh' = Tail(acceptCh)
    /\ holder' = [holder EXCEPT ![Head(acceptCh)] = "held"]
    /\ UNCHANGED <<sessions, sid, peer, recvCh, closedCh, nextSID, dialled, readerVars,
                   received, got, ended>>

Held(e) == holder[e] \in {"held", "interrupted"}

\* EnvelopeNetConn.Read: buffered data first, also after the channel was closed.
Read(e) ==
    /\ Held(e) /\ recvCh[e] # <<>>
    /\ got' = [got EXCEPT ![e] = Append(@, Head(recvCh[e]))]
    /\ recvCh' = [recvCh EXCEPT ![e] = Tail(@)]
    /\ UNCHANGED <<sessions, sid, peer, closedCh, acceptCh, holder, nextSID, dialled,
                   readerVars, received, ended>>

ReadEOF(e) ==
    /\ Held(e) /\ recvCh[e] = <<>> /\ e \in closedCh /\ e \notin ended
    /\ ended' = ended \cup {e}
    /\ UNCHANGED <<sessions, sid, peer, recvCh, closedCh, acceptCh, holder, nextSID, dialled,
                   readerVars, received, got>>

\* EnvelopeNetConn.Close: removeSession with the connection's session number.  When the
\* time-out of the inner handshake expires, HandshakeContext closes the connection and
\* the manager closes it again on the error.
Close(e) ==
    /\ Held(e)
    /\ \/ holder' = [holder EXCEPT ![e] = "dropped"]
       \/ holder[e] = "held" /\ holder' = [holder EXCEPT ![e] = "interrupted"]
    /\ RemoveSession(sid[e])
    /\ UNCHANGED <<sid, peer, recvCh, acceptCh, nextSID, dialled, readerVars, received, got,
                   ended>>

----------------------------------------------------------------------------

Next ==
    \/ Connect \/ Offer \/ SafeSend \/ StreamLost \/ CloseAllSessions \/ TakeIncoming
    \/ \E p \in Peers, s \in SIDs :
          DispatchKnown(p, s) \/ \E e \in Entries : DispatchNew(e, p, s)
    \/ \E e \in Entries :
          \/ Read(e) \/ ReadEOF(e) \/ Close(e)
          \/ \E p \in Peers : NewSession(e, p)

Spec == Init /\ [][Next]_vars

(* Fairness.  readLoop never blocks between two envelopes, acceptLoop and the readers
   of a session are scheduled; nobody owes data, a Close or the loss of the stream. *)
FairSpec ==
    /\ Spec
    /\ WF_vars(Offer \/ SafeSend \/ CloseAllSessions)
    /\ WF_vars(TakeIncoming)
    /\ \A e \in Entries : WF_vars(Read(e) \/ ReadEOF(e))

----------------------------------------------------------------------------
(* Properties. *)

\* Every variable keeps its type; the channels respect their capacities.
TypeOK ==
    /\ sessions \in [SIDs -> Entries \cup {None}]
    /\ sid \in [Entries -> SIDs \cup {None}] /\ peer \in [Entries -> Peers \cup {None}]
    /\ recvCh \in [Entries -> Seq(Messages)]
    /\ \A e \in Entries : Len(recvCh[e]) <= RecvCap
    /\ closedCh \subseteq Entries /\ ended \subseteq Entries
    /\ acceptCh \in Seq(Entries) /\ Len(acceptCh) <= AcceptCap
    /\ holder \in [Entries -> {"none", "acceptCh", "held", "interrupted", "dropped"}]
    /\ nextSID \in 0..MaxSID /\ received \in 0..MaxMsg /\ dialled \subseteq Entries
    /\ reader \in {"down", "decode", "offer", "send", "cleanup"}
    /\ current \in Entries \cup {None} /\ message \in Messages \cup {None}
    /\ got \in [Entries -> Seq(Messages)]

Created(e) == peer[e] # None

\* Closing a channel and deleting its entry go together on every path (Close, a refused
\* offer, the loss of the stream), so that no closed session can be found and no open one
\* is out of reach of closeAllSessions.  The one exception is an incoming session whose
\* number NewSession has given out since: it stays open outside the map.
OpenIffMapped ==
    \A e \in Entries : Created(e) =>
        /\ sessions[sid[e]] = e => e \notin closedCh
        /\ e \notin closedCh =>
              \/ sessions[sid[e]] = e
              \/ e \notin dialled /\ \E d \in dialled : sid[d] = sid[e]

\* What Read returned on a session, followed by what waits in its channel, is in the
\* order of arrival and has no duplicate, although full channels drop messages.
InOrder ==
    \A e \in Entries :
        LET all == got[e] \o recvCh[e]
        IN  \A i, j \in 1..Len(all) : i < j => all[i].n < all[j].n

\* A session only ever receives data of its own stream, the peer's and under its number.
\* dispatchData compares the number only: see SessionMuxCollision.cfg, and the proof for
\* peers that do not use each other's numbers.
OwnStreamOnly ==
    \A e \in Entries : \A i \in 1..Len(recvCh[e]) :
        recvCh[e][i].src = peer[e] /\ recvCh[e][i].sid = sid[e]

\* When the stream is lost, whoever reads a session gets io.EOF in the end.
LostStreamEndsSessions ==
    \A e \in Entries :
        (reader = "cleanup" /\ Created(e) /\ (Held(e) \/ holder[e] = "acceptCh")) ~>
            (e \in ended \/ holder[e] = "dropped")

\* The number a session was created under.
Number == [e \in Entries |-> IF Created(e) THEN sid[e] ELSE None]

Channel ==
    INSTANCE SessionChannel
    WITH Sessions <- Entries, Numbers <- SIDs, Cap <- RecvCap, number <- Number,
         chan <- recvCh, closed <- closedCh

\* The sessions are what SessionChannel promises, in either role and whatever the peers
\* send: the map, the entries that lose their place in it, acceptCh and the readLoop that
\* sends outside the lock cannot be told from a set of independent lossy FIFO channels.
ImplementsChannel == Channel!Spec

=============================================================================
