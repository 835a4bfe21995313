--------------------------- MODULE SessionChannel ---------------------------
(***************************************************************************)
(* What InternalProxy promises the users of its sessions: each session     *)
(* has one session number for its whole life and is a bounded FIFO channel *)
(* for messages under that number.  It may lose a message, but neither     *)
(* repeats nor reorders any, nor takes one of another number; nothing      *)
(* enters it once it is closed, what it holds can still be read, and then  *)
(* it ends.                                                                *)
(***************************************************************************)
EXTENDS Naturals, Sequences

CONSTANTS
    Sessions,
    Numbers,   \* session numbers
    Messages,  \* records with the fields sid and n, the order of arrival
    Cap,       \* capacity of a session
    None

VARIABLES
    number,  \* the number of a session
    chan,    \* what waits in it
    got,     \* what has been read from it
    closed,
    ended    \* the sessions whose reader has been told of the end

vars == <<number, chan, got, closed, ended>>

Init ==
    /\ number = [e \in Sessions |-> None]
    /\ chan = [e \in Sessions |-> <<>>]
    /\ got = [e \in Sessions |-> <<>>]
    /\ closed = {}
    /\ ended = {}

\* A session is opened under a number, empty or with its first message.
Open(e) ==
    /\ number[e] = None
    /\ \/ /\ \E s \in Numbers : number' = [number EXCEPT ![e] = s]
          /\ UNCHANGED chan
       \/ \E m \in Messages : /\ number' = [number EXCEPT ![e] = m.sid]
                              /\ chan' = [chan EXCEPT ![e] = <<m>>]
    /\ UNCHANGED <<got, closed, ended>>

\* A later message under its number enters an open session that has room.
Deliver(e, m) ==
    /\ number[e] = m.sid /\ e \notin closed /\ Len(chan[e]) < Cap
    /\ \A i \in 1..Len(got[e]) : got[e][i].n < m.n
    /\ \A i \in 1..Len(chan[e]) : chan[e][i].n < m.n
    /\ chan' = [chan EXCEPT ![e] = Append(@, m)]
    /\ UNCHANGED <<number, got, closed, ended>>

Receive(e) ==
    /\ chan[e] # <<>>
    /\ got' = [got EXCEPT ![e] = Append(@, Head(chan[e]))]
    /\ chan' = [chan EXCEPT ![e] = Tail(@)]
    /\ UNCHANGED <<number, closed, ended>>

\* Sessions are closed, one or all at a time.
Shut ==
    /\ closed \subseteq closed'
    /\ \A e \in closed' : e \in Sessions /\ number[e] # None
    /\ UNCHANGED <<number, chan, got, ended>>

End(e) ==
    /\ e \in closed /\ chan[e] = <<>>
    /\ ended' = ended \cup {e}
    /\ UNCHANGED <<number, chan, got, closed>>

Next ==
    \/ Shut
    \/ \E e \in Sessions :
          Open(e) \/ Receive(e) \/ End(e) \/ \E m \in Messages : Deliver(e, m)

Spec == Init /\ [][Next]_vars

=============================================================================
