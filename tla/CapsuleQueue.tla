---------------------------- MODULE CapsuleQueue ----------------------------
(***************************************************************************)
(* What a relay tunnel promises the goroutines at its two ends: a queue of *)
(* whole capsules.  A capsule enters it at one moment, whoever writes it;  *)
(* the reader takes one after another and does with each what its kind     *)
(* asks for; it stops at a capsule above the limits or when the connection *)
(* is lost.  There are no bytes, headers, payloads or locks.               *)
(***************************************************************************)
EXTENDS Naturals, Sequences

CONSTANTS
    Capsules,
    TooLong,     \* the capsules the reader refuses
    Packets,     \* those that go to the TUN device
    Controls,    \* the control capsules
    Content(_),  \* the message in a control capsule
    Wanted,      \* the messages that are acted on
    CtrlCap      \* how many may wait

VARIABLES
    queue,    \* capsules written and not taken
    open,     \* the connection works
    reading,  \* the reader has not stopped
    tun,      \* what the TUN device got
    ctrl,     \* the control messages that wait
    handled   \* those acted on

vars == <<queue, open, reading, tun, ctrl, handled>>

Init ==
    /\ queue = <<>>
    /\ open = TRUE
    /\ reading = TRUE
    /\ tun = <<>>
    /\ ctrl = <<>>
    /\ handled = <<>>

Send(c) ==
    /\ open
    /\ queue' = Append(queue, c)
    /\ UNCHANGED <<open, reading, tun, ctrl, handled>>

\* What is in the queue when the connection is lost may still be taken.
Take ==
    /\ reading /\ queue # <<>> /\ Head(queue) \notin TooLong
    /\ queue' = Tail(queue)
    /\ tun' = IF Head(queue) \in Packets THEN Append(tun, Head(queue)) ELSE tun
    /\ ctrl' = IF Head(queue) \in Controls /\ Len(ctrl) < CtrlCap
               THEN Append(ctrl, Content(Head(queue))) ELSE ctrl
    /\ UNCHANGED <<open, reading, handled>>

Handle ==
    /\ ctrl # <<>>
    /\ ctrl' = Tail(ctrl)
    /\ handled' = IF Head(ctrl) \in Wanted THEN Append(handled, Head(ctrl)) ELSE handled
    /\ UNCHANGED <<queue, open, reading, tun>>

Lose ==
    /\ open
    /\ open' = FALSE
    /\ UNCHANGED <<queue, reading, tun, ctrl, handled>>

Stop ==
    /\ reading
    /\ ~open \/ (queue # <<>> /\ Head(queue) \in TooLong)
    /\ reading' = FALSE
    /\ UNCHANGED <<queue, open, tun, ctrl, handled>>

Next == (\E c \in Capsules : Send(c)) \/ Take \/ Handle \/ Lose \/ Stop

Spec == Init /\ [][Next]_vars

=============================================================================
