---------------------------- MODULE MCTunnelConn ----------------------------
(* TunnelConn for TLC. *)
EXTENDS TunnelConn

\* Lengths on both sides of every limit: of the varint forms (64, 16384), of the
\* smallest IPv4 and IPv6 packets, of the receiver's buffer and of a capsule.
MCCapsules ==
    {[type |-> 0, len |-> n, version |-> 4, body |-> "inside"] : n \in {0, 19, 1400, 1401}}
    \cup {[type |-> 0, len |-> n, version |-> 6, body |-> "inside"] : n \in {39, 64}}
    \cup {[type |-> 0, len |-> 20, version |-> 4, body |-> "outside"]}
    \cup {[type |-> 1, len |-> n, version |-> 0, body |-> "candidates"] : n \in {63, 16384}}
    \cup {[type |-> 1, len |-> n, version |-> 0, body |-> "other"] : n \in {0, 16383}}
    \cup {[type |-> 64, len |-> n, version |-> 0, body |-> "other"] : n \in {0, 65536, 65537}}

=============================================================================
