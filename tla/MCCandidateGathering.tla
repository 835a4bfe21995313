------------------------ MODULE MCCandidateGathering ------------------------
(* CandidateGathering for TLC. *)
EXTENDS CandidateGathering

\* A loopback, an interface that is down, the TUN device and a network card.
MCInterfaces ==
    {[up |-> TRUE, loopback |-> TRUE, addrs |-> {"lo"}],
     [up |-> FALSE, loopback |-> FALSE, addrs |-> {"unplugged"}],
     [up |-> TRUE, loopback |-> FALSE, addrs |-> {"tun"}],
     [up |-> TRUE, loopback |-> FALSE, addrs |-> {"lan", "fe80"}]}

=============================================================================
