---------------------------- MODULE MCRelayServer ----------------------------
(* RelayServer for TLC. *)
EXTENDS RelayServer, TLC

Symmetry == Permutations(Peers) \cup Permutations(Handlers)

=============================================================================
