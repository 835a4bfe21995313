---------------------------- MODULE MCSessionMux ----------------------------
(* SessionMux for TLC. *)
EXTENDS SessionMux, TLC

Symmetry == Permutations(Peers) \cup Permutations(Entries)

=============================================================================
