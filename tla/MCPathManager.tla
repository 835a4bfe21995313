---------------------------- MODULE MCPathManager ----------------------------
(* PathManager for TLC.  Identifiers are interchangeable, so safety runs use
   symmetry; the liveness runs do not. *)
EXTENDS PathManager, TLC

Symmetry ==
    Permutations(RelayConns) \cup Permutations(DirectConns) \cup Permutations(Retriers)

=============================================================================
