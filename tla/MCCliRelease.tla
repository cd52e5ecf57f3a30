---------------------------- MODULE MCCliRelease ----------------------------
(* Instances of CliRelease for TLC. *)
EXTENDS CliRelease, TLC

Symmetry == Permutations(Admins) \cup Permutations(Terminals)

=============================================================================
