---------------------------- MODULE MCStartupLog ----------------------------
(* Instances of StartupLog for TLC.                                        *)
EXTENDS StartupLog, TLC

Symmetry == Permutations(Invs)

=============================================================================
