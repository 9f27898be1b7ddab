------------------------------ MODULE MCGoInit ------------------------------
(* Instances of GoInit for TLC.                                            *)
EXTENDS GoInit, TLC

\* Neither pids nor commands are told apart: a pid is only compared with others, and the
\* primary command is handled like every subProcess.
Symmetry == Permutations(Pids) \cup Permutations(Cmds)

=============================================================================
