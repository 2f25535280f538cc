--------------------------- MODULE MCHostedCommands ---------------------------
(* Instance of HostedCommands for TLC: two players, identified by their seats. *)
EXTENDS HostedCommands, FiniteSetsExt, TLC

\* The outcomes of a shuffle are interchangeable.
Symmetry == Permutations(Shuffles)
\* Bound: three actions in all.
ThreeActions == MapThenSumSet(LAMBDA p : nextId[p] - 1, Players) <= 3
================================================================================
