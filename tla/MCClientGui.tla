---------------------------- MODULE MCClientGui -----------------------------
(* Instances of ClientGui for TLC.                                         *)
EXTENDS ClientGui, TLC

\* The paths differ only in what has been written to them, the presses only in
\* when they come.
Symmetry == Permutations(Path) \cup Permutations(Press)
=============================================================================
