--------------------------- MODULE MCSecureServer ---------------------------
(* Instances of SecureServer for TLC.                                      *)
EXTENDS SecureServer, TLC

\* Connections differ only in the kind of their peer, which Init chooses.
Symmetry == Permutations(Request)
=============================================================================
