---------------------------- MODULE MCServerGui -----------------------------
(* Instances of ServerGui for TLC.                                         *)
EXTENDS ServerGui
=============================================================================
