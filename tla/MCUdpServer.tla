---------------------------- MODULE MCUdpServer -----------------------------
(* Instances of UdpServer for TLC.                                         *)
EXTENDS UdpServer, TLC
=============================================================================
