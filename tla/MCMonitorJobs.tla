--------------------------- MODULE MCMonitorJobs ----------------------------
(* Instances of MonitorJobs for TLC.                                       *)
EXTENDS MonitorJobs
=============================================================================
