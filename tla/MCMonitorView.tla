---------------------------- MODULE MCMonitorView ----------------------------
(* Instances of MonitorView for TLC: two reads of the page may overlap, and   *)
(* the scheduler's with them.                                                 *)
EXTENDS MonitorView
==============================================================================
