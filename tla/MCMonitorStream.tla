--------------------------- MODULE MCMonitorStream ---------------------------
(* Instances of MonitorStream for TLC.  Streams meet only through the        *)
(* supervisor lock and the hub, so one stream against every other holder of  *)
(* the lock and every publication shows what the protocol does.              *)
EXTENDS MonitorStream

CONSTANTS p
=============================================================================
