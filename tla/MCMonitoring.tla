---------------------------- MODULE MCMonitoring ----------------------------
(* Small instances of Monitoring for TLC. *)
EXTENDS Monitoring

CONSTANTS t1, t2, b1, b2
=============================================================================
