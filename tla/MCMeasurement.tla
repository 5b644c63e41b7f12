---------------------------- MODULE MCMeasurement ----------------------------
(* A small instance of Measurement for TLC: one semantic worker, as          *)
(* docs/deployment.md and docs/operations.md run it, with its two slots.     *)
EXTENDS Measurement

CONSTANTS c1, p1, s1, s2
=============================================================================
