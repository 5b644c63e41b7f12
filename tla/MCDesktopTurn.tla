---------------------------- MODULE MCDesktopTurn ----------------------------
(* Small instances of DesktopTurn for TLC. *)
EXTENDS DesktopTurn, TLC

CONSTANTS c1, c2
=============================================================================
