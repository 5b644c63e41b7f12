------------------------- MODULE MCReportDocuments -------------------------
(* Small instances of ReportDocuments for TLC. *)
EXTENDS ReportDocuments

CONSTANTS j1, j2, p1, p2, m1, m2
=============================================================================
