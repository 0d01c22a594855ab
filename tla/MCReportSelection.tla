------------------------- MODULE MCReportSelection -------------------------
(***************************************************************************)
(* Small instances of ReportSelection.                                     *)
(***************************************************************************)
EXTENDS ReportSelection
=============================================================================
