---------------------------- MODULE MCReportExport ----------------------------
(* ReportExport on small instances.                                        *)
EXTENDS ReportExport

=============================================================================
