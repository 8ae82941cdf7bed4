--------------------------- MODULE MCReportSender ----------------------------
(* Instances of ReportSender for TLC.                                      *)
EXTENDS ReportSender, TLC

CONSTANTS r1, r2, i1, i2

MCSymmetry == Permutations({i1, i2})

=============================================================================
