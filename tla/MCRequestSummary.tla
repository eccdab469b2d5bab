--------------------------- MODULE MCRequestSummary ---------------------------
(* Instances of RequestSummary for TLC.                                    *)
EXTENDS RequestSummary, MCStatusRequest

MCOneSurl == {s1}
==============================================================================
