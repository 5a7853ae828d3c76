--------------------------- MODULE MCAnalysisJob ----------------------------
(* Two analyses of three batches, two model calls at a time.  Each is a    *)
(* job of the registry or the work of the direct route.                    *)
EXTENDS AnalysisJob

CONSTANTS r1, r2

MCRuns == {r1, r2}

=============================================================================
