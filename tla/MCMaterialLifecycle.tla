------------------------ MODULE MCMaterialLifecycle -------------------------
(* One upload, one run or removal, and one request of any other kind.      *)
EXTENDS MaterialLifecycle

CONSTANTS i1, p1, q1

MCRequests == {i1, p1, q1}
MCOp == [r \in MCRequests |->
           CASE r = i1 -> {"ingest"}
             [] r = p1 -> {"process", "remove"}
             [] r = q1 -> {"process", "remove", "reindex"}]

=============================================================================
