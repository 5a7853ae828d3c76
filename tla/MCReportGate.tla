---------------------------- MODULE MCReportGate ----------------------------
(* Two drafts, a submission, an approval and an export of one report.      *)
EXTENDS ReportGate, TLC

CONSTANTS d1, d2, s1, a1, x1

MCRequests == {d1, d2, s1, a1, x1}

MCOp ==
  [r \in MCRequests |->
     CASE r \in {d1, d2} -> "draft"
       [] r = s1 -> "submit"
       [] r = a1 -> "approve"
       [] r = x1 -> "export"]

\* The two drafts differ in nothing; for runs of invariants only.
Symmetric == Permutations({d1, d2})

=============================================================================
