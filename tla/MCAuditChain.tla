---------------------------- MODULE MCAuditChain ----------------------------
(* Four concurrent appends: two of one case, one of another, one of none.  *)
EXTENDS AuditChain

CONSTANTS e1, e2, e3, e4, c1, c2

MCEvents == {e1, e2, e3, e4}
MCCases == {c1, c2}
MCCaseOf == [e \in MCEvents |->
               CASE e \in {e1, e2} -> c1 [] e = e3 -> c2 [] e = e4 -> NoCase]

=============================================================================
