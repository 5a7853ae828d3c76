----------------------------- MODULE MCTaskRun ------------------------------
(* Two creations and three changes of a task of the built-in template, in  *)
(* a case that is empty, or has all but a report, at first.                *)
EXTENDS TaskRun, TLC

CONSTANTS c1, c2, m1, m2, m3

MCRequests == {c1, c2, m1, m2, m3}
MCCreates == {c1, c2}

MCTemplate ==
  <<"material-ingest", "quality-check", "evidence-units", "entity-merge",
    "proposition-extraction", "contradiction-detection", "assessment",
    "report-generation", "review-export">>

EmptyCase ==
  [materials |-> FALSE, quality |-> FALSE, detection |-> "none", report |-> "open",
   elements |-> FALSE, findings |-> FALSE]

AnalysedCase ==
  [EmptyCase EXCEPT !.materials = TRUE, !.quality = TRUE, !.detection = "usable",
                    !.elements = TRUE]

MCInitialFacts == {EmptyCase, AnalysedCase}

Symmetric == Permutations(MCCreates) \cup Permutations({m1, m2, m3})

=============================================================================
