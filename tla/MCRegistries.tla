---------------------------- MODULE MCRegistries ----------------------------
(***************************************************************************)
(* Three requests to the registries: enough for a third to come after two  *)
(* that have overlapped, and for a lock to be tried.                       *)
(***************************************************************************)
EXTENDS Registries, TLC

CONSTANTS r1, r2, r3

McNames == <<"case", "case-2", "case-3">>
OneRegistry == Cardinality({File(r) : r \in Requests} \ {"none"}) <= 1
RequestsSymmetry == Permutations({r1, r2, r3})

=============================================================================
