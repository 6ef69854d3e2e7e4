-------------------------- MODULE MCExceptionStore --------------------------
(* A small instance of ExceptionStore: two exceptions, so that the audit   *)
(* table interleaves two trails; two days, named in any order; one list of *)
(* evidence (a second key for one exception comes from a second type).     *)
EXTENDS StoreRefinement, TLC

CONSTANTS
    MaxAudit,   \* bound: no new call once the audit table is this long
    MaxKeys     \* bound: no more resolutions than this

MCDays == {1, 2}
MCCallers == {"HUMAN"}
Symmetry == Permutations(Exceptions)

BoundedNext ==
    \/ CallStep
    \/ Crash
    \/ /\ Len(audit) < MaxAudit /\ NewCall
       /\ Cardinality(resolutions') =< MaxKeys

BoundedSpec == StoreInit /\ [][BoundedNext]_storeVars

=============================================================================
