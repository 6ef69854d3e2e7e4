---------------------------- MODULE MCTallyExport ----------------------------
(* A small instance of TallyExport: two exceptions, so that a batch can be *)
(* closed in part, or one exported after the other; one day and one batch  *)
(* date.                                                                   *)
EXTENDS TallyExport, TLC

CONSTANTS
    MaxAudit,   \* bound: no new call once the audit table is this long
    MaxKeys     \* bound: resolutions in the table

MCDays == {1}
MCCallers == {"AI_VERIFIED"}
Symmetry == Permutations(Exceptions)

BoundedCall ==
    /\ Len(audit) < MaxAudit
    /\ OtherCall
    /\ Cardinality(resolutions') =< MaxKeys

BoundedNext ==
    \/ ExportStep
    \/ FinishCall
    \/ BoundedCall
    \/ Die

BoundedSpec == TallyInit /\ [][BoundedNext]_tallyVars

=============================================================================
