------------------------------ MODULE MCAIStage ------------------------------
(* A small instance of AIStage: two sendable rows that make a pair; a      *)
(* client with two attempts at each of two replies; replies of up to two   *)
(* hypotheses.                                                             *)
EXTENDS AIStage

CONSTANT MaxAudit   \* bound: no new call or stage once the trail is this long

MCDays == {1}
MCCallers == {"AI_VERIFIED"}
MCQuestions == SUBSET Exceptions \ {{}}
MCGroups == {Sendable}
MCEvidence == Nomination \union {RowEvidence}

BoundedNext ==
    \/ StageStep
    \/ Len(audit) < MaxAudit /\ (NewStage \/ OtherCall)
    \/ Die

BoundedSpec == StageInit /\ [][BoundedNext]_aiVars /\ WF_aiVars(StageStep)

=============================================================================
