----------------------------- MODULE Lifecycle -----------------------------
(***************************************************************************)
(* The lifecycle of an exception: the six statuses, the transitions the    *)
(* store permits between them, and who may act.  Pure definitions shared   *)
(* by every module that moves an exception.                                *)
(*                                                                         *)
(* Absent stands for "no row" and for the None predecessor of an opening   *)
(* audit entry; it is not a status.                                        *)
(***************************************************************************)
EXTENDS Naturals

Statuses == {"OPEN", "PENDING_EVIDENCE", "PENDING_AI_UNAVAILABLE",
             "CONFIRMED", "ABSTAINED", "CLOSED"}

Absent == "ABSENT"

PendingStates == {"PENDING_EVIDENCE", "PENDING_AI_UNAVAILABLE"}

ResidualStates == {"OPEN"} \union PendingStates

ResolvedStates == {"CONFIRMED", "CLOSED"}

LegalTransitions ==
    [OPEN                   |-> PendingStates \union {"CONFIRMED", "ABSTAINED"},
     PENDING_EVIDENCE       |-> {"OPEN"},
     PENDING_AI_UNAVAILABLE |-> {"OPEN"},
     CONFIRMED              |-> {"CLOSED"},
     ABSTAINED              |-> {"CONFIRMED"},
     CLOSED                 |-> {}]

(* Deviation: an abstention may be taken up again by reopening it. *)
IsLegalWithRework(from, to) ==
    /\ from \in Statuses
    /\ to \in LegalTransitions[from] \/ (from = "ABSTAINED" /\ to = "OPEN")

(* _check_transition does not raise. *)
IsLegal(from, to) == from \in Statuses /\ to \in LegalTransitions[from]

Actors == {"DETERMINISTIC", "AI_VERIFIED", "HUMAN", "EXPORTER"}

(* How far along its life an exception with this status is.  Transitions   *)
(* within the residual set go both ways, so its members share a rank.      *)
Rank(status) ==
    CASE status = "CLOSED"         -> 4
      [] status = "CONFIRMED"      -> 3
      [] status = "ABSTAINED"      -> 2
      [] status \in ResidualStates -> 1
      [] OTHER                     -> 0

=============================================================================
