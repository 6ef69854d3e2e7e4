-------------------------- MODULE AuditedLifecycle --------------------------
(***************************************************************************)
(* What the store promises a reader of the audit trail, with no word of    *)
(* commits or resolutions: exceptions move through the lifecycle, each     *)
(* move is written on one common trail as it is made, and the exporter     *)
(* alone closes.  The one weakness admitted is that the newest entry may   *)
(* be lost as long as nothing else has been done since: an entry that has  *)
(* settled stays for ever.                                                 *)
(***************************************************************************)
EXTENDS Lifecycle, Sequences

CONSTANT Exceptions

VARIABLES
    status,   \* the status of each exception
    trail,    \* the moves recorded, oldest first
    fresh     \* the newest entry has not settled

lifecycleVars == <<status, trail, fresh>>

Init ==
    /\ status = [e \in Exceptions |-> Absent]
    /\ trail = << >>
    /\ fresh = FALSE

Record(e, to, actor) ==
    /\ ~fresh
    /\ fresh' = TRUE
    /\ status' = [status EXCEPT ![e] = to]
    /\ trail' = Append(trail, [exception |-> e, from |-> status[e],
                               to |-> to, actor |-> actor])

Open(e, to) ==
    /\ status[e] = Absent
    /\ to \in {"OPEN", "PENDING_EVIDENCE"}
    /\ Record(e, to, "DETERMINISTIC")

Move(e, to, actor) ==
    /\ IsLegal(status[e], to)
    /\ to = "CLOSED" => actor = "EXPORTER"
    /\ Record(e, to, actor)

Settle ==
    /\ fresh
    /\ fresh' = FALSE
    /\ UNCHANGED <<status, trail>>

Lose ==
    /\ fresh
    /\ fresh' = FALSE
    /\ trail' = SubSeq(trail, 1, Len(trail) - 1)
    /\ UNCHANGED status

Next ==
    \/ Settle
    \/ Lose
    \/ \E e \in Exceptions, to \in Statuses :
          Open(e, to) \/ \E actor \in Actors : Move(e, to, actor)

Spec == Init /\ [][Next]_lifecycleVars

=============================================================================
