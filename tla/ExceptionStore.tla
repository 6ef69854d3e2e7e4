--------------------------- MODULE ExceptionStore ---------------------------
(***************************************************************************)
(* The state database of settlesense/exceptions/store.py, with its write   *)
(* operations called in any order by any caller.                           *)
(*                                                                         *)
(* The store is used by one program at a time, but it commits several      *)
(* times inside one operation: upsert_exception commits the row and then   *)
(* the opening audit entry; _transition commits the new status and then    *)
(* its audit entry; confirm_exception commits the resolution key, then (if *)
(* the row was pending) a transition to OPEN, then (if one was given) the  *)
(* confidence, then the transition to CONFIRMED.  Every commit is a step   *)
(* here, and Crash may fall between any two of them: the tables keep what  *)
(* was committed, the call in flight is gone.                              *)
(*                                                                         *)
(* A call that finds nothing to do (an existing row, a known key) or that  *)
(* _check_transition refuses before any commit changes nothing and is no   *)
(* step.  Left out: amounts, categories, reasons, and evidence lists of    *)
(* rows and of audit entries; no property of this module reads them.  No   *)
(* caller passes _transition a sequence of its own, so no action here does.*)
(***************************************************************************)
EXTENDS Lifecycle, Sequences, FiniteSetsExt

CONSTANTS
    Exceptions,   \* exception ids (one per subject)
    Days,         \* arrival days a caller may name
    Evidence,     \* sorted evidence lists a caller may confirm with
    Callers,      \* the actors in whose name mark_status is called
    NoCall,       \* no call in flight
    MaxCrashes    \* bound: crashes of the calling program

VARIABLES
    table,        \* the exceptions table
    audit,        \* the audit table, in insertion (audit_id) order
    resolutions,  \* the idempotency keys of the resolutions table
    confirming,   \* confirm_exception in flight, after its key was inserted
    unaudited,    \* a committed status change whose audit entry is not yet
    crashes       \* how many times the calling program has died

tables == <<table, audit, resolutions>>
storeVars == <<table, audit, resolutions, confirming, unaudited, crashes>>

-----------------------------------------------------------------------------
(* Column types.  Day 0 stands for a NULL day, Absent for a NULL status or *)
(* a NULL resolver.                                                        *)

ResolutionTypes == {"DETERMINISTIC_REEVALUATION", "AI_VERIFIED", "AI_PAIR"}

(* Actor and resolved_by: every caller passes the same one for both. *)
SourceOf(type) ==
    IF type = "DETERMINISTIC_REEVALUATION" THEN "DETERMINISTIC" ELSE "AI_VERIFIED"

(* The store path passes confirm_exception the verifier's confidence. *)
IsScored(type) == type = "AI_PAIR"

OrAbsent(S) == S \union {Absent}

Row == [status        : OrAbsent(Statuses),
        firstSeenDay  : Days \union {0},
        confirmedDay  : Days \union {0},
        closedDay     : Days \union {0},
        resolvedBy    : OrAbsent(Actors),
        scored        : BOOLEAN]

NoRow == [status |-> Absent, firstSeenDay |-> 0, confirmedDay |-> 0,
          closedDay |-> 0, resolvedBy |-> Absent, scored |-> FALSE]

Key == [exception : Exceptions, type : ResolutionTypes, evidence : Evidence]

Notes == ResolutionTypes \union {"OTHER"}

(* The arguments of append_audit that outlive the status change. *)
Move == [exception : Exceptions, from : OrAbsent(Statuses), to : Statuses,
         actor : Actors, note : Notes, day : Days]

AuditEntry == [exception : Exceptions, from : OrAbsent(Statuses), to : Statuses,
               actor : Actors, note : Notes, day : Days, sequence : Nat]

(* score: the confidence this call still has to write. *)
Confirmation == [exception : Exceptions, type : ResolutionTypes,
                 day : Days, score : BOOLEAN]

(* as_of_for_arrival_day refuses a day before 1, and 0 stands for NULL. *)
ASSUME DaysAssumption == Days \subseteq Nat \ {0}

ASSUME CallersAssumption == Callers \subseteq Actors

ASSUME NoCallAssumption == NoCall \notin Confirmation \union Move

Idle == confirming = NoCall /\ unaudited = NoCall

StatusOf(e) == table[e].status

(* get_queue(RESIDUAL_STATES), as a set. *)
Residual == {e \in Exceptions : StatusOf(e) \in ResidualStates}

-----------------------------------------------------------------------------
SequencesOf(day) ==
    {audit[i].sequence : i \in {j \in 1..Len(audit) : audit[j].day = day}}

(* Deviation: the highest slot itself, -1 on a day with no entry yet. *)
TopSequence(day) == IF SequencesOf(day) = {} THEN 0 - 1 ELSE Max(SequencesOf(day))

(* Deviation: count on from the newest entry, and only if it is of the day. *)
SequenceAfterNewest(day) ==
    IF audit # << >> /\ audit[Len(audit)].day = day
    THEN audit[Len(audit)].sequence + 1 ELSE 0

(* next_sequence: MAX(sequence) over the day's entries of ALL exceptions,  *)
(* plus one.                                                               *)
NextSequence(day) ==
    IF SequencesOf(day) = {} THEN 0 ELSE Max(SequencesOf(day)) + 1

(* Deviation: resolved_by is written without the COALESCE. *)
MovedOverwriting(row, to, day, resolver) ==
    [row EXCEPT !.status       = to,
                !.confirmedDay = IF to = "CONFIRMED" THEN day ELSE @,
                !.closedDay    = IF to = "CLOSED" THEN day ELSE @,
                !.resolvedBy   = resolver]

(* The UPDATE of _transition: the status, the day columns of CONFIRMED and *)
(* CLOSED, and resolved_by only when the caller names a resolver.          *)
Moved(row, to, day, resolver) ==
    [row EXCEPT !.status       = to,
                !.confirmedDay = IF to = "CONFIRMED" THEN day ELSE @,
                !.closedDay    = IF to = "CLOSED" THEN day ELSE @,
                !.resolvedBy   = IF resolver = Absent THEN @ ELSE resolver]

(* _transition up to its first commit; AppendAudit is the rest of it. *)
Transition(e, to, actor, note, day, resolver) ==
    /\ IsLegal(StatusOf(e), to)
    /\ table' = [table EXCEPT ![e] = Moved(@, to, day, resolver)]
    /\ unaudited' = [exception |-> e, from |-> StatusOf(e), to |-> to,
                     actor |-> actor, note |-> note, day |-> day]

(* append_audit, the last commit of every operation that changes a status. *)
AppendAudit ==
    /\ unaudited # NoCall
    /\ audit' = Append(audit,
                       [exception |-> unaudited.exception, from |-> unaudited.from,
                        to |-> unaudited.to, actor |-> unaudited.actor,
                        note |-> unaudited.note, day |-> unaudited.day,
                        sequence |-> NextSequence(unaudited.day)])
    /\ unaudited' = NoCall
    /\ UNCHANGED <<table, resolutions, confirming, crashes>>

-----------------------------------------------------------------------------
(* upsert_exception.  A row that exists is never overwritten.  The status  *)
(* comes from the engine, which is OPEN or PENDING_EVIDENCE here.          *)
UpsertException(e, status, day) ==
    /\ Idle
    /\ StatusOf(e) = Absent
    /\ table' = [table EXCEPT ![e] = [NoRow EXCEPT !.status = status,
                                                   !.firstSeenDay = day]]
    /\ unaudited' = [exception |-> e, from |-> Absent, to |-> status,
                     actor |-> "DETERMINISTIC", note |-> "OTHER", day |-> day]
    /\ UNCHANGED <<audit, resolutions, confirming, crashes>>

(* confirm_exception, first commit: INSERT OR IGNORE of the key.  With the *)
(* key already there the call returns False and nothing more happens.  The *)
(* row is not looked for yet, so a key may be recorded of an exception     *)
(* that was never opened.                                                  *)
InsertResolution(e, type, evidence, day) ==
    LET key == [exception |-> e, type |-> type, evidence |-> evidence]
    IN  /\ Idle
        /\ key \notin resolutions
        /\ resolutions' = resolutions \union {key}
        /\ confirming' = [exception |-> e, type |-> type, day |-> day,
                          score |-> IsScored(type)]
        /\ UNCHANGED <<table, audit, unaudited, crashes>>

InConfirm == confirming # NoCall /\ unaudited = NoCall

(* StoreError after the key is in: there is no such row. *)
RefuseUnknown ==
    /\ InConfirm
    /\ StatusOf(confirming.exception) = Absent
    /\ confirming' = NoCall
    /\ UNCHANGED <<tables, unaudited, crashes>>

(* Deviation: the row is reopened in place, with no audit entry. *)
ReopenPendingUnaudited ==
    /\ InConfirm
    /\ StatusOf(confirming.exception) \in PendingStates
    /\ table' = [table EXCEPT ![confirming.exception].status = "OPEN"]
    /\ UNCHANGED <<audit, resolutions, unaudited, confirming, crashes>>

(* A pending row returns to OPEN before it can be confirmed. *)
ReopenPending ==
    /\ InConfirm
    /\ StatusOf(confirming.exception) \in PendingStates
    /\ Transition(confirming.exception, "OPEN", SourceOf(confirming.type),
                  "OTHER", confirming.day, Absent)
    /\ UNCHANGED <<audit, resolutions, confirming, crashes>>

(* The confidence is committed before the status, and whatever the status. *)
WriteConfidence ==
    /\ InConfirm
    /\ StatusOf(confirming.exception) \in Statuses \ PendingStates
    /\ confirming.score
    /\ table' = [table EXCEPT ![confirming.exception].scored = TRUE]
    /\ confirming' = [confirming EXCEPT !.score = FALSE]
    /\ UNCHANGED <<audit, resolutions, unaudited, crashes>>

Confirm ==
    /\ InConfirm
    /\ ~confirming.score
    /\ StatusOf(confirming.exception) \notin PendingStates
    /\ Transition(confirming.exception, "CONFIRMED", SourceOf(confirming.type),
                  confirming.type, confirming.day, SourceOf(confirming.type))
    /\ confirming' = NoCall
    /\ UNCHANGED <<audit, resolutions, crashes>>

(* IllegalTransitionError after the key is in: the row was resolved before *)
(* under another key.                                                      *)
RefuseConfirm ==
    /\ InConfirm
    /\ ~confirming.score
    /\ StatusOf(confirming.exception) \in Statuses \ PendingStates
    /\ ~IsLegal(StatusOf(confirming.exception), "CONFIRMED")
    /\ confirming' = NoCall
    /\ UNCHANGED <<tables, unaudited, crashes>>

(* close_exception: the actor is fixed. *)
CloseException(e, day) ==
    /\ Idle
    /\ Transition(e, "CLOSED", "EXPORTER", "OTHER", day, Absent)
    /\ UNCHANGED <<audit, resolutions, confirming, crashes>>

(* Deviation: CLOSED is left to the transition check. *)
MarkStatusOrClose(e, to, actor, day) ==
    /\ Idle
    /\ Transition(e, to, actor, "OTHER", day, Absent)
    /\ UNCHANGED <<audit, resolutions, confirming, crashes>>

(* Deviation: whoever marks a row is named its resolver. *)
MarkStatusResolving(e, to, actor, day) ==
    /\ Idle
    /\ to # "CLOSED"
    /\ Transition(e, to, actor, "OTHER", day, actor)
    /\ UNCHANGED <<audit, resolutions, confirming, crashes>>

(* mark_status: any checked transition except to CLOSED. *)
MarkStatus(e, to, actor, day) ==
    /\ Idle
    /\ to # "CLOSED"
    /\ Transition(e, to, actor, "OTHER", day, Absent)
    /\ UNCHANGED <<audit, resolutions, confirming, crashes>>

(* The calling program dies, inside an operation or between two. *)
Crash ==
    /\ crashes < MaxCrashes
    /\ crashes' = crashes + 1
    /\ confirming' = NoCall
    /\ unaudited' = NoCall
    /\ UNCHANGED tables

-----------------------------------------------------------------------------
StoreInit ==
    /\ table = [e \in Exceptions |-> NoRow]
    /\ audit = << >>
    /\ resolutions = {}
    /\ confirming = NoCall
    /\ unaudited = NoCall
    /\ crashes = 0

(* The commits that finish an operation once it has begun. *)
CallStep ==
    \/ AppendAudit \/ ReopenPending \/ WriteConfidence \/ Confirm
    \/ RefuseConfirm \/ RefuseUnknown

(* A caller begins an operation. *)
NewCall ==
    \E e \in Exceptions, day \in Days :
        \/ \E status \in {"OPEN", "PENDING_EVIDENCE"} : UpsertException(e, status, day)
        \/ \E type \in ResolutionTypes, evidence \in Evidence :
              InsertResolution(e, type, evidence, day)
        \/ CloseException(e, day)
        \/ \E to \in Statuses, actor \in Callers : MarkStatus(e, to, actor, day)

StoreNext == CallStep \/ Crash \/ NewCall

StoreSpec == StoreInit /\ [][StoreNext]_storeVars

-----------------------------------------------------------------------------
StoreTypeOK ==
    /\ table \in [Exceptions -> Row]
    /\ audit \in Seq(AuditEntry)
    /\ resolutions \subseteq Key
    /\ confirming \in Confirmation \union {NoCall}
    /\ unaudited \in Move \union {NoCall}
    /\ crashes \in Nat

(* The status the audit table has been told of: while a change of e waits  *)
(* for its audit entry, the status e had before it.                        *)
Recorded(e) ==
    IF unaudited # NoCall /\ unaudited.exception = e
    THEN unaudited.from ELSE StatusOf(e)

(* The last of e's entries among the first n of the audit table moved it   *)
(* to status; Absent when there is none.                                   *)
TrailSays(e, n, status) ==
    IF status = Absent
    THEN \A i \in 1..n : audit[i].exception # e
    ELSE \E i \in 1..n : /\ audit[i].exception = e
                        /\ audit[i].to = status
                        /\ \A k \in (i + 1)..n : audit[k].exception # e

(* Without a crash, every status change has its audit entry: the trail of  *)
(* each exception is an unbroken chain from its opening to the status the  *)
(* row has ("One per status change", AuditEntry).                          *)
TrailIsComplete ==
    crashes = 0 =>
        /\ \A j \in 1..Len(audit) : TrailSays(audit[j].exception, j - 1, audit[j].from)
        /\ \A e \in Exceptions : TrailSays(e, Len(audit), Recorded(e))

(* With crashes the trail may have holes, but it never contradicts the     *)
(* lifecycle or the row: an opening entry comes first or never, no entry   *)
(* departs from a status earlier in life than the one a previous entry     *)
(* arrived at, and none arrives beyond the status the row has reached.     *)
TrailNeverAhead ==
    \A i \in 1..Len(audit) :
        /\ Rank(audit[i].to) =< Rank(Recorded(audit[i].exception))
        /\ \A j \in (i + 1)..Len(audit) :
              audit[j].exception = audit[i].exception =>
                  Rank(audit[i].to) =< Rank(audit[j].from)

(* next_sequence, "monotonic, never reused": entries of one day are        *)
(* numbered in the order they were appended, whichever exceptions they are *)
(* about and whichever days were written in between.                       *)
SequencesMatchInsertion ==
    \A i, j \in 1..Len(audit) :
        i < j /\ audit[i].day = audit[j].day => audit[i].sequence < audit[j].sequence

(* What an audit entry, or a status change on its way to becoming one,     *)
(* says of its row: the day it opened, confirmed or closed the row is the  *)
(* one the column has, a resolution names the resolver, a pair's verdict   *)
(* is scored, and only the exporter closes.                                *)
Agrees(entry) ==
    LET row == table[entry.exception]
    IN  /\ entry.from = Absent => row.firstSeenDay = entry.day
        /\ entry.to = "CONFIRMED" =>
              /\ row.confirmedDay = entry.day
              /\ entry.note \in ResolutionTypes => row.resolvedBy = entry.actor
              /\ entry.note = "AI_PAIR" => row.scored
        /\ entry.to = "CLOSED" =>
              row.closedDay = entry.day /\ entry.actor = "EXPORTER"

(* The day, resolver and confidence columns of a row agree with its whole  *)
(* trail, crash or not: nothing that comes later rewrites what an entry    *)
(* recorded ("a reader who sees CONFIRMED never sees it beside a stale     *)
(* score").                                                                *)
RowAgreesWithTrail == \A i \in 1..Len(audit) : Agrees(audit[i])

(* A resolver is named only where a resolution was recorded first: the key *)
(* is committed before the row that relies on it, so no crash leaves a row *)
(* resolved by a source the resolutions table has no record of.            *)
ResolverHasResolution ==
    \A e \in Exceptions :
        table[e].resolvedBy # Absent =>
            \E key \in resolutions : /\ key.exception = e
                                     /\ SourceOf(key.type) = table[e].resolvedBy

(* Without a crash, a recorded resolution means a resolved exception:      *)
(* once the call that inserted the key has returned, the exception is      *)
(* CONFIRMED or CLOSED.  The store alone does not see to that: it records  *)
(* a key before it looks for the row, and once the row is opened every     *)
(* confirmation under that key passes for a replay.  It is a property of   *)
(* the programs on it, which confirm only what they read from the table.   *)
ResolutionResolves ==
    crashes = 0 =>
        \A key \in resolutions :
            \/ StatusOf(key.exception) \in ResolvedStates
            \/ confirming # NoCall /\ confirming.exception = key.exception

(* AuditEntry: "Append-only. One per status change or evidence addition":  *)
(* between calls, the trail of every exception ends at the status it has.  *)
(* _transition commits the status before the entry, so a crash between the *)
(* two breaks it.                                                          *)
EveryChangeAudited ==
    Idle => \A e \in Exceptions : TrailSays(e, Len(audit), StatusOf(e))

=============================================================================
