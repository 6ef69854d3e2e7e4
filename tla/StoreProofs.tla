---------------------------- MODULE StoreProofs ----------------------------
(***************************************************************************)
(* The safety invariants of ExceptionStore, proved for every instance:     *)
(* every set of exceptions, days, evidence and callers, every audit length *)
(* and every number of crashes.  First the type invariant.                 *)
(*                                                                         *)
(* No safety invariant is inductive alone: a step that appends the audit   *)
(* entry needs to know that the pending change it records is legal and is  *)
(* the row's latest, and a step that confirms needs to know that its       *)
(* resolution key and its confidence are already in.  MoveInFlight and     *)
(* ConfirmInFlight say so, and StoreInv is the conjunction that is         *)
(* inductive.                                                              *)
(*                                                                         *)
(* Then ExceptionStore implements AuditedLifecycle, for every instance:    *)
(* the initial state maps to the initial state, and every step maps to a   *)
(* step or to a stutter.  StoreInv supplies the typing of the audit table  *)
(* and of the change in flight.                                            *)
(***************************************************************************)
EXTENDS StoreRefinement, TLAPS

(* MAX(sequence) of a day exists: the value next_sequence reads is one of  *)
(* the day's sequences.  Carried as an invariant, since each entry is      *)
(* numbered above all the earlier ones of its day.                         *)
TopExists ==
    \A day \in Days :
        SequencesOf(day) # {} =>
            \E top \in SequencesOf(day) : \A s \in SequencesOf(day) : top >= s

TypeInv == StoreTypeOK /\ TopExists

-----------------------------------------------------------------------------
(* The slot next_sequence returns is a natural above every slot in use. *)
LEMMA NextSequenceAbove ==
    ASSUME TypeInv, NEW day \in Days
    PROVE  /\ NextSequence(day) \in Nat
           /\ SequencesOf(day) \subseteq Nat
           /\ \A s \in SequencesOf(day) : s < NextSequence(day)
<1>1. SequencesOf(day) \subseteq Nat
  <2>1. \A i \in 1..Len(audit) : audit[i] \in AuditEntry
    BY DEF TypeInv, StoreTypeOK
  <2>2. \A i \in 1..Len(audit) : audit[i].sequence \in Nat
    BY <2>1 DEF AuditEntry
  <2> QED BY <2>2 DEF SequencesOf
<1>2. CASE SequencesOf(day) = {}
  BY <1>2 DEF NextSequence
<1>3. CASE SequencesOf(day) # {}
  <2>1. PICK top \in SequencesOf(day) : \A s \in SequencesOf(day) : top >= s
    BY <1>3 DEF TypeInv, TopExists
  <2>2. /\ Max(SequencesOf(day)) \in SequencesOf(day)
        /\ \A s \in SequencesOf(day) : Max(SequencesOf(day)) >= s
    BY <2>1 DEF Max
  <2>3. NextSequence(day) = Max(SequencesOf(day)) + 1
    BY <1>3 DEF NextSequence
  <2> QED BY <1>1, <2>2, <2>3
<1> QED BY <1>2, <1>3

(* Appending an entry adds its slot to its own day and to no other. *)
LEMMA AppendSequences ==
    ASSUME TypeInv, AppendAudit, NEW day \in Days
    PROVE  /\ unaudited \in Move
           /\ audit' \in Seq(AuditEntry)
           /\ SequencesOf(day)' = IF day = unaudited.day
                                  THEN SequencesOf(day) \union {NextSequence(day)}
                                  ELSE SequencesOf(day)
<1> DEFINE entry == [exception |-> unaudited.exception, from |-> unaudited.from,
                     to |-> unaudited.to, actor |-> unaudited.actor,
                     note |-> unaudited.note, day |-> unaudited.day,
                     sequence |-> NextSequence(unaudited.day)]
<1>1. unaudited \in Move
  BY DEF TypeInv, StoreTypeOK, AppendAudit
<1>2. entry \in AuditEntry
  BY <1>1, NextSequenceAbove DEF Move, AuditEntry
<1>3. audit \in Seq(AuditEntry) /\ audit' = Append(audit, entry)
  BY DEF TypeInv, StoreTypeOK, AppendAudit
<1> HIDE DEF entry
<1>4. /\ Len(audit) \in Nat
      /\ Len(audit') = Len(audit) + 1
      /\ audit'[Len(audit) + 1] = entry
      /\ \A i \in 1..Len(audit) : audit'[i] = audit[i]
      /\ audit' \in Seq(AuditEntry)
  BY <1>2, <1>3
<1>5. SequencesOf(day)' =
        {audit'[i].sequence : i \in {j \in 1..(Len(audit) + 1) : audit'[j].day = day}}
  BY <1>4 DEF SequencesOf
<1>6. entry.day = unaudited.day /\ entry.sequence = NextSequence(unaudited.day)
  BY DEF entry
<1>7. CASE day = unaudited.day
  <2>1. {j \in 1..(Len(audit) + 1) : audit'[j].day = day}
          = {j \in 1..Len(audit) : audit[j].day = day} \union {Len(audit) + 1}
    BY <1>4, <1>6, <1>7
  <2> QED BY <1>1, <1>4, <1>5, <1>6, <1>7, <2>1 DEF SequencesOf
<1>8. CASE day # unaudited.day
  <2>1. {j \in 1..(Len(audit) + 1) : audit'[j].day = day}
          = {j \in 1..Len(audit) : audit[j].day = day}
    BY <1>4, <1>6, <1>8
  <2> QED BY <1>1, <1>4, <1>5, <1>8, <2>1 DEF SequencesOf
<1> QED BY <1>7, <1>8

(* A transition writes a well-formed row and a well-formed pending entry. *)
LEMMA TransitionType ==
    ASSUME StoreTypeOK, NEW e \in Exceptions, NEW to \in Statuses, NEW actor \in Actors,
           NEW note \in Notes, NEW day \in Days, NEW resolver \in OrAbsent(Actors),
           Transition(e, to, actor, note, day, resolver)
    PROVE  table' \in [Exceptions -> Row] /\ unaudited' \in Move
<1>1. table[e] \in Row
  BY DEF StoreTypeOK
<1>2. Moved(table[e], to, day, resolver) \in Row
  BY <1>1 DEF Moved, Row, OrAbsent
<1>3. table' \in [Exceptions -> Row]
  BY <1>2 DEF StoreTypeOK, Transition
<1>4. StatusOf(e) \in OrAbsent(Statuses)
  BY <1>1 DEF StatusOf, Row
<1>5. unaudited' \in Move
  BY <1>4 DEF Transition, Move
<1> QED BY <1>3, <1>5

(* confirm_exception that ends on an error, its key committed. *)
Refusals == RefuseConfirm \/ RefuseUnknown

(* Every step of the store is one of eleven operations. *)
LEMMA StoreNextCases ==
    ASSUME [StoreNext]_storeVars
    PROVE  \/ AppendAudit
           \/ ReopenPending
           \/ WriteConfidence
           \/ Confirm
           \/ Refusals
           \/ Crash
           \/ \E e \in Exceptions, day \in Days, status \in {"OPEN", "PENDING_EVIDENCE"} :
                 UpsertException(e, status, day)
           \/ \E e \in Exceptions, day \in Days, type \in ResolutionTypes,
                 evidence \in Evidence : InsertResolution(e, type, evidence, day)
           \/ \E e \in Exceptions, day \in Days : CloseException(e, day)
           \/ \E e \in Exceptions, day \in Days, to \in Statuses, actor \in Callers :
                 MarkStatus(e, to, actor, day)
           \/ UNCHANGED storeVars
BY DEF StoreNext, CallStep, NewCall, Refusals

LEMMA TypeInvInit == StoreInit => TypeInv
<1> SUFFICES ASSUME StoreInit PROVE TypeInv
  OBVIOUS
<1>1. NoRow \in Row
  BY DEF NoRow, Row, OrAbsent, Absent
<1>2. StoreTypeOK
  BY <1>1 DEF StoreInit, StoreTypeOK
<1>3. \A day \in Days : SequencesOf(day) = {}
  BY DEF StoreInit, SequencesOf
<1> QED BY <1>2, <1>3 DEF TypeInv, TopExists

LEMMA TypeInvStep == TypeInv /\ [StoreNext]_storeVars => TypeInv'
<1> SUFFICES ASSUME TypeInv, [StoreNext]_storeVars PROVE TypeInv'
  OBVIOUS
<1> USE DEF TypeInv
<1>0. audit' = audit => TopExists'
  <2>1. audit' = audit => \A day : SequencesOf(day)' = SequencesOf(day)
    BY DEF SequencesOf
  <2> QED BY <2>1 DEF TopExists
<1>1. CASE AppendAudit
  <2>1. StoreTypeOK'
    BY <1>1, AppendSequences, DaysAssumption DEF AppendAudit, StoreTypeOK, Move
  <2>2. TopExists'
    <3> SUFFICES ASSUME NEW day \in Days, SequencesOf(day)' # {}
                 PROVE  \E top \in SequencesOf(day)' : \A s \in SequencesOf(day)' : top >= s
      BY DEF TopExists
    <3>1. CASE day = unaudited.day
      <4>1. SequencesOf(day)' = SequencesOf(day) \union {NextSequence(day)}
        BY <1>1, <3>1, AppendSequences
      <4>2. \A s \in SequencesOf(day)' : NextSequence(day) >= s
        BY <4>1, NextSequenceAbove
      <4> QED BY <4>1, <4>2
    <3>2. CASE day # unaudited.day
      BY <1>1, <3>2, AppendSequences DEF TopExists
    <3> QED BY <3>1, <3>2
  <2> QED BY <2>1, <2>2
<1>2. CASE ReopenPending
  <2>1. confirming \in Confirmation
    BY <1>2 DEF ReopenPending, InConfirm, StoreTypeOK
  <2>2. table' \in [Exceptions -> Row] /\ unaudited' \in Move
    BY <1>2, <2>1, TransitionType
       DEF ReopenPending, Confirmation, Statuses, Actors, Notes, SourceOf, OrAbsent
  <2> QED BY <1>0, <1>2, <2>2 DEF ReopenPending, StoreTypeOK
<1>3. CASE WriteConfidence
  <2>1. confirming \in Confirmation
    BY <1>3 DEF WriteConfidence, InConfirm, StoreTypeOK
  <2>2. table[confirming.exception] \in Row
    BY <2>1 DEF Confirmation, StoreTypeOK
  <2>3. table' \in [Exceptions -> Row]
    BY <1>3, <2>2 DEF WriteConfidence, StoreTypeOK, Row
  <2>4. confirming' \in Confirmation
    BY <1>3, <2>1 DEF WriteConfidence, Confirmation
  <2> QED BY <1>0, <1>3, <2>3, <2>4 DEF WriteConfidence, StoreTypeOK
<1>4. CASE Confirm
  <2>1. confirming \in Confirmation
    BY <1>4 DEF Confirm, InConfirm, StoreTypeOK
  <2>2. table' \in [Exceptions -> Row] /\ unaudited' \in Move
    BY <1>4, <2>1, TransitionType
       DEF Confirm, Confirmation, Statuses, Actors, Notes, SourceOf, OrAbsent
  <2> QED BY <1>0, <1>4, <2>2 DEF Confirm, StoreTypeOK
<1>5. CASE Refusals
  BY <1>0, <1>5 DEF Refusals, RefuseConfirm, RefuseUnknown, StoreTypeOK, tables
<1>6. CASE Crash
  BY <1>0, <1>6 DEF Crash, StoreTypeOK, tables
<1>7. ASSUME NEW e \in Exceptions, NEW day \in Days,
             NEW status \in {"OPEN", "PENDING_EVIDENCE"}, UpsertException(e, status, day)
      PROVE  TypeInv'
  <2>1. [NoRow EXCEPT !.status = status, !.firstSeenDay = day] \in Row
    BY DEF NoRow, Row, OrAbsent, Absent, Statuses
  <2>2. unaudited' \in Move
    BY <1>7 DEF UpsertException, Move, OrAbsent, Statuses, Actors, Notes
  <2> QED BY <1>0, <1>7, <2>1, <2>2 DEF UpsertException, StoreTypeOK
<1>8. ASSUME NEW e \in Exceptions, NEW day \in Days, NEW type \in ResolutionTypes,
             NEW evidence \in Evidence, InsertResolution(e, type, evidence, day)
      PROVE  TypeInv'
  BY <1>0, <1>8 DEF InsertResolution, StoreTypeOK, Key, Confirmation, IsScored
<1>9. ASSUME NEW e \in Exceptions, NEW day \in Days, CloseException(e, day)
      PROVE  TypeInv'
  <2>1. table' \in [Exceptions -> Row] /\ unaudited' \in Move
    BY <1>9, TransitionType DEF CloseException, Statuses, Actors, Notes, OrAbsent
  <2> QED BY <1>0, <1>9, <2>1 DEF CloseException, StoreTypeOK
<1>10. ASSUME NEW e \in Exceptions, NEW day \in Days, NEW to \in Statuses,
              NEW actor \in Callers, MarkStatus(e, to, actor, day)
       PROVE  TypeInv'
  <2>1. table' \in [Exceptions -> Row] /\ unaudited' \in Move
    BY <1>10, TransitionType, CallersAssumption DEF MarkStatus, Notes, OrAbsent
  <2> QED BY <1>0, <1>10, <2>1 DEF MarkStatus, StoreTypeOK
<1>11. CASE UNCHANGED storeVars
  BY <1>0, <1>11 DEF storeVars, StoreTypeOK
<1> QED
  BY <1>1, <1>2, <1>3, <1>4, <1>5, <1>6, <1>7, <1>8, <1>9, <1>10, <1>11, StoreNextCases

(* The tables and the call in flight always have the shape their columns   *)
(* declare, whatever is called and wherever the program dies.              *)
THEOREM StoreTypeCorrect == StoreSpec => []StoreTypeOK
<1>1. StoreSpec => []TypeInv
  BY TypeInvInit, TypeInvStep, PTL DEF StoreSpec
<1> QED BY <1>1, PTL DEF TypeInv

-----------------------------------------------------------------------------

(* The status change that waits for its audit entry is the row's last, and *)
(* was a legal one.                                                        *)
MoveInFlight ==
    unaudited # NoCall =>
        /\ StatusOf(unaudited.exception) = unaudited.to
        /\ unaudited.from = Absent \/ IsLegal(unaudited.from, unaudited.to)
        /\ Agrees(unaudited)

(* confirm_exception past its first commit: the key is in, and a           *)
(* confidence that is no longer to be written has been.                    *)
ConfirmInFlight ==
    confirming # NoCall =>
        /\ \E key \in resolutions : /\ key.exception = confirming.exception
                                    /\ key.type = confirming.type
        /\ IsScored(confirming.type) /\ ~confirming.score =>
              table[confirming.exception].scored

StoreInv ==
    /\ TypeInv
    /\ MoveInFlight
    /\ ConfirmInFlight
    /\ SequencesMatchInsertion
    /\ TrailNeverAhead
    /\ RowAgreesWithTrail
    /\ ResolverHasResolution
    /\ TrailIsComplete

-----------------------------------------------------------------------------
(* Ranks follow the lifecycle: no legal transition goes back in life, and  *)
(* from the rank of CONFIRMED on there is one way left.                    *)
LEMMA RankFacts ==
    /\ \A status : Rank(status) \in 0..4
    /\ \A status \in Statuses : Rank(status) > 0 /\ status # Absent
    /\ Rank(Absent) = 0
    /\ \A from, to : IsLegal(from, to) => Rank(from) =< Rank(to)
    /\ \A status : Rank(status) >= 3 <=> status \in ResolvedStates
    /\ \A status : Rank(status) >= 4 <=> status = "CLOSED"
BY DEF Rank, IsLegal, LegalTransitions, Statuses, ResidualStates, PendingStates,
       ResolvedStates, Absent

LEMMA LegalFacts ==
    /\ \A from : ~IsLegal(from, "CONFIRMED") /\ from \in Statuses \ PendingStates =>
          from \in ResolvedStates
    /\ \A from, to : IsLegal(from, to) => from \in Statuses /\ to \in Statuses
    /\ \A from, to : from \in ResolvedStates /\ IsLegal(from, to) => to = "CLOSED"
    /\ \A from : ~IsLegal(from, from) /\ ~IsLegal(Absent, from)
BY DEF IsLegal, LegalTransitions, Statuses, PendingStates, ResolvedStates, Absent

(* The four operations that end in _transition, told apart from the rest:  *)
(* nothing was in flight on the status, and the trail is left alone.       *)
Transitions ==
    \E e \in Exceptions, to \in Statuses, actor \in Actors, note \in Notes,
       day \in Days, resolver \in OrAbsent(Actors) :
        /\ unaudited = NoCall
        /\ Transition(e, to, actor, note, day, resolver)
        /\ UNCHANGED <<audit, resolutions, crashes>>
        /\ \/ /\ confirming' = confirming
              /\ resolver = Absent
              /\ note = "OTHER"
              /\ to = "CLOSED" => actor = "EXPORTER"
              /\ confirming # NoCall => to = "OPEN" /\ confirming.exception = e
           \/ /\ confirming # NoCall /\ confirming' = NoCall
              /\ e = confirming.exception
              /\ to = "CONFIRMED"
              /\ ~confirming.score
              /\ note = confirming.type
              /\ actor = SourceOf(confirming.type)
              /\ resolver = actor

LEMMA TransitionCases ==
    ASSUME TypeInv,
           \/ ReopenPending
           \/ Confirm
           \/ \E e \in Exceptions, day \in Days : CloseException(e, day)
           \/ \E e \in Exceptions, day \in Days, to \in Statuses, actor \in Callers :
                 MarkStatus(e, to, actor, day)
    PROVE  Transitions
<1>1. CASE ReopenPending
  <2>1. confirming \in Confirmation
    BY <1>1 DEF ReopenPending, InConfirm, TypeInv, StoreTypeOK
  <2>2. /\ confirming.exception \in Exceptions /\ confirming.day \in Days
        /\ SourceOf(confirming.type) \in Actors
        /\ "OPEN" \in Statuses /\ "OTHER" \in Notes /\ Absent \in OrAbsent(Actors)
    BY <2>1 DEF Confirmation, SourceOf, Actors, Statuses, Notes, OrAbsent
  <2>3. "OPEN" # "CLOSED"
    OBVIOUS
  <2> QED
    BY <1>1, <2>2, <2>3 DEF ReopenPending, InConfirm, Transitions
<1>2. CASE Confirm
  <2>1. confirming \in Confirmation
    BY <1>2 DEF Confirm, InConfirm, TypeInv, StoreTypeOK
  <2>2. /\ confirming.exception \in Exceptions /\ confirming.day \in Days
        /\ SourceOf(confirming.type) \in Actors /\ confirming.type \in Notes
        /\ "CONFIRMED" \in Statuses /\ SourceOf(confirming.type) \in OrAbsent(Actors)
    BY <2>1 DEF Confirmation, SourceOf, Actors, Statuses, Notes, OrAbsent
  <2> QED
    BY <1>2, <2>2 DEF Confirm, InConfirm, Transitions
<1>3. ASSUME NEW e \in Exceptions, NEW day \in Days, CloseException(e, day)
      PROVE  Transitions
  <2>1. /\ "CLOSED" \in Statuses /\ "EXPORTER" \in Actors /\ "OTHER" \in Notes
        /\ Absent \in OrAbsent(Actors)
    BY DEF Statuses, Actors, Notes, OrAbsent
  <2> QED BY <1>3, <2>1 DEF CloseException, Idle, Transitions
<1>4. ASSUME NEW e \in Exceptions, NEW day \in Days, NEW to \in Statuses,
             NEW actor \in Callers, MarkStatus(e, to, actor, day)
      PROVE  Transitions
  <2>1. actor \in Actors /\ "OTHER" \in Notes /\ Absent \in OrAbsent(Actors)
    BY CallersAssumption DEF Notes, OrAbsent
  <2> QED BY <1>4, <2>1 DEF MarkStatus, Idle, Transitions
<1> QED BY <1>1, <1>2, <1>3, <1>4

Upserts ==
    \E e \in Exceptions, day \in Days, status \in {"OPEN", "PENDING_EVIDENCE"} :
        UpsertException(e, status, day)

Inserts ==
    \E e \in Exceptions, day \in Days, type \in ResolutionTypes, evidence \in Evidence :
        InsertResolution(e, type, evidence, day)

LEMMA StepCases ==
    ASSUME TypeInv, [StoreNext]_storeVars
    PROVE  \/ AppendAudit \/ Transitions \/ WriteConfidence \/ Refusals
           \/ Crash \/ Upserts \/ Inserts \/ UNCHANGED storeVars
BY StoreNextCases, TransitionCases DEF Upserts, Inserts

-----------------------------------------------------------------------------
(* What any step may do to one row: nothing, open it, score it, or move it *)
(* along a legal transition.                                               *)
LEMMA RowStep ==
    ASSUME StoreInv, [StoreNext]_storeVars, NEW e \in Exceptions
    PROVE  \/ table'[e] = table[e]
           \/ StatusOf(e) = Absent
           \/ table'[e] = [table[e] EXCEPT !.scored = TRUE]
           \/ \E to \in Statuses, day \in Days, resolver \in OrAbsent(Actors) :
                 /\ IsLegal(StatusOf(e), to)
                 /\ resolver # Absent => to = "CONFIRMED"
                 /\ table'[e] = Moved(table[e], to, day, resolver)
<1> DEFINE Good ==
      \/ table'[e] = table[e]
      \/ StatusOf(e) = Absent
      \/ table'[e] = [table[e] EXCEPT !.scored = TRUE]
      \/ \E to \in Statuses, day \in Days, resolver \in OrAbsent(Actors) :
            /\ IsLegal(StatusOf(e), to)
            /\ resolver # Absent => to = "CONFIRMED"
            /\ table'[e] = Moved(table[e], to, day, resolver)
<1> SUFFICES Good
  OBVIOUS
<1>0. TypeInv /\ table \in [Exceptions -> Row]
  BY DEF StoreInv, TypeInv, StoreTypeOK
<1>1. CASE AppendAudit \/ Refusals \/ Crash \/ Inserts \/ UNCHANGED storeVars
  BY <1>1 DEF AppendAudit, Refusals, RefuseConfirm, RefuseUnknown, Crash, Inserts,
              InsertResolution, storeVars, tables
<1>2. CASE WriteConfidence
  BY <1>0, <1>2 DEF WriteConfidence
<1>3. CASE Upserts
  BY <1>0, <1>3 DEF Upserts, UpsertException
<1>4. CASE Transitions
  <2>1. PICK f \in Exceptions, to \in Statuses, actor \in Actors, note \in Notes,
             day \in Days, resolver \in OrAbsent(Actors) :
               /\ Transition(f, to, actor, note, day, resolver)
               /\ resolver # Absent => to = "CONFIRMED"
    BY <1>4 DEF Transitions
  <2>2. CASE f = e
    BY <1>0, <2>1, <2>2 DEF Transition
  <2>3. CASE f # e
    BY <1>0, <2>1, <2>3 DEF Transition
  <2> QED BY <2>2, <2>3
<1> HIDE DEF Good
<1> QED BY <1>0, <1>1, <1>2, <1>3, <1>4, StepCases

(* An entry no later in life than its row stays in agreement with it: the  *)
(* day of a status is written once, since no status is entered twice from  *)
(* CONFIRMED on.                                                           *)
LEMMA AgreesKept ==
    ASSUME StoreInv, [StoreNext]_storeVars, NEW entry, entry.exception \in Exceptions,
           entry.to \in Statuses,
           Rank(entry.to) =< Rank(StatusOf(entry.exception)), Agrees(entry)
    PROVE  /\ Agrees(entry)'
           /\ Rank(entry.to) =< Rank(StatusOf(entry.exception))'
<1> DEFINE e == entry.exception
<1>0. table[e] \in Row /\ e \in Exceptions
  BY DEF StoreInv, TypeInv, StoreTypeOK
<1>1. StatusOf(e) # Absent
  BY RankFacts
<1>2. CASE table'[e] = table[e]
  BY <1>2 DEF Agrees, StatusOf
<1>3. CASE table'[e] = [table[e] EXCEPT !.scored = TRUE]
  BY <1>0, <1>3 DEF Agrees, StatusOf, Row
<1>4. ASSUME NEW to \in Statuses, NEW day \in Days, NEW resolver \in OrAbsent(Actors),
             IsLegal(StatusOf(e), to), resolver # Absent => to = "CONFIRMED",
             table'[e] = Moved(table[e], to, day, resolver)
      PROVE  Agrees(entry)' /\ Rank(entry.to) =< Rank(StatusOf(e))'
  <2>1. /\ table'[e].status = to
        /\ table'[e].firstSeenDay = table[e].firstSeenDay
        /\ table'[e].scored = table[e].scored
        /\ to # "CONFIRMED" => table'[e].confirmedDay = table[e].confirmedDay
        /\ to # "CLOSED" => table'[e].closedDay = table[e].closedDay
        /\ to # "CONFIRMED" => table'[e].resolvedBy = table[e].resolvedBy
    BY <1>0, <1>4 DEF Moved, Row
  <2>2. Rank(StatusOf(e)) \in 0..4 /\ Rank(entry.to) \in 0..4 /\ Rank(to) \in 0..4
    BY RankFacts
  <2>3. Rank(StatusOf(e)) =< Rank(to)
    BY <1>4, RankFacts
  <2>4. Rank(entry.to) =< Rank(StatusOf(e))'
    BY <2>1, <2>2, <2>3 DEF StatusOf
  <2>5. entry.to \in ResolvedStates => to = "CLOSED" /\ entry.to # "CLOSED"
    <3> SUFFICES ASSUME entry.to \in ResolvedStates PROVE to = "CLOSED" /\ entry.to # "CLOSED"
      OBVIOUS
    <3>1. Rank(StatusOf(e)) >= 3
      BY <2>2, RankFacts
    <3>2. StatusOf(e) \in ResolvedStates
      BY <3>1, RankFacts
    <3>3. to = "CLOSED" /\ StatusOf(e) # "CLOSED"
      BY <1>4, <3>2, LegalFacts
    <3>4. ~(Rank(StatusOf(e)) >= 4)
      BY <3>3, RankFacts
    <3>5. ~(Rank(entry.to) >= 4)
      BY <2>2, <3>4
    <3>6. entry.to # "CLOSED"
      BY <3>5, RankFacts
    <3> QED BY <3>3, <3>6
  <2>6. Agrees(entry)'
    BY <2>1, <2>5 DEF Agrees, ResolvedStates
  <2> QED BY <2>4, <2>6
<1> QED BY <1>0, <1>1, <1>2, <1>3, <1>4, RowStep

-----------------------------------------------------------------------------
(* MoveInFlight is set up by the operation that changes the status and     *)
(* stays until append_audit or a crash ends it.                            *)
LEMMA MoveInFlightStep == StoreInv /\ [StoreNext]_storeVars => MoveInFlight'
<1> SUFFICES ASSUME StoreInv, [StoreNext]_storeVars, unaudited' # NoCall
             PROVE  /\ StatusOf(unaudited.exception)' = unaudited'.to
                    /\ unaudited'.from = Absent \/ IsLegal(unaudited'.from, unaudited'.to)
                    /\ Agrees(unaudited)'
  BY DEF MoveInFlight
<1>0. TypeInv /\ table \in [Exceptions -> Row]
  BY DEF StoreInv, TypeInv, StoreTypeOK
<1>1. CASE UNCHANGED <<table, unaudited>>
  BY <1>1 DEF StoreInv, MoveInFlight, StatusOf, Agrees
<1>2. CASE Upserts
  <2>1. PICK e \in Exceptions, day \in Days, status \in {"OPEN", "PENDING_EVIDENCE"} :
          UpsertException(e, status, day)
    BY <1>2 DEF Upserts
  <2>2. /\ unaudited'.exception = e /\ unaudited'.from = Absent
        /\ unaudited'.to = status /\ unaudited'.day = day
    BY <2>1 DEF UpsertException
  <2>3. table'[e].status = status /\ table'[e].firstSeenDay = day
    BY <1>0, <2>1 DEF UpsertException, NoRow
  <2> QED BY <2>2, <2>3 DEF StatusOf, Agrees
<1>3. CASE Transitions
  <2>1. PICK e \in Exceptions, to \in Statuses, actor \in Actors, note \in Notes,
             day \in Days, resolver \in OrAbsent(Actors) :
               /\ Transition(e, to, actor, note, day, resolver)
               /\ to = "CLOSED" => actor = "EXPORTER"
               /\ \/ resolver = Absent /\ note = "OTHER"
                  \/ /\ confirming # NoCall /\ e = confirming.exception
                     /\ to = "CONFIRMED" /\ ~confirming.score
                     /\ note = confirming.type /\ resolver = actor
                     /\ actor = SourceOf(confirming.type)
    BY <1>3 DEF Transitions
  <2>2. /\ unaudited'.exception = e /\ unaudited'.from = StatusOf(e)
        /\ unaudited'.to = to /\ unaudited'.day = day
        /\ unaudited'.actor = actor /\ unaudited'.note = note
        /\ IsLegal(StatusOf(e), to)
    BY <2>1 DEF Transition
  <2>3. table[e] \in Row /\ table'[e] = Moved(table[e], to, day, resolver)
    BY <1>0, <2>1 DEF Transition
  <2>4. /\ table'[e].status = to
        /\ to = "CONFIRMED" => table'[e].confirmedDay = day
        /\ to = "CLOSED" => table'[e].closedDay = day
        /\ resolver # Absent => table'[e].resolvedBy = resolver
        /\ table'[e].scored = table[e].scored
    BY <2>3 DEF Moved, Row
  <2>5. StatusOf(e) # Absent
    BY <2>2, LegalFacts
  <2>6. note \in ResolutionTypes =>
          /\ table'[e].resolvedBy = actor
          /\ note = "AI_PAIR" => table'[e].scored
    <3>1. SourceOf(confirming.type) # Absent
      BY DEF SourceOf, Absent
    <3>2. note = "AI_PAIR" /\ note = confirming.type => IsScored(confirming.type)
      BY DEF IsScored
    <3> QED BY <2>1, <2>4, <3>1, <3>2 DEF ResolutionTypes, StoreInv, ConfirmInFlight
  <2> QED BY <2>1, <2>2, <2>4, <2>5, <2>6 DEF StatusOf, Agrees, ResolutionTypes
<1>4. CASE WriteConfidence
  BY <1>4 DEF WriteConfidence, InConfirm
<1>5. CASE AppendAudit \/ Crash
  BY <1>5 DEF AppendAudit, Crash
<1>6. CASE Refusals \/ Inserts \/ UNCHANGED storeVars
  <2>1. UNCHANGED <<table, unaudited>>
    BY <1>6 DEF Refusals, RefuseConfirm, RefuseUnknown, Inserts, InsertResolution,
                storeVars, tables
  <2> QED BY <1>1, <2>1
<1> QED BY <1>0, <1>2, <1>3, <1>4, <1>5, <1>6, StepCases

(* The key is inserted as confirm_exception begins, nothing removes a key, *)
(* and only this call can touch the row until it ends.                     *)
LEMMA ConfirmInFlightStep == StoreInv /\ [StoreNext]_storeVars => ConfirmInFlight'
<1> SUFFICES ASSUME StoreInv, [StoreNext]_storeVars, confirming' # NoCall
             PROVE  /\ \E key \in resolutions' : /\ key.exception = confirming'.exception
                                                  /\ key.type = confirming'.type
                    /\ IsScored(confirming'.type) /\ ~confirming'.score =>
                          table'[confirming'.exception].scored
  BY DEF ConfirmInFlight
<1>0. TypeInv /\ table \in [Exceptions -> Row] /\ confirming \in Confirmation \union {NoCall}
  BY DEF StoreInv, TypeInv, StoreTypeOK
<1>1. CASE UNCHANGED <<table, confirming, resolutions>>
  BY <1>1 DEF StoreInv, ConfirmInFlight
<1>2. CASE Inserts
  <2>1. PICK e \in Exceptions, day \in Days, type \in ResolutionTypes, evidence \in Evidence :
          InsertResolution(e, type, evidence, day)
    BY <1>2 DEF Inserts
  <2>2. /\ confirming' = [exception |-> e, type |-> type, day |-> day,
                          score |-> IsScored(type)]
        /\ [exception |-> e, type |-> type, evidence |-> evidence] \in resolutions'
        /\ table' = table
    BY <2>1 DEF InsertResolution
  <2>3. confirming'.exception = e /\ confirming'.type = type
        /\ confirming'.score = IsScored(type)
    BY <2>2
  <2>4. \E key \in resolutions' : key.exception = e /\ key.type = type
    BY <2>2
  <2> QED BY <2>2, <2>3, <2>4
<1>3. CASE WriteConfidence
  <2>1. confirming \in Confirmation /\ confirming.exception \in Exceptions
    BY <1>0, <1>3 DEF WriteConfidence, InConfirm, Confirmation
  <2>2. confirming'.exception = confirming.exception /\ confirming'.type = confirming.type
    BY <1>3, <2>1 DEF WriteConfidence, Confirmation
  <2>3. table'[confirming.exception].scored
    BY <1>0, <1>3, <2>1 DEF WriteConfidence, Row
  <2>4. resolutions' = resolutions
    BY <1>3 DEF WriteConfidence
  <2> QED BY <1>3, <2>2, <2>3, <2>4
          DEF WriteConfidence, InConfirm, StoreInv, ConfirmInFlight
<1>4. CASE Transitions
  <2>1. PICK e \in Exceptions, to \in Statuses, actor \in Actors, note \in Notes,
             day \in Days, resolver \in OrAbsent(Actors) :
               /\ Transition(e, to, actor, note, day, resolver)
               /\ resolutions' = resolutions
               /\ confirming' = confirming
    BY <1>4 DEF Transitions
  <2>2. table[e] \in Row /\ table' = [table EXCEPT ![e] = Moved(table[e], to, day, resolver)]
    BY <1>0, <2>1 DEF Transition
  <2>3. Moved(table[e], to, day, resolver).scored = table[e].scored
    BY <2>2 DEF Moved, Row
  <2>4. confirming.exception \in Exceptions
    BY <1>0, <2>1 DEF Confirmation
  <2>5. table'[confirming.exception].scored = table[confirming.exception].scored
    BY <1>0, <2>2, <2>3, <2>4
  <2> QED BY <2>1, <2>5 DEF StoreInv, ConfirmInFlight
<1>5. CASE AppendAudit \/ Refusals \/ Crash \/ UNCHANGED storeVars
  BY <1>1, <1>5 DEF AppendAudit, Refusals, RefuseConfirm, RefuseUnknown, Crash, storeVars
<1>6. CASE Upserts
  BY <1>6 DEF Upserts, UpsertException, Idle
<1> QED BY <1>0, <1>2, <1>3, <1>4, <1>5, <1>6, StepCases

(* How append_audit extends the table: the old entries, and after them the *)
(* change that was in flight, numbered by next_sequence.                   *)
LEMMA Appended ==
    ASSUME StoreInv, AppendAudit
    PROVE  /\ Len(audit) \in Nat
           /\ Len(audit') = Len(audit) + 1
           /\ \A i \in 1..Len(audit) : audit'[i] = audit[i] /\ audit[i] \in AuditEntry
           /\ LET new == audit'[Len(audit) + 1]
              IN  /\ new.exception = unaudited.exception
                  /\ new.from = unaudited.from
                  /\ new.to = unaudited.to
                  /\ new.actor = unaudited.actor
                  /\ new.note = unaudited.note
                  /\ new.day = unaudited.day
                  /\ new.sequence = NextSequence(unaudited.day)
           /\ unaudited \in Move
<1> DEFINE entry == [exception |-> unaudited.exception, from |-> unaudited.from,
                     to |-> unaudited.to, actor |-> unaudited.actor,
                     note |-> unaudited.note, day |-> unaudited.day,
                     sequence |-> NextSequence(unaudited.day)]
<1>1. TypeInv /\ audit \in Seq(AuditEntry)
  BY DEF StoreInv, TypeInv, StoreTypeOK
<1>2. unaudited \in Move
  BY DEF StoreInv, TypeInv, StoreTypeOK, AppendAudit
<1>3. entry \in AuditEntry
  BY <1>1, <1>2, NextSequenceAbove DEF Move, AuditEntry
<1>4. audit' = Append(audit, entry)
  BY DEF AppendAudit
<1>5. /\ entry.exception = unaudited.exception /\ entry.from = unaudited.from
      /\ entry.to = unaudited.to /\ entry.actor = unaudited.actor
      /\ entry.note = unaudited.note /\ entry.day = unaudited.day
      /\ entry.sequence = NextSequence(unaudited.day)
  OBVIOUS
<1> HIDE DEF entry
<1>6. /\ Len(audit) \in Nat /\ Len(audit') = Len(audit) + 1
      /\ audit'[Len(audit) + 1] = entry
      /\ \A i \in 1..Len(audit) : audit'[i] = audit[i] /\ audit[i] \in AuditEntry
  BY <1>1, <1>3, <1>4
<1> QED BY <1>2, <1>5, <1>6

(* No other step touches the audit table. *)
LEMMA AuditKept ==
    ASSUME StoreInv, [StoreNext]_storeVars
    PROVE  AppendAudit \/ audit' = audit
<1>1. TypeInv
  BY DEF StoreInv
<1> QED
  BY <1>1, StepCases
     DEF Transitions, WriteConfidence, Refusals, RefuseConfirm, RefuseUnknown, Crash,
         Upserts, UpsertException, Inserts, InsertResolution, storeVars, tables

LEMMA SequencesStep == StoreInv /\ [StoreNext]_storeVars => SequencesMatchInsertion'
<1> SUFFICES ASSUME StoreInv, AppendAudit PROVE SequencesMatchInsertion'
  BY AuditKept DEF StoreInv, SequencesMatchInsertion
<1> DEFINE n == Len(audit)
<1>1. TypeInv
  BY DEF StoreInv
<1>2. ASSUME NEW i \in 1..n, audit[i].day = unaudited.day
      PROVE  audit[i].sequence < NextSequence(unaudited.day)
  <2>1. audit[i].sequence \in SequencesOf(unaudited.day)
    BY <1>2 DEF SequencesOf
  <2>2. unaudited.day \in Days
    BY Appended DEF Move
  <2> QED BY <1>1, <2>1, <2>2, NextSequenceAbove
<1> SUFFICES ASSUME NEW i \in 1..(n + 1), NEW j \in 1..(n + 1), i < j,
                    audit'[i].day = audit'[j].day
             PROVE  audit'[i].sequence < audit'[j].sequence
  BY Appended DEF SequencesMatchInsertion
<1>3. i \in 1..n /\ audit'[i] = audit[i]
  BY Appended
<1>4. CASE j \in 1..n
  BY <1>3, <1>4, Appended DEF StoreInv, SequencesMatchInsertion
<1>5. CASE j = n + 1
  BY <1>2, <1>3, <1>5, Appended
<1> QED BY <1>4, <1>5, Appended

-----------------------------------------------------------------------------
(* The status the trail has been told of is the row's, or lags one legal   *)
(* step behind it; it changes only when an entry is appended or when a     *)
(* crash loses the one that was due.                                       *)
LEMMA RecordedLags ==
    ASSUME StoreInv, NEW e \in Exceptions
    PROVE  Rank(Recorded(e)) =< Rank(StatusOf(e))
<1>1. CASE unaudited # NoCall /\ unaudited.exception = e
  <2>1. /\ Recorded(e) = unaudited.from /\ StatusOf(e) = unaudited.to
        /\ unaudited.from = Absent \/ IsLegal(unaudited.from, unaudited.to)
    BY <1>1 DEF StoreInv, MoveInFlight, Recorded
  <2>2. Rank(unaudited.to) \in 0..4 /\ Rank(Absent) = 0
    BY RankFacts
  <2>3. CASE unaudited.from = Absent
    BY <2>1, <2>2, <2>3
  <2>4. CASE IsLegal(unaudited.from, unaudited.to)
    BY <2>1, <2>4, RankFacts
  <2> QED BY <2>1, <2>3, <2>4
<1>2. CASE ~(unaudited # NoCall /\ unaudited.exception = e)
  <2>1. Recorded(e) = StatusOf(e)
    BY <1>2 DEF Recorded
  <2>2. Rank(StatusOf(e)) \in 0..4
    BY RankFacts
  <2> QED BY <2>1, <2>2
<1> QED BY <1>1, <1>2

LEMMA RecordedStep ==
    ASSUME StoreInv, [StoreNext]_storeVars, NEW e \in Exceptions
    PROVE  \/ Recorded(e)' = Recorded(e)
           \/ (AppendAudit \/ Crash) /\ Recorded(e)' = StatusOf(e)
<1>0. TypeInv /\ table \in [Exceptions -> Row]
  BY DEF StoreInv, TypeInv, StoreTypeOK
<1>1. CASE AppendAudit \/ Crash
  BY <1>1 DEF AppendAudit, Crash, tables, Recorded, StatusOf
<1>2. CASE UNCHANGED <<table, unaudited>>
  BY <1>2 DEF Recorded, StatusOf
<1>3. CASE Inserts \/ Refusals \/ UNCHANGED storeVars
  BY <1>2, <1>3 DEF Inserts, InsertResolution, Refusals, RefuseConfirm, RefuseUnknown,
                    storeVars, tables
<1>4. CASE WriteConfidence
  <2>1. confirming \in Confirmation /\ confirming.exception \in Exceptions
    BY <1>4 DEF WriteConfidence, InConfirm, StoreInv, TypeInv, StoreTypeOK, Confirmation
  <2>2. table'[e].status = table[e].status /\ unaudited' = unaudited
    BY <1>0, <1>4, <2>1 DEF WriteConfidence, Row
  <2> QED BY <2>2 DEF Recorded, StatusOf
<1>5. CASE Upserts
  <2>1. PICK f \in Exceptions, day \in Days, status \in {"OPEN", "PENDING_EVIDENCE"} :
          UpsertException(f, status, day)
    BY <1>5 DEF Upserts
  <2>2. unaudited = NoCall /\ unaudited'.exception = f /\ unaudited'.from = StatusOf(f)
    BY <2>1 DEF UpsertException, Idle
  <2>3. CASE e = f
    <3>1. unaudited' # NoCall
      <4>1. unaudited' \in Move
        BY <2>1 DEF UpsertException, Move, OrAbsent, Statuses, Actors, Notes
      <4> QED BY <4>1, NoCallAssumption
    <3> QED BY <2>2, <2>3, <3>1 DEF Recorded
  <2>4. CASE e # f
    <3>1. table'[e] = table[e]
      BY <1>0, <2>1, <2>4 DEF UpsertException
    <3> QED BY <2>2, <2>4, <3>1 DEF Recorded, StatusOf
  <2> QED BY <2>3, <2>4
<1>6. CASE Transitions
  <2>1. PICK f \in Exceptions, to \in Statuses, actor \in Actors, note \in Notes,
             day \in Days, resolver \in OrAbsent(Actors) :
               unaudited = NoCall /\ Transition(f, to, actor, note, day, resolver)
    BY <1>6 DEF Transitions
  <2>2. unaudited'.exception = f /\ unaudited'.from = StatusOf(f)
    BY <2>1 DEF Transition
  <2>3. CASE e = f
    <3>1. unaudited' \in Move
      BY <1>0, <2>1, TransitionType DEF TypeInv
    <3> QED BY <2>1, <2>2, <2>3, <3>1, NoCallAssumption DEF Recorded
  <2>4. CASE e # f
    <3>1. table'[e] = table[e]
      BY <1>0, <2>1, <2>4 DEF Transition
    <3> QED BY <2>1, <2>2, <2>4, <3>1 DEF Recorded, StatusOf
  <2> QED BY <2>3, <2>4
<1> QED BY <1>0, <1>1, <1>3, <1>4, <1>5, <1>6, StepCases

LEMMA TrailNeverAheadStep == StoreInv /\ [StoreNext]_storeVars => TrailNeverAhead'
<1> SUFFICES ASSUME StoreInv, [StoreNext]_storeVars PROVE TrailNeverAhead'
  OBVIOUS
<1> DEFINE n == Len(audit)
<1>0. \A status : Rank(status) \in 0..4
  BY RankFacts
<1>1. n \in Nat /\ \A i \in 1..n : audit[i] \in AuditEntry /\ audit[i].exception \in Exceptions
  <2>1. audit \in Seq(AuditEntry)
    BY DEF StoreInv, TypeInv, StoreTypeOK
  <2>2. \A i \in 1..n : audit[i] \in AuditEntry
    BY <2>1
  <2>3. \A x \in AuditEntry : x.exception \in Exceptions
    BY DEF AuditEntry
  <2> QED BY <2>1, <2>2, <2>3
<1>2. \A i \in 1..n : Rank(audit[i].to) =< Rank(Recorded(audit[i].exception))
  BY DEF StoreInv, TrailNeverAhead
<1>3. ASSUME NEW i \in 1..n, NEW e \in Exceptions, e = audit[i].exception
      PROVE  Rank(audit[i].to) =< Rank(Recorded(e)')
  <2>1. Rank(audit[i].to) =< Rank(Recorded(e)) /\ Rank(Recorded(e)) =< Rank(StatusOf(e))
    BY <1>2, <1>3, RecordedLags
  <2>2. Recorded(e)' = Recorded(e) \/ Recorded(e)' = StatusOf(e)
    BY RecordedStep
  <2> QED BY <1>0, <2>1, <2>2
<1>4. CASE audit' = audit
  <2>1. \A i \in 1..n, e \in Exceptions :
          e = audit[i].exception => Rank(audit[i].to) =< Rank(Recorded(e)')
    BY <1>3
  <2>2. \A i \in 1..n : Rank(audit'[i].to) =< Rank(Recorded(audit[i].exception)')
    BY <1>1, <1>4, <2>1 DEF Recorded, StatusOf
  <2>3. \A i \in 1..n : \A j \in (i + 1)..n :
          audit'[j].exception = audit'[i].exception => Rank(audit'[i].to) =< Rank(audit'[j].from)
    BY <1>4 DEF StoreInv, TrailNeverAhead
  <2> QED BY <1>4, <2>2, <2>3 DEF TrailNeverAhead
<1>5. CASE AppendAudit
  <2> DEFINE new == audit'[n + 1]
  <2>1. /\ new.exception = unaudited.exception /\ new.from = unaudited.from
        /\ new.to = unaudited.to /\ Len(audit') = n + 1
        /\ \A i \in 1..n : audit'[i] = audit[i]
        /\ unaudited.exception \in Exceptions /\ unaudited # NoCall
    BY <1>5, Appended DEF AppendAudit, Move
  <2>2. Recorded(unaudited.exception) = unaudited.from
    BY <2>1 DEF Recorded
  <2>3. StatusOf(unaudited.exception) = unaudited.to
    BY <2>1 DEF StoreInv, MoveInFlight
  <2>4. \A e : Recorded(e)' = StatusOf(e)
    BY <1>5 DEF AppendAudit, Recorded, StatusOf
  <2>5. ASSUME NEW i \in 1..(n + 1), NEW e \in Exceptions, e = audit'[i].exception
        PROVE  Rank(audit'[i].to) =< Rank(Recorded(e)')
    <3>1. CASE i \in 1..n
      BY <1>3, <2>1, <2>5, <3>1
    <3>2. CASE i = n + 1
      BY <1>0, <2>1, <2>3, <2>4, <2>5, <3>2
    <3> QED BY <1>1, <3>1, <3>2
  <2>6. ASSUME NEW i \in 1..(n + 1), NEW j \in (i + 1)..(n + 1),
               audit'[j].exception = audit'[i].exception
        PROVE  Rank(audit'[i].to) =< Rank(audit'[j].from)
    <3>1. i \in 1..n /\ audit'[i] = audit[i]
      BY <1>1, <2>1
    <3>2. CASE j \in 1..n
      BY <2>1, <2>6, <3>1, <3>2 DEF StoreInv, TrailNeverAhead
    <3>3. CASE j = n + 1
      BY <1>2, <2>1, <2>2, <2>6, <3>1, <3>3
    <3> QED BY <1>1, <3>2, <3>3
  <2>7. \A i \in 1..(n + 1) : audit'[i].exception \in Exceptions
    BY <1>1, <2>1
  <2>8. \A i \in 1..(n + 1) : Rank(audit'[i].to) =< Rank(Recorded(audit[i].exception)')
    BY <2>5, <2>7 DEF Recorded, StatusOf
  <2> QED BY <2>1, <2>6, <2>8 DEF TrailNeverAhead
<1> QED BY <1>4, <1>5, AuditKept

LEMMA RowAgreesStep == StoreInv /\ [StoreNext]_storeVars => RowAgreesWithTrail'
<1> SUFFICES ASSUME StoreInv, [StoreNext]_storeVars, NEW i \in 1..Len(audit')
             PROVE  Agrees(audit[i])'
  BY DEF RowAgreesWithTrail
<1> DEFINE n == Len(audit)
<1>0. audit \in Seq(AuditEntry) /\ n \in Nat
  BY DEF StoreInv, TypeInv, StoreTypeOK
<1>1. ASSUME i \in 1..n, audit'[i] = audit[i]
      PROVE  Agrees(audit[i])'
  <2>1. PICK entry : entry = audit[i]
    OBVIOUS
  <2>2. entry \in AuditEntry
    BY <1>0, <1>1, <2>1
  <2>3. entry.exception \in Exceptions /\ entry.to \in Statuses
    BY <2>2 DEF AuditEntry
  <2>4. /\ Agrees(entry)
        /\ Rank(entry.to) =< Rank(Recorded(entry.exception))
    BY <1>1, <2>1 DEF StoreInv, RowAgreesWithTrail, TrailNeverAhead
  <2>5. Rank(Recorded(entry.exception)) =< Rank(StatusOf(entry.exception))
    BY <2>3, RecordedLags
  <2>6. /\ Rank(entry.to) \in 0..4 /\ Rank(Recorded(entry.exception)) \in 0..4
        /\ Rank(StatusOf(entry.exception)) \in 0..4
    BY RankFacts
  <2>7. Rank(entry.to) =< Rank(StatusOf(entry.exception))
    BY <2>4, <2>5, <2>6
  <2>8. Agrees(entry)'
    BY <2>3, <2>4, <2>7, AgreesKept
  <2> QED BY <1>1, <2>1, <2>8 DEF Agrees
<1>2. CASE audit' = audit
  BY <1>1, <1>2
<1>3. CASE AppendAudit
  <2>1. CASE i \in 1..n
    BY <1>1, <1>3, <2>1, Appended
  <2>2. CASE i = n + 1
    <3>1. /\ audit'[i].exception = unaudited.exception
          /\ audit'[i].from = unaudited.from /\ audit'[i].to = unaudited.to
          /\ audit'[i].day = unaudited.day /\ audit'[i].actor = unaudited.actor
          /\ audit'[i].note = unaudited.note
      BY <1>3, <2>2, Appended
    <3>2. Agrees(unaudited) /\ table' = table
      BY <1>3 DEF AppendAudit, StoreInv, MoveInFlight
    <3> QED BY <3>1, <3>2 DEF Agrees
  <2> QED BY <1>0, <1>3, <2>1, <2>2, Appended
<1> QED BY <1>2, <1>3, AuditKept

(* Confirm names a resolver whose key ConfirmInFlight has in the table. *)
LEMMA ResolverStep == StoreInv /\ [StoreNext]_storeVars => ResolverHasResolution'
<1> SUFFICES ASSUME StoreInv, [StoreNext]_storeVars, NEW e \in Exceptions,
                    table'[e].resolvedBy # Absent
             PROVE  \E key \in resolutions' : /\ key.exception = e
                                              /\ SourceOf(key.type) = table'[e].resolvedBy
  BY DEF ResolverHasResolution
<1>0. TypeInv /\ table \in [Exceptions -> Row]
  BY DEF StoreInv, TypeInv, StoreTypeOK
<1>1. resolutions \subseteq resolutions'
  BY <1>0, StepCases
     DEF AppendAudit, Transitions, WriteConfidence, Refusals, RefuseConfirm,
         RefuseUnknown, Crash, Upserts, UpsertException, Inserts, InsertResolution,
         storeVars, tables
<1>2. ASSUME table'[e].resolvedBy = table[e].resolvedBy
      PROVE  \E key \in resolutions' : /\ key.exception = e
                                       /\ SourceOf(key.type) = table'[e].resolvedBy
  BY <1>1, <1>2 DEF StoreInv, ResolverHasResolution
<1>3. CASE Transitions
  <2>1. PICK f \in Exceptions, to \in Statuses, actor \in Actors, note \in Notes,
             day \in Days, resolver \in OrAbsent(Actors) :
               /\ Transition(f, to, actor, note, day, resolver)
               /\ \/ resolver = Absent
                  \/ /\ confirming # NoCall /\ f = confirming.exception
                     /\ resolver = SourceOf(confirming.type)
    BY <1>3 DEF Transitions
  <2>2. table[f] \in Row /\ table' = [table EXCEPT ![f] = Moved(table[f], to, day, resolver)]
    BY <1>0, <2>1 DEF Transition
  <2>3. CASE e # f \/ resolver = Absent
    <3>1. table'[e].resolvedBy = table[e].resolvedBy
      BY <1>0, <2>2, <2>3 DEF Moved, Row
    <3> QED BY <1>2, <3>1
  <2>4. CASE e = f /\ resolver # Absent
    <3>1. table'[e].resolvedBy = SourceOf(confirming.type)
      BY <1>0, <2>1, <2>2, <2>4 DEF Moved, Row
    <3>2. \E key \in resolutions : key.exception = e /\ key.type = confirming.type
      BY <2>1, <2>4 DEF StoreInv, ConfirmInFlight
    <3> QED BY <1>1, <3>1, <3>2
  <2> QED BY <2>3, <2>4
<1>4. CASE WriteConfidence
  <2>1. confirming \in Confirmation /\ confirming.exception \in Exceptions
    BY <1>4 DEF WriteConfidence, InConfirm, StoreInv, TypeInv, StoreTypeOK, Confirmation
  <2>2. table'[e].resolvedBy = table[e].resolvedBy
    BY <1>0, <1>4, <2>1 DEF WriteConfidence, Row
  <2> QED BY <1>2, <2>2
<1>5. CASE Upserts
  <2>1. PICK f \in Exceptions, day \in Days, status \in {"OPEN", "PENDING_EVIDENCE"} :
          UpsertException(f, status, day)
    BY <1>5 DEF Upserts
  <2>2. CASE e = f
    BY <1>0, <2>1, <2>2 DEF UpsertException, NoRow
  <2>3. CASE e # f
    <3>1. table'[e] = table[e]
      BY <1>0, <2>1, <2>3 DEF UpsertException
    <3> QED BY <1>2, <3>1
  <2> QED BY <2>2, <2>3
<1>6. CASE AppendAudit \/ Refusals \/ Crash \/ Inserts \/ UNCHANGED storeVars
  <2>1. table' = table
    BY <1>6 DEF AppendAudit, Refusals, RefuseConfirm, RefuseUnknown, Crash, Inserts,
                InsertResolution, storeVars, tables
  <2> QED BY <1>2, <2>1
<1> QED BY <1>0, <1>3, <1>4, <1>5, <1>6, StepCases

(* CONFIRMED and CLOSED are never left for anything else. *)
LEMMA ResolvedStays ==
    ASSUME StoreInv, [StoreNext]_storeVars, NEW e \in Exceptions,
           StatusOf(e) \in ResolvedStates
    PROVE  StatusOf(e)' \in ResolvedStates
<1>0. table[e] \in Row
  BY DEF StoreInv, TypeInv, StoreTypeOK
<1>1. StatusOf(e) # Absent
  BY DEF ResolvedStates, Absent
<1>2. CASE table'[e] = table[e]
  BY <1>2 DEF StatusOf
<1>3. CASE table'[e] = [table[e] EXCEPT !.scored = TRUE]
  BY <1>0, <1>3 DEF StatusOf, Row
<1>4. ASSUME NEW to \in Statuses, NEW day \in Days, NEW resolver \in OrAbsent(Actors),
             IsLegal(StatusOf(e), to), table'[e] = Moved(table[e], to, day, resolver)
      PROVE  StatusOf(e)' \in ResolvedStates
  <2>1. table'[e].status = to
    BY <1>0, <1>4 DEF Moved, Row
  <2>2. to = "CLOSED"
    BY <1>4, LegalFacts
  <2> QED BY <2>1, <2>2 DEF StatusOf, ResolvedStates
<1> QED BY <1>1, <1>2, <1>3, <1>4, RowStep

(* A row once opened is there for good. *)
LEMMA RowStays ==
    ASSUME StoreInv, [StoreNext]_storeVars, NEW e \in Exceptions, StatusOf(e) # Absent
    PROVE  StatusOf(e)' # Absent
<1>0. table[e] \in Row
  BY DEF StoreInv, TypeInv, StoreTypeOK
<1>1. CASE table'[e] = table[e]
  BY <1>1 DEF StatusOf
<1>2. CASE table'[e] = [table[e] EXCEPT !.scored = TRUE]
  BY <1>0, <1>2 DEF StatusOf, Row
<1>3. ASSUME NEW to \in Statuses, NEW day \in Days, NEW resolver \in OrAbsent(Actors),
             table'[e] = Moved(table[e], to, day, resolver)
      PROVE  StatusOf(e)' # Absent
  <2>1. table'[e].status = to
    BY <1>0, <1>3 DEF Moved, Row
  <2> QED BY <2>1, RankFacts DEF StatusOf
<1> QED BY <1>1, <1>2, <1>3, RowStep

(* What the programs add to StoreInv: the exception being confirmed has a  *)
(* row, so that no key is left behind by RefuseUnknown.                    *)
ResolutionsInv ==
    /\ ResolutionResolves
    /\ confirming # NoCall => StatusOf(confirming.exception) # Absent

(* The store keeps it through every step but the insertion of a key for an *)
(* exception without a row.                                                *)
LEMMA ResolutionsInvStep ==
    ASSUME StoreInv, ResolutionsInv, [StoreNext]_storeVars,
           confirming = NoCall /\ confirming' # NoCall =>
               StatusOf(confirming'.exception) # Absent
    PROVE  ResolutionsInv'
<1>0. /\ TypeInv /\ table \in [Exceptions -> Row] /\ resolutions \subseteq Key
      /\ confirming \in Confirmation \union {NoCall}
  BY DEF StoreInv, TypeInv, StoreTypeOK
<1>1. (confirming # NoCall => StatusOf(confirming.exception) # Absent)'
  <2> SUFFICES ASSUME confirming' # NoCall
               PROVE  StatusOf(confirming.exception)' # Absent
    OBVIOUS
  <2>1. CASE confirming = NoCall
    <3>1. confirming' \in Confirmation
      BY TypeInvStep DEF StoreInv, TypeInv, StoreTypeOK
    <3>2. PICK e \in Exceptions : e = confirming'.exception
      BY <3>1 DEF Confirmation
    <3>3. StatusOf(e)' # Absent
      BY <2>1, <3>2, RowStays
    <3> QED BY <3>2, <3>3 DEF StatusOf
  <2>2. CASE confirming # NoCall
    <3>1. PICK e \in Exceptions : e = confirming.exception
      BY <1>0, <2>2 DEF Confirmation
    <3>2. confirming'.exception = e
      BY <1>0, <2>2, <3>1, StepCases
         DEF AppendAudit, Transitions, WriteConfidence, Refusals, RefuseConfirm,
             RefuseUnknown, Crash, Upserts, UpsertException, Inserts,
             InsertResolution, Idle, storeVars, Confirmation
    <3>3. StatusOf(e)' # Absent
      BY <2>2, <3>1, RowStays DEF ResolutionsInv
    <3> QED BY <3>2, <3>3 DEF StatusOf
  <2> QED BY <2>1, <2>2
<1> SUFFICES ASSUME crashes' = 0, NEW key \in resolutions'
             PROVE  \/ StatusOf(key.exception)' \in ResolvedStates
                    \/ confirming' # NoCall /\ confirming'.exception = key.exception
  BY <1>1 DEF ResolutionsInv, ResolutionResolves
<1>2. ASSUME key \in resolutions, crashes' = crashes PROVE
        \/ StatusOf(key.exception)' \in ResolvedStates
        \/ confirming # NoCall /\ confirming.exception = key.exception
  <2>1. key.exception \in Exceptions
    BY <1>0, <1>2 DEF Key
  <2>2. \/ StatusOf(key.exception) \in ResolvedStates
        \/ confirming # NoCall /\ confirming.exception = key.exception
    BY <1>2 DEF ResolutionsInv, ResolutionResolves
  <2> QED BY <2>1, <2>2, ResolvedStays
<1>3. CASE confirming' = confirming /\ resolutions' = resolutions /\ crashes' = crashes
  BY <1>2, <1>3
<1>4. CASE WriteConfidence
  <2>1. confirming \in Confirmation /\ confirming' \in Confirmation
        /\ confirming'.exception = confirming.exception
    BY <1>0, <1>4 DEF WriteConfidence, InConfirm, Confirmation
  <2>2. confirming' # NoCall
    BY <2>1, NoCallAssumption
  <2> QED BY <1>2, <1>4, <2>1, <2>2 DEF WriteConfidence
<1>5. CASE Inserts
  <2>1. PICK e \in Exceptions, day \in Days, type \in ResolutionTypes, evidence \in Evidence :
          InsertResolution(e, type, evidence, day)
    BY <1>5 DEF Inserts
  <2>2. CASE key \in resolutions
    BY <1>2, <2>1, <2>2 DEF InsertResolution, Idle
  <2>3. CASE key = [exception |-> e, type |-> type, evidence |-> evidence]
    <3>1. confirming' = [exception |-> e, type |-> type, day |-> day,
                         score |-> IsScored(type)]
      BY <2>1 DEF InsertResolution
    <3>2. confirming' \in Confirmation
      BY <3>1 DEF Confirmation, IsScored
    <3>3. confirming' # NoCall /\ confirming'.exception = key.exception
      BY <2>3, <3>1, <3>2, NoCallAssumption
    <3> QED BY <3>3
  <2> QED BY <2>1, <2>2, <2>3 DEF InsertResolution
<1>6. CASE RefuseConfirm
  <2>1. PICK e \in Exceptions : e = confirming.exception
    BY <1>0, <1>6 DEF RefuseConfirm, InConfirm, Confirmation
  <2>2. StatusOf(e) \in ResolvedStates
    BY <1>6, <2>1, LegalFacts DEF RefuseConfirm
  <2>3. StatusOf(e)' \in ResolvedStates
    BY <2>1, <2>2, ResolvedStays
  <2>4. key \in resolutions /\ crashes' = crashes
    BY <1>6 DEF RefuseConfirm, tables
  <2>5. StatusOf(key.exception)' \in ResolvedStates \/ e = key.exception
    BY <1>2, <2>1, <2>4
  <2> QED BY <2>3, <2>5 DEF StatusOf
<1>7. CASE Transitions
  <2>1. PICK e \in Exceptions, to \in Statuses, actor \in Actors, note \in Notes,
             day \in Days, resolver \in OrAbsent(Actors) :
               /\ Transition(e, to, actor, note, day, resolver)
               /\ UNCHANGED <<resolutions, crashes>>
               /\ \/ confirming' = confirming
                  \/ e = confirming.exception /\ to = "CONFIRMED"
    BY <1>7 DEF Transitions
  <2>2. CASE confirming' = confirming
    BY <1>3, <2>1, <2>2
  <2>3. CASE e = confirming.exception /\ to = "CONFIRMED"
    <3>1. table[e] \in Row /\ table'[e] = Moved(table[e], to, day, resolver)
      BY <1>0, <2>1 DEF Transition
    <3>2. table'[e].status = "CONFIRMED"
      BY <2>3, <3>1 DEF Moved, Row
    <3> QED BY <1>2, <2>1, <2>3, <3>2 DEF StatusOf, ResolvedStates
  <2> QED BY <2>1, <2>2, <2>3
<1>8. CASE Crash
  BY <1>8 DEF Crash, StoreInv, TypeInv, StoreTypeOK
<1>9. CASE AppendAudit \/ Upserts \/ UNCHANGED storeVars
  BY <1>3, <1>9 DEF AppendAudit, Upserts, UpsertException, storeVars
<1>10. ~RefuseUnknown
  BY DEF RefuseUnknown, InConfirm, ResolutionsInv
<1> QED
  BY <1>0, <1>4, <1>5, <1>6, <1>7, <1>8, <1>9, <1>10, StepCases DEF Refusals

-----------------------------------------------------------------------------
(* What the first n entries say of an exception is not changed by what is  *)
(* appended after them.                                                    *)
LEMMA TrailSaysKept ==
    ASSUME StoreInv, AppendAudit, NEW n \in 0..Len(audit), NEW e, NEW status,
           TrailSays(e, n, status)
    PROVE  TrailSays(e, n, status)'
<1>1. Len(audit) \in Nat /\ \A i \in 1..Len(audit) : audit'[i] = audit[i]
  BY Appended
<1>2. \A i \in 1..n : audit'[i] = audit[i]
  BY <1>1
<1>3. CASE status = Absent
  BY <1>2, <1>3 DEF TrailSays
<1>4. CASE status # Absent
  <2>1. PICK i \in 1..n : /\ audit[i].exception = e /\ audit[i].to = status
                          /\ \A k \in (i + 1)..n : audit[k].exception # e
    BY <1>4 DEF TrailSays
  <2>2. (i + 1)..n \subseteq 1..n
    BY <1>1
  <2> QED BY <1>2, <1>4, <2>1, <2>2 DEF TrailSays
<1> QED BY <1>3, <1>4

LEMMA TrailIsCompleteStep == StoreInv /\ [StoreNext]_storeVars => TrailIsComplete'
<1> SUFFICES ASSUME StoreInv, [StoreNext]_storeVars, crashes' = 0
             PROVE  /\ \A j \in 1..Len(audit') :
                          TrailSays(audit[j].exception, j - 1, audit[j].from)'
                    /\ \A e \in Exceptions : TrailSays(e, Len(audit), Recorded(e))'
  BY DEF TrailIsComplete
<1> PICK n : n = Len(audit)
  OBVIOUS
<1>0. TypeInv /\ audit \in Seq(AuditEntry) /\ n \in Nat /\ crashes \in Nat
  BY DEF StoreInv, TypeInv, StoreTypeOK
<1>1. crashes = 0 /\ ~Crash
  <2>1. ~Crash
    BY <1>0 DEF Crash
  <2> QED
    BY <1>0, <2>1, StepCases
       DEF AppendAudit, Transitions, WriteConfidence, Refusals, RefuseConfirm,
           RefuseUnknown, Upserts,
           UpsertException, Inserts, InsertResolution, storeVars
<1>2. /\ \A j \in 1..n : TrailSays(audit[j].exception, j - 1, audit[j].from)
      /\ \A e \in Exceptions : TrailSays(e, n, Recorded(e))
  BY <1>1 DEF StoreInv, TrailIsComplete
<1>3. CASE audit' = audit /\ ~AppendAudit
  <2>1. \A e \in Exceptions : Recorded(e)' = Recorded(e)
    BY <1>1, <1>3, RecordedStep
  <2>2. ASSUME NEW e \in Exceptions PROVE TrailSays(e, Len(audit), Recorded(e))'
    <3>1. PICK status : status = Recorded(e)
      OBVIOUS
    <3>2. TrailSays(e, n, status) /\ Recorded(e)' = status
      BY <1>2, <2>1, <3>1
    <3> QED BY <1>3, <3>2 DEF TrailSays
  <2>3. ASSUME NEW j \in 1..n PROVE TrailSays(audit[j].exception, j - 1, audit[j].from)'
    BY <1>2, <1>3 DEF TrailSays
  <2> QED BY <1>3, <2>2, <2>3
<1>4. CASE AppendAudit
  <2>1. /\ Len(audit') = n + 1
        /\ \A i \in 1..n : audit'[i] = audit[i]
        /\ audit'[n + 1].exception = unaudited.exception
        /\ audit'[n + 1].from = unaudited.from
        /\ audit'[n + 1].to = unaudited.to
        /\ unaudited.exception \in Exceptions
        /\ unaudited.to \in Statuses
        /\ unaudited # NoCall
    BY <1>4, Appended DEF AppendAudit, Move
  <2>2. ASSUME NEW e, NEW from, NEW m \in 0..n, TrailSays(e, m, from)
        PROVE  TrailSays(e, m, from)'
    BY <1>4, <2>2, TrailSaysKept
  <2>3. ASSUME NEW j \in 1..n PROVE TrailSays(audit[j].exception, j - 1, audit[j].from)'
    <3>1. PICK e, from : e = audit[j].exception /\ from = audit[j].from
      OBVIOUS
    <3>2. j - 1 \in 0..n /\ TrailSays(e, j - 1, from)
      BY <1>2, <3>1
    <3>3. TrailSays(e, j - 1, from)'
      BY <2>2, <3>2
    <3> QED BY <2>1, <3>1, <3>3 DEF TrailSays
  <2>4. TrailSays(audit[n + 1].exception, (n + 1) - 1, audit[n + 1].from)'
    <3>1. PICK e, from : e = unaudited.exception /\ from = unaudited.from
      OBVIOUS
    <3>2. Recorded(e) = from
      BY <2>1, <3>1 DEF Recorded
    <3>3. TrailSays(e, n, from)
      BY <1>2, <2>1, <3>1, <3>2
    <3>4. TrailSays(e, n, from)'
      BY <1>0, <2>2, <3>3
    <3> QED BY <1>0, <2>1, <3>1, <3>4 DEF TrailSays
  <2>5. ASSUME NEW e \in Exceptions PROVE TrailSays(e, Len(audit), Recorded(e))'
    <3>1. Recorded(e)' = StatusOf(e)
      BY <1>4 DEF AppendAudit, Recorded, StatusOf
    <3>2. CASE e = unaudited.exception
      <4>1. StatusOf(e) = unaudited.to /\ unaudited.to # Absent
        BY <2>1, <3>2, RankFacts DEF StoreInv, MoveInFlight
      <4> QED BY <1>0, <2>1, <3>1, <3>2, <4>1 DEF TrailSays
    <3>3. CASE e # unaudited.exception
      <4>1. PICK status : status = StatusOf(e)
        OBVIOUS
      <4>2. Recorded(e) = status
        BY <3>3, <4>1 DEF Recorded
      <4>3. TrailSays(e, n, status)'
        BY <1>0, <1>2, <2>2, <4>2
      <4>4. audit'[n + 1].exception # e
        BY <2>1, <3>3
      <4>5. CASE status = Absent
        BY <1>0, <2>1, <3>1, <4>1, <4>3, <4>4, <4>5 DEF TrailSays
      <4>6. CASE status # Absent
        <5>1. PICK i \in 1..n : /\ audit'[i].exception = e /\ audit'[i].to = status
                                /\ \A k \in (i + 1)..n : audit'[k].exception # e
          BY <4>3, <4>6 DEF TrailSays
        <5>2. \A k \in (i + 1)..(n + 1) : audit'[k].exception # e
          BY <1>0, <4>4, <5>1
        <5>3. i \in 1..(n + 1)
          BY <1>0
        <5> QED BY <2>1, <3>1, <4>1, <4>6, <5>1, <5>2, <5>3 DEF TrailSays
      <4> QED BY <4>5, <4>6
    <3> QED BY <3>2, <3>3
  <2> QED BY <1>0, <2>1, <2>3, <2>4, <2>5
<1> QED BY <1>3, <1>4, AuditKept

-----------------------------------------------------------------------------
LEMMA StoreInvInit == StoreInit => StoreInv
<1> SUFFICES ASSUME StoreInit PROVE StoreInv
  OBVIOUS
<1>1. TypeInv
  BY TypeInvInit
<1>2. /\ audit = << >> /\ Len(audit) = 0 /\ resolutions = {}
      /\ confirming = NoCall /\ unaudited = NoCall
      /\ \A e \in Exceptions : table[e] = NoRow
  BY DEF StoreInit
<1>3. NoRow.status = Absent /\ NoRow.resolvedBy = Absent
  BY DEF NoRow
<1>4. MoveInFlight /\ ConfirmInFlight
  BY <1>2 DEF MoveInFlight, ConfirmInFlight
<1>5. SequencesMatchInsertion /\ TrailNeverAhead /\ RowAgreesWithTrail
  BY <1>2 DEF SequencesMatchInsertion, TrailNeverAhead, RowAgreesWithTrail
<1>6. ResolverHasResolution
  BY <1>2, <1>3 DEF ResolverHasResolution
<1>7. \A e \in Exceptions : Recorded(e) = Absent
  BY <1>2, <1>3 DEF Recorded, StatusOf
<1>8. TrailIsComplete
  BY <1>2, <1>7 DEF TrailIsComplete, TrailSays
<1> QED BY <1>1, <1>4, <1>5, <1>6, <1>8 DEF StoreInv

LEMMA StoreInvStep == StoreInv /\ [StoreNext]_storeVars => StoreInv'
<1> SUFFICES ASSUME StoreInv, [StoreNext]_storeVars PROVE StoreInv'
  OBVIOUS
<1>1. TypeInv'
  BY TypeInvStep DEF StoreInv
<1>2. MoveInFlight' /\ ConfirmInFlight'
  BY MoveInFlightStep, ConfirmInFlightStep
<1>3. SequencesMatchInsertion' /\ TrailNeverAhead' /\ RowAgreesWithTrail'
  BY SequencesStep, TrailNeverAheadStep, RowAgreesStep
<1>4. ResolverHasResolution' /\ TrailIsComplete'
  BY ResolverStep, TrailIsCompleteStep
<1> QED BY <1>1, <1>2, <1>3, <1>4 DEF StoreInv

(* StoreInv holds in every reachable state of the store. *)
THEOREM StoreInvariant == StoreSpec => []StoreInv
BY StoreInvInit, StoreInvStep, PTL DEF StoreSpec

(* Crashes or not, the audit trail never contradicts the lifecycle and is  *)
(* never ahead of the row.                                                 *)
THEOREM TrailNeverAheadHolds == StoreSpec => []TrailNeverAhead
BY StoreInvariant, PTL DEF StoreInv

(* next_sequence never reuses or reorders a slot of a day. *)
THEOREM SequencesMatchInsertionHolds == StoreSpec => []SequencesMatchInsertion
BY StoreInvariant, PTL DEF StoreInv

(* The day, resolver and confidence columns agree with the whole trail. *)
THEOREM RowAgreesWithTrailHolds == StoreSpec => []RowAgreesWithTrail
BY StoreInvariant, PTL DEF StoreInv

(* No row names a resolver without a resolution, wherever a crash falls. *)
THEOREM ResolverHasResolutionHolds == StoreSpec => []ResolverHasResolution
BY StoreInvariant, PTL DEF StoreInv

(* While no call is cut short, every exception has an unbroken trail.      *)
THEOREM TrailIsCompleteHolds == StoreSpec => []TrailIsComplete
BY StoreInvariant, PTL DEF StoreInv

-----------------------------------------------------------------------------
(* The lifecycle of the abstract module is the one of the store. *)
LEMMA SameLifecycle ==
    /\ Abstract!Absent = Absent
    /\ Abstract!Statuses = Statuses
    /\ Abstract!Actors = Actors
    /\ \A from, to : Abstract!IsLegal(from, to) <=> IsLegal(from, to)
BY DEF Abstract!Absent, Absent, Abstract!Statuses, Statuses, Abstract!Actors, Actors,
       Abstract!IsLegal, IsLegal, Abstract!LegalTransitions, LegalTransitions,
       Abstract!PendingStates, PendingStates

Briefs == [exception : Exceptions, from : OrAbsent(Statuses), to : Statuses, actor : Actors]

LEMMA WrittenType ==
    ASSUME StoreInv
    PROVE  /\ WrittenTrail \in Seq(Briefs)
           /\ Len(WrittenTrail) = Len(audit)
           /\ \A i \in 1..Len(audit) : WrittenTrail[i] = Brief(audit[i])
           /\ unaudited # NoCall => Brief(unaudited) \in Briefs
<1>1. audit \in Seq(AuditEntry) /\ Len(audit) \in Nat /\ unaudited \in Move \union {NoCall}
  BY DEF StoreInv, TypeInv, StoreTypeOK
<1>2. \A i \in 1..Len(audit) : audit[i] \in AuditEntry
  BY <1>1
<1>3. \A entry \in AuditEntry \union Move : Brief(entry) \in Briefs
  BY DEF Brief, Briefs, AuditEntry, Move
<1>4. WrittenTrail \in [1..Len(audit) -> Briefs]
  BY <1>2, <1>3 DEF WrittenTrail
<1>5. \A i \in 1..Len(audit) : WrittenTrail[i] = Brief(audit[i])
  BY DEF WrittenTrail
<1>6. WrittenTrail \in Seq(Briefs) /\ Len(WrittenTrail) = Len(audit)
  BY <1>1, <1>4
<1> QED BY <1>1, <1>3, <1>5, <1>6

(* With the audit table left alone, so is the part of the trail written. *)
LEMMA WrittenKept == audit' = audit => WrittenTrail' = WrittenTrail
BY DEF WrittenTrail, Brief

LEMMA AppendSettles ==
    ASSUME StoreInv, AppendAudit
    PROVE  Abstract!Settle
<1>1. unaudited # NoCall /\ unaudited' = NoCall /\ table' = table
  BY DEF AppendAudit
<1>2. WrittenTrail' = [i \in 1..(Len(audit) + 1) |-> Brief(audit'[i])]
  <2>1. Len(audit') = Len(audit) + 1
    BY Appended
  <2>2. WrittenTrail' = [i \in 1..Len(audit') |-> Brief(audit'[i])]
    BY DEF WrittenTrail, Brief
  <2> HIDE DEF Brief
  <2> QED BY ONLY <2>1, <2>2
<1>3. /\ Brief(audit'[Len(audit) + 1]) = Brief(unaudited)
      /\ \A i \in 1..Len(audit) : Brief(audit'[i]) = WrittenTrail[i]
  BY Appended, WrittenType DEF Brief
<1>4. /\ WrittenTrail \in Seq(Briefs) /\ Brief(unaudited) \in Briefs
      /\ Len(WrittenTrail) = Len(audit) /\ Len(audit) \in Nat
  BY <1>1, WrittenType, Appended
<1>5. WrittenTrail' = Append(WrittenTrail, Brief(unaudited))
  <2> DEFINE b == Brief(unaudited)
             t == Append(WrittenTrail, b)
  <2> HIDE DEF b
  <2>1. b \in Briefs /\ WrittenTrail \in Seq(Briefs)
    BY <1>4 DEF b
  <2>2. /\ t \in Seq(Briefs) /\ Len(t) = Len(audit) + 1
        /\ t[Len(audit) + 1] = b /\ \A i \in 1..Len(audit) : t[i] = WrittenTrail[i]
    BY <1>4, <2>1
  <2> HIDE DEF t
  <2>3. \A i \in 1..(Len(audit) + 1) : Brief(audit'[i]) = t[i]
    BY <1>3, <1>4, <2>2 DEF b
  <2>4. WrittenTrail' = [i \in 1..(Len(audit) + 1) |-> t[i]]
    BY <1>2, <2>3
  <2>5. t = [i \in 1..Len(t) |-> t[i]]
    BY <2>2
  <2>6. WrittenTrail' = t
    BY <2>2, <2>4, <2>5
  <2> QED BY <2>6 DEF b, t
<1>6. abstractTrail' = abstractTrail
  BY <1>1, <1>5 DEF abstractTrail
<1>7. [e \in Exceptions |-> StatusOf(e)]' = [e \in Exceptions |-> StatusOf(e)]
  BY <1>1 DEF StatusOf
<1> QED BY <1>1, <1>6, <1>7 DEF Abstract!Settle

(* A crash with a change in flight loses its entry; any other, none. *)
LEMMA CrashLoses ==
    ASSUME StoreInv, Crash
    PROVE  Abstract!Lose \/ UNCHANGED Abstract!lifecycleVars
<1>1. unaudited' = NoCall /\ table' = table /\ WrittenTrail' = WrittenTrail
  BY WrittenKept DEF Crash, tables
<1>2. [e \in Exceptions |-> StatusOf(e)]' = [e \in Exceptions |-> StatusOf(e)]
  BY <1>1 DEF StatusOf
<1>3. CASE unaudited = NoCall
  <2>1. abstractTrail' = abstractTrail
    BY <1>1, <1>3 DEF abstractTrail
  <2> QED BY <1>1, <1>2, <1>3, <2>1 DEF Abstract!lifecycleVars
<1>4. CASE unaudited # NoCall
  <2> DEFINE t == Append(WrittenTrail, Brief(unaudited))
  <2>1. abstractTrail = t /\ abstractTrail' = WrittenTrail
    BY <1>1, <1>4 DEF abstractTrail
  <2>2. WrittenTrail \in Seq(Briefs) /\ Brief(unaudited) \in Briefs
    BY <1>4, WrittenType
  <2>3. t \in Seq(Briefs) /\ Len(t) = Len(WrittenTrail) + 1 /\ Len(WrittenTrail) \in Nat
    BY <2>2
  <2>4. \A i \in 1..Len(WrittenTrail) : t[i] = WrittenTrail[i]
    BY <2>2
  <2> HIDE DEF t
  <2>5. SubSeq(t, 1, Len(t) - 1) = WrittenTrail
    <3>1. /\ SubSeq(t, 1, Len(WrittenTrail)) \in Seq(Briefs)
          /\ Len(SubSeq(t, 1, Len(WrittenTrail))) = Len(WrittenTrail)
          /\ \A i \in 1..Len(WrittenTrail) : SubSeq(t, 1, Len(WrittenTrail))[i] = t[i]
      BY <2>3
    <3> QED BY <2>2, <2>3, <2>4, <3>1
  <2> QED BY <1>1, <1>2, <1>4, <2>1, <2>5 DEF Abstract!Lose
<1> QED BY <1>3, <1>4

(* The two kinds of step that change a status record it as they do. *)
LEMMA ChangeRecords ==
    ASSUME StoreInv, NEW e \in Exceptions, NEW to \in Statuses, NEW actor \in Actors,
           unaudited = NoCall, unaudited' \in Move, audit' = audit,
           unaudited'.exception = e, unaudited'.from = StatusOf(e),
           unaudited'.to = to, unaudited'.actor = actor,
           table' = [table EXCEPT ![e] = table'[e]], table'[e].status = to
    PROVE  Abstract!Record(e, to, actor)
<1>0. table \in [Exceptions -> Row]
  BY DEF StoreInv, TypeInv, StoreTypeOK
<1>1. unaudited' # NoCall
  BY NoCallAssumption
<1>2. [f \in Exceptions |-> StatusOf(f)]'
        = [[f \in Exceptions |-> StatusOf(f)] EXCEPT ![e] = to]
  BY <1>0 DEF StatusOf
<1>3. abstractTrail = WrittenTrail /\ abstractTrail' = Append(WrittenTrail,
    Brief(unaudited)')
  BY <1>1, WrittenKept DEF abstractTrail
<1>4. Brief(unaudited)' = [exception |-> e, from |-> StatusOf(e), to |-> to,
    actor |-> actor]
  BY DEF Brief
<1>5. [f \in Exceptions |-> StatusOf(f)][e] = StatusOf(e)
  OBVIOUS
<1> QED BY <1>1, <1>2, <1>3, <1>4, <1>5 DEF Abstract!Record

LEMMA UpsertOpens ==
    ASSUME StoreInv, Upserts
    PROVE  Abstract!Next
<1>1. PICK e \in Exceptions, day \in Days, status \in {"OPEN", "PENDING_EVIDENCE"} :
        UpsertException(e, status, day)
  BY DEF Upserts
<1>2. table \in [Exceptions -> Row]
  BY DEF StoreInv, TypeInv, StoreTypeOK
<1>3. /\ status \in Statuses /\ "DETERMINISTIC" \in Actors
      /\ unaudited = NoCall /\ audit' = audit /\ StatusOf(e) = Absent
      /\ table' = [table EXCEPT ![e] = table'[e]] /\ table'[e].status = status
  BY <1>1, <1>2 DEF UpsertException, Idle, NoRow, Statuses, Actors
<1>4. /\ unaudited' \in Move /\ unaudited'.exception = e
      /\ unaudited'.from = StatusOf(e) /\ unaudited'.to = status
      /\ unaudited'.actor = "DETERMINISTIC"
  BY <1>1, <1>3 DEF UpsertException, Move, OrAbsent, Notes
<1>5. Abstract!Record(e, status, "DETERMINISTIC")
  BY <1>3, <1>4, ChangeRecords
<1>6. [f \in Exceptions |-> StatusOf(f)][e] = Abstract!Absent
  BY <1>3, SameLifecycle
<1>7. Abstract!Open(e, status)
  BY <1>5, <1>6 DEF Abstract!Open
<1> QED BY <1>3, <1>7, SameLifecycle DEF Abstract!Next

LEMMA TransitionMoves ==
    ASSUME StoreInv, Transitions
    PROVE  Abstract!Next
<1>0. TypeInv /\ StoreTypeOK /\ table \in [Exceptions -> Row]
  BY DEF StoreInv, TypeInv, StoreTypeOK
<1>1. PICK e \in Exceptions, to \in Statuses, actor \in Actors, note \in Notes,
           day \in Days, resolver \in OrAbsent(Actors) :
             /\ unaudited = NoCall /\ audit' = audit
             /\ Transition(e, to, actor, note, day, resolver)
             /\ to = "CLOSED" => actor = "EXPORTER"
  BY DEF Transitions
<1>2. table'[e].status = to /\ table' = [table EXCEPT ![e] = table'[e]]
  BY <1>0, <1>1 DEF Transition, Moved, Row
<1>3. /\ unaudited' \in Move /\ unaudited'.exception = e
      /\ unaudited'.from = StatusOf(e) /\ unaudited'.to = to
      /\ unaudited'.actor = actor /\ IsLegal(StatusOf(e), to)
  BY <1>0, <1>1, TransitionType DEF Transition
<1>4. Abstract!Record(e, to, actor)
  BY <1>1, <1>2, <1>3, ChangeRecords
<1>5. Abstract!Move(e, to, actor)
  BY <1>1, <1>3, <1>4, SameLifecycle DEF Abstract!Move
<1> QED BY <1>5, SameLifecycle DEF Abstract!Next

(* The steps that change neither a status nor the trail. *)
LEMMA OthersStutter ==
    ASSUME StoreInv, WriteConfidence \/ Refusals \/ Inserts \/ UNCHANGED storeVars
    PROVE  UNCHANGED Abstract!lifecycleVars
<1>1. unaudited' = unaudited /\ audit' = audit
  BY DEF WriteConfidence, Refusals, RefuseConfirm, RefuseUnknown, Inserts,
         InsertResolution, storeVars, tables
<1>2. \A e \in Exceptions : StatusOf(e)' = StatusOf(e)
  <2>1. CASE WriteConfidence
    <3>1. table \in [Exceptions -> Row] /\ confirming \in Confirmation
      BY <2>1 DEF WriteConfidence, InConfirm, StoreInv, TypeInv, StoreTypeOK
    <3> QED BY <2>1, <3>1 DEF WriteConfidence, StatusOf, Confirmation, Row
  <2>2. CASE Refusals \/ Inserts \/ UNCHANGED storeVars
    BY <2>2 DEF Refusals, RefuseConfirm, RefuseUnknown, Inserts, InsertResolution,
                storeVars, tables, StatusOf
  <2> QED BY <2>1, <2>2
<1>3. [e \in Exceptions |-> StatusOf(e)]' = [e \in Exceptions |-> StatusOf(e)]
  BY <1>2
<1>4. abstractTrail' = abstractTrail
  BY <1>1, WrittenKept DEF abstractTrail, Brief
<1> QED BY <1>1, <1>3, <1>4 DEF Abstract!lifecycleVars

LEMMA InitMaps == StoreInit => Abstract!Init
<1> SUFFICES ASSUME StoreInit PROVE Abstract!Init
  OBVIOUS
<1>1. [e \in Exceptions |-> StatusOf(e)] = [e \in Exceptions |-> Abstract!Absent]
  BY SameLifecycle DEF StoreInit, StatusOf, NoRow
<1>2. abstractTrail = << >>
  BY DEF StoreInit, abstractTrail, WrittenTrail
<1>3. (unaudited # NoCall) = FALSE
  BY DEF StoreInit
<1> QED BY <1>1, <1>2, <1>3 DEF Abstract!Init

LEMMA StepMaps ==
    StoreInv /\ [StoreNext]_storeVars => [Abstract!Next]_(Abstract!lifecycleVars)
<1> SUFFICES ASSUME StoreInv, [StoreNext]_storeVars
             PROVE  Abstract!Next \/ UNCHANGED Abstract!lifecycleVars
  OBVIOUS
<1>1. TypeInv
  BY DEF StoreInv
<1>2. CASE AppendAudit
  BY <1>2, AppendSettles DEF Abstract!Next
<1>3. CASE Crash
  BY <1>3, CrashLoses DEF Abstract!Next
<1>4. CASE Upserts
  BY <1>4, UpsertOpens
<1>5. CASE Transitions
  BY <1>5, TransitionMoves
<1> QED BY <1>1, <1>2, <1>3, <1>4, <1>5, OthersStutter, StepCases

(* The store, commit by commit and crash by crash, implements the audited  *)
(* lifecycle.                                                              *)
THEOREM StoreImplementsAuditedLifecycle == StoreSpec => ImplementsAuditedLifecycle
BY InitMaps, StepMaps, StoreInvariant, PTL
   DEF StoreSpec, ImplementsAuditedLifecycle, Abstract!Spec

=============================================================================
