-------------------------- MODULE DayDriverProofs --------------------------
(***************************************************************************)
(* Theorems of DayDriver, for any populations, days, deliveries and number *)
(* of crashes.  The driver acts on the store through the store's own       *)
(* operations only, so what is proved of the store holds of the driver.    *)
(* DayInv adds what the driver keeps true between its passes: what it has  *)
(* in hand, what each row owes to the engine's verdicts, how far a pass    *)
(* has come, and which files are recorded.  It also adds what the store    *)
(* does not see to by itself: the driver confirms only rows it has read,   *)
(* so that a recorded resolution resolves (ResolutionsInv).                *)
(***************************************************************************)
EXTENDS DayDriver, StoreProofs

(* A call is in flight only on behalf of a job: a confirmation during the  *)
(* re-evaluation, of a subject the engine resolves today and that the pass *)
(* has already crossed off.                                                *)
CallsBelongToJob ==
    /\ job = NoJob => Idle
    /\ job # NoJob => job.day = reached
    /\ In("INGEST") => Idle
    /\ confirming # NoCall =>
          /\ In("REEVALUATE")
          /\ confirming.day = job.day
          /\ confirming.exception \notin job.todo
          /\ Resolved(confirming.exception, job.day)

TodoIsDue ==
    /\ In("REEVALUATE") => \A e \in job.todo : Resolved(e, job.day) /\ e \in Residual
    /\ In("PERSIST") => \A e \in job.todo : Unresolved(e, job.day)

(* A row exists because the engine left its subject unresolved on the day  *)
(* it was first seen, and is confirmed because the engine resolved it on a *)
(* later day; the driver knows no other end.                               *)
RowFollowsEngine(e) ==
    LET row == table[e]
    IN  /\ row.status \in ResidualStates \union {Absent, "CONFIRMED"}
        /\ row.status = Absent => row.confirmedDay = 0
        /\ row.status = "CONFIRMED" => row.confirmedDay # 0
        /\ row.status # Absent =>
              /\ row.firstSeenDay \in Days
              /\ row.firstSeenDay =< reached
              /\ Unresolved(e, row.firstSeenDay)
        /\ row.confirmedDay # 0 =>
              /\ row.confirmedDay =< reached
              /\ row.firstSeenDay < row.confirmedDay
              /\ Resolved(e, row.confirmedDay)

RowsFollowEngine == \A e \in Exceptions : RowFollowsEngine(e)

KeyOn(e, day) == [exception |-> e, type |-> "DETERMINISTIC_REEVALUATION",
                  evidence |-> outcome[e][day].evidence]

(* Of e, re-evaluation has nothing left to do on this day. *)
Reevaluated(e, day) ==
    e \in Residual /\ Resolved(e, day) => KeyOn(e, day) \in resolutions

(* Of e, _persist_outcomes has nothing left to do on this day. *)
Persisted(e, day) == Unresolved(e, day) => StatusOf(e) # Absent

PassesMakeProgress ==
    /\ In("REEVALUATE") => \A e \in Exceptions \ job.todo : Reevaluated(e, job.day)
    /\ In("PERSIST") => /\ \A e \in Exceptions : Reevaluated(e, job.day)
                        /\ \A e \in Exceptions \ job.todo : Persisted(e, job.day)

FilesRecorded(day, n) == \A i \in 1..n : files[Delivery[day][i]] # NoArrival

FilesMakeProgress ==
    /\ In("INGEST") => FilesRecorded(job.day, job.next - 1) /\ job.next - 1 =< Len(Delivery[job.day])
    /\ In("REEVALUATE") \/ In("PERSIST") => FilesRecorded(job.day, Len(Delivery[job.day]))

(* What a finished day leaves behind, for as long as no later one starts. *)
FinishedDayStands ==
    /\ watermark.day =< reached
    /\ watermark.day # 0 /\ watermark.day = reached =>
          /\ Idle
          /\ \A e \in Exceptions : Reevaluated(e, reached) /\ Persisted(e, reached)
          /\ FilesRecorded(reached, Len(Delivery[reached]))

DayInv ==
    /\ StoreInv
    /\ ResolutionsInv
    /\ DayTypeOK
    /\ CallsBelongToJob
    /\ TodoIsDue
    /\ RowsFollowEngine
    /\ PassesMakeProgress
    /\ FilesMakeProgress
    /\ FinishedDayStands

-----------------------------------------------------------------------------
LEMMA DayNextCases ==
    ASSUME [DayNext]_dayVars
    PROVE  \/ IngestFile \/ Reevaluate \/ Persist \/ FinishDay \/ FinishCall \/ Die
           \/ \E e \in Exceptions : ConfirmNext(e)
           \/ \E e \in Exceptions : OpenNext(e)
           \/ \E day \in Days : StartDay(day)
           \/ UNCHANGED dayVars
BY DEF DayNext, JobStep

LEMMA TypeFacts ==
    ASSUME DayTypeOK
    PROVE  /\ \A e \in Exceptions : StatusOf(e) \in OrAbsent(Statuses)
           /\ table \in [Exceptions -> Row]
           /\ \A e \in Exceptions, day \in Days : outcome[e][day] \in Verdicts
           /\ \A phase : In(phase) => job \in Job /\ job.phase = phase /\ job.day \in Days
           /\ job # NoJob => job \in Job /\ job.day \in Days
           /\ reached \in Days \union {0} /\ reached \in Nat
           /\ watermark.day \in Nat
<1>1. table \in [Exceptions -> Row] /\ outcome \in [Exceptions -> [Days -> Verdicts]]
  BY DEF DayTypeOK, StoreTypeOK
<1>2. \A e \in Exceptions : StatusOf(e) \in OrAbsent(Statuses)
  BY <1>1 DEF StatusOf, Row
<1>3. job # NoJob => job \in Job /\ job.day \in Days
  BY DEF DayTypeOK, Job
<1>4. reached \in Nat /\ watermark.day \in Nat /\ reached \in Days \union {0}
  <2>1. watermark \in [day : Days \union {0}, seq : Nat] /\ reached \in Days \union {0}
    BY DEF DayTypeOK
  <2>2. watermark.day \in Days \union {0}
    BY <2>1
  <2>3. reached \in Days \union {0}
    BY <2>1
  <2>4. \A n \in Days \union {0} : n \in Nat
    BY DaysAssumption
  <2> QED BY <2>2, <2>3, <2>4
<1> QED BY <1>1, <1>2, <1>3, <1>4 DEF In

(* The two evidence-bearing verdicts of a subject exclude each other, and  *)
(* a resolved one comes with evidence a caller may confirm with.           *)
LEMMA VerdictFacts ==
    ASSUME DayTypeOK, NEW e \in Exceptions, NEW day \in Days
    PROVE  /\ ~(Resolved(e, day) /\ Unresolved(e, day))
           /\ Resolved(e, day) => outcome[e][day].evidence \in Evidence
           /\ Unresolved(e, day) => outcome[e][day].status \in {"OPEN", "PENDING_EVIDENCE"}
<1>1. outcome[e][day] \in Verdicts
  BY TypeFacts
<1>2. outcome[e][day].status = "CONFIRMED" => outcome[e][day].evidence \in Evidence
  BY <1>1 DEF Verdicts, Absent
<1> QED BY <1>2 DEF Resolved, Unresolved

(* A pass acts on the store by the store's own operations. *)
LEMMA DayStepStore ==
    ASSUME DayTypeOK, TodoIsDue, [DayNext]_dayVars
    PROVE  [StoreNext]_storeVars
<1>1. CASE FinishCall
  BY <1>1 DEF FinishCall, StoreNext
<1>2. CASE Die
  BY <1>2 DEF Die, StoreNext
<1>3. ASSUME NEW e \in Exceptions, ConfirmNext(e) PROVE [StoreNext]_storeVars
  <2>1. job.day \in Days /\ Resolved(e, job.day)
    BY <1>3, TypeFacts DEF ConfirmNext, TodoIsDue
  <2>2. outcome[e][job.day].evidence \in Evidence
    BY <2>1, VerdictFacts
  <2>3. CASE InsertResolution(e, "DETERMINISTIC_REEVALUATION",
                              outcome[e][job.day].evidence, job.day)
    <3>1. NewCall
      BY <2>1, <2>2, <2>3 DEF NewCall, ResolutionTypes
    <3> QED BY <3>1 DEF StoreNext
  <2> QED BY <1>3, <2>3 DEF ConfirmNext
<1>4. ASSUME NEW e \in Exceptions, OpenNext(e) PROVE [StoreNext]_storeVars
  <2>1. job.day \in Days /\ Unresolved(e, job.day)
    BY <1>4, TypeFacts DEF OpenNext, TodoIsDue
  <2>2. CASE UpsertException(e, outcome[e][job.day].status, job.day)
    <3>1. NewCall
      BY <2>1, <2>2, VerdictFacts DEF NewCall
    <3> QED BY <3>1 DEF StoreNext
  <2> QED BY <1>4, <2>2 DEF OpenNext
<1>5. CASE IngestFile \/ Reevaluate \/ Persist \/ FinishDay \/ UNCHANGED dayVars
  BY <1>5 DEF IngestFile, Reevaluate, Persist, FinishDay, dayVars
<1>6. ASSUME NEW day \in Days, StartDay(day) PROVE [StoreNext]_storeVars
  BY <1>6 DEF StartDay
<1> QED BY <1>1, <1>2, <1>3, <1>4, <1>5, <1>6, DayNextCases

LEMMA DayTypeStep == DayInv /\ [DayNext]_dayVars => StoreInv' /\ DayTypeOK'
<1> SUFFICES ASSUME DayInv, [DayNext]_dayVars PROVE StoreInv' /\ DayTypeOK'
  OBVIOUS
<1>1. StoreInv'
  BY DayStepStore, StoreInvStep DEF DayInv
<1>2. StoreTypeOK'
  BY <1>1 DEF StoreInv, TypeInv
<1> DEFINE DriverTypeOK ==
      /\ outcome \in [Exceptions -> [Days -> Verdicts]]
      /\ files \in [Contents -> Arrival \union {NoArrival}]
      /\ watermark \in [day : Days \union {0}, seq : Nat]
      /\ reached \in Days \union {0}
      /\ job \in Job \union {NoJob}
<1>3. DriverTypeOK
  BY DEF DayInv, DayTypeOK
<1>4. CASE IngestFile
  <2> DEFINE content == Delivery[job.day][job.next]
             arrival == IF files[content] = NoArrival
                        THEN [day |-> job.day, seq |-> job.next] ELSE files[content]
  <2>1. job \in Job
    BY <1>3, <1>4 DEF IngestFile, In
  <2>2. job.day \in Days /\ job.next \in Nat \ {0} /\ job.lastSeq \in Nat
    BY <2>1 DEF Job
  <2>3. Delivery[job.day] \in Seq(Contents)
    BY <2>2, DeliveryAssumption
  <2>4. content \in Contents
    BY <1>4, <2>3 DEF IngestFile
  <2>5. arrival \in Arrival
    BY <1>3, <2>2, <2>4 DEF Arrival
  <2>6. arrival.seq \in Nat
    BY <2>5 DEF Arrival
  <2> HIDE DEF content, arrival
  <2>7. files' = [files EXCEPT ![content] = arrival]
        /\ job' = [job EXCEPT !.next = @ + 1, !.lastSeq = Max({@, arrival.seq})]
    BY <1>4 DEF IngestFile, content, arrival
  <2>8. Max({job.lastSeq, arrival.seq}) \in Nat
    <3>1. \E m \in {job.lastSeq, arrival.seq} :
            \A x \in {job.lastSeq, arrival.seq} : m >= x
      BY <2>2, <2>6
    <3>2. Max({job.lastSeq, arrival.seq}) \in {job.lastSeq, arrival.seq}
      BY <3>1 DEF Max
    <3> QED BY <2>2, <2>6, <3>2
  <2>9. job' = [job EXCEPT !.next = job.next + 1,
                           !.lastSeq = Max({job.lastSeq, arrival.seq})]
    BY <2>1, <2>7 DEF Job
  <2>10. job' \in Job
    <3>1. job.next + 1 \in Nat \ {0}
      BY <2>2
    <3>2. PICK next \in Nat \ {0}, last \in Nat :
            job' = [job EXCEPT !.next = next, !.lastSeq = last]
      BY <2>8, <2>9, <3>1
    <3> QED BY <2>1, <3>2 DEF Job
  <2>11. files' \in [Contents -> Arrival \union {NoArrival}]
    <3>1. files \in [Contents -> Arrival \union {NoArrival}]
      BY <1>3
    <3>2. files' = [files EXCEPT ![content] = arrival]
      BY <2>7
    <3> QED BY <2>4, <2>5, <3>1, <3>2
  <2> QED BY <1>1, <1>2, <1>3, <1>4, <2>10, <2>11 DEF IngestFile, DayTypeOK
<1>5. CASE Reevaluate \/ Persist
  <2>1. job \in Job
    BY <1>3, <1>5 DEF Reevaluate, Persist, In
  <2>2. PICK phase \in Phases, todo \in SUBSET Exceptions :
          job' = [job EXCEPT !.phase = phase, !.todo = todo]
    <3>1. CASE Reevaluate
      BY <3>1 DEF Reevaluate, Phases, Residual
    <3>2. CASE Persist
      BY <3>2 DEF Persist, Phases
    <3> QED BY <1>5, <3>1, <3>2
  <2>3. job' \in Job
    BY <2>1, <2>2 DEF Job
  <2> QED BY <1>1, <1>2, <1>3, <1>5, <2>3 DEF Reevaluate, Persist, DayTypeOK
<1>6. CASE FinishDay
  <2>1. job \in Job
    BY <1>3, <1>6 DEF FinishDay, In
  <2>2. watermark' \in [day : Days \union {0}, seq : Nat]
    BY <1>6, <2>1 DEF FinishDay, Job
  <2> QED BY <1>1, <1>2, <1>3, <1>6, <2>2 DEF FinishDay, DayTypeOK
<1>7. CASE FinishCall \/ Die \/ UNCHANGED dayVars
  BY <1>1, <1>2, <1>3, <1>7 DEF FinishCall, Die, dayVars, driverVars, DayTypeOK
<1>8. ASSUME NEW e \in Exceptions, ConfirmNext(e) \/ OpenNext(e) PROVE StoreInv' /\ DayTypeOK'
  <2>1. job \in Job
    BY <1>3, <1>8 DEF ConfirmNext, OpenNext, In
  <2>2. job' = [job EXCEPT !.todo = @ \ {e}]
    BY <1>8 DEF ConfirmNext, OpenNext
  <2>3. job' \in Job
    BY <2>1, <2>2 DEF Job
  <2> QED BY <1>1, <1>2, <1>3, <1>8, <2>3 DEF ConfirmNext, OpenNext, DayTypeOK
<1>9. ASSUME NEW day \in Days, StartDay(day) PROVE StoreInv' /\ DayTypeOK'
  <2>1. job' \in Job
    BY <1>9 DEF StartDay, Job, Phases
  <2> QED BY <1>1, <1>2, <1>3, <1>9, <2>1 DEF StartDay, DayTypeOK
<1> QED BY <1>4, <1>5, <1>6, <1>7, <1>8, <1>9, DayNextCases

-----------------------------------------------------------------------------
(* What a step may do to the columns of a row that the engine's verdicts   *)
(* account for.                                                            *)
RowSame(e) ==
    /\ table'[e].status = table[e].status
    /\ table'[e].firstSeenDay = table[e].firstSeenDay
    /\ table'[e].confirmedDay = table[e].confirmedDay

RowReopened(e) ==
    /\ confirming # NoCall /\ e = confirming.exception
    /\ table[e].status \in PendingStates /\ table'[e].status = "OPEN"
    /\ table'[e].firstSeenDay = table[e].firstSeenDay
    /\ table'[e].confirmedDay = table[e].confirmedDay

RowConfirmed(e) ==
    /\ confirming # NoCall /\ e = confirming.exception
    /\ table[e].status \in Statuses /\ table'[e].status = "CONFIRMED"
    /\ table'[e].firstSeenDay = table[e].firstSeenDay
    /\ table'[e].confirmedDay = confirming.day

RowOpened(e) ==
    /\ In("PERSIST") /\ e \in job.todo
    /\ table[e].status = Absent /\ table'[e].status = outcome[e][job.day].status
    /\ table'[e].firstSeenDay = job.day
    /\ table'[e].confirmedDay = 0

LEMMA RowChange ==
    ASSUME DayInv, [DayNext]_dayVars, NEW e \in Exceptions
    PROVE  RowSame(e) \/ RowReopened(e) \/ RowConfirmed(e) \/ RowOpened(e)
<1>0. table \in [Exceptions -> Row] /\ confirming \in Confirmation \union {NoCall}
  BY DEF DayInv, StoreInv, TypeInv, StoreTypeOK
<1>1. CASE table' = table
  BY <1>1 DEF RowSame
<1>2. CASE FinishCall
  <2>1. CASE AppendAudit \/ RefuseConfirm \/ RefuseUnknown
    BY <1>1, <2>1 DEF AppendAudit, RefuseConfirm, RefuseUnknown, tables
  <2>2. CASE confirming # NoCall /\ e # confirming.exception /\ ~AppendAudit
    <3>1. confirming.exception \in Exceptions
      BY <1>0, <2>2 DEF Confirmation
    <3>2. table'[e] = table[e]
      BY <1>0, <1>2, <2>2, <3>1
         DEF FinishCall, CallStep, ReopenPending, WriteConfidence, Confirm, RefuseConfirm,
             RefuseUnknown, Transition, tables
    <3> QED BY <3>2 DEF RowSame
  <2>3. CASE WriteConfidence /\ e = confirming.exception
    <3>1. table'[e] = [table[e] EXCEPT !.scored = TRUE]
      BY <1>0, <2>3 DEF WriteConfidence
    <3>2. table[e] \in Row
      BY <1>0
    <3> QED BY <3>1, <3>2 DEF RowSame, Row
  <2>4. CASE ReopenPending /\ e = confirming.exception
    <3>1. table[e] \in Row /\ table'[e] = Moved(table[e], "OPEN", confirming.day, Absent)
      BY <1>0, <2>4 DEF ReopenPending, Transition
    <3>2. /\ table'[e].status = "OPEN"
          /\ table'[e].firstSeenDay = table[e].firstSeenDay
          /\ table'[e].confirmedDay = table[e].confirmedDay
      BY <3>1 DEF Moved, Row
    <3>3. confirming # NoCall /\ table[e].status \in PendingStates
      BY <2>4 DEF ReopenPending, InConfirm, StatusOf
    <3> QED BY <2>4, <3>2, <3>3 DEF RowReopened
  <2>5. CASE Confirm /\ e = confirming.exception
    <3>1. /\ table[e] \in Row
          /\ table'[e] = Moved(table[e], "CONFIRMED", confirming.day, SourceOf(confirming.type))
          /\ IsLegal(table[e].status, "CONFIRMED")
      BY <1>0, <2>5 DEF Confirm, Transition, StatusOf
    <3>2. /\ table'[e].status = "CONFIRMED"
          /\ table'[e].firstSeenDay = table[e].firstSeenDay
          /\ table'[e].confirmedDay = confirming.day
      BY <3>1 DEF Moved, Row
    <3>3. confirming # NoCall /\ table[e].status \in Statuses
      BY <2>5, <3>1, LegalFacts DEF Confirm, InConfirm
    <3> QED BY <2>5, <3>2, <3>3 DEF RowConfirmed
  <2> QED
    BY <1>2, <2>1, <2>2, <2>3, <2>4, <2>5
       DEF FinishCall, CallStep, ReopenPending, WriteConfidence, Confirm, InConfirm
<1>3. ASSUME NEW f \in Exceptions, OpenNext(f)
      PROVE  RowSame(e) \/ RowOpened(e)
  <2>1. CASE UNCHANGED storeVars
    BY <2>1 DEF storeVars, RowSame
  <2>2. CASE UpsertException(f, outcome[f][job.day].status, job.day)
    <3>1. CASE e = f
      <4>1. table'[e] = [NoRow EXCEPT !.status = outcome[e][job.day].status,
                                      !.firstSeenDay = job.day]
        BY <1>0, <2>2, <3>1 DEF UpsertException
      <4>2. /\ table'[e].status = outcome[e][job.day].status
            /\ table'[e].firstSeenDay = job.day
            /\ table'[e].confirmedDay = 0
        BY <4>1 DEF NoRow
      <4> QED BY <1>3, <2>2, <3>1, <4>2 DEF OpenNext, UpsertException, StatusOf, RowOpened
    <3>2. CASE e # f
      BY <1>0, <2>2, <3>2 DEF UpsertException, RowSame
    <3> QED BY <3>1, <3>2
  <2> QED BY <1>3, <2>1, <2>2 DEF OpenNext
<1>4. CASE IngestFile \/ Reevaluate \/ Persist \/ FinishDay \/ Die \/ UNCHANGED dayVars
  BY <1>1, <1>4
     DEF IngestFile, Reevaluate, Persist, FinishDay, Die, Crash, tables, storeVars, dayVars
<1>5. ASSUME NEW f \in Exceptions, ConfirmNext(f) PROVE RowSame(e)
  BY <1>5 DEF ConfirmNext, InsertResolution, storeVars, RowSame
<1>6. ASSUME NEW day \in Days, StartDay(day) PROVE RowSame(e)
  BY <1>6 DEF StartDay, storeVars, RowSame
<1> QED BY <1>2, <1>3, <1>4, <1>5, <1>6, DayNextCases

(* The engine's history and the caller's progress are not rewritten. *)
LEMMA HistoryKept ==
    ASSUME DayInv, [DayNext]_dayVars
    PROVE  /\ outcome' = outcome
           /\ reached \in Nat /\ reached' \in Nat /\ reached =< reached'
           /\ resolutions \subseteq resolutions'
<1>1. reached \in Nat
  BY TypeFacts DEF DayInv
<1>2. outcome' = outcome
  BY DayNextCases
     DEF IngestFile, Reevaluate, Persist, FinishDay, FinishCall, Die, ConfirmNext, OpenNext,
         StartDay, dayVars, driverVars
<1>3. reached' = reached \/ (reached' \in Days /\ reached =< reached')
  BY DayNextCases
     DEF IngestFile, Reevaluate, Persist, FinishDay, FinishCall, Die, ConfirmNext, OpenNext,
         StartDay, dayVars, driverVars
<1>4. \A n \in Days : n \in Nat
  BY DaysAssumption
<1>5. resolutions \subseteq resolutions'
  BY DayStepStore, StepCases
     DEF DayInv, StoreInv, AppendAudit, Transitions, WriteConfidence, Refusals, RefuseConfirm,
         RefuseUnknown, Crash, Upserts, UpsertException, Inserts, InsertResolution, storeVars, tables
<1> QED BY <1>1, <1>2, <1>3, <1>4, <1>5

LEMMA RowsFollowEngineStep == DayInv /\ [DayNext]_dayVars => RowsFollowEngine'
<1> SUFFICES ASSUME DayInv, [DayNext]_dayVars, NEW e \in Exceptions
             PROVE  RowFollowsEngine(e)'
  BY DEF RowsFollowEngine
<1>0. DayTypeOK /\ CallsBelongToJob /\ TodoIsDue /\ RowFollowsEngine(e)
  BY DEF DayInv, RowsFollowEngine
<1>1. \A n \in Days : n \in Nat
  BY DaysAssumption
<1>2. table'[e] \in Row /\ table[e] \in Row
  BY <1>0, DayTypeStep DEF DayTypeOK, StoreTypeOK
<1>3. CASE RowSame(e)
  <2>1. \A n \in Days \union {0} : n =< reached => n =< reached'
    BY <1>1, HistoryKept
  <2>2. table[e].firstSeenDay \in Days \union {0} /\ table[e].confirmedDay \in Days \union {0}
    BY <1>2 DEF Row
  <2> QED BY <1>0, <1>3, <2>1, <2>2, HistoryKept
          DEF RowSame, RowFollowsEngine, Unresolved, Resolved
<1>4. CASE RowReopened(e)
  <2>1. \A n \in Days \union {0} : n =< reached => n =< reached'
    BY <1>1, HistoryKept
  <2>2. table[e].firstSeenDay \in Days \union {0} /\ table[e].confirmedDay \in Days \union {0}
    BY <1>2 DEF Row
  <2>3. table[e].status # Absent
    BY <1>4 DEF RowReopened, PendingStates, Absent
  <2> QED BY <1>0, <1>4, <2>1, <2>2, <2>3, HistoryKept
          DEF RowReopened, RowFollowsEngine, Unresolved, Resolved, ResidualStates, Absent
<1>5. CASE RowConfirmed(e)
  <2>1. /\ job.day \in Days /\ job.day = reached /\ confirming.day = job.day
        /\ Resolved(e, job.day)
    BY <1>0, <1>5, TypeFacts DEF RowConfirmed, CallsBelongToJob, In
  <2>2. table[e].status # Absent
    BY <1>5, RankFacts DEF RowConfirmed
  <2>3. /\ table[e].firstSeenDay \in Days /\ table[e].firstSeenDay =< reached
        /\ Unresolved(e, table[e].firstSeenDay)
    BY <1>0, <2>2 DEF RowFollowsEngine
  <2>4. table[e].firstSeenDay # job.day
    BY <1>0, <2>1, <2>3, VerdictFacts
  <2>5. table[e].firstSeenDay < job.day
    BY <1>1, <2>1, <2>3, <2>4
  <2>6. table[e].firstSeenDay =< reached' /\ job.day =< reached' /\ job.day # 0
    <3>1. reached \in Nat /\ reached' \in Nat /\ reached =< reached'
      BY HistoryKept
    <3>2. table[e].firstSeenDay \in Nat /\ job.day \in Nat \ {0}
      BY <2>1, <2>3, DaysAssumption
    <3> QED BY <2>1, <2>3, <3>1, <3>2
  <2>7. /\ table'[e].status = "CONFIRMED" /\ table'[e].confirmedDay = job.day
        /\ table'[e].firstSeenDay = table[e].firstSeenDay
    BY <1>5, <2>1 DEF RowConfirmed
  <2> QED BY <2>1, <2>3, <2>5, <2>6, <2>7, HistoryKept
          DEF RowFollowsEngine, Unresolved, Resolved, Absent
<1>6. CASE RowOpened(e)
  <2>1. job.day \in Days /\ job.day = reached /\ Unresolved(e, job.day)
    BY <1>0, <1>6, TypeFacts DEF RowOpened, TodoIsDue, CallsBelongToJob, In
  <2>2. job.day =< reached'
    BY <1>1, <2>1, HistoryKept
  <2>3. outcome[e][job.day].status \in ResidualStates \ {Absent}
    BY <2>1 DEF Unresolved, ResidualStates, PendingStates, Absent
  <2>4. /\ table'[e].status = outcome[e][job.day].status
        /\ table'[e].firstSeenDay = job.day /\ table'[e].confirmedDay = 0
    BY <1>6 DEF RowOpened
  <2>5. "CONFIRMED" \notin ResidualStates
    BY DEF ResidualStates, PendingStates
  <2> QED BY <2>1, <2>2, <2>3, <2>4, <2>5, HistoryKept DEF RowFollowsEngine, Unresolved
<1> QED BY <1>3, <1>4, <1>5, <1>6, RowChange

-----------------------------------------------------------------------------
(* The re-evaluation confirms residual rows, and a row is there for good.  *)
LEMMA DayResolutionsStep == DayInv /\ [DayNext]_dayVars => ResolutionsInv'
<1> SUFFICES ASSUME DayInv, [DayNext]_dayVars PROVE ResolutionsInv'
  OBVIOUS
<1>1. [StoreNext]_storeVars
  BY DayStepStore DEF DayInv
<1>2. ASSUME confirming = NoCall, confirming' # NoCall
      PROVE  StatusOf(confirming'.exception) # Absent
  <2>1. ASSUME NEW e \in Exceptions, ConfirmNext(e)
        PROVE  StatusOf(confirming'.exception) # Absent
    <3>1. e \in Residual
      BY <2>1 DEF DayInv, TodoIsDue, ConfirmNext
    <3>2. confirming'.exception = e
      BY <1>2, <2>1 DEF ConfirmNext, InsertResolution, storeVars
    <3> QED BY <3>1, <3>2 DEF Residual, ResidualStates, PendingStates, Absent
  <2>2. ~FinishCall
    BY <1>2
       DEF FinishCall, CallStep, AppendAudit, ReopenPending, WriteConfidence, Confirm,
           RefuseConfirm, RefuseUnknown, InConfirm
  <2>3. ~(\E e \in Exceptions : OpenNext(e))
    BY <1>2 DEF OpenNext, UpsertException, storeVars
  <2>4. ~(\E day \in Days : StartDay(day))
    BY <1>2 DEF StartDay, storeVars
  <2>5. ~(IngestFile \/ Reevaluate \/ Persist \/ FinishDay \/ Die \/ UNCHANGED dayVars)
    BY <1>2
       DEF IngestFile, Reevaluate, Persist, FinishDay, Die, Crash, dayVars, storeVars
  <2> QED BY <2>1, <2>2, <2>3, <2>4, <2>5, DayNextCases
<1> QED BY <1>1, <1>2, ResolutionsInvStep DEF DayInv

-----------------------------------------------------------------------------
LEMMA CallsBelongToJobStep == DayInv /\ [DayNext]_dayVars => CallsBelongToJob'
<1> SUFFICES ASSUME DayInv, [DayNext]_dayVars PROVE CallsBelongToJob'
  OBVIOUS
<1>0. CallsBelongToJob /\ confirming \in Confirmation \union {NoCall}
  BY DEF DayInv, StoreInv, TypeInv, StoreTypeOK
<1>1. job # NoJob => job \in Job
  BY TypeFacts DEF DayInv
<1>2. \A x \in Job : x # NoJob
  BY NoJobAssumption
<1>3. job' # NoJob => job' \in Job
  BY DayTypeStep DEF DayTypeOK
<1>4. CASE IngestFile \/ Reevaluate \/ Persist
  <2>1. job # NoJob /\ Idle /\ Idle'
    BY <1>0, <1>4
       DEF IngestFile, Reevaluate, Persist, In, PassDone, CallsBelongToJob, Idle, storeVars
  <2>2. reached' = reached /\ job \in Job /\ job'.day = job.day
    BY <1>1, <1>4, <2>1 DEF IngestFile, Reevaluate, Persist, Job
  <2> QED BY <1>0, <2>1, <2>2 DEF CallsBelongToJob, Idle
<1>5. CASE FinishDay
  <2>1. Idle' /\ job' = NoJob
    BY <1>5 DEF FinishDay, PassDone, Idle, storeVars
  <2> QED BY <2>1 DEF CallsBelongToJob, In, Idle
<1>6. CASE Die
  BY <1>6 DEF Die, Crash, CallsBelongToJob, In, Idle
<1>7. CASE FinishCall
  <2>1. ~Idle
    BY <1>7
       DEF FinishCall, CallStep, AppendAudit, ReopenPending, WriteConfidence, Confirm,
           RefuseConfirm, RefuseUnknown, InConfirm, Idle
  <2>2. UNCHANGED <<job, reached, outcome>> /\ job # NoJob /\ ~In("INGEST")
    BY <1>0, <1>7, <2>1 DEF FinishCall, driverVars, CallsBelongToJob
  <2>3. confirming' # NoCall =>
          /\ confirming # NoCall
          /\ confirming'.exception = confirming.exception
          /\ confirming'.day = confirming.day
    <3>1. CASE WriteConfidence
      <4>1. confirming \in Confirmation /\ confirming' = [confirming EXCEPT !.score = FALSE]
        BY <1>0, <3>1 DEF WriteConfidence, InConfirm
      <4>2. /\ confirming'.exception = confirming.exception
            /\ confirming'.day = confirming.day
        BY <4>1 DEF Confirmation
      <4> QED BY <3>1, <4>2 DEF WriteConfidence, InConfirm
    <3>2. CASE ~WriteConfidence
      BY <1>7, <3>2
         DEF FinishCall, CallStep, AppendAudit, ReopenPending, Confirm, RefuseConfirm,
             RefuseUnknown
    <3> QED BY <3>1, <3>2
  <2> QED BY <1>0, <2>2, <2>3 DEF CallsBelongToJob, In, Resolved
<1>8. ASSUME NEW e \in Exceptions, ConfirmNext(e) PROVE CallsBelongToJob'
  <2>1. /\ job \in Job /\ job.phase = "REEVALUATE" /\ job.day = reached
        /\ Idle /\ Resolved(e, job.day)
    BY <1>0, <1>1, <1>8 DEF ConfirmNext, In, CallsBelongToJob, DayInv, TodoIsDue
  <2>2. job' = [job EXCEPT !.todo = @ \ {e}] /\ UNCHANGED <<outcome, reached>>
    BY <1>8 DEF ConfirmNext
  <2>3. /\ job'.phase = "REEVALUATE" /\ job'.day = job.day /\ job' \in Job
        /\ e \notin job'.todo
    BY <1>3, <2>1, <2>2 DEF Job
  <2>4. job' # NoJob
    BY <1>2, <2>3
  <2>5. CASE UNCHANGED storeVars
    BY <2>1, <2>2, <2>3, <2>4, <2>5 DEF CallsBelongToJob, In, Idle, storeVars
  <2>6. CASE InsertResolution(e, "DETERMINISTIC_REEVALUATION",
                              outcome[e][job.day].evidence, job.day)
    <3>1. confirming'.exception = e /\ confirming'.day = job.day
      BY <2>6 DEF InsertResolution
    <3>2. Resolved(e, job.day)'
      BY <2>1, <2>2, <2>3 DEF Resolved
    <3> QED BY <2>1, <2>2, <2>3, <2>4, <3>1, <3>2 DEF CallsBelongToJob, In
  <2> QED BY <1>8, <2>5, <2>6 DEF ConfirmNext
<1>9. ASSUME NEW e \in Exceptions, OpenNext(e) PROVE CallsBelongToJob'
  <2>1. job \in Job /\ job.phase = "PERSIST" /\ job.day = reached /\ confirming = NoCall
    BY <1>0, <1>1, <1>9 DEF OpenNext, In, CallsBelongToJob, Idle
  <2>2. job' = [job EXCEPT !.todo = @ \ {e}] /\ reached' = reached
    BY <1>9 DEF OpenNext
  <2>3. job'.phase = "PERSIST" /\ job'.day = job.day /\ job' # NoJob
    BY <1>2, <2>1, <2>2 DEF Job
  <2>4. confirming' = NoCall
    BY <1>9, <2>1 DEF OpenNext, UpsertException, storeVars
  <2> QED BY <2>1, <2>2, <2>3, <2>4 DEF CallsBelongToJob, In
<1>10. ASSUME NEW day \in Days, StartDay(day) PROVE CallsBelongToJob'
  <2>1. Idle /\ Idle' /\ reached' = day /\ job'.day = day /\ job'.phase = "INGEST"
    BY <1>0, <1>10 DEF StartDay, CallsBelongToJob, Idle, storeVars
  <2> QED BY <2>1 DEF CallsBelongToJob, Idle
<1>11. CASE UNCHANGED dayVars
  BY <1>0, <1>11
     DEF dayVars, storeVars, driverVars, CallsBelongToJob, In, Idle, Resolved
<1> QED BY <1>4, <1>5, <1>6, <1>7, <1>8, <1>9, <1>10, <1>11, DayNextCases

(* A pass crosses subjects off, and only the subject in hand changes.      *)
LEMMA TodoIsDueStep == DayInv /\ [DayNext]_dayVars => TodoIsDue'
<1> SUFFICES ASSUME DayInv, [DayNext]_dayVars PROVE TodoIsDue'
  OBVIOUS
<1>0. TodoIsDue /\ CallsBelongToJob /\ DayTypeOK /\ outcome' = outcome
  BY HistoryKept DEF DayInv
<1>1. job # NoJob => job \in Job
  BY <1>0, TypeFacts
<1>2. \A e \in Exceptions :
        In("REEVALUATE") /\ e \in job.todo /\ e \in Residual => e \in Residual'
  <2> SUFFICES ASSUME NEW e \in Exceptions, In("REEVALUATE"), e \in job.todo, e \in Residual
               PROVE  e \in Residual'
    OBVIOUS
  <2>1. ~RowConfirmed(e) /\ ~RowOpened(e)
    BY <1>0 DEF RowConfirmed, RowOpened, In, CallsBelongToJob
  <2>2. RowSame(e) \/ RowReopened(e)
    BY <2>1, RowChange
  <2> QED BY <2>2 DEF RowSame, RowReopened, Residual, StatusOf, ResidualStates
<1>3. CASE IngestFile \/ FinishDay \/ Die
  <2>1. ~In("REEVALUATE")' /\ ~In("PERSIST")'
    BY <1>1, <1>3 DEF IngestFile, FinishDay, Die, In, Job
  <2> QED BY <2>1 DEF TodoIsDue
<1>4. CASE Reevaluate
  <2>1. /\ job'.phase = "REEVALUATE" /\ job'.day = job.day
        /\ job'.todo = {e \in Residual : Resolved(e, job.day)}
    BY <1>1, <1>4 DEF Reevaluate, In, Job
  <2>2. Residual' = Residual
    BY <1>4 DEF Reevaluate, storeVars, Residual, StatusOf
  <2> QED BY <1>0, <2>1, <2>2 DEF TodoIsDue, In, Resolved
<1>5. CASE Persist
  <2>1. /\ job'.phase = "PERSIST" /\ job'.day = job.day
        /\ job'.todo = {e \in Exceptions : Unresolved(e, job.day)}
    BY <1>1, <1>5 DEF Persist, In, Job
  <2> QED BY <1>0, <2>1 DEF TodoIsDue, In, Unresolved
<1>6. CASE FinishCall \/ UNCHANGED dayVars
  <2>1. job' = job
    BY <1>6 DEF FinishCall, dayVars, driverVars
  <2>2. In("REEVALUATE") => job.todo \subseteq Exceptions
    BY <1>1 DEF In, Job
  <2> QED BY <1>0, <1>2, <2>1, <2>2 DEF TodoIsDue, In, Resolved, Unresolved
<1>7. ASSUME NEW f \in Exceptions, ConfirmNext(f) \/ OpenNext(f) PROVE TodoIsDue'
  <2>1. job # NoJob /\ job \in Job /\ job' = [job EXCEPT !.todo = @ \ {f}]
    BY <1>1, <1>7 DEF ConfirmNext, OpenNext, In
  <2>2. /\ job'.phase = job.phase /\ job'.day = job.day
        /\ job'.todo \subseteq job.todo /\ job.todo \subseteq Exceptions
    BY <2>1 DEF Job
  <2> QED BY <1>0, <1>2, <2>1, <2>2 DEF TodoIsDue, In, Resolved, Unresolved
<1>8. ASSUME NEW day \in Days, StartDay(day) PROVE TodoIsDue'
  BY <1>8 DEF StartDay, TodoIsDue, In
<1> QED BY <1>3, <1>4, <1>5, <1>6, <1>7, <1>8, DayNextCases

-----------------------------------------------------------------------------
(* What the pass of the latest day has done stays done.                    *)
LEMMA ReevaluatedKept ==
    ASSUME DayInv, [DayNext]_dayVars, NEW e \in Exceptions, Reevaluated(e, reached),
           NEW day \in Days, day = reached
    PROVE  Reevaluated(e, day)'
<1>1. outcome' = outcome /\ resolutions \subseteq resolutions'
  BY HistoryKept
<1>2. RowOpened(e) => ~Resolved(e, day)
  BY VerdictFacts DEF RowOpened, DayInv, TodoIsDue, CallsBelongToJob, In
<1>3. ~RowOpened(e) /\ e \in Residual' => e \in Residual
  <2>1. "CONFIRMED" \notin ResidualStates
    BY DEF ResidualStates, PendingStates
  <2> QED BY <2>1, RowChange
          DEF RowSame, RowReopened, RowConfirmed, Residual, StatusOf, ResidualStates
<1> QED BY <1>1, <1>2, <1>3 DEF Reevaluated, Resolved, KeyOn

LEMMA PersistedKept ==
    ASSUME DayInv, [DayNext]_dayVars, NEW e \in Exceptions, NEW day \in Days,
           Persisted(e, day)
    PROVE  Persisted(e, day)'
<1>1. outcome' = outcome
  BY HistoryKept
<1>2. StatusOf(e) # Absent => StatusOf(e)' # Absent
  BY RowChange DEF RowSame, RowReopened, RowConfirmed, RowOpened, StatusOf, Absent
<1> QED BY <1>1, <1>2 DEF Persisted, Unresolved

LEMMA FilesKept ==
    ASSUME DayInv, [DayNext]_dayVars, NEW c \in Contents, files[c] # NoArrival
    PROVE  files'[c] # NoArrival
<1>0. files \in [Contents -> Arrival \union {NoArrival}] /\ job # NoJob => job \in Job
  BY TypeFacts DEF DayInv, DayTypeOK
<1>1. CASE files' = files
  BY <1>1
<1>2. CASE IngestFile
  <2> DEFINE content == Delivery[job.day][job.next]
  <2>1. content = c => files' = [files EXCEPT ![c] = files[c]]
    BY <1>2 DEF IngestFile
  <2>2. \E a : files' = [files EXCEPT ![content] = a]
    BY <1>2 DEF IngestFile
  <2>3. files \in [Contents -> Arrival \union {NoArrival}]
    BY DEF DayInv, DayTypeOK
  <2> QED BY <2>1, <2>2, <2>3
<1> QED BY <1>1, <1>2, DayNextCases
     DEF Reevaluate, Persist, FinishDay, FinishCall, Die, ConfirmNext, OpenNext, StartDay,
         dayVars, driverVars

LEMMA DeliveredContents ==
    ASSUME NEW day \in Days, NEW i \in 1..Len(Delivery[day])
    PROVE  Delivery[day][i] \in Contents
BY DeliveryAssumption

LEMMA FilesMakeProgressStep == DayInv /\ [DayNext]_dayVars => FilesMakeProgress'
<1> SUFFICES ASSUME DayInv, [DayNext]_dayVars PROVE FilesMakeProgress'
  OBVIOUS
<1>0. FilesMakeProgress /\ DayTypeOK
  BY DEF DayInv
<1>1. job # NoJob => job \in Job /\ job.day \in Days
  BY <1>0, TypeFacts
<1>2. \A day \in Days, n \in Nat :
        n =< Len(Delivery[day]) /\ FilesRecorded(day, n) =>
            \A i \in 1..n : files'[Delivery[day][i]] # NoArrival
  BY FilesKept, DeliveredContents DEF FilesRecorded
<1>3. \A day \in Days : Len(Delivery[day]) \in Nat
  BY DeliveryAssumption
<1>4. CASE IngestFile
  <2>1. /\ job \in Job /\ job.day \in Days /\ job.phase = "INGEST" /\ job # NoJob
        /\ job.next \in 1..Len(Delivery[job.day])
    BY <1>1, <1>4 DEF IngestFile, In
  <2>2. job'.next = job.next + 1 /\ job'.day = job.day /\ job'.phase = "INGEST"
    BY <1>4, <2>1 DEF IngestFile, Job
  <2>3. FilesRecorded(job.day, job.next - 1) /\ job.next - 1 \in Nat
    BY <1>0, <2>1 DEF FilesMakeProgress, In
  <2>4. \A i \in 1..(job.next - 1) : files'[Delivery[job.day][i]] # NoArrival
    BY <1>2, <1>3, <2>1, <2>3
  <2>5. files'[Delivery[job.day][job.next]] # NoArrival
    <3>1. Delivery[job.day][job.next] \in Contents
      BY <2>1, DeliveredContents
    <3>2. PICK c \in Contents : c = Delivery[job.day][job.next]
      BY <3>1
    <3>3. [day |-> job.day, seq |-> job.next] # NoArrival
      BY <2>1, NoArrivalAssumption DEF Job, Arrival
    <3>4. PICK a : files' = [files EXCEPT ![c] = a] /\ a # NoArrival
      BY <1>4, <3>2, <3>3 DEF IngestFile
    <3>5. files \in [Contents -> Arrival \union {NoArrival}]
      BY <1>0 DEF DayTypeOK
    <3>6. files'[c] = a
      BY <3>4, <3>5
    <3> QED BY <3>2, <3>4, <3>6
  <2>6. \A i \in 1..job.next : files'[Delivery[job.day][i]] # NoArrival
    BY <2>1, <2>4, <2>5
  <2>7. job'.next - 1 = job.next /\ job.next =< Len(Delivery[job.day])
    BY <1>3, <2>1, <2>2
  <2> QED BY <2>2, <2>6, <2>7 DEF FilesMakeProgress, FilesRecorded, In
<1>5. CASE Reevaluate
  <2>1. /\ job \in Job /\ job.day \in Days /\ job.phase = "INGEST" /\ job # NoJob
        /\ job.next > Len(Delivery[job.day])
    BY <1>1, <1>5 DEF Reevaluate, In
  <2>2. job.next - 1 = Len(Delivery[job.day])
    BY <1>0, <1>3, <2>1 DEF FilesMakeProgress, In, Job
  <2>3. FilesRecorded(job.day, Len(Delivery[job.day]))
    BY <1>0, <2>1, <2>2 DEF FilesMakeProgress, In
  <2>4. job'.day = job.day /\ job'.phase = "REEVALUATE" /\ files' = files
    BY <1>5, <2>1 DEF Reevaluate, Job
  <2> QED BY <2>3, <2>4 DEF FilesMakeProgress, FilesRecorded, In
<1>6. CASE Persist
  <2>1. job \in Job /\ job.phase = "REEVALUATE" /\ job # NoJob
    BY <1>1, <1>6 DEF Persist, In
  <2>2. job'.day = job.day /\ job'.phase = "PERSIST" /\ files' = files
    BY <1>6, <2>1 DEF Persist, Job
  <2> QED BY <1>0, <2>1, <2>2 DEF FilesMakeProgress, FilesRecorded, In
<1>7. CASE FinishDay \/ Die
  BY <1>7 DEF FinishDay, Die, FilesMakeProgress, In
<1>8. CASE FinishCall \/ UNCHANGED dayVars
  <2>1. UNCHANGED <<job, files>>
    BY <1>8 DEF FinishCall, dayVars, driverVars
  <2> QED BY <1>0, <2>1 DEF FilesMakeProgress, FilesRecorded, In
<1>9. ASSUME NEW e \in Exceptions, ConfirmNext(e) \/ OpenNext(e) PROVE FilesMakeProgress'
  <2>1. /\ job # NoJob /\ job \in Job /\ job' = [job EXCEPT !.todo = @ \ {e}]
        /\ files' = files /\ job.phase # "INGEST"
    BY <1>1, <1>9 DEF ConfirmNext, OpenNext, In
  <2>2. job'.phase = job.phase /\ job'.day = job.day
    BY <2>1 DEF Job
  <2> QED BY <1>0, <2>1, <2>2 DEF FilesMakeProgress, FilesRecorded, In
<1>10. ASSUME NEW day \in Days, StartDay(day) PROVE FilesMakeProgress'
  <2>1. job'.phase = "INGEST" /\ job'.next - 1 = 0 /\ job'.day = day
    BY <1>10 DEF StartDay
  <2> QED BY <1>3, <2>1 DEF FilesMakeProgress, FilesRecorded, In
<1> QED BY <1>4, <1>5, <1>6, <1>7, <1>8, <1>9, <1>10, DayNextCases

LEMMA PassesMakeProgressStep == DayInv /\ [DayNext]_dayVars => PassesMakeProgress'
<1> SUFFICES ASSUME DayInv, [DayNext]_dayVars PROVE PassesMakeProgress'
  OBVIOUS
<1>0. PassesMakeProgress /\ DayTypeOK /\ CallsBelongToJob /\ outcome' = outcome
  BY HistoryKept DEF DayInv
<1>1. job # NoJob => job \in Job /\ job.day \in Days /\ job.day = reached
  BY <1>0, TypeFacts DEF CallsBelongToJob
<1>2. \A e \in Exceptions, day \in Days :
        /\ day = reached /\ Reevaluated(e, day) => Reevaluated(e, day)'
        /\ Persisted(e, day) => Persisted(e, day)'
  BY ReevaluatedKept, PersistedKept
<1>3. CASE IngestFile \/ FinishDay \/ Die
  <2>1. ~In("REEVALUATE")' /\ ~In("PERSIST")'
    BY <1>1, <1>3 DEF IngestFile, FinishDay, Die, In, Job
  <2> QED BY <2>1 DEF PassesMakeProgress
<1>4. CASE Reevaluate
  <2>1. /\ job'.phase = "REEVALUATE" /\ job'.day = job.day
        /\ job'.todo = {e \in Residual : Resolved(e, job.day)}
    BY <1>1, <1>4 DEF Reevaluate, In, Job
  <2>2. Residual' = Residual
    BY <1>4 DEF Reevaluate, storeVars, Residual, StatusOf
  <2> QED BY <1>0, <2>1, <2>2 DEF PassesMakeProgress, Reevaluated, In, Resolved
<1>5. CASE Persist
  <2>1. /\ job'.phase = "PERSIST" /\ job'.day = job.day
        /\ job'.todo = {e \in Exceptions : Unresolved(e, job.day)}
        /\ job.day \in Days /\ job.day = reached
    BY <1>1, <1>5 DEF Persist, In, Job
  <2>2. \A e \in Exceptions : Reevaluated(e, job.day)
    BY <1>0, <1>5 DEF Persist, PassDone, PassesMakeProgress
  <2>3. PICK day \in Days : day = job.day
    BY <2>1
  <2>4. \A e \in Exceptions : Reevaluated(e, day)'
    BY <1>2, <2>1, <2>2, <2>3
  <2>5. \A e \in Exceptions \ job'.todo : ~Unresolved(e, day)'
    BY <1>0, <2>1, <2>3 DEF Unresolved
  <2>6. job'.day = day
    BY <2>1, <2>3
  <2> QED BY <2>1, <2>4, <2>5, <2>6
          DEF PassesMakeProgress, In, Persisted, Reevaluated, Unresolved, Resolved, KeyOn
<1>6. CASE FinishCall \/ UNCHANGED dayVars
  <2>1. job' = job
    BY <1>6 DEF FinishCall, dayVars, driverVars
  <2>2. CASE job = NoJob
    BY <2>1, <2>2 DEF PassesMakeProgress, In
  <2>3. CASE job # NoJob
    <3>1. PICK day \in Days : day = job.day /\ day = reached
      BY <1>1, <2>3
    <3>2. job'.day = day
      BY <2>1, <3>1
    <3>3. \A e \in Exceptions : Reevaluated(e, job.day) => Reevaluated(e, day)'
      BY <1>2, <3>1
    <3>4. \A e \in Exceptions : Persisted(e, job.day) => Persisted(e, day)'
      BY <1>2, <3>1
    <3> QED BY <1>0, <2>1, <3>2, <3>3, <3>4
            DEF PassesMakeProgress, In, Persisted, Reevaluated, Unresolved, Resolved, KeyOn
  <2> QED BY <2>2, <2>3
<1>7. ASSUME NEW f \in Exceptions, ConfirmNext(f) PROVE PassesMakeProgress'
  <2>1. job # NoJob /\ job \in Job /\ job.phase = "REEVALUATE"
    BY <1>1, <1>7 DEF ConfirmNext, In
  <2>2. job' = [job EXCEPT !.todo = @ \ {f}]
    BY <1>7 DEF ConfirmNext
  <2>3. /\ job'.phase = "REEVALUATE" /\ job'.day = job.day
        /\ job'.todo = job.todo \ {f}
    BY <2>1, <2>2 DEF Job
  <2>4. PICK day \in Days : day = job.day /\ day = reached
    BY <1>1, <2>1
  <2>5. Reevaluated(f, day)'
    <3>1. KeyOn(f, day) \in resolutions'
      BY <1>7, <2>4 DEF ConfirmNext, InsertResolution, KeyOn, storeVars
    <3> QED BY <1>0, <3>1 DEF Reevaluated, KeyOn
  <2>6. \A e \in Exceptions \ job.todo : Reevaluated(e, day)'
    BY <1>0, <1>2, <2>1, <2>4 DEF PassesMakeProgress, In
  <2>7. \A e \in Exceptions \ job'.todo : Reevaluated(e, day)'
    BY <2>3, <2>5, <2>6
  <2>8. job'.day = day
    BY <2>3, <2>4
  <2> QED BY <2>3, <2>7, <2>8
          DEF PassesMakeProgress, In, Reevaluated, Resolved, KeyOn
<1>8. ASSUME NEW f \in Exceptions, OpenNext(f) PROVE PassesMakeProgress'
  <2>1. job # NoJob /\ job \in Job /\ job.phase = "PERSIST"
    BY <1>1, <1>8 DEF OpenNext, In
  <2>2. job' = [job EXCEPT !.todo = @ \ {f}]
    BY <1>8 DEF OpenNext
  <2>3. /\ job'.phase = "PERSIST" /\ job'.day = job.day
        /\ job'.todo = job.todo \ {f}
    BY <2>1, <2>2 DEF Job
  <2>4. PICK day \in Days : day = job.day /\ day = reached
    BY <1>1, <2>1
  <2>5. Persisted(f, day)'
    <3>1. Unresolved(f, day)
      BY <1>8, <2>4 DEF OpenNext, DayInv, TodoIsDue
    <3>2. CASE StatusOf(f) # Absent
      BY <1>2, <3>2 DEF Persisted
    <3>3. CASE UpsertException(f, outcome[f][job.day].status, job.day)
      <4>1. table'[f].status = outcome[f][day].status
        BY <1>0, <2>4, <3>3 DEF UpsertException, DayTypeOK, StoreTypeOK, NoRow
      <4>2. StatusOf(f)' # Absent
        BY <3>1, <4>1 DEF StatusOf, Unresolved, Absent
      <4> QED BY <4>2 DEF Persisted
    <3> QED BY <1>8, <3>2, <3>3 DEF OpenNext
  <2>6. \A e \in Exceptions : Reevaluated(e, day)'
    BY <1>0, <1>2, <2>1, <2>4 DEF PassesMakeProgress, In
  <2>7. \A e \in Exceptions \ job'.todo : Persisted(e, day)'
    BY <1>0, <1>2, <2>1, <2>3, <2>4, <2>5 DEF PassesMakeProgress, In
  <2>8. job'.day = day
    BY <2>3, <2>4
  <2> QED BY <2>3, <2>6, <2>7, <2>8
          DEF PassesMakeProgress, In, Persisted, Reevaluated, Unresolved, Resolved, KeyOn
<1>9. ASSUME NEW day \in Days, StartDay(day) PROVE PassesMakeProgress'
  BY <1>9 DEF StartDay, PassesMakeProgress, In
<1> QED BY <1>3, <1>4, <1>5, <1>6, <1>7, <1>8, <1>9, DayNextCases

-----------------------------------------------------------------------------
(* The latest day, once finished, has nothing left to do: a step taken in  *)
(* its name leaves the store, and the files table, as they are.            *)
LEMMA FinishedDayIsQuiet ==
    ASSUME DayInv, [DayNext]_dayVars, watermark.day # 0, watermark.day = reached
    PROVE  UNCHANGED <<tables, files>> /\ Idle'
<1>0. /\ Idle /\ \A e \in Exceptions : Reevaluated(e, reached) /\ Persisted(e, reached)
      /\ FilesRecorded(reached, Len(Delivery[reached]))
  BY DEF DayInv, FinishedDayStands
<1>1. job # NoJob => job \in Job /\ job.day \in Days /\ job.day = reached
  BY TypeFacts DEF DayInv, CallsBelongToJob
<1>2. CASE IngestFile
  <2>1. job.next \in 1..Len(Delivery[reached]) /\ job.day = reached /\ job.day \in Days
    BY <1>1, <1>2 DEF IngestFile, In
  <2>2. files[Delivery[job.day][job.next]] # NoArrival
    BY <1>0, <2>1 DEF FilesRecorded
  <2>3. files \in [Contents -> Arrival \union {NoArrival}]
    BY DEF DayInv, DayTypeOK
  <2>4. files' = files
    BY <1>2, <2>1, <2>2, <2>3 DEF IngestFile
  <2> QED BY <1>0, <1>2, <2>4 DEF IngestFile, storeVars, tables, Idle
<1>3. CASE FinishCall
  BY <1>0, <1>3
     DEF FinishCall, CallStep, AppendAudit, ReopenPending, WriteConfidence, Confirm,
         RefuseConfirm, RefuseUnknown, InConfirm, Idle
<1>4. ASSUME NEW e \in Exceptions, ConfirmNext(e) PROVE UNCHANGED <<tables, files>> /\ Idle'
  <2>1. Resolved(e, reached) /\ e \in Residual /\ job.day = reached
    BY <1>1, <1>4 DEF ConfirmNext, DayInv, TodoIsDue, In
  <2>2. KeyOn(e, job.day) \in resolutions
    BY <1>0, <2>1 DEF Reevaluated
  <2>3. UNCHANGED storeVars
    BY <1>4, <2>2 DEF ConfirmNext, InsertResolution, KeyOn
  <2> QED BY <1>0, <1>4, <2>3 DEF ConfirmNext, storeVars, tables, Idle
<1>5. ASSUME NEW e \in Exceptions, OpenNext(e) PROVE UNCHANGED <<tables, files>> /\ Idle'
  <2>1. Unresolved(e, reached)
    BY <1>1, <1>5 DEF OpenNext, DayInv, TodoIsDue, In
  <2>2. StatusOf(e) # Absent
    BY <1>0, <2>1 DEF Persisted
  <2>3. UNCHANGED storeVars
    BY <1>5, <2>2 DEF OpenNext, UpsertException
  <2> QED BY <1>0, <1>5, <2>3 DEF OpenNext, storeVars, tables, Idle
<1>6. CASE Reevaluate \/ Persist \/ FinishDay \/ Die \/ UNCHANGED dayVars
  BY <1>0, <1>6
     DEF Reevaluate, Persist, FinishDay, Die, Crash, dayVars, driverVars, storeVars, tables, Idle
<1>7. ASSUME NEW day \in Days, StartDay(day) PROVE UNCHANGED <<tables, files>> /\ Idle'
  BY <1>0, <1>7 DEF StartDay, storeVars, tables, Idle
<1> QED BY <1>2, <1>3, <1>4, <1>5, <1>6, <1>7, DayNextCases

LEMMA FinishedDayStandsStep == DayInv /\ [DayNext]_dayVars => FinishedDayStands'
<1> SUFFICES ASSUME DayInv, [DayNext]_dayVars PROVE FinishedDayStands'
  OBVIOUS
<1>0. FinishedDayStands /\ DayTypeOK /\ CallsBelongToJob /\ outcome' = outcome
  BY HistoryKept DEF DayInv
<1>1. job # NoJob => job \in Job /\ job.day \in Days /\ job.day = reached
  BY <1>0, TypeFacts DEF CallsBelongToJob
<1>2. /\ reached \in Nat /\ reached' \in Nat /\ reached =< reached'
      /\ watermark.day \in Nat
  BY <1>0, HistoryKept, TypeFacts
<1>3. CASE FinishDay
  <2>1. /\ job.phase = "PERSIST" /\ job.todo = {} /\ Idle /\ In("PERSIST")
        /\ job.day \in Days /\ job.day = reached
    BY <1>1, <1>3 DEF FinishDay, In, PassDone
  <2>2. /\ watermark'.day = reached /\ UNCHANGED <<storeVars, files, reached>>
    BY <1>3, <2>1 DEF FinishDay
  <2>3. \A e \in Exceptions : Reevaluated(e, reached) /\ Persisted(e, reached)
    BY <2>1 DEF DayInv, PassesMakeProgress
  <2>4. FilesRecorded(reached, Len(Delivery[reached]))
    BY <2>1 DEF DayInv, FilesMakeProgress
  <2>5. UNCHANGED <<table, resolutions, confirming, unaudited>>
    BY <2>2 DEF storeVars
  <2> QED BY <1>0, <1>2, <2>1, <2>2, <2>3, <2>4, <2>5
          DEF FinishedDayStands, FilesRecorded, Reevaluated, Persisted, Unresolved, Resolved,
              KeyOn, Idle, Residual, StatusOf
<1>4. CASE watermark' = watermark
  <2>1. watermark'.day =< reached'
    BY <1>0, <1>2, <1>4 DEF FinishedDayStands
  <2>2. CASE watermark.day = 0 \/ watermark.day # reached'
    BY <1>4, <2>1, <2>2 DEF FinishedDayStands
  <2>3. CASE watermark.day # 0 /\ watermark.day = reached'
    <3>1. watermark.day = reached /\ reached' = reached
      BY <1>0, <1>2, <2>3 DEF FinishedDayStands
    <3>2. UNCHANGED <<tables, files>> /\ Idle'
      BY <2>3, <3>1, FinishedDayIsQuiet
    <3> QED BY <1>0, <1>4, <2>1, <2>3, <3>1, <3>2
            DEF FinishedDayStands, FilesRecorded, Reevaluated, Persisted, Unresolved, Resolved,
                KeyOn, tables, Residual, StatusOf
  <2> QED BY <2>2, <2>3
<1>5. FinishDay \/ watermark' = watermark
  BY DayNextCases
     DEF IngestFile, Reevaluate, Persist, FinishCall, Die, ConfirmNext, OpenNext, StartDay,
         dayVars, driverVars
<1> QED BY <1>3, <1>4, <1>5

-----------------------------------------------------------------------------
LEMMA DayInvInit == DayInit => DayInv
<1> SUFFICES ASSUME DayInit PROVE DayInv
  OBVIOUS
<1>1. StoreInv /\ StoreTypeOK
  BY StoreInvInit DEF DayInit, StoreInv, TypeInv
<1>2. /\ job = NoJob /\ reached = 0 /\ watermark = [day |-> 0, seq |-> 0] /\ Idle
      /\ table = [e \in Exceptions |-> NoRow]
      /\ files = [c \in Contents |-> NoArrival]
  BY DEF DayInit, StoreInit, Idle
<1>3. outcome \in [Exceptions -> [Days -> Verdicts]]
  <2>1. outcome \in [Exceptions -> CaseHistories \union LinkHistories \union OrphanHistories]
    BY DEF DayInit
  <2>2. CaseHistories \union LinkHistories \union OrphanHistories \subseteq [Days -> Verdicts]
    BY DEF CaseHistories, LinkHistories, OrphanHistories
  <2> QED BY <2>1, <2>2
<1>4. DayTypeOK
  BY <1>1, <1>2, <1>3 DEF DayTypeOK
<1>5. RowsFollowEngine
  BY <1>2 DEF RowsFollowEngine, RowFollowsEngine, NoRow, Absent
<1>6. FinishedDayStands
  BY <1>2 DEF FinishedDayStands
<1>7. CallsBelongToJob /\ TodoIsDue /\ PassesMakeProgress /\ FilesMakeProgress
  BY <1>2 DEF CallsBelongToJob, TodoIsDue, PassesMakeProgress, FilesMakeProgress, In, Idle
<1>8. ResolutionsInv
  BY DEF DayInit, StoreInit, ResolutionsInv, ResolutionResolves
<1> QED BY <1>1, <1>4, <1>5, <1>6, <1>7, <1>8 DEF DayInv

LEMMA DayInvStep == DayInv /\ [DayNext]_dayVars => DayInv'
BY DayTypeStep, DayResolutionsStep, CallsBelongToJobStep, TodoIsDueStep, RowsFollowEngineStep,
   PassesMakeProgressStep, FilesMakeProgressStep, FinishedDayStandsStep DEF DayInv

(* What the driver keeps true, whatever days are run, repeated or cut      *)
(* short.                                                                  *)
THEOREM DayInvariant == DaySpec => []DayInv
BY DayInvInit, DayInvStep, PTL DEF DaySpec

(* The driver touches the store only as the store allows: every theorem of *)
(* the store holds of the days.                                            *)
THEOREM DayUsesStore == DaySpec => StoreSpec
<1>1. DayInit => StoreInit
  BY DEF DayInit
<1>2. DayInv /\ [DayNext]_dayVars => [StoreNext]_storeVars
  BY DayStepStore DEF DayInv
<1> QED BY <1>1, <1>2, DayInvariant, PTL DEF DaySpec, StoreSpec

(* While no day is cut short, every key in the resolutions table is of an  *)
(* exception that is resolved, or whose confirmation is still under way:   *)
(* the re-evaluation never records a key for an exception without a row.   *)
THEOREM ResolutionResolvesHolds == DaySpec => []ResolutionResolves
BY DayInvariant, PTL DEF DayInv, ResolutionsInv

(* What is resolved on arrival is never persisted: a confirmed exception   *)
(* was first seen on an earlier day.                                       *)
THEOREM ConfirmedLaterThanSeenHolds == DaySpec => []ConfirmedLaterThanSeen
<1>1. DayInv => ConfirmedLaterThanSeen
  <2> SUFFICES ASSUME DayInv, NEW e \in Exceptions, table[e].confirmedDay # 0
               PROVE  table[e].firstSeenDay # 0
                      /\ table[e].firstSeenDay < table[e].confirmedDay
    BY DEF ConfirmedLaterThanSeen
  <2>1. RowFollowsEngine(e)
    BY DEF DayInv, RowsFollowEngine
  <2> QED BY <2>1, DaysAssumption DEF RowFollowsEngine
<1> QED BY <1>1, DayInvariant, PTL

(* Running a day again after it has finished changes nothing, even when    *)
(* earlier runs of it, or of other days, were cut short.                   *)
THEOREM RerunIsQuietHolds == DaySpec => RerunIsQuiet
<1>1. DayInv /\ [DayNext]_dayVars =>
        [job # NoJob /\ job.day = watermark.day => UNCHANGED <<tables, files>>]_dayVars
  <2> SUFFICES ASSUME DayInv, [DayNext]_dayVars, job # NoJob, job.day = watermark.day
               PROVE  UNCHANGED <<tables, files>>
    OBVIOUS
  <2>1. job.day \in Days /\ job.day = reached
    BY TypeFacts DEF DayInv, CallsBelongToJob
  <2>2. watermark.day # 0 /\ watermark.day = reached
    BY <2>1, DaysAssumption
  <2> QED BY <2>2, FinishedDayIsQuiet
<1> QED BY <1>1, DayInvariant, PTL DEF DaySpec, RerunIsQuiet

(* What a finished day says of one subject.                                *)
LEMMA FinishedSubject ==
    ASSUME DayInv, FinishDay, NEW e \in Exceptions, Steady(e, job.day)
    PROVE  /\ Unresolved(e, job.day) => e \in Residual
           /\ e \in Residual => Unresolved(e, job.day) \/ CutShort(e, job.day)
<1>1. PICK day \in Days : day = job.day /\ day = reached
  BY TypeFacts DEF DayInv, CallsBelongToJob, FinishDay, In
<1>2. Reevaluated(e, day) /\ Persisted(e, day) /\ Idle
  BY <1>1 DEF DayInv, PassesMakeProgress, FinishDay, PassDone
<1>3. RowFollowsEngine(e) /\ DayTypeOK /\ table[e] \in Row
  BY DEF DayInv, RowsFollowEngine, DayTypeOK, StoreTypeOK
<1>4. \A n \in Days : n \in Nat \ {0}
  BY DaysAssumption
<1>5. ASSUME Unresolved(e, day) PROVE e \in Residual
  <2>1. table[e].status # Absent /\ ~Resolved(e, day)
    BY <1>2, <1>3, <1>5, VerdictFacts DEF Persisted, StatusOf
  <2>2. ASSUME table[e].status = "CONFIRMED" PROVE FALSE
    <3>1. /\ table[e].confirmedDay # 0 /\ table[e].confirmedDay =< day
          /\ Resolved(e, table[e].confirmedDay)
      BY <1>1, <1>3, <2>2 DEF RowFollowsEngine
    <3>2. table[e].confirmedDay \in Days
      BY <1>3, <3>1 DEF Row
    <3>3. table[e].confirmedDay < day
      BY <1>4, <2>1, <3>1, <3>2
    <3> QED BY <1>1, <2>1, <3>1, <3>2, <3>3, <1>4 DEF Steady
  <2> QED BY <1>3, <2>1, <2>2 DEF RowFollowsEngine, Residual, StatusOf
<1>6. ASSUME e \in Residual, ~Unresolved(e, day) PROVE CutShort(e, day)
  <2>1. /\ table[e].status # Absent /\ table[e].status \in ResidualStates
        /\ table[e].status \notin ResolvedStates
    BY <1>6 DEF Residual, StatusOf, ResidualStates, PendingStates, ResolvedStates, Absent
  <2>2. PICK seen \in Days : seen =< day /\ Unresolved(e, seen)
    BY <1>1, <1>3, <2>1 DEF RowFollowsEngine
  <2>3. seen < day /\ outcome[e][seen].status # Absent
    BY <1>4, <1>6, <2>2 DEF Unresolved, Absent
  <2>4. outcome[e][day].status # Absent
    BY <1>1, <1>4, <2>2, <2>3 DEF Steady
  <2>5. outcome[e][day] \in Verdicts
    BY <1>3, TypeFacts
  <2>6. Resolved(e, day)
    BY <1>6, <2>4, <2>5 DEF Verdicts, Unresolved, Resolved
  <2>7. KeyOn(e, day) \in resolutions
    BY <1>2, <1>6, <2>6 DEF Reevaluated
  <2>8. crashes # 0
    <3>1. KeyOn(e, day).exception = e
      BY DEF KeyOn
    <3>2. crashes = 0 => StatusOf(e) \in ResolvedStates
      BY <1>2, <2>7, <3>1 DEF DayInv, ResolutionsInv, ResolutionResolves, Idle
    <3> QED BY <2>1, <3>2 DEF StatusOf
  <2>9. crashes > 0
    BY <1>3, <2>8 DEF DayTypeOK, StoreTypeOK
  <2> QED BY <2>7, <2>9 DEF CutShort, KeyOn
<1> QED BY <1>1, <1>5, <1>6

(* The endpoint: the residual the store is left with when a day ends is    *)
(* the engine's, whatever days were run, skipped, repeated or cut short    *)
(* before, for every subject whose verdict the engine has not taken back.  *)
THEOREM FinishedDayMatchesEngineHolds == DaySpec => FinishedDayMatchesEngine
<1>1. DayInv /\ [DayNext]_dayVars =>
        [FinishDay =>
           \A e \in Exceptions :
              Steady(e, job.day) =>
                 /\ Unresolved(e, job.day) => e \in Residual
                 /\ e \in Residual =>
                       Unresolved(e, job.day) \/ CutShort(e, job.day)]_dayVars
  BY FinishedSubject
<1> QED BY <1>1, DayInvariant, PTL DEF DaySpec, FinishedDayMatchesEngine

(* Every reachable state of the driver has the type declared.              *)
THEOREM DayTypeCorrect == DaySpec => []DayTypeOK
BY DayInvariant, PTL DEF DayInv

=============================================================================
