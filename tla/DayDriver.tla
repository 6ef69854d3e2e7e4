------------------------------ MODULE DayDriver ------------------------------
(***************************************************************************)
(* run_day, the driver that feeds the exception store one delivery day     *)
(* after another: it ingests the day's files, lets the engine decide again *)
(* every exception that is still residual, opens an exception for whatever *)
(* the engine leaves unresolved, and moves the watermark.  A crash may     *)
(* fall between any two commits; the caller then runs the day again, or a  *)
(* later one.                                                              *)
(*                                                                         *)
(* The matching engine is a function of the data delivered up to a day, so *)
(* what it will say of each subject on each day is fixed in advance, in    *)
(* outcome, among the histories its rules allow.  Within a pass, subjects  *)
(* are taken in an order that depends on amounts and ids; both are left    *)
(* out, so any order may occur.                                            *)
(***************************************************************************)
EXTENDS ExceptionStore

CONSTANTS
    Cases,        \* Population A: one subject per captured payment
    Links,        \* Population B: one subject per settlement batch
    Orphans,      \* Population C: bank credits no batch accounts for
    Contents,     \* file contents, told apart by their hash
    Delivery,     \* the contents of each day's files, in sorted name order
    NoArrival,    \* a content hash the files table does not have
    NoJob         \* no run_day under way

VARIABLES
    outcome,      \* the engine's verdict on each subject, day by day
    files,        \* the files table, keyed by content hash
    watermark,    \* the "ingest" watermark: day and last sequence
    reached,      \* the latest day the caller has started
    job           \* the run_day under way

driverVars == <<outcome, files, watermark, reached, job>>
dayVars == <<storeVars, driverVars>>

ASSUME PopulationsAssumption == Exceptions = Cases \union Links \union Orphans

ASSUME DeliveryAssumption == Delivery \in [Days -> Seq(Contents)]

-----------------------------------------------------------------------------
(* What the engine may say of a subject on a day.  A subject whose data    *)
(* has not been delivered, or that is no variance, is Absent.              *)

NoEvidence == "NONE"

Verdicts ==
    [status : {Absent, "OPEN", "PENDING_EVIDENCE"}, evidence : {NoEvidence}]
      \union [status : {"CONFIRMED"}, evidence : Evidence]

(* Once its payment or its batch is delivered, a subject stays in view. *)
StaysInView(h) ==
    \A d1, d2 \in Days : d1 < d2 /\ h[d1].status # Absent => h[d2].status # Absent

(* _classify_case: OPEN or CONFIRMED, and it may go back: a later order    *)
(* can make a confirmed case a duplicate candidate.                        *)
CaseHistories ==
    {h \in [Days -> {v \in Verdicts : v.status # "PENDING_EVIDENCE"}] : StaysInView(h)}

(* _classify_batches: may change its mind either way.  The due date comes  *)
(* from the profiles of the lines delivered so far, so that a link found   *)
(* overdue on the day of its batch may wait again once its lines arrive.   *)
LinkHistories == {h \in [Days -> Verdicts] : StaysInView(h)}

(* Orphan credits are reported OPEN and never CONFIRMED; one stops being   *)
(* reported for good when a batch that shares its UTR or amount arrives.   *)
OrphanHistories ==
    {h \in [Days -> {v \in Verdicts : v.status \in {Absent, "OPEN"}}] :
        \A d1, d2, d3 \in Days :
            d1 < d2 /\ d2 < d3 /\ h[d1].status = "OPEN" /\ h[d2].status = Absent
                => h[d3].status = Absent}

Unresolved(e, day) == outcome[e][day].status \in {"OPEN", "PENDING_EVIDENCE"}
Resolved(e, day) == outcome[e][day].status = "CONFIRMED"

-----------------------------------------------------------------------------
Phases == {"INGEST", "REEVALUATE", "PERSIST"}

(* next: the next file to ingest; lastSeq: the highest arrival sequence    *)
(* ingest_file has returned; todo: the subjects the pass still has to do.  *)
Job == [day : Days, phase : Phases, next : Nat \ {0}, lastSeq : Nat,
        todo : SUBSET Exceptions]

Arrival == [day : Days, seq : Nat \ {0}]

ASSUME NoJobAssumption == NoJob \notin Job

ASSUME NoArrivalAssumption == NoArrival \notin Arrival

In(phase) == job # NoJob /\ job.phase = phase

(* The call the pass last made has returned. *)
PassDone == Idle /\ job.todo = {}

(* Deviation: the files of a day are numbered from 0. *)
StartDayAtZero(day) ==
    /\ job = NoJob
    /\ day >= reached
    /\ Delivery[day] # << >>
    /\ reached' = day
    /\ job' = [day |-> day, phase |-> "INGEST", next |-> 0, lastSeq |-> 0, todo |-> {}]
    /\ UNCHANGED <<storeVars, outcome, files, watermark>>

(* Days are run in order, and a day may be run again.  A day without files *)
(* raises MissingFileError before anything is done.                        *)
StartDay(day) ==
    /\ job = NoJob
    /\ day >= reached
    /\ Delivery[day] # << >>
    /\ reached' = day
    /\ job' = [day |-> day, phase |-> "INGEST", next |-> 1, lastSeq |-> 0, todo |-> {}]
    /\ UNCHANGED <<storeVars, outcome, files, watermark>>

(* Deviation: content seen before is skipped without going on to the next. *)
IngestFileStuck ==
    /\ In("INGEST")
    /\ job.next \in 1..Len(Delivery[job.day])
    /\ LET content == Delivery[job.day][job.next]
           fresh == files[content] = NoArrival
       IN  /\ files' = IF fresh THEN [files EXCEPT ![content] = [day |-> job.day,
                                                                seq |-> job.next]]
                        ELSE files
           /\ job' = IF fresh THEN [job EXCEPT !.next = @ + 1, !.lastSeq = job.next]
                      ELSE job
    /\ UNCHANGED <<storeVars, outcome, watermark, reached>>

(* ingest_file: content seen before keeps the arrival it has, and that is  *)
(* the arrival returned.                                                   *)
IngestFile ==
    /\ In("INGEST")
    /\ job.next \in 1..Len(Delivery[job.day])
    /\ LET content == Delivery[job.day][job.next]
           arrival == IF files[content] = NoArrival
                      THEN [day |-> job.day, seq |-> job.next]
                      ELSE files[content]
       IN  /\ files' = [files EXCEPT ![content] = arrival]
           /\ job' = [job EXCEPT !.next = @ + 1, !.lastSeq = Max({@, arrival.seq})]
    /\ UNCHANGED <<storeVars, outcome, watermark, reached>>

(* Deviation: what the engine resolves is confirmed without reading the    *)
(* rows.                                                                   *)
ReevaluateUnread ==
    /\ In("INGEST")
    /\ job.next > Len(Delivery[job.day])
    /\ job' = [job EXCEPT !.phase = "REEVALUATE",
                          !.todo = {e \in Exceptions : Resolved(e, job.day)}]
    /\ UNCHANGED <<storeVars, outcome, files, watermark, reached>>

(* Deviation: only OPEN rows are decided again, not the pending ones. *)
ReevaluateOpenOnly ==
    /\ In("INGEST")
    /\ job.next > Len(Delivery[job.day])
    /\ job' = [job EXCEPT !.phase = "REEVALUATE",
                          !.todo = {e \in Residual : StatusOf(e) = "OPEN"
                                                      /\ Resolved(e, job.day)}]
    /\ UNCHANGED <<storeVars, outcome, files, watermark, reached>>

(* reevaluate_open: the residual rows the engine now resolves.  The rows   *)
(* are read once, before any of them is confirmed.                         *)
Reevaluate ==
    /\ In("INGEST")
    /\ job.next > Len(Delivery[job.day])
    /\ job' = [job EXCEPT !.phase = "REEVALUATE",
                          !.todo = {e \in Residual : Resolved(e, job.day)}]
    /\ UNCHANGED <<storeVars, outcome, files, watermark, reached>>

(* Deviation: the resolution is dated on the day the row was first seen. *)
ConfirmNextBackdated(e) ==
    LET evidence == outcome[e][job.day].evidence
        key == [exception |-> e, type |-> "DETERMINISTIC_REEVALUATION", evidence |-> evidence]
    IN  /\ In("REEVALUATE")
        /\ e \in job.todo
        /\ Idle
        /\ job' = [job EXCEPT !.todo = @ \ {e}]
        /\ \/ InsertResolution(e, "DETERMINISTIC_REEVALUATION", evidence,
                               table[e].firstSeenDay)
           \/ key \in resolutions /\ UNCHANGED storeVars
        /\ UNCHANGED <<outcome, files, watermark, reached>>

(* confirm_exception with the engine's evidence; a known key is a replay   *)
(* and does nothing.                                                       *)
ConfirmNext(e) ==
    LET evidence == outcome[e][job.day].evidence
        key == [exception |-> e, type |-> "DETERMINISTIC_REEVALUATION", evidence |-> evidence]
    IN  /\ In("REEVALUATE")
        /\ e \in job.todo
        /\ Idle
        /\ job' = [job EXCEPT !.todo = @ \ {e}]
        /\ \/ InsertResolution(e, "DETERMINISTIC_REEVALUATION", evidence, job.day)
           \/ key \in resolutions /\ UNCHANGED storeVars
        /\ UNCHANGED <<outcome, files, watermark, reached>>

(* _persist_outcomes: whatever the engine does not resolve. *)
Persist ==
    /\ In("REEVALUATE")
    /\ PassDone
    /\ job' = [job EXCEPT !.phase = "PERSIST",
                          !.todo = {e \in Exceptions : Unresolved(e, job.day)}]
    /\ UNCHANGED <<storeVars, outcome, files, watermark, reached>>

(* _open_if_new: an existing row is left as it is, whatever its status. *)
OpenNext(e) ==
    /\ In("PERSIST")
    /\ e \in job.todo
    /\ Idle
    /\ job' = [job EXCEPT !.todo = @ \ {e}]
    /\ \/ UpsertException(e, outcome[e][job.day].status, job.day)
       \/ StatusOf(e) # Absent /\ UNCHANGED storeVars
    /\ UNCHANGED <<outcome, files, watermark, reached>>

(* Deviation: the watermark moves before the last pass is through. *)
FinishDayEarly ==
    /\ In("PERSIST")
    /\ Idle
    /\ watermark' = [day |-> job.day, seq |-> job.lastSeq]
    /\ job' = NoJob
    /\ UNCHANGED <<storeVars, outcome, files, reached>>

(* set_watermark, and run_day returns. *)
FinishDay ==
    /\ In("PERSIST")
    /\ PassDone
    /\ watermark' = [day |-> job.day, seq |-> job.lastSeq]
    /\ job' = NoJob
    /\ UNCHANGED <<storeVars, outcome, files, reached>>

(* The store finishes the call the driver has made. *)
FinishCall == CallStep /\ UNCHANGED driverVars

Die ==
    /\ job # NoJob
    /\ Crash
    /\ job' = NoJob
    /\ UNCHANGED <<outcome, files, watermark, reached>>

-----------------------------------------------------------------------------
DayInit ==
    /\ StoreInit
    /\ outcome \in {o \in [Exceptions -> CaseHistories \union LinkHistories
                                           \union OrphanHistories] :
                       /\ \A e \in Cases : o[e] \in CaseHistories
                       /\ \A e \in Links : o[e] \in LinkHistories
                       /\ \A e \in Orphans : o[e] \in OrphanHistories}
    /\ files = [c \in Contents |-> NoArrival]
    /\ watermark = [day |-> 0, seq |-> 0]
    /\ reached = 0
    /\ job = NoJob

JobStep ==
    \/ IngestFile
    \/ Reevaluate
    \/ Persist
    \/ FinishDay
    \/ FinishCall
    \/ \E e \in Exceptions : ConfirmNext(e) \/ OpenNext(e)

DayNext == JobStep \/ Die \/ \E day \in Days : StartDay(day)

DaySpec == DayInit /\ [][DayNext]_dayVars

(* run_day is a sequential program: once started it keeps going until it   *)
(* returns or dies.  Nothing says that a day is ever started.              *)
FairDaySpec == DaySpec /\ WF_dayVars(JobStep)

-----------------------------------------------------------------------------
DayTypeOK ==
    /\ StoreTypeOK
    /\ outcome \in [Exceptions -> [Days -> Verdicts]]
    /\ files \in [Contents -> Arrival \union {NoArrival}]
    /\ watermark \in [day : Days \union {0}, seq : Nat]
    /\ reached \in Days \union {0}
    /\ job \in Job \union {NoJob}

(* Up to this day the engine has never taken back a verdict on e: a        *)
(* subject stays in view, and once resolved stays resolved.                *)
Steady(e, day) ==
    \A d1, d2 \in Days :
        d1 < d2 /\ d2 =< day =>
            /\ outcome[e][d1].status # Absent => outcome[e][d2].status # Absent
            /\ Resolved(e, d1) => Resolved(e, d2)

(* confirm_exception was cut short: the key of today's resolution is in,   *)
(* so the day's re-evaluation passed over the row.                         *)
CutShort(e, day) ==
    /\ crashes > 0
    /\ [exception |-> e, type |-> "DETERMINISTIC_REEVALUATION",
        evidence |-> outcome[e][day].evidence] \in resolutions

(* The endpoint: when a day has been run to its end, whatever days were    *)
(* run, skipped, repeated or cut short before, the residual of the store   *)
(* has the members the engine says of all the data at once.  It holds of   *)
(* every subject whose verdict the engine has not taken back, save a       *)
(* resolved one whose confirmation a crash cut short.  Which residual      *)
(* status a row shows is not part of it: a row once opened as waiting for  *)
(* its evidence keeps that status when the evidence is overdue.            *)
FinishedDayMatchesEngine ==
    [][FinishDay =>
         \A e \in Exceptions :
            Steady(e, job.day) =>
               /\ Unresolved(e, job.day) => e \in Residual
               /\ e \in Residual => Unresolved(e, job.day) \/ CutShort(e, job.day)]_dayVars

(* Running a day again after it has finished changes nothing, even when    *)
(* the store was left uneven by crashes.                                   *)
RerunIsQuiet ==
    [][job # NoJob /\ job.day = watermark.day => UNCHANGED <<tables, files>>]_dayVars

(* The day driver confirms an exception only on a later day than the one   *)
(* it was first seen on: what is resolved on arrival is never persisted.   *)
ConfirmedLaterThanSeen ==
    \A e \in Exceptions :
        table[e].confirmedDay # 0 =>
            /\ table[e].firstSeenDay # 0
            /\ table[e].firstSeenDay < table[e].confirmedDay

(* A started day returns or dies: neither loop of run_day, nor a call it   *)
(* makes of the store, ever waits for something that does not come.        *)
StartedDayEnds == (job # NoJob) ~> (job = NoJob)

(* Two readings of the documents that the code does not meet.              *)

(* SDD 4.7: the day driver will "re-evaluate all OPEN exceptions against   *)
(* the enlarged dataset, close any that now verify", and a key already     *)
(* there "makes replay a no-op".  After a crash that fell between the key  *)
(* and the status, the replay that is a no-op leaves a verified row open.  *)
VerifiedIsConfirmed ==
    [][FinishDay => \A e \in Residual : ~Resolved(e, job.day)]_dayVars

(* README: "the incremental store holds exactly what a single-shot batch   *)
(* run reports, per population".  A row opened for a credit no batch       *)
(* accounted for stays open when its batch arrives: the engine then no     *)
(* longer reports the credit, and what it does not report it cannot        *)
(* confirm.                                                                *)
StoreHoldsWhatBatchReports ==
    [][FinishDay => Residual = {e \in Exceptions : Unresolved(e, job.day)}]_dayVars

=============================================================================
