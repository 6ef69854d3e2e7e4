------------------------------ MODULE AIStage ------------------------------
(***************************************************************************)
(* The two AI stages over the store: run_ai_stage (ai/orchestrator.py),    *)
(* which asks the model about every sendable residual row and then writes  *)
(* the verdicts, and run_store_ai_stage (ai/pairing.py), which pairs       *)
(* residual rows that describe one duplicate, asks about each pair, and    *)
(* writes its verdict on both rows before it asks about the next.  Both    *)
(* read the residual rows once, at the start.  Between stages the days     *)
(* and the exporter work on the same rows; the stage may die anywhere.     *)
(*                                                                         *)
(* Left out: the order of rows and pairs; the caller's own choice of rows; *)
(* the counters of the report, which follow from the verdicts.             *)
(***************************************************************************)
EXTENDS ExceptionStore, HypothesisLoop

CONSTANTS
    Sendable,      \* exceptions opened under a category the model may see
    Groups,        \* duplicate candidates of one amount and batch
    Posable,       \* pairs whose orders are known and have a pair exception
    RowEvidence,   \* the evidence list a row was opened with
    NotAsked,      \* no verdict
    NoStage        \* no stage under way

VARIABLE stage     \* the stage under way

stageVars == <<stage, asking>>
aiVars == <<storeVars, stageVars>>

Paths == {"ROWS", "PAIRS"}

(* posed: the questions of this stage; waiting: the rows read as           *)
(* PENDING_AI_UNAVAILABLE; todo: the rows with a verdict still to write.   *)
Stage == [path : Paths, client : Clients, day : Days,
          posed : SUBSET Questions, waiting : SUBSET Exceptions,
          answer : [Exceptions -> Verdicts \union {NotAsked}],
          todo : SUBSET Exceptions]

(* A pair's resolution is keyed on its orders and the nominated one. *)
Nomination == [pair : Questions, nominee : Nominees]

ASSUME StageAssumption ==
    /\ "AI_VERIFIED" \in Callers
    /\ Sendable \subseteq Exceptions
    /\ NoStage \notin Stage
    /\ NotAsked \notin Verdicts

ASSUME QuestionsAssumption ==
    /\ Questions \subseteq SUBSET Exceptions
    /\ \A e \in Exceptions : {e} \in Questions

ASSUME GroupsAssumption ==
    /\ \A g \in Groups : IsFiniteSet(g) /\ g \subseteq Sendable
    /\ \A g, h \in Groups : g # h => g \intersect h = {}
    /\ Posable \subseteq Questions

ASSUME EvidenceAssumption == Nomination \union {RowEvidence} \subseteq Evidence

-----------------------------------------------------------------------------
(* eligible_exceptions, over the residual rows. *)
RowQuestions == {{e} : e \in Residual \intersect Sendable}

(* pair_store_rows: the groups with just two rows left in the residual. *)
PairQuestions ==
    {pair \in {g \intersect Residual : g \in Groups} :
        Cardinality(pair) = 2 /\ pair \in Posable}

Posed(path) == IF path = "ROWS" THEN RowQuestions ELSE PairQuestions

StartStage(path, client, day) ==
    /\ stage = NoStage
    /\ Idle
    /\ stage' = [path |-> path, client |-> client, day |-> day, posed |-> Posed(path),
                 waiting |-> {e \in Exceptions : StatusOf(e) = "PENDING_AI_UNAVAILABLE"},
                 answer |-> [e \in Exceptions |-> NotAsked], todo |-> {}]
    /\ UNCHANGED <<storeVars, asking>>

ToAsk == {q \in stage.posed : \A e \in q : stage.answer[e] = NotAsked}

(* resolve_exception begins: a row's turn comes whatever the others' was,  *)
(* a pair's when the pair before it is written.                            *)
AskNext(question) ==
    /\ stage # NoStage
    /\ Idle
    /\ question \in ToAsk
    /\ stage.todo = {} \/ stage.path = "ROWS"
    /\ Ask(question, stage.client)
    /\ UNCHANGED <<storeVars, stage>>

AskAgain ==
    /\ stage # NoStage
    /\ CallFails \/ BadReply
    /\ UNCHANGED <<storeVars, stage>>

(* resolve_exception returns. *)
RecordAnswer(verdict) ==
    /\ stage # NoStage
    /\ Resolve(verdict)
    /\ stage' = [stage EXCEPT
                    !.answer = [e \in Exceptions |-> IF e \in asking.question
                                                     THEN verdict ELSE @[e]],
                    !.todo = @ \union asking.question]
    /\ UNCHANGED storeVars

-----------------------------------------------------------------------------
(* Every row is asked about before the first is written; a pair is written *)
(* at once.                                                                *)
MayWrite(question, e) ==
    /\ stage # NoStage
    /\ question \in stage.posed
    /\ e \in question
    /\ e \in stage.todo
    /\ asking = NoQuestion
    /\ ToAsk = {} \/ stage.path = "PAIRS"

Done(e) == stage' = [stage EXCEPT !.todo = @ \ {e}] /\ UNCHANGED asking

(* Deviation: an outage marks the row even if it is waiting already. *)
MarkRepeatedly(e) ==
    IF stage.answer[e] = "UNAVAILABLE" THEN "PENDING_AI_UNAVAILABLE"
    ELSE IF stage.answer[e] = "ABSTAIN" /\ e \in stage.waiting THEN "OPEN"
    ELSE Absent

(* Deviation: an abstention writes nothing. *)
MarkOutagesOnly(e) ==
    IF stage.answer[e] = "UNAVAILABLE" /\ e \notin stage.waiting
    THEN "PENDING_AI_UNAVAILABLE" ELSE Absent

(* The status an outage or an abstention moves a row to, judged by the     *)
(* status that was read; Absent if the row stays as it is.                 *)
Mark(e) ==
    IF stage.answer[e] = "UNAVAILABLE" /\ e \notin stage.waiting
    THEN "PENDING_AI_UNAVAILABLE"
    ELSE IF stage.answer[e] = "ABSTAIN" /\ e \in stage.waiting THEN "OPEN"
    ELSE Absent

ResolutionType == IF stage.path = "ROWS" THEN "AI_VERIFIED" ELSE "AI_PAIR"

EvidenceOf(question, e) ==
    IF stage.path = "ROWS" THEN RowEvidence
    ELSE [pair |-> question, nominee |-> stage.answer[e]]

KeyOf(question, e) ==
    [exception |-> e, type |-> ResolutionType, evidence |-> EvidenceOf(question, e)]

(* mark_status; a move the lifecycle refuses raises, and is no step here.  *)
WriteMark(question, e) ==
    /\ MayWrite(question, e)
    /\ Mark(e) # Absent
    /\ MarkStatus(e, Mark(e), "AI_VERIFIED", stage.day)
    /\ Done(e)

(* Deviation: whatever is not an outage is confirmed. *)
ConfirmUnlessUnavailable(question, e) ==
    /\ MayWrite(question, e)
    /\ stage.answer[e] # "UNAVAILABLE"
    /\ InsertResolution(e, ResolutionType, EvidenceOf(question, e), stage.day)
    /\ Done(e)

(* Deviation: only the nominated row of a pair, the first one written, is  *)
(* confirmed.                                                              *)
ConfirmFirstOfPair(question, e) ==
    /\ MayWrite(question, e)
    /\ question \subseteq stage.todo
    /\ stage.answer[e] \in Nominees
    /\ InsertResolution(e, ResolutionType, EvidenceOf(question, e), stage.day)
    /\ stage' = [stage EXCEPT !.todo = @ \ question]
    /\ UNCHANGED asking

(* confirm_exception begins; the store finishes it. *)
WriteConfirmation(question, e) ==
    /\ MayWrite(question, e)
    /\ stage.answer[e] \in Nominees
    /\ InsertResolution(e, ResolutionType, EvidenceOf(question, e), stage.day)
    /\ Done(e)

(* Deviation: a confirmation whose key is known waits to be the new one. *)
WriteNothingUnconfirmed(question, e) ==
    /\ Idle
    /\ MayWrite(question, e)
    /\ Mark(e) = Absent
    /\ stage.answer[e] \notin Nominees
    /\ Done(e)
    /\ UNCHANGED storeVars

(* The row has its status already, or its resolution its key; the row is   *)
(* reported all the same.                                                  *)
WriteNothing(question, e) ==
    /\ Idle
    /\ MayWrite(question, e)
    /\ Mark(e) = Absent
    /\ stage.answer[e] \in Nominees => KeyOf(question, e) \in resolutions
    /\ Done(e)
    /\ UNCHANGED storeVars

(* Every question is answered and every verdict written. *)
Finishing ==
    /\ stage # NoStage
    /\ Idle
    /\ asking = NoQuestion
    /\ ToAsk = {}
    /\ stage.todo = {}

FinishStage ==
    /\ Finishing
    /\ stage' = NoStage
    /\ UNCHANGED <<storeVars, asking>>

-----------------------------------------------------------------------------
(* The store finishes the call in flight, the stage's or another's. *)
FinishCall == CallStep /\ UNCHANGED stageVars

(* The other programs between stages: days open rows and confirm rows they *)
(* have read, the exporter closes.  The engine gives an exception that     *)
(* waits for its evidence no category, so it opens no sendable one in that *)
(* status.                                                                 *)
OtherCall ==
    /\ stage = NoStage
    /\ \E e \in Exceptions, day \in Days :
          \/ UpsertException(e, "OPEN", day)
          \/ e \notin Sendable /\ UpsertException(e, "PENDING_EVIDENCE", day)
          \/ /\ StatusOf(e) # Absent
             /\ InsertResolution(e, "DETERMINISTIC_REEVALUATION", RowEvidence, day)
          \/ CloseException(e, day)
    /\ UNCHANGED stageVars

Die ==
    /\ Crash
    /\ stage' = NoStage
    /\ asking' = NoQuestion

StageInit ==
    /\ StoreInit
    /\ stage = NoStage
    /\ asking = NoQuestion

(* A stage under way goes on. *)
StageStep ==
    \/ \E question \in Questions :
          \/ AskNext(question)
          \/ \E e \in question : \/ WriteMark(question, e)
                                \/ WriteConfirmation(question, e)
                                \/ WriteNothing(question, e)
    \/ AskAgain
    \/ \E verdict \in Verdicts : RecordAnswer(verdict)
    \/ FinishStage
    \/ FinishCall

NewStage ==
    \E path \in Paths, client \in Clients, day \in Days : StartStage(path, client, day)

StageNext == StageStep \/ NewStage \/ OtherCall \/ Die

StageSpec == StageInit /\ [][StageNext]_aiVars

(* A stage is sequential code: it goes on unless its process dies. *)
FairStageSpec == StageSpec /\ WF_aiVars(StageStep)

-----------------------------------------------------------------------------
StageTypeOK ==
    /\ StoreTypeOK
    /\ asking \in Asking \union {NoQuestion}
    /\ stage \in Stage \union {NoStage}

(* Nothing a stage does is refused by the store, although it writes by the *)
(* statuses it read before it waited on the model: a mark is a legal move  *)
(* of the row as it is now, and a row it confirms is still residual ("the  *)
(* process does not crash", SDD 4.8).                                      *)
StageNeverRaises ==
    stage # NoStage =>
        /\ Idle => \A e \in stage.todo :
              Mark(e) # Absent => IsLegal(StatusOf(e), Mark(e))
        /\ confirming # NoCall => StatusOf(confirming.exception) \in ResidualStates

(* While a stage runs, a row moves only if the model was asked about it,   *)
(* and is confirmed only on a verified hypothesis about it: an outage      *)
(* confirms nothing, and no row the rules resolved is touched.             *)
OnlyVerifiedConfirms ==
    [][stage # NoStage =>
        \A e \in Exceptions :
            StatusOf(e)' # StatusOf(e) =>
                /\ stage.answer[e] # NotAsked
                /\ StatusOf(e)' = "CONFIRMED" => stage.answer[e] \in Nominees]_aiVars

(* When a stage returns, the store agrees with its report: every row it    *)
(* lists as unavailable waits for the model, every row it lists as         *)
(* abstained is open and waits for nothing, and, unless some process died, *)
(* every row it lists as confirmed is.                                     *)
ReportIsTrue ==
    Finishing =>
        \A e \in Exceptions :
            /\ stage.answer[e] = "UNAVAILABLE" => StatusOf(e) = "PENDING_AI_UNAVAILABLE"
            /\ stage.answer[e] = "ABSTAIN" => StatusOf(e) = "OPEN"
            /\ stage.answer[e] \in Nominees =>
                  StatusOf(e) = "CONFIRMED" \/ crashes > 0

(* Some pair's verdict is recorded for one of its rows only. *)
HalfWritten ==
    \E key \in resolutions :
        /\ key.type = "AI_PAIR"
        /\ \E e \in key.evidence.pair : [key EXCEPT !.exception = e] \notin resolutions

(* Unless a process died, the verdict on a pair is on both of its rows     *)
(* once the stage has returned.                                            *)
BothRowsWritten == crashes = 0 /\ stage = NoStage => ~HalfWritten

(* A stage that was started returns, whatever the model does, unless its   *)
(* process dies.                                                           *)
StageEnds == stage # NoStage ~> stage = NoStage

(* run_store_ai_stage: "BOTH ROWS ARE WRITTEN."  After a crash between the *)
(* two, the row left alone has no partner in the residual any more, and    *)
(* every later stage returns without writing it.                           *)
PairsAgree == Finishing /\ stage.path = "PAIRS" => ~HalfWritten

=============================================================================
