--------------------------- MODULE AIStageProofs ---------------------------
(***************************************************************************)
(* Theorems of AIStage, for any groups of duplicates, replies, retries and *)
(* number of crashes.  The stages act on the store through the store's own *)
(* operations only, so what is proved of the store holds here too.         *)
(* StageInv adds what lets a stage write by statuses it read long before:  *)
(* nobody else moves the rows, and the stage itself moves each once.       *)
(***************************************************************************)
EXTENDS AIStage, StoreProofs

(* A question under way is one of the stage's, not answered yet, and the   *)
(* store is idle while the model is waited on.  A call in flight is the    *)
(* confirmation of a row the stage has crossed off, which has a verified   *)
(* hypothesis and is still residual.                                       *)
CallsBelongToStage ==
    /\ asking # NoQuestion =>
          /\ stage # NoStage
          /\ Idle
          /\ asking.question \in ToAsk
          /\ stage.path = "PAIRS" => stage.todo = {}
    /\ stage # NoStage /\ confirming # NoCall =>
          /\ confirming.exception \notin stage.todo
          /\ stage.answer[confirming.exception] \in Nominees
          /\ StatusOf(confirming.exception) \in ResidualStates

(* The questions share no row, and are about sendable rows; all rows of a  *)
(* question have the same answer; what is to be written is answered.       *)
QuestionsAreApart ==
    stage # NoStage =>
        /\ \A q \in stage.posed : q \subseteq Sendable
        /\ \A p, q \in stage.posed : p \intersect q # {} => p = q
        /\ \A q \in stage.posed : \A d, e \in q : stage.answer[d] = stage.answer[e]
        /\ \A e \in Exceptions :
              stage.answer[e] # NotAsked => \E q \in stage.posed : e \in q
        /\ \A e \in stage.todo : stage.answer[e] # NotAsked

(* A sendable row never waits for its evidence. *)
SendableIsUndecided == \A e \in Sendable : StatusOf(e) # "PENDING_EVIDENCE"

(* Whether answered or not, a row that is not yet written has the status   *)
(* that was read of it.                                                    *)
ReadIsCurrent ==
    stage # NoStage =>
        \A q \in stage.posed : \A e \in q :
            stage.answer[e] = NotAsked \/ e \in stage.todo =>
                /\ StatusOf(e) \in {"OPEN", "PENDING_AI_UNAVAILABLE"}
                /\ e \in stage.waiting <=> StatusOf(e) = "PENDING_AI_UNAVAILABLE"
                /\ confirming # NoCall => confirming.exception # e

(* A row that is written has the status its verdict calls for. *)
WrittenIsTrue ==
    stage # NoStage =>
        \A e \in Exceptions \ stage.todo :
            confirming = NoCall \/ confirming.exception # e =>
                /\ stage.answer[e] = "UNAVAILABLE" => StatusOf(e) = "PENDING_AI_UNAVAILABLE"
                /\ stage.answer[e] = "ABSTAIN" => StatusOf(e) = "OPEN"
                /\ stage.answer[e] \in Nominees => StatusOf(e) = "CONFIRMED" \/ crashes > 0

(* Unless a process died, the half of a pair that is not written yet is    *)
(* about to be, with the same verdict.                                     *)
OtherHalfIsDue ==
    crashes = 0 =>
        \A key \in resolutions :
            key.type = "AI_PAIR" =>
                \A e \in key.evidence.pair :
                    \/ [key EXCEPT !.exception = e] \in resolutions
                    \/ /\ stage # NoStage
                       /\ stage.path = "PAIRS"
                       /\ key.evidence.pair \in stage.posed
                       /\ e \in stage.todo
                       /\ stage.answer[e] = key.evidence.nominee

(* A confirmation that is crossed off has its key. *)
WrittenHasKey ==
    stage # NoStage =>
        \A q \in stage.posed : \A e \in q \ stage.todo :
            stage.answer[e] \in Nominees => KeyOf(q, e) \in resolutions

PairKeysNominate ==
    \A key \in resolutions : key.type = "AI_PAIR" => key.evidence \in Nomination

(* However the failures fall, the attempts are counted. *)
CallsAreCounted ==
    asking # NoQuestion => asking.calls =< asking.replies * MaxAttempts + asking.failures

StageInv ==
    /\ StoreInv
    /\ ResolutionsInv
    /\ StageTypeOK
    /\ CallsBelongToStage
    /\ QuestionsAreApart
    /\ SendableIsUndecided
    /\ ReadIsCurrent
    /\ WrittenIsTrue
    /\ WrittenHasKey
    /\ PairKeysNominate
    /\ OtherHalfIsDue
    /\ CallsAreCounted

-----------------------------------------------------------------------------
Asks == \E q \in Questions : AskNext(q)
Records == \E verdict \in Verdicts : RecordAnswer(verdict)
Marks == \E q \in Questions : \E e \in q : WriteMark(q, e)
Confirmations == \E q \in Questions : \E e \in q : WriteConfirmation(q, e)
Skips == \E q \in Questions : \E e \in q : WriteNothing(q, e)

LEMMA StageNextCases ==
    ASSUME [StageNext]_aiVars
    PROVE  \/ Asks \/ AskAgain \/ Records \/ Marks \/ Confirmations \/ Skips
           \/ FinishStage \/ FinishCall \/ NewStage \/ OtherCall \/ Die
           \/ UNCHANGED aiVars
BY DEF StageNext, StageStep, Asks, Records, Marks, Confirmations, Skips

LEMMA StageFacts ==
    ASSUME StageTypeOK, stage # NoStage
    PROVE  /\ stage \in Stage
           /\ stage.path \in Paths /\ stage.client \in Clients /\ stage.day \in Days
           /\ stage.posed \subseteq Questions
           /\ stage.todo \subseteq Exceptions
           /\ stage.answer \in [Exceptions -> Verdicts \union {NotAsked}]
           /\ \A q \in stage.posed : q \subseteq Exceptions
BY QuestionsAssumption DEF StageTypeOK, Stage

LEMMA VerdictFacts ==
    /\ NotAsked \notin Verdicts /\ NotAsked \notin Nominees
    /\ NotAsked # "ABSTAIN" /\ NotAsked # "UNAVAILABLE"
    /\ "ABSTAIN" \notin Nominees /\ "UNAVAILABLE" \notin Nominees
    /\ Nominees \subseteq Verdicts
BY StageAssumption, LoopAssumption DEF Verdicts

(* What an answer changes: the rows of its question, all unanswered till   *)
(* then, have it now and are to be written.                                *)
LEMMA RecordFacts ==
    ASSUME StageInv, NEW verdict \in Verdicts, RecordAnswer(verdict)
    PROVE  /\ stage # NoStage /\ stage' \in Stage /\ stage' # NoStage
           /\ asking.question \in stage.posed /\ asking' = NoQuestion
           /\ stage'.posed = stage.posed /\ stage'.path = stage.path
           /\ stage'.waiting = stage.waiting /\ stage'.day = stage.day
           /\ stage'.todo = stage.todo \union asking.question
           /\ \A e \in Exceptions :
                 stage'.answer[e] = IF e \in asking.question THEN verdict ELSE stage.answer[e]
           /\ \A e \in asking.question : stage.answer[e] = NotAsked
           /\ UNCHANGED storeVars
<1>1. stage # NoStage /\ asking # NoQuestion /\ asking' = NoQuestion /\ UNCHANGED storeVars
  BY DEF RecordAnswer, Resolve
<1>2. asking.question \in stage.posed /\ \A e \in asking.question : stage.answer[e] = NotAsked
  BY <1>1 DEF StageInv, CallsBelongToStage, ToAsk
<1>3. /\ stage \in Stage /\ asking.question \subseteq Exceptions
      /\ stage.answer \in [Exceptions -> Verdicts \union {NotAsked}]
      /\ stage.todo \subseteq Exceptions
  BY <1>1, <1>2, StageFacts DEF StageInv
<1>4. PICK answer \in [Exceptions -> Verdicts \union {NotAsked}] :
         answer = [e \in Exceptions |-> IF e \in asking.question
                                        THEN verdict ELSE stage.answer[e]]
  BY <1>3
<1>5. PICK todo \in SUBSET Exceptions : todo = stage.todo \union asking.question
  BY <1>3
<1>6. stage' = [stage EXCEPT !.answer = answer, !.todo = todo]
  BY <1>4, <1>5 DEF RecordAnswer
<1>7. /\ stage' \in Stage /\ stage'.posed = stage.posed /\ stage'.path = stage.path
      /\ stage'.waiting = stage.waiting /\ stage'.day = stage.day
      /\ stage'.todo = todo /\ stage'.answer = answer
  BY <1>3, <1>6 DEF Stage
<1>8. stage' # NoStage
  BY <1>7, StageAssumption
<1> QED BY <1>1, <1>2, <1>4, <1>5, <1>7, <1>8

(* What crossing off a row changes. *)
LEMMA WriteFacts ==
    ASSUME StageInv, NEW q \in Questions, NEW e \in q, MayWrite(q, e), Done(e)
    PROVE  /\ stage # NoStage /\ stage' \in Stage /\ stage' # NoStage
           /\ asking = NoQuestion /\ asking' = NoQuestion
           /\ q \in stage.posed /\ e \in stage.todo /\ e \in Exceptions /\ e \in Sendable
           /\ stage'.posed = stage.posed /\ stage'.path = stage.path
           /\ stage'.waiting = stage.waiting /\ stage'.day = stage.day
           /\ stage'.todo = stage.todo \ {e}
           /\ stage'.answer = stage.answer
           /\ stage.answer[e] \in Verdicts
<1>1. stage # NoStage /\ q \in stage.posed /\ e \in stage.todo /\ asking = NoQuestion
  BY DEF MayWrite
<1>2. /\ stage \in Stage /\ stage.todo \subseteq Exceptions
      /\ stage.answer \in [Exceptions -> Verdicts \union {NotAsked}]
  BY <1>1, StageFacts DEF StageInv
<1>3. stage' = [stage EXCEPT !.todo = stage.todo \ {e}] /\ asking' = asking
  BY DEF Done
<1>4. /\ stage' \in Stage /\ stage'.posed = stage.posed /\ stage'.path = stage.path
      /\ stage'.waiting = stage.waiting /\ stage'.day = stage.day
      /\ stage'.todo = stage.todo \ {e} /\ stage'.answer = stage.answer
  BY <1>2, <1>3 DEF Stage
<1>5. stage' # NoStage
  BY <1>4, StageAssumption
<1>6. e \in Sendable /\ stage.answer[e] # NotAsked
  BY <1>1 DEF StageInv, QuestionsAreApart
<1> QED BY <1>1, <1>2, <1>3, <1>4, <1>5, <1>6

(* What a stage begins with. *)
LEMMA StartFacts ==
    ASSUME StageInv, NewStage
    PROVE  /\ stage = NoStage /\ Idle /\ asking = NoQuestion
           /\ stage' \in Stage /\ stage' # NoStage /\ asking' = asking
           /\ stage'.todo = {}
           /\ \A e \in Exceptions : stage'.answer[e] = NotAsked
           /\ \A e \in Exceptions :
                 e \in stage'.waiting <=> StatusOf(e) = "PENDING_AI_UNAVAILABLE"
           /\ \A q \in stage'.posed : q \subseteq Residual \intersect Sendable
           /\ \A p, q \in stage'.posed : p \intersect q # {} => p = q
           /\ UNCHANGED storeVars
<1>1. PICK path \in Paths, client \in Clients, day \in Days : StartStage(path, client, day)
  BY DEF NewStage
<1>2. stage = NoStage /\ Idle /\ asking' = asking /\ UNCHANGED storeVars
  BY <1>1 DEF StartStage
<1>3. asking = NoQuestion
  BY <1>2 DEF StageInv, CallsBelongToStage
<1>4. /\ Posed(path) \subseteq Questions
      /\ \A q \in Posed(path) : q \subseteq Residual \intersect Sendable
      /\ \A p, q \in Posed(path) : p \intersect q # {} => p = q
  <2>1. CASE path = "ROWS"
    BY <2>1, QuestionsAssumption DEF Posed, RowQuestions, Residual
  <2>2. CASE path # "ROWS"
    <3>1. Posed(path) = PairQuestions
      BY <2>2 DEF Posed
    <3>2. \A q \in PairQuestions : \E g \in Groups : q = g \intersect Residual /\ q \in Posable
      BY DEF PairQuestions
    <3> QED BY <3>1, <3>2, GroupsAssumption
  <2> QED BY <2>1, <2>2
<1>5. PICK waiting \in SUBSET Exceptions :
         waiting = {e \in Exceptions : StatusOf(e) = "PENDING_AI_UNAVAILABLE"}
  OBVIOUS
<1>6. PICK answer \in [Exceptions -> Verdicts \union {NotAsked}] :
         answer = [e \in Exceptions |-> NotAsked]
  OBVIOUS
<1>7. stage' = [path |-> path, client |-> client, day |-> day, posed |-> Posed(path),
                waiting |-> waiting, answer |-> answer, todo |-> {}]
  BY <1>1, <1>5, <1>6 DEF StartStage
<1>8. stage' \in Stage
  BY <1>4, <1>7 DEF Stage
<1>9. stage' # NoStage
  BY <1>8, StageAssumption
<1>10. \A e \in Exceptions : answer[e] = NotAsked
  BY <1>6
<1> QED BY <1>2, <1>3, <1>4, <1>5, <1>7, <1>8, <1>9, <1>10

(* The stages, and the programs between them, act on the store by the      *)
(* store's own operations.                                                 *)
LEMMA StageStepStore ==
    ASSUME StageInv, [StageNext]_aiVars
    PROVE  [StoreNext]_storeVars
<1>1. CASE Marks
  <2>1. PICK q \in Questions : \E e \in q : WriteMark(q, e)
    BY <1>1 DEF Marks
  <2>2. PICK e \in q : WriteMark(q, e)
    BY <2>1
  <2>3. e \in Exceptions /\ stage.day \in Days
    BY <2>2, QuestionsAssumption, StageFacts DEF WriteMark, MayWrite, StageInv
  <2>4. Mark(e) \in Statuses
    BY <2>2 DEF WriteMark, Mark, Statuses
  <2>5. MarkStatus(e, Mark(e), "AI_VERIFIED", stage.day)
    BY <2>2 DEF WriteMark
  <2> QED BY <2>3, <2>4, <2>5, StageAssumption DEF StoreNext, NewCall
<1>2. CASE Confirmations
  <2>1. PICK q \in Questions : \E e \in q : WriteConfirmation(q, e)
    BY <1>2 DEF Confirmations
  <2>2. PICK e \in q : WriteConfirmation(q, e)
    BY <2>1
  <2>3. e \in Exceptions /\ stage.day \in Days
    BY <2>2, QuestionsAssumption, StageFacts DEF WriteConfirmation, MayWrite, StageInv
  <2>4. stage.answer[e] \in Nominees
    BY <2>2 DEF WriteConfirmation
  <2>5. ResolutionType \in ResolutionTypes
    BY DEF ResolutionType, ResolutionTypes
  <2>6. EvidenceOf(q, e) \in Evidence
    BY <2>4, EvidenceAssumption DEF EvidenceOf, Nomination
  <2>7. InsertResolution(e, ResolutionType, EvidenceOf(q, e), stage.day)
    BY <2>2 DEF WriteConfirmation
  <2> QED BY <2>3, <2>5, <2>6, <2>7 DEF StoreNext, NewCall
<1>3. CASE OtherCall
  <2>1. "DETERMINISTIC_REEVALUATION" \in ResolutionTypes /\ RowEvidence \in Evidence
    BY EvidenceAssumption DEF ResolutionTypes
  <2> QED BY <1>3, <2>1 DEF OtherCall, StoreNext, NewCall
<1>4. CASE FinishCall \/ Die
  BY <1>4 DEF FinishCall, Die, StoreNext
<1>5. CASE Asks \/ AskAgain \/ Records \/ Skips \/ FinishStage \/ NewStage \/ UNCHANGED aiVars
  BY <1>5 DEF Asks, AskNext, AskAgain, Records, RecordAnswer, Skips, WriteNothing,
              FinishStage, NewStage, StartStage, aiVars
<1> QED BY <1>1, <1>2, <1>3, <1>4, <1>5, StageNextCases

LEMMA StageTypeStep == StageInv /\ [StageNext]_aiVars => StoreInv' /\ StageTypeOK'
<1> SUFFICES ASSUME StageInv, [StageNext]_aiVars PROVE StoreInv' /\ StageTypeOK'
  OBVIOUS
<1>1. StoreInv'
  BY StageStepStore, StoreInvStep DEF StageInv
<1>2. StoreTypeOK'
  BY <1>1 DEF StoreInv, TypeInv
<1>3. asking' \in Asking \union {NoQuestion}
  <2>0. asking \in Asking \union {NoQuestion}
    BY DEF StageInv, StageTypeOK
  <2>1. CASE Asks
    <3>1. PICK q \in Questions : AskNext(q)
      BY <2>1 DEF Asks
    <3>2. stage.client \in Clients
      BY <3>1, StageFacts DEF AskNext, StageInv
    <3> QED BY <3>1, <3>2, LoopAssumption DEF AskNext, Ask, Asking
  <2>2. CASE AskAgain
    <3>1. asking \in Asking
      BY <2>0, <2>2 DEF AskAgain, CallFails, BadReply
    <3>2. PICK calls \in Nat : calls = asking.calls + 1
      BY <3>1 DEF Asking
    <3>3. CASE CallFails
      <4>1. PICK failures \in 0..(MaxAttempts - 1) : failures = asking.failures + 1
        BY <3>1, <3>3, LoopAssumption DEF CallFails, Asking
      <4>2. asking' = [asking EXCEPT !.failures = failures, !.calls = calls]
        BY <3>2, <3>3, <4>1 DEF CallFails
      <4> QED BY <3>1, <4>2 DEF Asking
    <3>4. CASE BadReply
      <4>1. PICK replies \in 0..MaxRetries : replies = asking.replies + 1
        BY <3>1, <3>4, LoopAssumption DEF BadReply, Asking
      <4>2. asking' = [asking EXCEPT !.replies = replies, !.failures = 0, !.calls = calls]
        BY <3>2, <3>4, <4>1 DEF BadReply
      <4>3. 0 \in 0..(MaxAttempts - 1)
        BY LoopAssumption
      <4> QED BY <3>1, <4>2, <4>3 DEF Asking
    <3> QED BY <2>2, <3>3, <3>4 DEF AskAgain
  <2>3. CASE Records \/ Marks \/ Confirmations \/ Skips \/ FinishStage \/ FinishCall
             \/ NewStage \/ OtherCall \/ Die \/ UNCHANGED aiVars
    BY <2>0, <2>3 DEF Records, RecordAnswer, Resolve, Marks, WriteMark, Confirmations,
                      WriteConfirmation, Skips, WriteNothing, Done, FinishStage, FinishCall,
                      NewStage, StartStage, OtherCall, Die, aiVars, stageVars
  <2> QED BY <2>1, <2>2, <2>3, StageNextCases
<1>4. stage' \in Stage \union {NoStage}
  <2>0. stage \in Stage \union {NoStage}
    BY DEF StageInv, StageTypeOK
  <2>1. CASE Records
    BY <2>1, RecordFacts DEF Records
  <2>2. CASE Marks \/ Confirmations \/ Skips
    BY <2>2, WriteFacts DEF Marks, WriteMark, Confirmations, WriteConfirmation,
                            Skips, WriteNothing
  <2>3. CASE NewStage
    BY <2>3, StartFacts
  <2>4. CASE Asks \/ AskAgain \/ FinishStage \/ FinishCall \/ OtherCall \/ Die
             \/ UNCHANGED aiVars
    BY <2>0, <2>4 DEF Asks, AskNext, AskAgain, FinishStage, FinishCall, OtherCall, Die,
                      aiVars, stageVars
  <2> QED BY <2>1, <2>2, <2>3, <2>4, StageNextCases
<1> QED BY <1>1, <1>2, <1>3, <1>4 DEF StageTypeOK

-----------------------------------------------------------------------------
(* The statuses.  A transition moves its row and no other. *)
LEMMA TransitionStatus ==
    ASSUME StageInv, NEW x \in Exceptions, NEW e \in Exceptions, NEW to, NEW actor,
           NEW note, NEW day, NEW resolver, Transition(x, to, actor, note, day, resolver)
    PROVE  StatusOf(e)' = IF e = x THEN to ELSE StatusOf(e)
<1>1. table \in [Exceptions -> Row]
  BY DEF StageInv, StageTypeOK, StoreTypeOK
<1>2. table' = [table EXCEPT ![x] = Moved(table[x], to, day, resolver)]
  BY DEF Transition
<1>3. Moved(table[x], to, day, resolver).status = to
  BY <1>1 DEF Moved, Row
<1> QED BY <1>1, <1>2, <1>3 DEF StatusOf

(* What finishing a call does to the statuses: it moves the row being      *)
(* confirmed, or none.                                                     *)
LEMMA CallMoves ==
    ASSUME StageInv, FinishCall, NEW e \in Exceptions
    PROVE  \/ StatusOf(e)' = StatusOf(e)
           \/ /\ confirming # NoCall /\ e = confirming.exception
              /\ StatusOf(e)' = "OPEN" /\ confirming' = confirming
           \/ /\ confirming # NoCall /\ e = confirming.exception
              /\ StatusOf(e)' = "CONFIRMED" /\ confirming' = NoCall
<1>1. confirming # NoCall => confirming.exception \in Exceptions
  BY DEF StageInv, StageTypeOK, StoreTypeOK, Confirmation
<1>2. table \in [Exceptions -> Row]
  BY DEF StageInv, StageTypeOK, StoreTypeOK
<1>3. CASE AppendAudit \/ RefuseConfirm \/ RefuseUnknown
  BY <1>3 DEF AppendAudit, RefuseConfirm, RefuseUnknown, tables, StatusOf
<1>4. CASE WriteConfidence
  BY <1>1, <1>2, <1>4 DEF WriteConfidence, InConfirm, StatusOf, Row
<1>5. CASE ReopenPending
  <2>1. /\ confirming # NoCall /\ confirming' = confirming
        /\ Transition(confirming.exception, "OPEN", SourceOf(confirming.type),
                      "OTHER", confirming.day, Absent)
    BY <1>5 DEF ReopenPending, InConfirm
  <2>2. StatusOf(e)' = IF e = confirming.exception THEN "OPEN" ELSE StatusOf(e)
    BY <1>1, <2>1, TransitionStatus
  <2> QED BY <2>1, <2>2
<1>6. CASE Confirm
  <2>1. /\ confirming # NoCall /\ confirming' = NoCall
        /\ Transition(confirming.exception, "CONFIRMED", SourceOf(confirming.type),
                      confirming.type, confirming.day, SourceOf(confirming.type))
    BY <1>6 DEF Confirm, InConfirm
  <2>2. StatusOf(e)' = IF e = confirming.exception THEN "CONFIRMED" ELSE StatusOf(e)
    BY <1>1, <2>1, TransitionStatus
  <2> QED BY <2>1, <2>2
<1> QED BY <1>3, <1>4, <1>5, <1>6 DEF FinishCall, CallStep

(* While a stage runs, only its own calls and marks move a row. *)
LEMMA StageMoves ==
    ASSUME StageInv, [StageNext]_aiVars, stage # NoStage, NEW e \in Exceptions,
           StatusOf(e)' # StatusOf(e)
    PROVE  \/ /\ FinishCall /\ confirming # NoCall /\ e = confirming.exception
              /\ \/ StatusOf(e)' = "OPEN" /\ confirming' = confirming
                 \/ StatusOf(e)' = "CONFIRMED" /\ confirming' = NoCall
           \/ \E q \in Questions : e \in q /\ WriteMark(q, e) /\ StatusOf(e)' = Mark(e)
<1>1. table' # table
  BY DEF StatusOf
<1>2. ~Asks /\ ~AskAgain /\ ~Records /\ ~Skips /\ ~FinishStage /\ ~NewStage /\ ~OtherCall
      /\ ~(UNCHANGED aiVars)
  BY <1>1 DEF Asks, AskNext, AskAgain, Records, RecordAnswer, Skips, WriteNothing,
              FinishStage, NewStage, StartStage, OtherCall, aiVars, storeVars
<1>3. ~Die /\ ~Confirmations
  BY <1>1 DEF Die, Crash, tables, Confirmations, WriteConfirmation, InsertResolution
<1>4. CASE Marks
  <2>1. PICK q \in Questions : \E x \in q : WriteMark(q, x)
    BY <1>4 DEF Marks
  <2>2. PICK x \in q : WriteMark(q, x)
    BY <2>1
  <2>3. x \in Exceptions
    BY QuestionsAssumption
  <2>4. Transition(x, Mark(x), "AI_VERIFIED", "OTHER", stage.day, Absent)
    BY <2>2 DEF WriteMark, MarkStatus
  <2>5. StatusOf(e)' = IF e = x THEN Mark(x) ELSE StatusOf(e)
    BY <2>3, <2>4, TransitionStatus
  <2> QED BY <2>2, <2>5
<1> QED BY <1>2, <1>3, <1>4, CallMoves, StageNextCases

(* A row not yet written is not the one being confirmed, so nothing moves  *)
(* it but its own mark.                                                    *)
LEMMA UnwrittenStays ==
    ASSUME StageInv, [StageNext]_aiVars, stage # NoStage, ~Marks,
           NEW q \in stage.posed, NEW e \in q,
           stage.answer[e] = NotAsked \/ e \in stage.todo
    PROVE  StatusOf(e)' = StatusOf(e)
<1>1. e \in Exceptions
  BY StageFacts DEF StageInv
<1>2. confirming # NoCall => confirming.exception # e
  BY DEF StageInv, ReadIsCurrent
<1> QED BY <1>1, <1>2, StageMoves DEF Marks

LEMMA CallsBelongToStageStep ==
    StageInv /\ [StageNext]_aiVars => CallsBelongToStage'
<1> SUFFICES ASSUME StageInv, [StageNext]_aiVars PROVE CallsBelongToStage'
  OBVIOUS
<1>0. CallsBelongToStage
  BY DEF StageInv
<1>1. CASE Asks
  BY <1>0, <1>1 DEF Asks, AskNext, Ask, CallsBelongToStage, ToAsk, Idle, StatusOf, storeVars
<1>2. CASE AskAgain
  <2>1. asking \in Asking
    BY <1>2 DEF AskAgain, CallFails, BadReply, StageInv, StageTypeOK
  <2>2. asking'.question = asking.question /\ asking # NoQuestion
    BY <1>2, <2>1 DEF AskAgain, CallFails, BadReply, Asking
  <2> QED BY <1>0, <1>2, <2>2 DEF AskAgain, CallsBelongToStage, ToAsk, Idle, StatusOf, storeVars
<1>3. CASE Records
  <2>1. PICK verdict \in Verdicts : RecordAnswer(verdict)
    BY <1>3 DEF Records
  <2>2. asking' = NoQuestion /\ confirming = NoCall /\ confirming' = confirming
    BY <1>0, <2>1, RecordFacts DEF storeVars, CallsBelongToStage, RecordAnswer, Resolve, Idle
  <2> QED BY <2>2 DEF CallsBelongToStage
<1>4. CASE Marks \/ Skips
  <2>1. asking' = NoQuestion /\ confirming' = NoCall
    BY <1>4, WriteFacts DEF Marks, Skips, WriteMark, WriteNothing, MarkStatus, Idle, storeVars
  <2> QED BY <2>1 DEF CallsBelongToStage
<1>5. CASE Confirmations
  <2>1. PICK q \in Questions : \E e \in q : WriteConfirmation(q, e)
    BY <1>5 DEF Confirmations
  <2>2. PICK e \in q : WriteConfirmation(q, e)
    BY <2>1
  <2>3. /\ asking' = NoQuestion /\ stage'.todo = stage.todo \ {e}
        /\ stage'.answer = stage.answer /\ e \in stage.todo /\ q \in stage.posed
        /\ stage.answer[e] \in Nominees
    BY <2>2, WriteFacts DEF WriteConfirmation
  <2>4. confirming'.exception = e /\ table' = table
    BY <2>2 DEF WriteConfirmation, InsertResolution
  <2>5. StatusOf(e) \in ResidualStates
    BY <2>2, <2>3 DEF WriteConfirmation, MayWrite, StageInv, ReadIsCurrent, ResidualStates,
                      PendingStates
  <2> QED BY <2>3, <2>4, <2>5 DEF CallsBelongToStage, StatusOf
<1>6. CASE FinishStage \/ NewStage
  <2>1. confirming' = NoCall /\ asking' = NoQuestion
    BY <1>6, StartFacts DEF FinishStage, Finishing, Idle, storeVars
  <2> QED BY <2>1 DEF CallsBelongToStage
<1>7. CASE FinishCall
  <2>1. UNCHANGED stageVars
    BY <1>7 DEF FinishCall
  <2>2. asking = NoQuestion
    BY <1>0, <1>7 DEF FinishCall, CallStep, AppendAudit, ReopenPending, WriteConfidence, Confirm,
                      RefuseConfirm, RefuseUnknown, InConfirm, CallsBelongToStage, Idle
  <2>3. ASSUME stage # NoStage, confirming' # NoCall
        PROVE  /\ confirming # NoCall
               /\ confirming'.exception = confirming.exception
               /\ StatusOf(confirming.exception)' \in ResidualStates
    <3>1. confirming # NoCall /\ confirming'.exception = confirming.exception
      <4>1. confirming \in Confirmation \union {NoCall}
        BY DEF StageInv, StageTypeOK, StoreTypeOK
      <4> QED BY <1>7, <2>3, <4>1 DEF FinishCall, CallStep, AppendAudit, ReopenPending,
             WriteConfidence, Confirm, RefuseConfirm, RefuseUnknown, InConfirm,
             Confirmation
    <3>2. confirming.exception \in Exceptions
      BY <3>1 DEF StageInv, StageTypeOK, StoreTypeOK, Confirmation
    <3>3. StatusOf(confirming.exception) \in ResidualStates
      BY <1>0, <2>3, <3>1 DEF CallsBelongToStage
    <3>4. "OPEN" \in ResidualStates
      BY DEF ResidualStates
    <3> QED BY <1>7, <2>3, <3>1, <3>2, <3>3, <3>4, CallMoves
  <2> QED BY <1>0, <2>1, <2>2, <2>3 DEF CallsBelongToStage, stageVars
<1>8. CASE OtherCall \/ Die
  BY <1>0, <1>8 DEF OtherCall, Die, CallsBelongToStage, stageVars
<1>9. CASE UNCHANGED aiVars
  BY <1>0, <1>9 DEF aiVars, stageVars, storeVars, CallsBelongToStage, ToAsk, Idle, StatusOf
<1> QED BY <1>1, <1>2, <1>3, <1>4, <1>5, <1>6, <1>7, <1>8, <1>9, StageNextCases

LEMMA QuestionsAreApartStep ==
    StageInv /\ [StageNext]_aiVars => QuestionsAreApart'
<1> SUFFICES ASSUME StageInv, [StageNext]_aiVars, stage' # NoStage PROVE QuestionsAreApart'
  BY DEF QuestionsAreApart
<1>0. QuestionsAreApart
  BY DEF StageInv
<1>1. CASE Records
  <2>1. PICK verdict \in Verdicts : RecordAnswer(verdict)
    BY <1>1 DEF Records
  <2>2. stage.posed \subseteq Questions /\ \A q \in stage.posed : q \subseteq Exceptions
    BY <2>1, RecordFacts, StageFacts DEF StageInv
  <2>3. stage.todo \subseteq Exceptions /\ asking.question \subseteq Exceptions
    BY <2>1, <2>2, RecordFacts, StageFacts DEF StageInv
  <2>4. \A q \in stage.posed : \A d, e \in q : stage'.answer[d] = stage'.answer[e]
    <3>1. \A q \in stage.posed : q = asking.question \/ q \intersect asking.question = {}
      BY <1>0, <2>1, RecordFacts DEF QuestionsAreApart
    <3> QED BY <1>0, <2>1, <2>2, <3>1, RecordFacts DEF QuestionsAreApart
  <2>5. \A e \in Exceptions : stage'.answer[e] # NotAsked => \E q \in stage.posed : e \in q
    BY <1>0, <2>1, RecordFacts DEF QuestionsAreApart
  <2>6. \A e \in stage'.todo : stage'.answer[e] # NotAsked
    BY <1>0, <2>1, <2>3, RecordFacts, VerdictFacts DEF QuestionsAreApart
  <2> QED BY <1>0, <2>1, <2>4, <2>5, <2>6, RecordFacts DEF QuestionsAreApart
<1>2. CASE Marks \/ Confirmations \/ Skips
  <2>1. /\ stage # NoStage /\ stage'.posed = stage.posed /\ stage'.answer = stage.answer
        /\ stage'.todo \subseteq stage.todo
    BY <1>2, WriteFacts DEF Marks, Confirmations, Skips, WriteMark, WriteConfirmation, WriteNothing
  <2> QED BY <1>0, <2>1 DEF QuestionsAreApart
<1>3. CASE NewStage
  <2>1. \A q \in stage'.posed : \A e \in q : e \in Exceptions
    BY <1>3, StartFacts DEF Residual
  <2> QED BY <1>3, <2>1, StartFacts DEF QuestionsAreApart
<1>4. CASE Asks \/ AskAgain \/ FinishStage \/ FinishCall \/ OtherCall \/ Die \/ UNCHANGED aiVars
  BY <1>0, <1>4 DEF Asks, AskNext, AskAgain, FinishStage, FinishCall, OtherCall, Die,
                    aiVars, stageVars, QuestionsAreApart
<1> QED BY <1>1, <1>2, <1>3, <1>4, StageNextCases

(* Only days open rows as waiting for evidence, and no sendable one; no    *)
(* other move leads there.                                                 *)
LEMMA SendableIsUndecidedStep ==
    StageInv /\ [StageNext]_aiVars => SendableIsUndecided'
<1> SUFFICES ASSUME StageInv, [StageNext]_aiVars, NEW e \in Sendable,
                    StatusOf(e)' = "PENDING_EVIDENCE"
             PROVE  FALSE
  BY DEF SendableIsUndecided
<1>0. e \in Exceptions /\ StatusOf(e) # "PENDING_EVIDENCE" /\ table \in [Exceptions -> Row]
  BY StageAssumption DEF StageInv, SendableIsUndecided, StageTypeOK, StoreTypeOK
<1>1. stage = NoStage
  <2>1. SUFFICES ASSUME stage # NoStage PROVE FALSE
    OBVIOUS
  <2>2. \A q, x : WriteMark(q, x) => Mark(x) # "PENDING_EVIDENCE"
    BY DEF WriteMark, Mark, Absent
  <2> QED BY <1>0, <2>1, <2>2, StageMoves
<1>2. ~FinishCall
  BY <1>0, CallMoves
<1>3. OtherCall
  <2>1. ~Asks /\ ~AskAgain /\ ~Records /\ ~Marks /\ ~Confirmations /\ ~Skips /\ ~FinishStage
    BY <1>1 DEF Asks, AskNext, AskAgain, Records, RecordAnswer, Marks, WriteMark, MayWrite,
                Confirmations, WriteConfirmation, Skips, WriteNothing, FinishStage, Finishing
  <2>2. ~NewStage /\ ~Die /\ ~(UNCHANGED aiVars)
    BY <1>0 DEF NewStage, StartStage, Die, Crash, tables, aiVars, storeVars, StatusOf
  <2> QED BY <1>2, <2>1, <2>2, StageNextCases
<1>4. PICK x \in Exceptions, day \in Days :
         \/ UpsertException(x, "OPEN", day)
         \/ x \notin Sendable /\ UpsertException(x, "PENDING_EVIDENCE", day)
         \/ InsertResolution(x, "DETERMINISTIC_REEVALUATION", RowEvidence, day)
         \/ CloseException(x, day)
  BY <1>3 DEF OtherCall
<1>5. CASE UpsertException(x, "OPEN", day)
  <2>1. table' = [table EXCEPT ![x] = [NoRow EXCEPT !.status = "OPEN", !.firstSeenDay = day]]
    BY <1>5 DEF UpsertException
  <2> QED BY <1>0, <2>1 DEF StatusOf, NoRow
<1>6. CASE x \notin Sendable /\ UpsertException(x, "PENDING_EVIDENCE", day)
  BY <1>0, <1>6 DEF UpsertException, StatusOf
<1>7. CASE InsertResolution(x, "DETERMINISTIC_REEVALUATION", RowEvidence, day)
  BY <1>0, <1>7 DEF InsertResolution, StatusOf
<1>8. CASE CloseException(x, day)
  <2>1. Transition(x, "CLOSED", "EXPORTER", "OTHER", day, Absent)
    BY <1>8 DEF CloseException
  <2>2. StatusOf(e)' = IF e = x THEN "CLOSED" ELSE StatusOf(e)
    BY <1>0, <2>1, TransitionStatus
  <2> QED BY <1>0, <2>2
<1> QED BY <1>4, <1>5, <1>6, <1>7, <1>8

LEMMA ReadIsCurrentStep ==
    StageInv /\ [StageNext]_aiVars => ReadIsCurrent'
<1> SUFFICES ASSUME StageInv, [StageNext]_aiVars, stage' # NoStage,
                    NEW q \in stage'.posed, NEW e \in q,
                    stage'.answer[e] = NotAsked \/ e \in stage'.todo
             PROVE  /\ StatusOf(e)' \in {"OPEN", "PENDING_AI_UNAVAILABLE"}
                    /\ e \in stage'.waiting <=> StatusOf(e)' = "PENDING_AI_UNAVAILABLE"
                    /\ confirming' # NoCall => confirming'.exception # e
  BY DEF ReadIsCurrent
<1>1. CASE NewStage
  <2>1. /\ table' = table /\ confirming' = NoCall /\ e \in Residual /\ e \in Sendable
        /\ e \in stage'.waiting <=> StatusOf(e) = "PENDING_AI_UNAVAILABLE"
    BY <1>1, StartFacts DEF storeVars, Idle, Residual
  <2>2. StatusOf(e) \in {"OPEN", "PENDING_AI_UNAVAILABLE"}
    BY <2>1 DEF Residual, ResidualStates, PendingStates, StageInv, SendableIsUndecided
  <2> QED BY <2>1, <2>2 DEF StatusOf
<1>2. ASSUME stage # NoStage, ~NewStage
      PROVE  /\ q \in stage.posed /\ stage'.waiting = stage.waiting
             /\ stage.answer[e] = NotAsked \/ e \in stage.todo
             /\ Marks => StatusOf(e)' = StatusOf(e)
  <2>1. CASE Records
    BY <2>1, RecordFacts, StageFacts
       DEF Records, Marks, WriteMark, MayWrite, RecordAnswer, Resolve, StageInv
  <2>2. CASE Marks
    <3>1. PICK p \in Questions : \E x \in p : WriteMark(p, x)
      BY <2>2 DEF Marks
    <3>2. PICK x \in p : WriteMark(p, x)
      BY <3>1
    <3>3. /\ x \in Exceptions /\ stage'.posed = stage.posed /\ stage'.waiting = stage.waiting
          /\ stage'.todo = stage.todo \ {x} /\ stage'.answer = stage.answer
          /\ x \in stage.todo
      BY <3>2, WriteFacts DEF WriteMark
    <3>4. e \in Exceptions
      BY <1>2, <3>3, StageFacts DEF StageInv
    <3>5. e # x
      BY <1>2, <3>3 DEF StageInv, QuestionsAreApart
    <3>6. Transition(x, Mark(x), "AI_VERIFIED", "OTHER", stage.day, Absent)
      BY <3>2 DEF WriteMark, MarkStatus
    <3>7. StatusOf(e)' = StatusOf(e)
      BY <3>3, <3>4, <3>5, <3>6, TransitionStatus
    <3> QED BY <3>3, <3>7
  <2>3. CASE Confirmations \/ Skips
    <3>1. /\ stage'.posed = stage.posed /\ stage'.waiting = stage.waiting
          /\ stage'.todo \subseteq stage.todo /\ stage'.answer = stage.answer
      BY <2>3, WriteFacts DEF Confirmations, Skips, WriteConfirmation, WriteNothing
    <3>2. table' = table
      BY <2>3 DEF Confirmations, Skips, WriteConfirmation, WriteNothing, InsertResolution, storeVars
    <3> QED BY <3>1, <3>2 DEF StatusOf
  <2>4. CASE ~Records /\ ~Marks /\ ~Confirmations /\ ~Skips
    <3>1. stage' = stage
      BY <1>2, <2>4, StageNextCases
         DEF Asks, AskNext, AskAgain, FinishStage, FinishCall, OtherCall, Die, aiVars, stageVars
    <3> QED BY <2>4, <3>1
  <2> QED BY <2>1, <2>2, <2>3, <2>4
<1>3. ASSUME stage # NoStage, ~NewStage
      PROVE  /\ StatusOf(e)' = StatusOf(e)
             /\ StatusOf(e) \in {"OPEN", "PENDING_AI_UNAVAILABLE"}
             /\ e \in stage.waiting <=> StatusOf(e) = "PENDING_AI_UNAVAILABLE"
             /\ confirming # NoCall => confirming.exception # e
  BY <1>2, <1>3, UnwrittenStays DEF StageInv, ReadIsCurrent
<1>4. ASSUME stage # NoStage, ~NewStage
      PROVE  confirming' # NoCall => confirming'.exception # e
  <2>1. CASE Confirmations
    <3>1. PICK p \in Questions : \E x \in p : WriteConfirmation(p, x)
      BY <2>1 DEF Confirmations
    <3>2. PICK x \in p : WriteConfirmation(p, x)
      BY <3>1
    <3>3. /\ stage'.todo = stage.todo \ {x} /\ stage'.answer = stage.answer
          /\ x \in stage.todo
      BY <3>2, WriteFacts DEF WriteConfirmation
    <3>4. confirming'.exception = x
      BY <3>2 DEF WriteConfirmation, InsertResolution
    <3> QED BY <1>4, <3>3, <3>4 DEF StageInv, QuestionsAreApart
  <2>2. CASE FinishCall
    <3>1. confirming \in Confirmation \union {NoCall}
      BY DEF StageInv, StageTypeOK, StoreTypeOK
    <3>2. confirming' = NoCall \/ confirming' = confirming
          \/ (confirming # NoCall /\ confirming'.exception = confirming.exception)
      BY <2>2, <3>1 DEF FinishCall, CallStep, AppendAudit, ReopenPending, WriteConfidence,
                        Confirm, RefuseConfirm, RefuseUnknown, InConfirm,
                        Confirmation
    <3> QED BY <1>3, <1>4, <3>2
  <2>3. CASE ~Confirmations /\ ~FinishCall
    <3>1. confirming' = confirming \/ confirming' = NoCall
      BY <1>4, <2>3, StageNextCases
         DEF Asks, AskNext, AskAgain, Records, RecordAnswer, Marks, WriteMark, MarkStatus,
             Skips, WriteNothing, FinishStage, OtherCall, Die, Crash, aiVars, storeVars
    <3> QED BY <1>3, <1>4, <3>1
  <2> QED BY <2>1, <2>2, <2>3
<1>5. stage # NoStage \/ NewStage
  BY StageNextCases DEF Asks, AskNext, AskAgain, Records, RecordAnswer, Marks, WriteMark,
        MayWrite, Confirmations, WriteConfirmation, Skips, WriteNothing, FinishStage,
        FinishCall, OtherCall, Die, aiVars, stageVars
<1> QED BY <1>1, <1>2, <1>3, <1>4, <1>5

(* A stage confirms the rows it has read, and so do the other programs: no *)
(* key is recorded of an exception without a row.                          *)
LEMMA StageResolutionsStep ==
    StageInv /\ [StageNext]_aiVars => ResolutionsInv'
<1> SUFFICES ASSUME StageInv, [StageNext]_aiVars PROVE ResolutionsInv'
  OBVIOUS
<1>1. [StoreNext]_storeVars
  BY StageStepStore
<1>2. ASSUME confirming = NoCall, confirming' # NoCall
      PROVE  StatusOf(confirming'.exception) # Absent
  <2>1. CASE Confirmations
    <3>1. PICK q \in Questions : \E e \in q : WriteConfirmation(q, e)
      BY <2>1 DEF Confirmations
    <3>2. PICK e \in q : WriteConfirmation(q, e)
      BY <3>1
    <3>3. stage # NoStage /\ q \in stage.posed /\ e \in stage.todo
      BY <3>2 DEF WriteConfirmation, MayWrite
    <3>4. StatusOf(e) \in {"OPEN", "PENDING_AI_UNAVAILABLE"}
      BY <3>3 DEF StageInv, ReadIsCurrent
    <3>5. confirming'.exception = e
      BY <3>2 DEF WriteConfirmation, InsertResolution
    <3> QED BY <3>4, <3>5 DEF Absent
  <2>2. CASE OtherCall
    <3>1. PICK e \in Exceptions, day \in Days :
             \/ UpsertException(e, "OPEN", day)
             \/ UpsertException(e, "PENDING_EVIDENCE", day)
             \/ /\ StatusOf(e) # Absent
                /\ InsertResolution(e, "DETERMINISTIC_REEVALUATION", RowEvidence, day)
             \/ CloseException(e, day)
      BY <2>2 DEF OtherCall
    <3>2. /\ StatusOf(e) # Absent
          /\ InsertResolution(e, "DETERMINISTIC_REEVALUATION", RowEvidence, day)
      BY <1>2, <3>1 DEF UpsertException, CloseException
    <3>3. confirming'.exception = e
      BY <3>2 DEF InsertResolution
    <3> QED BY <3>2, <3>3
  <2>3. ~FinishCall
    BY <1>2
       DEF FinishCall, CallStep, AppendAudit, ReopenPending, WriteConfidence, Confirm,
           RefuseConfirm, RefuseUnknown, InConfirm
  <2>4. ~Asks /\ ~AskAgain /\ ~Records /\ ~Marks /\ ~Skips /\ ~FinishStage /\ ~NewStage
        /\ ~Die /\ ~(UNCHANGED aiVars)
    BY <1>2
       DEF Asks, AskNext, AskAgain, Records, RecordAnswer, Marks, WriteMark, MarkStatus,
           Skips, WriteNothing, FinishStage, NewStage, StartStage, Die, Crash, aiVars,
           storeVars
  <2> QED BY <2>1, <2>2, <2>3, <2>4, StageNextCases
<1> QED BY <1>1, <1>2, ResolutionsInvStep DEF StageInv

(* Crossing off a row, or answering, is not a store call; a call begun is  *)
(* a stage's own. *)
LEMMA WrittenIsTrueStep ==
    StageInv /\ [StageNext]_aiVars => WrittenIsTrue'
<1> SUFFICES ASSUME StageInv, [StageNext]_aiVars, stage' # NoStage,
                    NEW e \in Exceptions \ stage'.todo,
                    confirming' = NoCall \/ confirming'.exception # e
             PROVE  /\ stage'.answer[e] = "UNAVAILABLE" => StatusOf(e)' = "PENDING_AI_UNAVAILABLE"
                    /\ stage'.answer[e] = "ABSTAIN" => StatusOf(e)' = "OPEN"
                    /\ stage'.answer[e] \in Nominees => StatusOf(e)' = "CONFIRMED" \/ crashes' > 0
  BY DEF WrittenIsTrue
<1>0. e \in Exceptions /\ crashes \in Nat
  BY DEF StageInv, StageTypeOK, StoreTypeOK
<1>1. ASSUME stage # NoStage, e \notin stage.todo, confirming = NoCall \/ confirming.exception # e
      PROVE  /\ stage.answer[e] = "UNAVAILABLE" => StatusOf(e) = "PENDING_AI_UNAVAILABLE"
             /\ stage.answer[e] = "ABSTAIN" => StatusOf(e) = "OPEN"
             /\ stage.answer[e] \in Nominees => StatusOf(e) = "CONFIRMED" \/ crashes > 0
  BY <1>0, <1>1 DEF StageInv, WrittenIsTrue
<1>2. CASE NewStage
  BY <1>0, <1>2, StartFacts, VerdictFacts
<1>3. CASE Records
  <2>1. PICK verdict \in Verdicts : RecordAnswer(verdict)
    BY <1>3 DEF Records
  <2>2. /\ e \notin asking.question /\ e \notin stage.todo
        /\ stage'.answer[e] = stage.answer[e] /\ stage # NoStage
        /\ confirming' = confirming /\ table' = table /\ crashes' = crashes
    BY <1>0, <2>1, RecordFacts DEF storeVars
  <2> QED BY <1>1, <2>2 DEF StatusOf
<1>4. CASE Marks
  <2>1. PICK q \in Questions : \E x \in q : WriteMark(q, x)
    BY <1>4 DEF Marks
  <2>2. PICK x \in q : WriteMark(q, x)
    BY <2>1
  <2>3. /\ stage # NoStage /\ stage'.todo = stage.todo \ {x} /\ stage'.answer = stage.answer
        /\ x \in Exceptions /\ confirming = NoCall /\ crashes' = crashes
    BY <2>2, WriteFacts DEF WriteMark, MarkStatus, Idle
  <2>4. Transition(x, Mark(x), "AI_VERIFIED", "OTHER", stage.day, Absent) /\ Mark(x) # Absent
    BY <2>2 DEF WriteMark, MarkStatus
  <2>5. StatusOf(e)' = IF e = x THEN Mark(x) ELSE StatusOf(e)
    BY <1>0, <2>3, <2>4, TransitionStatus
  <2>6. CASE e = x
    BY <2>3, <2>4, <2>5, <2>6, VerdictFacts DEF Mark
  <2>7. CASE e # x
    BY <1>1, <2>3, <2>5, <2>7
  <2> QED BY <2>6, <2>7
<1>5. CASE Confirmations
  <2>1. PICK q \in Questions : \E x \in q : WriteConfirmation(q, x)
    BY <1>5 DEF Confirmations
  <2>2. PICK x \in q : WriteConfirmation(q, x)
    BY <2>1
  <2>3. /\ stage # NoStage /\ stage'.todo = stage.todo \ {x} /\ stage'.answer = stage.answer
        /\ table' = table /\ confirming = NoCall /\ crashes' = crashes
    BY <2>2, WriteFacts DEF WriteConfirmation, InsertResolution, Idle
  <2>4. confirming'.exception = x /\ confirming' # NoCall
    <3>1. confirming' \in Confirmation \union {NoCall}
      BY StageTypeStep DEF StageTypeOK, StoreTypeOK
    <3>2. confirming' \in Confirmation
      <4>1. x \in Exceptions /\ stage.day \in Days
        BY <2>2, <2>3, WriteFacts, StageFacts DEF WriteConfirmation, StageInv
      <4> QED BY <2>2, <4>1 DEF WriteConfirmation, InsertResolution, Confirmation, IsScored,
                                ResolutionType, ResolutionTypes
    <3> QED BY <2>2, <3>2, NoCallAssumption DEF WriteConfirmation, InsertResolution
  <2> QED BY <1>1, <2>3, <2>4 DEF StatusOf
<1>6. CASE Skips
  <2>1. PICK q \in Questions : \E x \in q : WriteNothing(q, x)
    BY <1>6 DEF Skips
  <2>2. PICK x \in q : WriteNothing(q, x)
    BY <2>1
  <2>3. /\ stage # NoStage /\ stage'.todo = stage.todo \ {x} /\ stage'.answer = stage.answer
        /\ table' = table /\ crashes' = crashes /\ confirming = NoCall
        /\ x \in Exceptions /\ x \in stage.todo /\ q \in stage.posed
    BY <2>2, WriteFacts DEF WriteNothing, storeVars, Idle
  <2>4. CASE e = x
    <3>1. /\ StatusOf(e) \in {"OPEN", "PENDING_AI_UNAVAILABLE"}
          /\ e \in stage.waiting <=> StatusOf(e) = "PENDING_AI_UNAVAILABLE"
      BY <2>2, <2>3, <2>4 DEF StageInv, ReadIsCurrent
    <3>2. Mark(e) = Absent
      BY <2>2, <2>4 DEF WriteNothing
    <3>3. /\ stage.answer[e] = "UNAVAILABLE" => StatusOf(e) = "PENDING_AI_UNAVAILABLE"
          /\ stage.answer[e] = "ABSTAIN" => StatusOf(e) = "OPEN"
      BY <3>1, <3>2 DEF Mark, Absent
    <3>4. ASSUME stage.answer[e] \in Nominees, ~(crashes > 0) PROVE FALSE
      <4>1. KeyOf(q, e) \in resolutions /\ KeyOf(q, e).exception = e
        BY <2>2, <2>4, <3>4 DEF WriteNothing, KeyOf
      <4>2. crashes = 0
        BY <1>0, <3>4
      <4>3. StatusOf(e) \in ResolvedStates
        BY <2>3, <4>1, <4>2 DEF StageInv, ResolutionsInv, ResolutionResolves
      <4> QED BY <3>1, <4>3 DEF ResolvedStates
    <3> QED BY <2>3, <3>3, <3>4 DEF StatusOf
  <2>5. CASE e # x
    BY <1>1, <2>3, <2>5 DEF StatusOf
  <2> QED BY <2>4, <2>5
<1>7. CASE FinishCall
  <2>1. stage' = stage /\ stage # NoStage
    BY <1>7 DEF FinishCall, stageVars
  <2>2. crashes' = crashes
    BY <1>7 DEF FinishCall, CallStep, AppendAudit, ReopenPending, WriteConfidence, Confirm,
                RefuseConfirm, RefuseUnknown
  <2>3. CASE confirming # NoCall /\ confirming.exception = e
    <3>1. /\ confirming \in Confirmation
          /\ stage.answer[e] \in Nominees
          /\ StatusOf(e) \in ResidualStates
      BY <2>1, <2>3 DEF StageInv, StageTypeOK, StoreTypeOK, CallsBelongToStage
    <3>2. Confirm \/ RefuseConfirm \/ RefuseUnknown
      <4>1. ~(AppendAudit \/ ReopenPending)
        BY <2>3 DEF AppendAudit, ReopenPending
      <4>2. ASSUME WriteConfidence PROVE FALSE
        <5>1. confirming' = [confirming EXCEPT !.score = FALSE]
          BY <4>2 DEF WriteConfidence
        <5>2. confirming' \in Confirmation /\ confirming'.exception = e
          BY <2>3, <3>1, <5>1 DEF Confirmation
        <5> QED BY <5>2, NoCallAssumption
      <4> QED BY <1>7, <4>1, <4>2 DEF FinishCall, CallStep
    <3>3. ~RefuseConfirm /\ ~RefuseUnknown
      BY <2>3, <3>1 DEF RefuseConfirm, RefuseUnknown, InConfirm, IsLegal, LegalTransitions,
                        ResidualStates, PendingStates, Statuses, Absent
    <3>4. Transition(e, "CONFIRMED", SourceOf(confirming.type),
                     confirming.type, confirming.day, SourceOf(confirming.type))
      BY <2>3, <3>2, <3>3 DEF Confirm
    <3>5. StatusOf(e)' = "CONFIRMED"
      BY <1>0, <3>4, TransitionStatus
    <3> QED BY <2>1, <3>1, <3>5, VerdictFacts
  <2>4. CASE ~(confirming # NoCall /\ confirming.exception = e)
    BY <1>0, <1>1, <1>7, <2>1, <2>2, <2>4, CallMoves
  <2> QED BY <2>3, <2>4
<1>8. CASE Asks \/ AskAgain \/ UNCHANGED aiVars
  BY <1>1, <1>8 DEF Asks, AskNext, AskAgain, aiVars, stageVars, storeVars, StatusOf
<1>9. ~FinishStage /\ ~Die /\ ~OtherCall
  BY DEF FinishStage, Die, OtherCall, stageVars
<1> QED BY <1>2, <1>3, <1>4, <1>5, <1>6, <1>7, <1>8, <1>9, StageNextCases

(* The store's own steps, and the other programs, leave the resolutions or *)
(* add a deterministic one.                                                *)
LEMMA ResolutionsGrow ==
    ASSUME StageInv, [StageNext]_aiVars
    PROVE  /\ resolutions \subseteq resolutions'
           /\ \/ resolutions' = resolutions
              \/ OtherCall /\ \A key \in resolutions' \ resolutions : key.type # "AI_PAIR"
              \/ \E q \in Questions : \E e \in q :
                    /\ WriteConfirmation(q, e)
                    /\ resolutions' = resolutions \union {KeyOf(q, e)}
<1>1. CASE Confirmations
  BY <1>1 DEF Confirmations, WriteConfirmation, InsertResolution, KeyOf
<1>2. CASE OtherCall
  <2>1. PICK e \in Exceptions, day \in Days :
           \/ UpsertException(e, "OPEN", day)
           \/ UpsertException(e, "PENDING_EVIDENCE", day)
           \/ InsertResolution(e, "DETERMINISTIC_REEVALUATION", RowEvidence, day)
           \/ CloseException(e, day)
    BY <1>2 DEF OtherCall
  <2>2. CASE InsertResolution(e, "DETERMINISTIC_REEVALUATION", RowEvidence, day)
    BY <1>2, <2>2 DEF InsertResolution
  <2>3. CASE ~InsertResolution(e, "DETERMINISTIC_REEVALUATION", RowEvidence, day)
    BY <2>1, <2>3 DEF UpsertException, CloseException
  <2> QED BY <2>2, <2>3
<1>3. CASE ~Confirmations /\ ~OtherCall
  BY <1>3, StageNextCases
     DEF Asks, AskNext, AskAgain, Records, RecordAnswer, Marks, WriteMark, MarkStatus,
         Skips, WriteNothing, FinishStage, NewStage, StartStage, FinishCall, CallStep,
         AppendAudit, ReopenPending, WriteConfidence, Confirm, RefuseConfirm, RefuseUnknown,
         Die, Crash, tables, aiVars, storeVars
<1> QED BY <1>1, <1>2, <1>3

LEMMA PairKeysNominateStep ==
    StageInv /\ [StageNext]_aiVars => PairKeysNominate'
<1> SUFFICES ASSUME StageInv, [StageNext]_aiVars, NEW key \in resolutions',
                    key.type = "AI_PAIR", key \notin resolutions
             PROVE  key.evidence \in Nomination
  BY DEF PairKeysNominate, StageInv
<1>1. PICK q \in Questions : \E e \in q : WriteConfirmation(q, e) /\ key = KeyOf(q, e)
  BY ResolutionsGrow
<1>2. PICK e \in q : WriteConfirmation(q, e) /\ key = KeyOf(q, e)
  BY <1>1
<1> QED BY <1>2 DEF KeyOf, EvidenceOf, ResolutionType, WriteConfirmation, Nomination

LEMMA WrittenHasKeyStep ==
    StageInv /\ [StageNext]_aiVars => WrittenHasKey'
<1> SUFFICES ASSUME StageInv, [StageNext]_aiVars, stage' # NoStage,
                    NEW q \in stage'.posed, NEW e \in q \ stage'.todo,
                    stage'.answer[e] \in Nominees
             PROVE  KeyOf(q, e)' \in resolutions'
  BY DEF WrittenHasKey
<1>1. ASSUME stage # NoStage, q \in stage.posed, e \notin stage.todo,
             stage.answer[e] = stage'.answer[e], stage.path = stage'.path
      PROVE  KeyOf(q, e)' \in resolutions'
  <2>1. KeyOf(q, e) \in resolutions
    BY <1>1 DEF StageInv, WrittenHasKey
  <2>2. KeyOf(q, e)' = KeyOf(q, e)
    BY <1>1 DEF KeyOf, EvidenceOf, ResolutionType
  <2> QED BY <2>1, <2>2, ResolutionsGrow
<1>2. CASE NewStage
  BY <1>2, StartFacts, VerdictFacts DEF Residual
<1>3. CASE Records
  <2>1. PICK verdict \in Verdicts : RecordAnswer(verdict)
    BY <1>3 DEF Records
  <2>2. /\ stage # NoStage /\ q \in stage.posed /\ e \notin stage.todo
        /\ e \notin asking.question /\ stage'.path = stage.path
    BY <2>1, RecordFacts
  <2>3. e \in Exceptions
    BY <2>2, StageFacts DEF StageInv
  <2> QED BY <1>1, <2>1, <2>2, <2>3, RecordFacts
<1>4. CASE Marks \/ Confirmations \/ Skips
  <2>1. PICK p \in Questions : \E x \in p : WriteMark(p, x) \/ WriteConfirmation(p, x)
                                             \/ WriteNothing(p, x)
    BY <1>4 DEF Marks, Confirmations, Skips
  <2>2. PICK x \in p : WriteMark(p, x) \/ WriteConfirmation(p, x) \/ WriteNothing(p, x)
    BY <2>1
  <2>3. /\ stage # NoStage /\ stage'.posed = stage.posed /\ stage'.path = stage.path
        /\ stage'.answer = stage.answer /\ stage'.todo = stage.todo \ {x}
        /\ p \in stage.posed /\ x \in stage.todo /\ x \in Exceptions
    BY <2>2, WriteFacts DEF WriteMark, WriteConfirmation, WriteNothing
  <2>4. CASE e # x
    BY <1>1, <2>3, <2>4
  <2>5. CASE e = x
    <3>1. p = q
      BY <2>3, <2>5 DEF StageInv, QuestionsAreApart
    <3>2. KeyOf(q, e)' = KeyOf(q, e)
      BY <2>3 DEF KeyOf, EvidenceOf, ResolutionType
    <3>3. ~WriteMark(p, x)
      BY <2>3, <2>5, VerdictFacts DEF WriteMark, Mark
    <3>4. KeyOf(q, e) \in resolutions'
      BY <2>2, <2>3, <2>5, <3>1, <3>3
         DEF WriteConfirmation, InsertResolution, WriteNothing, KeyOf, storeVars
    <3> QED BY <3>2, <3>4
  <2> QED BY <2>4, <2>5
<1>5. CASE Asks \/ AskAgain \/ FinishCall \/ UNCHANGED aiVars
  BY <1>1, <1>5 DEF Asks, AskNext, AskAgain, FinishCall, aiVars, stageVars
<1>6. ~FinishStage /\ ~Die /\ ~OtherCall
  BY DEF FinishStage, Die, OtherCall, stageVars
<1> QED BY <1>2, <1>3, <1>4, <1>5, <1>6, StageNextCases


(* A resolution of a pair, told by what it is keyed on. *)
LEMMA PairKeyFacts ==
    ASSUME StageInv, stage # NoStage, stage.path = "PAIRS",
           NEW key \in resolutions, key.type = "AI_PAIR",
           NEW q, NEW e, key.evidence.pair = q, key.evidence.nominee = stage.answer[e]
    PROVE  /\ [key EXCEPT !.exception = e] = KeyOf(q, e)
           /\ stage.answer[e] \in Nominees
<1>1. key \in Key
  BY DEF StageInv, StageTypeOK, StoreTypeOK
<1>2. key.evidence \in Nomination
  BY DEF StageInv, PairKeysNominate
<1>3. key.evidence = [pair |-> q, nominee |-> stage.answer[e]]
  BY <1>2 DEF Nomination
<1>4. [key EXCEPT !.exception = e]
         = [exception |-> e, type |-> key.type, evidence |-> key.evidence]
  BY <1>1 DEF Key
<1> QED BY <1>2, <1>3, <1>4 DEF KeyOf, EvidenceOf, ResolutionType, Nomination

(* The half that is due stays due until it is written. *)
LEMMA DueStaysDue ==
    ASSUME StageInv, [StageNext]_aiVars, ~Die, stage # NoStage, stage.path = "PAIRS",
           NEW q \in stage.posed, NEW e \in q, e \in stage.todo, stage.answer[e] \in Nominees
    PROVE  \/ KeyOf(q, e) \in resolutions'
           \/ /\ stage' # NoStage /\ stage'.path = "PAIRS" /\ q \in stage'.posed
              /\ e \in stage'.todo /\ stage'.answer[e] = stage.answer[e]
<1>0. e \in Exceptions /\ stage.answer[e] # NotAsked
  BY StageFacts, VerdictFacts DEF StageInv
<1>1. CASE Records
  <2>1. PICK verdict \in Verdicts : RecordAnswer(verdict)
    BY <1>1 DEF Records
  <2>2. e \notin asking.question
    BY <1>0, <2>1, RecordFacts
  <2> QED BY <1>0, <2>1, <2>2, RecordFacts
<1>2. CASE Marks \/ Confirmations \/ Skips
  <2>1. PICK p \in Questions : \E x \in p : WriteMark(p, x) \/ WriteConfirmation(p, x)
                                             \/ WriteNothing(p, x)
    BY <1>2 DEF Marks, Confirmations, Skips
  <2>2. PICK x \in p : WriteMark(p, x) \/ WriteConfirmation(p, x) \/ WriteNothing(p, x)
    BY <2>1
  <2>3. /\ stage' # NoStage /\ stage'.posed = stage.posed /\ stage'.path = stage.path
        /\ stage'.answer = stage.answer /\ stage'.todo = stage.todo \ {x}
        /\ p \in stage.posed
    BY <2>2, WriteFacts DEF WriteMark, WriteConfirmation, WriteNothing
  <2>4. CASE e # x
    BY <2>3, <2>4
  <2>5. CASE e = x
    <3>1. p = q
      BY <2>3, <2>5 DEF StageInv, QuestionsAreApart
    <3>2. ~WriteMark(p, x)
      BY <2>5, VerdictFacts DEF WriteMark, Mark
    <3> QED BY <2>2, <2>5, <3>1, <3>2
            DEF WriteConfirmation, InsertResolution, WriteNothing, KeyOf, storeVars
  <2> QED BY <2>4, <2>5
<1>3. CASE Asks \/ AskAgain \/ FinishCall \/ UNCHANGED aiVars
  BY <1>3 DEF Asks, AskNext, AskAgain, FinishCall, aiVars, stageVars
<1>4. ~FinishStage /\ ~NewStage /\ ~OtherCall
  BY DEF FinishStage, Finishing, NewStage, StartStage, OtherCall
<1> QED BY <1>1, <1>2, <1>3, <1>4, StageNextCases

LEMMA OtherHalfIsDueStep ==
    StageInv /\ [StageNext]_aiVars => OtherHalfIsDue'
<1> SUFFICES ASSUME StageInv, [StageNext]_aiVars, crashes' = 0,
                    NEW key \in resolutions', key.type = "AI_PAIR",
                    NEW e \in key.evidence.pair,
                    [key EXCEPT !.exception = e] \notin resolutions'
             PROVE  /\ stage' # NoStage
                    /\ stage'.path = "PAIRS"
                    /\ key.evidence.pair \in stage'.posed
                    /\ e \in stage'.todo
                    /\ stage'.answer[e] = key.evidence.nominee
  BY DEF OtherHalfIsDue
<1>0. crashes \in Nat
  BY DEF StageInv, StageTypeOK, StoreTypeOK
<1>1. ~Die
  BY <1>0 DEF Die, Crash
<1>2. crashes = 0
  BY <1>1, StageNextCases
     DEF Asks, AskNext, AskAgain, Records, RecordAnswer, Marks, WriteMark, MarkStatus,
         Confirmations, WriteConfirmation, InsertResolution, Skips, WriteNothing,
         FinishStage, NewStage, StartStage, FinishCall, CallStep, AppendAudit, ReopenPending,
         WriteConfidence, Confirm, RefuseConfirm, RefuseUnknown, OtherCall, UpsertException,
         CloseException, aiVars, storeVars
<1>3. CASE key \in resolutions
  <2>1. [key EXCEPT !.exception = e] \notin resolutions
    BY ResolutionsGrow
  <2>2. /\ stage # NoStage /\ stage.path = "PAIRS" /\ key.evidence.pair \in stage.posed
        /\ e \in stage.todo /\ stage.answer[e] = key.evidence.nominee
    BY <1>2, <1>3, <2>1 DEF StageInv, OtherHalfIsDue
  <2>3. /\ [key EXCEPT !.exception = e] = KeyOf(key.evidence.pair, e)
        /\ stage.answer[e] \in Nominees
    BY <1>3, <2>2, PairKeyFacts
  <2> QED BY <1>1, <2>2, <2>3, DueStaysDue
<1>4. CASE key \notin resolutions
  <2>1. PICK q \in Questions : \E x \in q :
           /\ WriteConfirmation(q, x)
           /\ resolutions' = resolutions \union {KeyOf(q, x)}
    BY <1>4, ResolutionsGrow
  <2>2. PICK x \in q : /\ WriteConfirmation(q, x)
                       /\ resolutions' = resolutions \union {KeyOf(q, x)}
    BY <2>1
  <2>3. key = KeyOf(q, x)
    BY <1>4, <2>2
  <2>4. /\ stage # NoStage /\ stage' # NoStage
        /\ stage'.path = stage.path /\ stage'.posed = stage.posed
        /\ stage'.answer = stage.answer /\ stage'.todo = stage.todo \ {x}
        /\ q \in stage.posed /\ stage.answer[x] \in Nominees
    BY <2>2, WriteFacts DEF WriteConfirmation
  <2>5. /\ stage.path = "PAIRS" /\ key.evidence = [pair |-> q, nominee |-> stage.answer[x]]
        /\ \A d \in q : [key EXCEPT !.exception = d]
                           = [exception |-> d, type |-> "AI_PAIR", evidence |-> key.evidence]
    <3>1. stage.path \in Paths
      BY <2>4, StageFacts DEF StageInv
    <3>2. stage.path = "PAIRS"
      BY <2>3, <3>1 DEF KeyOf, ResolutionType, Paths
    <3>3. key = [exception |-> x, type |-> "AI_PAIR",
                 evidence |-> [pair |-> q, nominee |-> stage.answer[x]]]
      BY <2>3, <3>2 DEF KeyOf, ResolutionType, EvidenceOf
    <3> QED BY <3>2, <3>3
  <2>6. e \in q /\ stage.answer[e] = stage.answer[x]
    BY <2>2, <2>4, <2>5 DEF StageInv, QuestionsAreApart
  <2>7. [key EXCEPT !.exception = e] = KeyOf(q, e)
    BY <2>5, <2>6 DEF KeyOf, ResolutionType, EvidenceOf
  <2>8. e # x
    BY <2>2, <2>7
  <2>9. e \in stage.todo
    BY <2>2, <2>4, <2>6, <2>7 DEF StageInv, WrittenHasKey
  <2> QED BY <2>4, <2>5, <2>6, <2>8, <2>9
<1> QED BY <1>3, <1>4

(* Another attempt is made for a failure or for a bad reply, and a bad     *)
(* reply comes after less than MaxAttempts failures.                       *)
LEMMA CallsAreCountedStep ==
    StageInv /\ [StageNext]_aiVars => CallsAreCounted'
<1> SUFFICES ASSUME StageInv, [StageNext]_aiVars, asking' # NoQuestion
             PROVE  asking'.calls =< asking'.replies * MaxAttempts + asking'.failures
  BY DEF CallsAreCounted
<1>0. MaxAttempts \in Nat \ {0} /\ MaxRetries \in Nat
  BY LoopAssumption
<1>1. ASSUME asking # NoQuestion
      PROVE  /\ asking \in Asking /\ asking.replies \in Nat /\ asking.failures \in Nat
             /\ asking.failures =< MaxAttempts - 1 /\ asking.calls \in Nat
             /\ asking.calls =< asking.replies * MaxAttempts + asking.failures
  BY <1>0, <1>1 DEF StageInv, StageTypeOK, Asking, CallsAreCounted
<1>2. CASE Asks
  BY <1>0, <1>2 DEF Asks, AskNext, Ask
<1>3. CASE AskAgain /\ CallFails
  <2>1. /\ asking # NoQuestion
        /\ asking' = [asking EXCEPT !.failures = asking.failures + 1, !.calls = asking.calls + 1]
    BY <1>3 DEF CallFails
  <2>2. /\ asking'.failures = asking.failures + 1 /\ asking'.calls = asking.calls + 1
        /\ asking'.replies = asking.replies
    BY <1>1, <2>1 DEF Asking
  <2>3. PICK product \in Nat : product = asking.replies * MaxAttempts
    BY <1>0, <1>1, <2>1
  <2> QED BY <1>1, <2>1, <2>2, <2>3
<1>4. CASE AskAgain /\ BadReply
  <2>1. /\ asking # NoQuestion
        /\ asking' = [asking EXCEPT !.replies = asking.replies + 1, !.failures = 0,
                                    !.calls = asking.calls + 1]
    BY <1>4 DEF BadReply
  <2>2. /\ asking'.failures = 0 /\ asking'.calls = asking.calls + 1
        /\ asking'.replies = asking.replies + 1
    BY <1>1, <2>1 DEF Asking
  <2>3. (asking.replies + 1) * MaxAttempts = asking.replies * MaxAttempts + MaxAttempts
    BY <1>0, <1>1, <2>1
  <2>4. PICK product \in Nat : product = asking.replies * MaxAttempts
    BY <1>0, <1>1, <2>1
  <2> QED BY <1>0, <1>1, <2>1, <2>2, <2>3, <2>4
<1>5. CASE Records \/ Marks \/ Confirmations \/ Skips \/ FinishStage \/ FinishCall
           \/ NewStage \/ OtherCall \/ Die \/ UNCHANGED aiVars
  BY <1>1, <1>5 DEF Records, RecordAnswer, Resolve, Marks, WriteMark, Confirmations,
                    WriteConfirmation, Skips, WriteNothing, Done, FinishStage, FinishCall,
                    NewStage, StartStage, OtherCall, Die, aiVars, stageVars
<1>6. AskAgain => CallFails \/ BadReply
  BY DEF AskAgain
<1> QED BY <1>2, <1>3, <1>4, <1>5, <1>6, StageNextCases

LEMMA StageInvInit == StageInit => StageInv
<1> SUFFICES ASSUME StageInit PROVE StageInv
  OBVIOUS
<1>1. StoreInv
  BY StoreInvInit DEF StageInit
<1>2. StageTypeOK
  BY <1>1 DEF StageInit, StageTypeOK, StoreInv, TypeInv
<1>3. resolutions = {} /\ \A e \in Exceptions : StatusOf(e) = Absent
  BY DEF StageInit, StoreInit, StatusOf, NoRow
<1>4. SendableIsUndecided
  BY <1>3, StageAssumption DEF SendableIsUndecided, Absent
<1>5. PairKeysNominate /\ OtherHalfIsDue
  BY <1>3 DEF PairKeysNominate, OtherHalfIsDue
<1>6. /\ CallsBelongToStage /\ QuestionsAreApart /\ ReadIsCurrent
      /\ WrittenIsTrue /\ WrittenHasKey /\ CallsAreCounted
  BY DEF StageInit, CallsBelongToStage, QuestionsAreApart, ReadIsCurrent, WrittenIsTrue,
         WrittenHasKey, CallsAreCounted
<1>7. ResolutionsInv
  BY DEF StageInit, StoreInit, ResolutionsInv, ResolutionResolves
<1> QED BY <1>1, <1>2, <1>4, <1>5, <1>6, <1>7 DEF StageInv

LEMMA StageInvStep == StageInv /\ [StageNext]_aiVars => StageInv'
BY StageTypeStep, StageResolutionsStep, CallsBelongToStageStep, QuestionsAreApartStep,
   SendableIsUndecidedStep, ReadIsCurrentStep, WrittenIsTrueStep, WrittenHasKeyStep, PairKeysNominateStep,
   OtherHalfIsDueStep, CallsAreCountedStep DEF StageInv

-----------------------------------------------------------------------------
(* What links the stage, its question and the store holds in every         *)
(* reachable state, whichever process dies and however often.              *)
THEOREM StageInvariant == StageSpec => []StageInv
BY StageInvInit, StageInvStep, PTL DEF StageSpec

(* Every state of the stages has the declared types. *)
THEOREM StageTypeCorrect == StageSpec => []StageTypeOK
BY StageInvariant, PTL DEF StageInv

(* The stages, and the programs between them, touch the store only as it   *)
(* allows: every theorem of the store holds of them.                       *)
THEOREM StageUsesStore == StageSpec => StoreSpec
<1>1. StageInit => StoreInit
  BY DEF StageInit
<1>2. StageInv /\ [StageNext]_aiVars => [StoreNext]_storeVars
  BY StageStepStore
<1> QED BY <1>1, <1>2, StageInvariant, PTL DEF StageSpec, StoreSpec

(* A recorded resolution, a rule's or a model's, resolves its exception    *)
(* unless a process died: neither the stages nor the programs between them *)
(* record one of an exception without a row.                               *)
THEOREM ResolutionResolvesInStages == StageSpec => []ResolutionResolves
BY StageInvariant, PTL DEF StageInv, ResolutionsInv

(* No write of a stage is refused, although each is judged by the status   *)
(* read before the model was waited on.                                    *)
THEOREM StageNeverRaisesHolds == StageSpec => []StageNeverRaises
<1>1. StageInv => StageNeverRaises
  <2> SUFFICES ASSUME StageInv, stage # NoStage PROVE StageNeverRaises
    BY DEF StageNeverRaises
  <2>1. ASSUME NEW e \in stage.todo, Mark(e) # Absent PROVE IsLegal(StatusOf(e), Mark(e))
    <3>1. e \in Exceptions /\ stage.answer[e] # NotAsked
      BY StageFacts DEF StageInv, QuestionsAreApart
    <3>2. \E q \in stage.posed : e \in q
      BY <3>1 DEF StageInv, QuestionsAreApart
    <3>3. /\ StatusOf(e) \in {"OPEN", "PENDING_AI_UNAVAILABLE"}
          /\ e \in stage.waiting <=> StatusOf(e) = "PENDING_AI_UNAVAILABLE"
      BY <3>2 DEF StageInv, ReadIsCurrent
    <3>4. /\ IsLegal("OPEN", "PENDING_AI_UNAVAILABLE")
          /\ IsLegal("PENDING_AI_UNAVAILABLE", "OPEN")
      BY DEF IsLegal, LegalTransitions, PendingStates, Statuses
    <3>5. /\ StatusOf(e) = "OPEN" => Mark(e) = "PENDING_AI_UNAVAILABLE"
          /\ StatusOf(e) = "PENDING_AI_UNAVAILABLE" => Mark(e) = "OPEN"
      BY <2>1, <3>3 DEF Mark
    <3> QED BY <3>3, <3>4, <3>5
  <2>2. confirming # NoCall => StatusOf(confirming.exception) \in ResidualStates
    BY DEF StageInv, CallsBelongToStage
  <2> QED BY <2>1, <2>2 DEF StageNeverRaises
<1> QED BY <1>1, StageInvariant, PTL

(* A stage moves no row but by a verdict on it, and confirms none but on a *)
(* verified hypothesis.                                                    *)
THEOREM OnlyVerifiedConfirmsHolds == StageSpec => OnlyVerifiedConfirms
<1>1. StageInv /\ [StageNext]_aiVars =>
         (stage # NoStage =>
            \A e \in Exceptions :
               StatusOf(e)' # StatusOf(e) =>
                  /\ stage.answer[e] # NotAsked
                  /\ StatusOf(e)' = "CONFIRMED" => stage.answer[e] \in Nominees)
  <2> SUFFICES ASSUME StageInv, [StageNext]_aiVars, stage # NoStage, NEW e \in Exceptions,
                      StatusOf(e)' # StatusOf(e)
               PROVE  /\ stage.answer[e] # NotAsked
                      /\ StatusOf(e)' = "CONFIRMED" => stage.answer[e] \in Nominees
    OBVIOUS
  <2>1. CASE confirming # NoCall /\ e = confirming.exception
    BY <2>1, VerdictFacts DEF StageInv, CallsBelongToStage
  <2>2. CASE \E q \in Questions : e \in q /\ WriteMark(q, e) /\ StatusOf(e)' = Mark(e)
    BY <2>2, VerdictFacts DEF WriteMark, Mark, Absent
  <2> QED BY <2>1, <2>2, StageMoves
<1> QED BY <1>1, StageInvariant, PTL DEF StageSpec, OnlyVerifiedConfirms

(* The report a stage returns is what the store holds.                     *)
THEOREM ReportIsTrueHolds == StageSpec => []ReportIsTrue
<1>1. StageInv => ReportIsTrue
  BY DEF StageInv, ReportIsTrue, Finishing, WrittenIsTrue, Idle
<1> QED BY <1>1, StageInvariant, PTL

(* Unless a process dies, both rows of a pair carry its verdict.           *)
THEOREM BothRowsWrittenHolds == StageSpec => []BothRowsWritten
<1>1. StageInv => BothRowsWritten
  BY DEF StageInv, BothRowsWritten, HalfWritten, OtherHalfIsDue
<1> QED BY <1>1, StageInvariant, PTL

(* No question costs more attempts than the two retry loops multiply to.   *)
THEOREM CallsBoundedHolds == StageSpec => []CallsBounded
<1>1. StageInv => CallsBounded
  <2> SUFFICES ASSUME StageInv, asking # NoQuestion
               PROVE  asking.calls < (MaxRetries + 1) * MaxAttempts
    BY DEF CallsBounded
  <2>1. /\ MaxAttempts \in Nat \ {0} /\ MaxRetries \in Nat
        /\ asking.replies \in Nat /\ asking.replies =< MaxRetries
        /\ asking.failures \in Nat /\ asking.failures =< MaxAttempts - 1
        /\ asking.calls \in Nat
        /\ asking.calls =< asking.replies * MaxAttempts + asking.failures
    BY LoopAssumption DEF StageInv, StageTypeOK, Asking, CallsAreCounted
  <2>2. PICK spare \in Nat : MaxRetries = asking.replies + spare
    <3>1. MaxRetries - asking.replies \in Nat
      BY <2>1
    <3> QED BY <2>1, <3>1
  <2>3. (asking.replies + spare + 1) * MaxAttempts
           = asking.replies * MaxAttempts + spare * MaxAttempts + MaxAttempts
    BY <2>1, <2>2
  <2>4. spare * MaxAttempts \in Nat /\ asking.replies * MaxAttempts \in Nat
    BY <2>1, <2>2
  <2>5. PICK rest \in Nat : rest = spare * MaxAttempts
    BY <2>4
  <2>6. PICK product \in Nat : product = asking.replies * MaxAttempts
    BY <2>4
  <2> QED BY <2>1, <2>2, <2>3, <2>5, <2>6
<1> QED BY <1>1, StageInvariant, PTL
=============================================================================
