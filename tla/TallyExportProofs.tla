------------------------- MODULE TallyExportProofs -------------------------
(***************************************************************************)
(* Theorems of TallyExport, for any finite set of exceptions, any          *)
(* categories and dates, and any number of exports and crashes.  The       *)
(* exporter acts on the store through the store's own operations, so       *)
(* StoreInv holds of it; TallyInv adds what links the documents, the rows  *)
(* and the batch being closed.                                             *)
(***************************************************************************)
EXTENDS TallyExport, StoreProofs, FiniteSetTheorems

(* A document posts exactly the exceptions its key names, so overwriting   *)
(* it under the same key loses none of them.                               *)
KeyNamesLines ==
    \A key \in BatchKey : Written(key) => DOMAIN documents[key].lines = key.ids

(* The document comes first: what is to be closed is in one already. *)
ClosingIsPosted ==
    exporting # NoExport =>
        \E key \in BatchKey : Written(key) /\ exporting.todo \subseteq key.ids

(* While no run leaves its batch open, a posted exception is closed, or is *)
(* about to be by the run that posted it.                                  *)
PostedIsClosing ==
    crashes = 0 /\ ~keptOpen =>
        \A key \in BatchKey :
            Written(key) =>
                \A e \in key.ids : \/ StatusOf(e) = "CLOSED"
                                   \/ exporting # NoExport /\ e \in exporting.todo

TallyInv ==
    /\ StoreInv
    /\ TallyTypeOK
    /\ KeyNamesLines
    /\ ClosingIsPosted
    /\ ClosedIsPosted
    /\ PostedIsResolved
    /\ PostedIsClosing
    /\ PostedOnce

-----------------------------------------------------------------------------
Exports ==
    \E ruling \in Rulings, date \in Dates, close \in BOOLEAN, day \in Days :
        Export(ruling, date, close, day)

LEMMA TallyNextCases ==
    ASSUME [TallyNext]_tallyVars
    PROVE  \/ Exports \/ FinishExport \/ FinishCall \/ OtherCall \/ Die
           \/ \E e \in Exceptions : CloseNext(e)
           \/ UNCHANGED tallyVars
BY DEF TallyNext, ExportStep, Exports

(* The documents change in an export only. *)
LEMMA DocumentsKept ==
    ASSUME [TallyNext]_tallyVars, ~Exports
    PROVE  documents' = documents /\ (keptOpen' = keptOpen)
<1>1. CASE FinishExport \/ FinishCall \/ OtherCall \/ Die \/ UNCHANGED tallyVars
  BY <1>1 DEF FinishExport, FinishCall, OtherCall, Die, tallyVars, exportVars
<1>2. ASSUME NEW e \in Exceptions, CloseNext(e)
      PROVE  documents' = documents /\ (keptOpen' = keptOpen)
  BY <1>2 DEF CloseNext
<1> QED BY <1>1, <1>2, TallyNextCases

(* What an export writes: one document, of the exceptions its key names.   *)
LEMMA BatchFacts ==
    ASSUME TallyTypeOK, NEW ruling \in Rulings, ~RefusesBatch(ruling)
    PROVE  /\ Exportable \subseteq Exceptions /\ Posted(ruling) \subseteq Exportable
           /\ Batch(ruling) \in Document
           /\ Batch(ruling) # NoDocument
           /\ DOMAIN Batch(ruling).lines = Posted(ruling)
<1>1. Exportable \subseteq Exceptions /\ Posted(ruling) \subseteq Exportable
  BY DEF Exportable, Posted
<1>2. \A e \in Posted(ruling) : ruling[e] \in Categories
  <2> SUFFICES ASSUME NEW e \in Posted(ruling) PROVE ruling[e] \in Categories
    OBVIOUS
  <2>1. e \in Exceptions /\ e \in Exportable /\ ruling[e] # Cleared
    BY <1>1 DEF Posted
  <2>2. ruling[e] \in Categories \union {Cleared, Unpostable, Unreported}
    BY <2>1 DEF Rulings
  <2>3. ruling[e] # Unpostable /\ ruling[e] # Unreported
    BY <2>1 DEF RefusesBatch
  <2> QED BY <2>1, <2>2, <2>3
<1>3. [e \in Posted(ruling) |-> ruling[e]] \in [Posted(ruling) -> Categories]
  BY <1>2
<1>4. Cardinality(Exportable \ Posted(ruling)) \in Nat
  <2>1. IsFiniteSet(Exportable \ Posted(ruling))
    BY <1>1, FS_Subset, ExceptionsFinite
  <2> QED BY <2>1, FS_CardinalityType
<1>5. Batch(ruling) \in Document
  BY <1>1, <1>3, <1>4 DEF Batch, Document
<1> QED BY <1>1, <1>5, NoDocumentAssumption DEF Batch

LEMMA ExportFacts ==
    ASSUME TallyInv, NEW ruling \in Rulings, NEW date \in Dates, NEW close \in BOOLEAN,
           NEW day \in Days, Export(ruling, date, close, day)
    PROVE  \E written \in BatchKey :
              /\ written.ids = Posted(ruling)
              /\ \A e \in written.ids : StatusOf(e) = "CONFIRMED" /\ StatusOf(e)' = "CONFIRMED"
              /\ documents'[written] # NoDocument
              /\ DOMAIN documents'[written].lines = written.ids
              /\ \A key \in BatchKey : key # written => documents'[key] = documents[key]
              /\ documents' \in [BatchKey -> Document \union {NoDocument}]
<1>1. /\ Exportable \subseteq Exceptions /\ Posted(ruling) \subseteq Exportable
      /\ Batch(ruling) \in Document /\ Batch(ruling) # NoDocument
      /\ DOMAIN Batch(ruling).lines = Posted(ruling)
  BY BatchFacts DEF Export, TallyInv
<1>2. PICK written \in BatchKey : written = [date |-> date, ids |-> Posted(ruling)]
  BY <1>1 DEF BatchKey
<1>3. documents' = [documents EXCEPT ![written] = Batch(ruling)]
  BY <1>2 DEF Export
<1>4. documents \in [BatchKey -> Document \union {NoDocument}]
  BY DEF TallyInv, TallyTypeOK
<1>5. /\ documents'[written] = Batch(ruling)
      /\ \A key \in BatchKey : key # written => documents'[key] = documents[key]
      /\ documents' \in [BatchKey -> Document \union {NoDocument}]
  BY <1>1, <1>3, <1>4
<1>6. written.ids = Posted(ruling)
  BY <1>2
<1>7. \A e \in written.ids : StatusOf(e) = "CONFIRMED"
  BY <1>1, <1>6 DEF Exportable
<1>8. table' = table
  BY DEF Export, storeVars
<1> QED BY <1>1, <1>5, <1>6, <1>7, <1>8 DEF StatusOf

(* A batch being closed: its rows, and the day to close them on. *)
LEMMA ClosingFacts ==
    ASSUME TallyInv, exporting # NoExport
    PROVE  exporting \in Closing /\ exporting.todo \subseteq Exceptions /\ exporting.day \in Days
BY DEF TallyInv, TallyTypeOK, Closing

(* The exporter, and the programs between its runs, act on the store by    *)
(* the store's own operations.                                             *)
LEMMA TallyStepStore ==
    ASSUME TallyInv, [TallyNext]_tallyVars
    PROVE  [StoreNext]_storeVars
<1>1. ASSUME NEW e \in Exceptions, CloseNext(e) PROVE [StoreNext]_storeVars
  <2>1. exporting.day \in Days /\ CloseException(e, exporting.day)
    BY <1>1, ClosingFacts DEF CloseNext
  <2> QED BY <2>1 DEF StoreNext, NewCall
<1>2. CASE OtherCall
  <2>1. {"OPEN", "PENDING_AI_UNAVAILABLE"} \subseteq Statuses
    BY DEF Statuses
  <2> QED BY <1>2, <2>1, StageCallsStore DEF OtherCall, StoreNext, NewCall
<1>3. CASE FinishCall \/ Die
  BY <1>3 DEF FinishCall, Die, StoreNext
<1>4. CASE Exports \/ FinishExport \/ UNCHANGED tallyVars
  BY <1>4 DEF Exports, Export, FinishExport, tallyVars
<1> QED BY <1>1, <1>2, <1>3, <1>4, TallyNextCases

(* Only close_exported closes, and it closes what it has still to close. *)
LEMMA ClosedByExport ==
    ASSUME TallyInv, [TallyNext]_tallyVars, NEW e \in Exceptions,
           StatusOf(e)' = "CLOSED", StatusOf(e) # "CLOSED"
    PROVE  exporting # NoExport /\ e \in exporting.todo /\ CloseNext(e)
<1>0. table \in [Exceptions -> Row] /\ confirming \in Confirmation \union {NoCall}
  BY DEF TallyInv, TallyTypeOK, StoreTypeOK
<1>1. table' # table
  BY DEF StatusOf
<1>2. ~(Exports \/ FinishExport \/ Die \/ UNCHANGED tallyVars)
  BY <1>1 DEF Exports, Export, FinishExport, Die, Crash, tables, tallyVars, storeVars
<1>3. ASSUME NEW x \in Exceptions, NEW to, NEW actor, NEW note, NEW day, NEW resolver,
             Transition(x, to, actor, note, day, resolver)
      PROVE  x = e /\ to = "CLOSED"
  <2>1. table' = [table EXCEPT ![x] = Moved(table[x], to, day, resolver)]
    BY <1>3 DEF Transition
  <2>2. x = e
    BY <1>0, <2>1 DEF StatusOf
  <2>3. table'[e] = Moved(table[e], to, day, resolver)
    BY <1>0, <2>1, <2>2
  <2>4. table[e] \in Row
    BY <1>0
  <2>5. Moved(table[e], to, day, resolver).status = to
    BY <2>4 DEF Moved, Row
  <2> QED BY <2>2, <2>3, <2>5 DEF StatusOf
<1>4. ~FinishCall
  <2>1. ~AppendAudit /\ ~RefuseConfirm /\ ~RefuseUnknown
    BY <1>1 DEF AppendAudit, RefuseConfirm, RefuseUnknown, tables
  <2>2. ~ReopenPending
    <3> SUFFICES ASSUME ReopenPending PROVE FALSE
      OBVIOUS
    <3>1. confirming.exception \in Exceptions
      BY <1>0 DEF ReopenPending, InConfirm, Confirmation
    <3>2. Transition(confirming.exception, "OPEN", SourceOf(confirming.type),
                     "OTHER", confirming.day, Absent)
      BY DEF ReopenPending
    <3>3. "OPEN" = "CLOSED"
      BY <1>3, <3>1, <3>2
    <3> QED BY <3>3
  <2>3. ~Confirm
    <3> SUFFICES ASSUME Confirm PROVE FALSE
      OBVIOUS
    <3>1. confirming.exception \in Exceptions
      BY <1>0 DEF Confirm, InConfirm, Confirmation
    <3>2. Transition(confirming.exception, "CONFIRMED", SourceOf(confirming.type),
                     confirming.type, confirming.day, SourceOf(confirming.type))
      BY DEF Confirm
    <3>3. "CONFIRMED" = "CLOSED"
      BY <1>3, <3>1, <3>2
    <3> QED BY <3>3
  <2>4. ~WriteConfidence
    <3> SUFFICES ASSUME WriteConfidence PROVE FALSE
      OBVIOUS
    <3>1. confirming.exception \in Exceptions
      BY <1>0 DEF WriteConfidence, InConfirm, Confirmation
    <3>2. table' = [table EXCEPT ![confirming.exception].scored = TRUE]
      BY DEF WriteConfidence
    <3>3. table[e] \in Row
      BY <1>0
    <3>4. table'[e] = table[e] \/ table'[e] = [table[e] EXCEPT !.scored = TRUE]
      BY <1>0, <3>2
    <3> QED BY <3>3, <3>4 DEF StatusOf, Row
  <2> QED BY <2>1, <2>2, <2>3, <2>4 DEF FinishCall, CallStep
<1>5. ~OtherCall
  <2> SUFFICES ASSUME OtherCall PROVE FALSE
    OBVIOUS
  <2>1. ASSUME NEW x \in Exceptions, NEW day \in Days,
               NEW status \in {"OPEN", "PENDING_EVIDENCE"}, UpsertException(x, status, day)
        PROVE  FALSE
    <3>1. table' = [table EXCEPT ![x] = [NoRow EXCEPT !.status = status,
                                                     !.firstSeenDay = day]]
      BY <2>1 DEF UpsertException
    <3>2. [NoRow EXCEPT !.status = status, !.firstSeenDay = day].status = status
      BY DEF NoRow
    <3>3. table'[e] = table[e] \/ table'[e].status = status
      BY <1>0, <3>1, <3>2
    <3> QED BY <3>3 DEF StatusOf
  <2>2. ASSUME NEW x \in Exceptions, NEW day \in Days, NEW type \in ResolutionTypes,
               NEW evidence \in Evidence, InsertResolution(x, type, evidence, day)
        PROVE  FALSE
    BY <1>1, <2>2 DEF InsertResolution
  <2>3. ASSUME NEW x \in Exceptions, NEW day \in Days,
               NEW to \in {"OPEN", "PENDING_AI_UNAVAILABLE"},
               MarkStatus(x, to, "AI_VERIFIED", day)
        PROVE  FALSE
    <3>1. to # "CLOSED" /\ Transition(x, to, "AI_VERIFIED", "OTHER", day, Absent)
      BY <2>3 DEF MarkStatus
    <3> QED BY <1>3, <3>1
  <2> QED BY <2>1, <2>2, <2>3 DEF OtherCall
<1>6. PICK x \in Exceptions : CloseNext(x)
  BY <1>2, <1>4, <1>5, TallyNextCases
<1>7. x \in exporting.todo /\ exporting # NoExport
      /\ Transition(x, "CLOSED", "EXPORTER", "OTHER", exporting.day, Absent)
  BY <1>6 DEF CloseNext, CloseException
<1>8. x = e
  BY <1>3, <1>7
<1> QED BY <1>6, <1>7, <1>8

LEMMA TallyTypeStep == TallyInv /\ [TallyNext]_tallyVars => StoreInv' /\ TallyTypeOK'
<1> SUFFICES ASSUME TallyInv, [TallyNext]_tallyVars PROVE StoreInv' /\ TallyTypeOK'
  OBVIOUS
<1>1. StoreInv'
  BY TallyStepStore, StoreInvStep DEF TallyInv
<1>2. StoreTypeOK'
  BY <1>1 DEF StoreInv, TypeInv
<1>3. documents' \in [BatchKey -> Document \union {NoDocument}]
  <2>1. CASE Exports
    BY <2>1, ExportFacts DEF Exports
  <2> QED BY <2>1, DocumentsKept DEF TallyInv, TallyTypeOK
<1>4. exporting' \in Closing \union {NoExport} /\ (keptOpen' \in BOOLEAN)
  <2>0. exporting \in Closing \union {NoExport} /\ (keptOpen \in BOOLEAN)
    BY DEF TallyInv, TallyTypeOK
  <2>1. ASSUME NEW ruling \in Rulings, NEW date \in Dates, NEW close \in BOOLEAN,
               NEW day \in Days, Export(ruling, date, close, day)
        PROVE  exporting' \in Closing \union {NoExport} /\ (keptOpen' \in BOOLEAN)
    <3>1. Posted(ruling) \subseteq Exceptions
      BY DEF Posted, Exportable
    <3>2. exporting' \in Closing \union {NoExport}
      BY <2>1, <3>1 DEF Export, Closing
    <3>3. keptOpen' \in BOOLEAN
      BY <2>0, <2>1 DEF Export
    <3> QED BY <3>2, <3>3
  <2>2. ASSUME NEW e \in Exceptions, CloseNext(e)
        PROVE  exporting' \in Closing \union {NoExport} /\ (keptOpen' \in BOOLEAN)
    <3>1. exporting \in Closing
      BY <2>2, ClosingFacts DEF CloseNext
    <3>2. exporting' \in Closing
      BY <2>2, <3>1 DEF CloseNext, Closing
    <3> QED BY <2>0, <2>2, <3>2 DEF CloseNext
  <2>3. CASE FinishExport \/ FinishCall \/ OtherCall \/ Die \/ UNCHANGED tallyVars
    BY <2>0, <2>3 DEF FinishExport, FinishCall, OtherCall, Die, tallyVars, exportVars
  <2> QED BY <2>1, <2>2, <2>3, TallyNextCases DEF Exports
<1> QED BY <1>1, <1>2, <1>3, <1>4 DEF TallyTypeOK

LEMMA KeyNamesLinesStep == TallyInv /\ [TallyNext]_tallyVars => KeyNamesLines'
<1> SUFFICES ASSUME TallyInv, [TallyNext]_tallyVars PROVE KeyNamesLines'
  OBVIOUS
<1>0. KeyNamesLines
  BY DEF TallyInv
<1>1. ASSUME NEW ruling \in Rulings, NEW date \in Dates, NEW close \in BOOLEAN,
             NEW day \in Days, Export(ruling, date, close, day)
      PROVE  KeyNamesLines'
  <2>1. PICK written \in BatchKey :
           /\ DOMAIN documents'[written].lines = written.ids
           /\ \A key \in BatchKey : key # written => documents'[key] = documents[key]
    BY <1>1, ExportFacts
  <2> QED BY <1>0, <2>1 DEF KeyNamesLines, Written
<1>2. CASE ~Exports
  BY <1>0, <1>2, DocumentsKept DEF KeyNamesLines, Written
<1> QED BY <1>1, <1>2 DEF Exports

(* A document, once written, stays written. *)
LEMMA WrittenStays ==
    ASSUME TallyInv, [TallyNext]_tallyVars, NEW key \in BatchKey, Written(key)
    PROVE  Written(key)'
<1>1. ASSUME NEW ruling \in Rulings, NEW date \in Dates, NEW close \in BOOLEAN,
             NEW day \in Days, Export(ruling, date, close, day)
      PROVE  Written(key)'
  <2>1. PICK written \in BatchKey :
           /\ documents'[written] # NoDocument
           /\ \A k \in BatchKey : k # written => documents'[k] = documents[k]
    BY <1>1, ExportFacts
  <2> QED BY <2>1 DEF Written
<1>2. CASE ~Exports
  BY <1>2, DocumentsKept DEF Written
<1> QED BY <1>1, <1>2 DEF Exports

LEMMA ClosingIsPostedStep == TallyInv /\ [TallyNext]_tallyVars => ClosingIsPosted'
<1> SUFFICES ASSUME TallyInv, [TallyNext]_tallyVars, exporting' # NoExport
             PROVE  \E key \in BatchKey : Written(key)' /\ exporting'.todo \subseteq key.ids
  BY DEF ClosingIsPosted
<1>1. ASSUME NEW ruling \in Rulings, NEW date \in Dates, NEW close \in BOOLEAN,
             NEW day \in Days, Export(ruling, date, close, day)
      PROVE  \E key \in BatchKey : Written(key)' /\ exporting'.todo \subseteq key.ids
  <2>1. PICK written \in BatchKey :
           documents'[written] # NoDocument /\ written.ids = Posted(ruling)
    BY <1>1, ExportFacts
  <2>2. exporting' = [todo |-> Posted(ruling), day |-> day]
    BY <1>1 DEF Export
  <2> QED BY <2>1, <2>2 DEF Written
<1>2. ASSUME exporting # NoExport, exporting'.todo \subseteq exporting.todo
      PROVE  \E key \in BatchKey : Written(key)' /\ exporting'.todo \subseteq key.ids
  <2>1. PICK key \in BatchKey : Written(key) /\ exporting.todo \subseteq key.ids
    BY <1>2 DEF TallyInv, ClosingIsPosted
  <2> QED BY <1>2, <2>1, WrittenStays
<1>3. ASSUME NEW e \in Exceptions, CloseNext(e)
      PROVE  exporting # NoExport /\ exporting'.todo \subseteq exporting.todo
  <2>1. exporting \in Closing /\ exporting # NoExport
    BY <1>3, ClosingFacts DEF CloseNext
  <2>2. exporting'.todo = exporting.todo \ {e}
    BY <1>3, <2>1 DEF CloseNext, Closing
  <2> QED BY <2>1, <2>2
<1>4. ~FinishExport /\ ~Die
  BY DEF FinishExport, Die
<1>5. CASE FinishCall \/ OtherCall \/ UNCHANGED tallyVars
  BY <1>2, <1>5 DEF FinishCall, OtherCall, tallyVars, exportVars
<1> QED BY <1>1, <1>2, <1>3, <1>4, <1>5, TallyNextCases DEF Exports

LEMMA ClosedIsPostedStep == TallyInv /\ [TallyNext]_tallyVars => ClosedIsPosted'
<1> SUFFICES ASSUME TallyInv, [TallyNext]_tallyVars, NEW e \in Exceptions,
                    StatusOf(e)' = "CLOSED"
             PROVE  \E key \in BatchKey : Written(key)' /\ e \in DOMAIN documents'[key].lines
  BY DEF ClosedIsPosted
<1>1. \E key \in BatchKey : Written(key) /\ e \in key.ids
  <2>1. CASE StatusOf(e) = "CLOSED"
    BY <2>1 DEF TallyInv, ClosedIsPosted, KeyNamesLines
  <2>2. CASE StatusOf(e) # "CLOSED"
    <3>1. exporting # NoExport /\ e \in exporting.todo
      BY <2>2, ClosedByExport
    <3> QED BY <3>1 DEF TallyInv, ClosingIsPosted
  <2> QED BY <2>1, <2>2
<1>2. PICK key \in BatchKey : Written(key) /\ e \in key.ids
  BY <1>1
<1>3. Written(key)'
  BY <1>2, WrittenStays
<1>4. DOMAIN documents'[key].lines = key.ids
  BY <1>3, KeyNamesLinesStep DEF KeyNamesLines
<1> QED BY <1>2, <1>3, <1>4

LEMMA PostedIsResolvedStep == TallyInv /\ [TallyNext]_tallyVars => PostedIsResolved'
<1> SUFFICES ASSUME TallyInv, [TallyNext]_tallyVars, NEW key \in BatchKey, Written(key)',
                    NEW e \in DOMAIN documents'[key].lines
             PROVE  StatusOf(e)' \in ResolvedStates
  BY DEF PostedIsResolved
<1>1. e \in key.ids /\ e \in Exceptions
  BY KeyNamesLinesStep DEF KeyNamesLines, BatchKey
<1>2. StatusOf(e) \in ResolvedStates
  <2>1. CASE Written(key)
    BY <1>1, <2>1 DEF TallyInv, PostedIsResolved, KeyNamesLines
  <2>2. CASE ~Written(key)
    <3>1. PICK ruling \in Rulings, date \in Dates, close \in BOOLEAN, day \in Days :
             Export(ruling, date, close, day)
      BY <2>2, DocumentsKept DEF Exports, Written
    <3>2. PICK written \in BatchKey :
             /\ \A x \in written.ids : StatusOf(x) = "CONFIRMED"
             /\ \A k \in BatchKey : k # written => documents'[k] = documents[k]
      BY <3>1, ExportFacts
    <3>3. key = written
      BY <2>2, <3>2 DEF Written
    <3> QED BY <1>1, <3>2, <3>3 DEF ResolvedStates
  <2> QED BY <2>1, <2>2
<1>3. StoreInv /\ [StoreNext]_storeVars
  BY TallyStepStore DEF TallyInv
<1> QED BY <1>1, <1>2, <1>3, ResolvedStays

(* A step without a crash so far had none before it. *)
LEMMA CrashesGrow ==
    ASSUME TallyInv, [TallyNext]_tallyVars, crashes' = 0
    PROVE  crashes = 0
<1>0. crashes \in Nat
  BY DEF TallyInv, TallyTypeOK, StoreTypeOK
<1>1. ASSUME NEW x \in Exceptions, CloseNext(x) PROVE crashes = 0
  BY <1>1 DEF CloseNext, CloseException
<1>2. CASE FinishCall
  BY <1>2 DEF FinishCall, CallStep, AppendAudit, ReopenPending, WriteConfidence,
              Confirm, RefuseConfirm, RefuseUnknown
<1>3. CASE OtherCall
  BY <1>3 DEF OtherCall, UpsertException, InsertResolution, MarkStatus
<1>4. CASE Exports \/ FinishExport \/ UNCHANGED tallyVars
  BY <1>4 DEF Exports, Export, FinishExport, tallyVars, storeVars
<1>5. ~Die
  BY <1>0 DEF Die, Crash
<1> QED BY <1>1, <1>2, <1>3, <1>4, <1>5, TallyNextCases

(* CLOSED is terminal. *)
LEMMA ClosedStays ==
    ASSUME StoreInv, [StoreNext]_storeVars, NEW e \in Exceptions, StatusOf(e) = "CLOSED"
    PROVE  StatusOf(e)' = "CLOSED"
<1>0. table[e] \in Row
  BY DEF StoreInv, TypeInv, StoreTypeOK
<1>1. \A to : ~IsLegal(StatusOf(e), to)
  BY DEF IsLegal, LegalTransitions
<1>2. table'[e] = table[e] \/ table'[e] = [table[e] EXCEPT !.scored = TRUE]
  BY <1>1, RowStep DEF Absent
<1> QED BY <1>0, <1>2 DEF StatusOf, Row

LEMMA PostedIsClosingStep == TallyInv /\ [TallyNext]_tallyVars => PostedIsClosing'
<1> SUFFICES ASSUME TallyInv, [TallyNext]_tallyVars, crashes' = 0, ~keptOpen',
                    NEW key \in BatchKey, Written(key)', NEW e \in key.ids
             PROVE  StatusOf(e)' = "CLOSED" \/ (exporting' # NoExport /\ e \in exporting'.todo)
  BY DEF PostedIsClosing
<1>0. e \in Exceptions /\ crashes \in Nat /\ (keptOpen \in BOOLEAN)
  BY DEF BatchKey, TallyInv, TallyTypeOK, StoreTypeOK
<1>1. ASSUME NEW ruling \in Rulings, NEW date \in Dates, NEW close \in BOOLEAN,
             NEW day \in Days, Export(ruling, date, close, day)
      PROVE  StatusOf(e)' = "CLOSED" \/ (exporting' # NoExport /\ e \in exporting'.todo)
  <2>1. PICK written \in BatchKey :
           /\ written.ids = Posted(ruling)
           /\ \A k \in BatchKey : k # written => documents'[k] = documents[k]
    BY <1>1, ExportFacts
  <2>2. close /\ ~keptOpen
    BY <1>1 DEF Export
  <2>3. CASE key = written
    <3>1. exporting' = [todo |-> Posted(ruling), day |-> day]
      BY <1>1, <2>2 DEF Export
    <3>2. Posted(ruling) \subseteq Exceptions
      BY DEF Posted, Exportable
    <3>3. exporting' # NoExport
      BY <3>1, <3>2, NoExportAssumption DEF Closing
    <3> QED BY <2>1, <2>3, <3>1, <3>3
  <2>4. CASE key # written
    <3>1. Written(key) /\ exporting = NoExport /\ crashes = 0 /\ table' = table
      BY <1>1, <2>1, <2>4 DEF Written, Export, storeVars
    <3> QED BY <2>2, <3>1 DEF TallyInv, PostedIsClosing, StatusOf
  <2> QED BY <2>3, <2>4
<1>2. CASE ~Exports
  <2>1. Written(key) /\ ~keptOpen
    BY <1>2, DocumentsKept DEF Written
  <2>2. ~Die /\ crashes = 0
    BY <1>0, CrashesGrow DEF Die, Crash
  <2>3. StatusOf(e) = "CLOSED" \/ (exporting # NoExport /\ e \in exporting.todo)
    BY <2>1, <2>2 DEF TallyInv, PostedIsClosing
  <2>4. CASE StatusOf(e) = "CLOSED"
    <3>1. StoreInv /\ [StoreNext]_storeVars
      BY TallyStepStore DEF TallyInv
    <3> QED BY <1>0, <2>4, <3>1, ClosedStays
  <2>5. CASE exporting # NoExport /\ e \in exporting.todo
    <3>1. ~FinishExport /\ ~OtherCall
      BY <2>5 DEF FinishExport, OtherCall
    <3>2. CASE FinishCall \/ UNCHANGED tallyVars
      BY <2>5, <3>2 DEF FinishCall, tallyVars, exportVars
    <3>3. ASSUME NEW x \in Exceptions, CloseNext(x)
          PROVE  StatusOf(e)' = "CLOSED" \/ (exporting' # NoExport /\ e \in exporting'.todo)
      <4>1. exporting \in Closing
        BY <2>5, ClosingFacts
      <4>2. exporting' \in Closing /\ exporting'.todo = exporting.todo \ {x}
        BY <3>3, <4>1 DEF CloseNext, Closing
      <4>3. exporting' # NoExport
        BY <4>2, NoExportAssumption
      <4>4. x = e => StatusOf(e)' = "CLOSED"
        <5>1. table' = [table EXCEPT ![x] = Moved(table[x], "CLOSED", exporting.day, Absent)]
          BY <3>3 DEF CloseNext, CloseException, Transition
        <5>2. table \in [Exceptions -> Row] /\ table[x] \in Row
          BY DEF TallyInv, TallyTypeOK, StoreTypeOK
        <5>3. table'[x].status = "CLOSED"
          BY <5>1, <5>2 DEF Moved, Row
        <5> QED BY <5>3 DEF StatusOf
      <4> QED BY <2>5, <4>2, <4>3, <4>4
    <3> QED BY <1>2, <2>2, <3>1, <3>2, <3>3, TallyNextCases
  <2> QED BY <2>3, <2>4, <2>5
<1> QED BY <1>1, <1>2 DEF Exports

(* Two documents share no exception: what an export posts was CONFIRMED,   *)
(* and everything posted before it is CLOSED by then.                      *)
LEMMA PostedOnceStep == TallyInv /\ [TallyNext]_tallyVars => PostedOnce'
<1> SUFFICES ASSUME TallyInv, [TallyNext]_tallyVars, crashes' = 0, ~keptOpen',
                    NEW k1 \in BatchKey, NEW k2 \in BatchKey, Written(k1)', Written(k2)',
                    k1 # k2, NEW e \in k1.ids, e \in k2.ids
             PROVE  FALSE
  BY KeyNamesLinesStep DEF PostedOnce, KeyNamesLines
<1>0. e \in Exceptions /\ crashes \in Nat /\ (keptOpen \in BOOLEAN)
  BY DEF BatchKey, TallyInv, TallyTypeOK, StoreTypeOK
<1>1. ASSUME Exports PROVE FALSE
  <2>1. PICK ruling \in Rulings, date \in Dates, close \in BOOLEAN, day \in Days :
           Export(ruling, date, close, day)
    BY <1>1 DEF Exports
  <2>2. PICK written \in BatchKey :
           /\ \A x \in written.ids : StatusOf(x) = "CONFIRMED"
           /\ \A k \in BatchKey : k # written => documents'[k] = documents[k]
    BY <2>1, ExportFacts
  <2>3. crashes = 0 /\ ~keptOpen /\ exporting = NoExport
    BY <2>1 DEF Export, storeVars
  <2>4. \A k \in BatchKey : k # written /\ Written(k)' /\ e \in k.ids => StatusOf(e) = "CLOSED"
    BY <2>2, <2>3 DEF TallyInv, PostedIsClosing, Written
  <2>5. CASE k1 # written /\ k2 # written
    <3>1. Written(k1) /\ Written(k2)
      BY <2>2, <2>5 DEF Written
    <3> QED BY <2>3, <3>1 DEF TallyInv, PostedOnce, KeyNamesLines
  <2>6. CASE k1 = written \/ k2 = written
    BY <2>2, <2>4, <2>6
  <2> QED BY <2>5, <2>6
<1>2. CASE ~Exports
  <2>1. Written(k1) /\ Written(k2) /\ ~keptOpen
    BY <1>2, DocumentsKept DEF Written
  <2>2. crashes = 0
    BY <1>0, CrashesGrow
  <2> QED BY <2>1, <2>2 DEF TallyInv, PostedOnce, KeyNamesLines
<1> QED BY <1>1, <1>2

LEMMA TallyInvInit == TallyInit => TallyInv
<1> SUFFICES ASSUME TallyInit PROVE TallyInv
  OBVIOUS
<1>1. StoreInv
  BY StoreInvInit DEF TallyInit
<1>2. TallyTypeOK
  BY <1>1 DEF TallyInit, TallyTypeOK, StoreInv, TypeInv
<1>3. \A key \in BatchKey : ~Written(key)
  BY DEF TallyInit, Written
<1>4. \A e \in Exceptions : StatusOf(e) # "CLOSED"
  BY DEF TallyInit, StoreInit, StatusOf, NoRow, Absent
<1>5. KeyNamesLines /\ PostedIsResolved /\ PostedIsClosing /\ PostedOnce
  BY <1>3 DEF KeyNamesLines, PostedIsResolved, PostedIsClosing, PostedOnce
<1>6. ClosingIsPosted /\ ClosedIsPosted
  BY <1>4 DEF TallyInit, ClosingIsPosted, ClosedIsPosted
<1> QED BY <1>1, <1>2, <1>5, <1>6 DEF TallyInv

LEMMA TallyInvStep == TallyInv /\ [TallyNext]_tallyVars => TallyInv'
BY TallyTypeStep, KeyNamesLinesStep, ClosingIsPostedStep, ClosedIsPostedStep,
   PostedIsResolvedStep, PostedIsClosingStep, PostedOnceStep DEF TallyInv

-----------------------------------------------------------------------------
(* What links the documents, the rows and the batch being closed holds in  *)
(* every reachable state, however often the exporter dies.                 *)
THEOREM TallyInvariant == TallySpec => []TallyInv
BY TallyInvInit, TallyInvStep, PTL DEF TallySpec

(* Every state of the exporter has the declared types. *)
THEOREM TallyTypeCorrect == TallySpec => []TallyTypeOK
BY TallyInvariant, PTL DEF TallyInv

(* The exporter, and whoever works between its runs, touch the store only  *)
(* as the store allows: every theorem of the store holds of them.          *)
THEOREM TallyUsesStore == TallySpec => StoreSpec
<1>1. TallyInit => StoreInit
  BY DEF TallyInit
<1>2. TallyInv /\ [TallyNext]_tallyVars => [StoreNext]_storeVars
  BY TallyStepStore
<1> QED BY <1>1, <1>2, TallyInvariant, PTL DEF TallySpec, StoreSpec

(* Wherever the exporter dies, nothing is CLOSED that no document posts.   *)
THEOREM ClosedIsPostedHolds == TallySpec => []ClosedIsPosted
BY TallyInvariant, PTL DEF TallyInv

(* Nothing posted ever returns to the residual. *)
THEOREM PostedIsResolvedHolds == TallySpec => []PostedIsResolved
BY TallyInvariant, PTL DEF TallyInv

(* Closing every batch, and never dying, no exception is posted twice.     *)
THEOREM PostedOnceHolds == TallySpec => []PostedOnce
BY TallyInvariant, PTL DEF TallyInv

=============================================================================
