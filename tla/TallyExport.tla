----------------------------- MODULE TallyExport -----------------------------
(***************************************************************************)
(* The journal export (settlesense/export/tally.py, driven by              *)
(* eval/run_export.py): every CONFIRMED exception the engine still has a   *)
(* postable category for becomes a voucher of one document, the document   *)
(* is written to disk under a name derived from its idempotency key, and,  *)
(* with --close, its exceptions are CLOSED one by one.  Between exports    *)
(* the days and the AI stage go on confirming, and every export asks the   *)
(* engine anew what each subject is, over the files there are by then: the *)
(* answer is an input of Export here.  The exporter may die anywhere.      *)
(*                                                                         *)
(* Left out: amounts, ledgers' names, narrations and the XML; the order of *)
(* the closes (it follows amounts); a run's provenance, which is the same  *)
(* in every run here; a document torn by a crash inside write_text (none   *)
(* of its exceptions is closed then); two keys that share the 16 digits a  *)
(* file name shows.                                                        *)
(***************************************************************************)
EXTENDS ExceptionStore

CONSTANTS
    Categories,   \* categories with a ledger
    Cleared,      \* the engine reports the subject without a category
    Unpostable,   \* a category without a ledger, or an amount not positive
    Unreported,   \* the engine does not report the subject
    Dates,        \* batch dates
    NoDocument,   \* no file of that name
    NoExport      \* no close_exported under way

VARIABLES
    documents,    \* the documents on disk, by idempotency key
    exporting,    \* what close_exported still has to close
    keptOpen      \* history: some document was written without --close

exportVars == <<documents, exporting, keptOpen>>
tallyVars == <<storeVars, exportVars>>

(* What the engine, over the files there are, now says of each subject.    *)
Rulings == [Exceptions -> Categories \union {Cleared, Unpostable, Unreported}]

(* _canonical: the batch date and the exception ids (the provenance too,   *)
(* which does not vary here), not their categories nor the cleared rows.   *)
BatchKey == [date : Dates, ids : SUBSET Exceptions]

(* lines: the vouchers, with the category each was posted under; cleared:  *)
(* the clearedCount of the header.                                         *)
Document == [lines : UNION {[ids -> Categories] : ids \in SUBSET Exceptions}, cleared : Nat]

Closing == [todo : SUBSET Exceptions, day : Days]

ASSUME StageCallsStore == "AI_VERIFIED" \in Callers

ASSUME ExceptionsFinite == IsFiniteSet(Exceptions)

ASSUME RulingsAssumption ==
    /\ Cleared \notin Categories
    /\ Unpostable \notin Categories
    /\ Unreported \notin Categories

ASSUME NoDocumentAssumption == NoDocument \notin Document

ASSUME NoExportAssumption == NoExport \notin Closing

Written(key) == documents[key] # NoDocument

-----------------------------------------------------------------------------
(* Deviation: whatever is not closed yet is exported. *)
ExportableUnclosed == {e \in Exceptions : StatusOf(e) \in Statuses \ {"CLOSED"}}

(* The rows run_export hands to build_batch. *)
Exportable == {e \in Exceptions : StatusOf(e) = "CONFIRMED"}

(* Deviation: only a subject the engine does not report is refused. *)
RefusesUnreportedOnly(ruling) == \E e \in Exportable : ruling[e] = Unreported

(* build_batch refuses the whole batch for one row it cannot place. *)
RefusesBatch(ruling) == \E e \in Exportable : ruling[e] \in {Unreported, Unpostable}

(* The rows that become vouchers; the other exportable rows have cleared. *)
Posted(ruling) == {e \in Exportable : ruling[e] # Cleared}

Batch(ruling) == [lines   |-> [e \in Posted(ruling) |-> ruling[e]],
                  cleared |-> Cardinality(Exportable \ Posted(ruling))]

(* Deviation: every row handed in is closed, the cleared ones with it. *)
ExportClosingAll(ruling, date, close, day) ==
    /\ exporting = NoExport
    /\ Idle
    /\ Posted(ruling) # {}
    /\ ~RefusesBatch(ruling)
    /\ documents' = [documents EXCEPT ![[date |-> date, ids |-> Posted(ruling)]] = Batch(ruling)]
    /\ exporting' = IF close THEN [todo |-> Exportable, day |-> day] ELSE NoExport
    /\ keptOpen' = (keptOpen \/ ~close)
    /\ UNCHANGED storeVars

(* run_export: the engine is asked about every subject, build_batch and    *)
(* write_dry_run, then, with --close, the start of close_exported.  A      *)
(* document of the same key is overwritten.                                *)
Export(ruling, date, close, day) ==
    /\ exporting = NoExport
    /\ Idle
    /\ Posted(ruling) # {}
    /\ ~RefusesBatch(ruling)
    /\ documents' = [documents EXCEPT ![[date |-> date, ids |-> Posted(ruling)]] = Batch(ruling)]
    /\ exporting' = IF close THEN [todo |-> Posted(ruling), day |-> day] ELSE NoExport
    /\ keptOpen' = (keptOpen \/ ~close)
    /\ UNCHANGED storeVars

(* close_exported: one close_exception after another. *)
CloseNext(e) ==
    /\ exporting # NoExport
    /\ e \in exporting.todo
    /\ CloseException(e, exporting.day)
    /\ exporting' = [exporting EXCEPT !.todo = @ \ {e}]
    /\ UNCHANGED <<documents, keptOpen>>

(* Deviation: the run ends with rows of the batch still to close. *)
FinishExportEarly ==
    /\ exporting # NoExport
    /\ Idle
    /\ exporting' = NoExport
    /\ UNCHANGED <<storeVars, documents, keptOpen>>

FinishExport ==
    /\ exporting # NoExport
    /\ Idle
    /\ exporting.todo = {}
    /\ exporting' = NoExport
    /\ UNCHANGED <<storeVars, documents, keptOpen>>

-----------------------------------------------------------------------------
(* The store finishes the call in flight, the exporter's or another's. *)
FinishCall == CallStep /\ UNCHANGED exportVars

(* The other programs work on the store between exports.  None closes, all *)
(* confirm rows they have read, and none marks a row but the AI stage,     *)
(* when the model is away or back.                                         *)
OtherCall ==
    /\ exporting = NoExport
    /\ \E e \in Exceptions, day \in Days :
          \/ \E status \in {"OPEN", "PENDING_EVIDENCE"} : UpsertException(e, status, day)
          \/ \E type \in ResolutionTypes, evidence \in Evidence :
                StatusOf(e) # Absent /\ InsertResolution(e, type, evidence, day)
          \/ \E to \in {"OPEN", "PENDING_AI_UNAVAILABLE"} :
                MarkStatus(e, to, "AI_VERIFIED", day)
    /\ UNCHANGED exportVars

Die ==
    /\ Crash
    /\ exporting' = NoExport
    /\ UNCHANGED <<documents, keptOpen>>

TallyInit ==
    /\ StoreInit
    /\ documents = [key \in BatchKey |-> NoDocument]
    /\ exporting = NoExport
    /\ keptOpen = FALSE

ExportStep ==
    \/ \E ruling \in Rulings, date \in Dates, close \in BOOLEAN, day \in Days :
          Export(ruling, date, close, day)
    \/ \E e \in Exceptions : CloseNext(e)
    \/ FinishExport

TallyNext ==
    \/ ExportStep
    \/ FinishCall
    \/ OtherCall
    \/ Die

TallySpec == TallyInit /\ [][TallyNext]_tallyVars

-----------------------------------------------------------------------------
TallyTypeOK ==
    /\ StoreTypeOK
    /\ documents \in [BatchKey -> Document \union {NoDocument}]
    /\ exporting \in Closing \union {NoExport}
    /\ keptOpen \in BOOLEAN

(* Wherever the exporter dies, a CLOSED exception is a voucher of a        *)
(* document on disk: closing never runs ahead of the document, no later    *)
(* export overwrites the document with one that lacks it, and a cleared    *)
(* exception is not closed ("Closing first would leave an exception marked *)
(* as actioned by a document that was never produced").                    *)
ClosedIsPosted ==
    \A e \in Exceptions :
        StatusOf(e) = "CLOSED" =>
            \E key \in BatchKey : Written(key) /\ e \in DOMAIN documents[key].lines

(* No document posts an exception that is not explained, then or later:    *)
(* what was exported cannot return to the residual.                        *)
PostedIsResolved ==
    \A key \in BatchKey :
        Written(key) =>
            \A e \in DOMAIN documents[key].lines : StatusOf(e) \in ResolvedStates

(* With --close in every run and no crash, no exception is posted twice,   *)
(* however many exports there are and whatever is confirmed in between.    *)
PostedOnce ==
    crashes = 0 /\ ~keptOpen =>
        \A k1, k2 \in BatchKey :
            Written(k1) /\ Written(k2) /\ k1 # k2 =>
                DOMAIN documents[k1].lines \intersect DOMAIN documents[k2].lines = {}

(* Two readings of the documents that the code does not meet.              *)

(* PDD 5: "Re-running produces the same batch reference and no second      *)
(* posting candidate."  After a crash between two closes, the re-run finds *)
(* fewer CONFIRMED rows, names its batch differently, and posts the rest   *)
(* of the first document again.                                            *)
NoSecondPosting ==
    ~keptOpen =>
        \A k1, k2 \in BatchKey :
            Written(k1) /\ Written(k2) /\ k1 # k2 =>
                DOMAIN documents[k1].lines \intersect DOMAIN documents[k2].lines = {}

(* write_dry_run: "Rewriting the same batch overwrites byte-identical      *)
(* content".  The key covers neither the categories nor the cleared count, *)
(* both of which the document shows.                                       *)
RewriteIsIdentical ==
    [][\A key \in BatchKey : Written(key) => documents'[key] = documents[key]]_tallyVars

=============================================================================
