------------------------------ MODULE Pipeline ------------------------------
(***************************************************************************)
(* Generator, files and engine together.  The generator writes a data set  *)
(* with its ground truth; the days are then delivered one after another    *)
(* and the engine runs over everything delivered so far, as run_day and    *)
(* the evaluation call it.  Or files come from elsewhere, and the engine   *)
(* runs on them once, if they can be read.                                 *)
(***************************************************************************)
EXTENDS Truth, MatchEngine, Ingest, Verifier

CONSTANT
    RunDays   \* the arrival days the engine is run on, in order

ASSUME RunDaysAssumption ==
    /\ RunDays \in Seq(Nat \ {0})
    /\ \A i, j \in DOMAIN RunDays : i < j => RunDays[i] < RunDays[j]

VARIABLES
    given,     \* the files from elsewhere not yet read: one, or none
    history    \* what each completed run reported

pipelineVars == <<generatorVars, engineVars, given, history>>

Report == [cases |-> cases, links |-> links, orphans |-> rowVariances.orphans]

(* The engine has not been called. *)
EngineAtRest ==
    LET s == Fresh(NoData, WindowStart)
    IN  /\ data = s.data /\ asOf = s.asOf /\ pass = "DONE" /\ todo = s.todo
        /\ due = s.due /\ remaining = s.remaining /\ links = s.links
        /\ cases = s.cases /\ rowVariances = s.rowVariances

PipelineInit ==
    /\ history = <<>>
    /\ EngineAtRest
    /\ \/ given = {} /\ GeneratorInit
       \/ /\ \E file \in Inputs : given = {file}
          /\ call = CHOOSE c \in Calls : TRUE
          /\ stage = "IDLE" /\ rows = NoData
          /\ notes = {} /\ lags = <<>> /\ texts = <<>>

Generate ==
    /\ GeneratorNext
    /\ UNCHANGED <<engineVars, given, history>>

(* The engine is called on files that can be read; otherwise the run fails *)
(* and the engine is not called.                                           *)
RunOn(files, day) ==
    IF Readable(files) THEN Call(files, day)
    ELSE pass' = "FAILED" /\ UNCHANGED <<data, asOf, todo, due, remaining, links, cases, rowVariances>>

RunFiles ==
    /\ \E file \in given : RunOn(file.data, file.asOf)
    /\ given' = {}
    /\ UNCHANGED <<generatorVars, history>>

(* run_day, of the next of the days; day n is run once n - 1 have been. *)
RunDay ==
    /\ stage = "WRITTEN" /\ pass = "DONE" /\ Len(history) < Len(RunDays)
    /\ LET day == RunDays[Len(history) + 1]
       IN  DayInWindow(day) /\ RunOn(DeliveredBy(day), AsOf(day))
    /\ UNCHANGED <<generatorVars, given, history>>

EngineStep ==
    /\ EngineNext
    /\ history' = IF pass' = "DONE" THEN Append(history, Report') ELSE history
    /\ UNCHANGED <<generatorVars, given>>

PipelineNext == Generate \/ RunFiles \/ RunDay \/ EngineStep

PipelineSpec == PipelineInit /\ [][PipelineNext]_pipelineVars

-----------------------------------------------------------------------------
(* The generator makes no more rows than the instance has ids for, and no  *)
(* more credits than the call has drawn ids for.                           *)
GeneratedIdsFit ==
    /\ Fits([batches |-> rows.batches, bank |-> WrittenBank])
    /\ DOMAIN rows.batches \union DOMAIN rows.bank \subseteq DOMAIN call.creditIds

(* The few paise a generated credit may be off by, less than a rupee, are  *)
(* within the tolerance of the engine: a rupee in thresholds.yaml, which   *)
(* the generator does not read.                                            *)
RoundingsAreTolerated == 99 =< RoundingTolerance

(* No two batches have one UTR: neither of those generated, whose UTRs are *)
(* hashes, nor of those in a set of files from elsewhere.                  *)
UtrsDiffer ==
    /\ \A b, o \in BatchIds : b # o => UtrOf[b] # UtrOf[o]
    /\ \A file \in Inputs : \A b, o \in DOMAIN file.data.batches :
          b # o => file.data.batches[b].utr # file.data.batches[o].utr

(* The type invariants of the parts, for all of what one run keeps.        *)
PipelineTypeOK ==
    /\ EngineTypeOK /\ GeneratorTypeOK /\ GeneratedIdsFit
    /\ Len(history) =< Len(RunDays) + 1
    /\ \A n \in DOMAIN history : history[n].links \in [BatchIds -> LinkOutcomes]

(* A completed run of the engine over everything the generator wrote.      *)
Complete ==
    /\ stage = "WRITTEN" /\ pass = "DONE" /\ history # <<>>
    /\ DOMAIN data.lines = DOMAIN rows.lines
    /\ DOMAIN data.bank = {CreditId(c) : c \in DOMAIN rows.bank}

(* Payments of orders that are alike: the engine cannot tell which was the *)
(* second, or whether it was a second at all.                              *)
Repeated ==
    LET alike(r, o) == /\ o.order # r.order
                       /\ o.customer = r.customer /\ o.gross = r.gross
        copied == TargetsOf("duplicate_ledger_rows", "DUPLICATE_CONFIRMED")
        rowsOf(orders) == {rows.ledger[r] :
            r \in {i \in DOMAIN rows.ledger : rows.ledger[i].order \in orders}}
    IN  {p \in DOMAIN rows.payments \ copied :
            \E r \in rowsOf({p}), o \in rowsOf(DOMAIN rows.payments \ copied) : alike(r, o)}

(* What population_a counts against the engine: the cases it confirms      *)
(* under another category than the truth's.                                *)
FalseMatches ==
    {p \in DOMAIN cases :
        cases[p].status = "CONFIRMED" /\ cases[p].category # TruthCase(p).category}

(* When everything has been delivered a case is left open exactly if it    *)
(* may be a duplicate, and of those confirmed the engine and the truth     *)
(* disagree on the split settlements and on nothing else: for want of a    *)
(* rule it confirms a split as the short capture it also is, or else as    *)
(* the late settlement its second half is (_classify_case and              *)
(* dominant_category).  LIMITATIONS.md:5-18 reports this of seed 999: 52   *)
(* false matches, all splits, 48 as timing and 4 as partial captures.      *)
FalseMatchesAreSplits ==
    Complete =>
        /\ \A p \in DOMAIN cases : (cases[p].status = "OPEN") <=> (p \in Repeated)
        /\ FalseMatches = {p \in DOMAIN cases : /\ cases[p].status = "CONFIRMED"
                                                /\ TruthCase(p).category = "SPLIT_SETTLEMENT"}
        /\ \A p \in FalseMatches :
              cases[p].category = IF rows.payments[p].captured < rows.payments[p].authorized
                                  THEN "PARTIAL_CAPTURE" ELSE "T_PLUS_N_TIMING"

(* When everything has been delivered a settled batch has its own credit,  *)
(* or one that nothing stands behind, or that of a batch which has another *)
(* or waits for one: whatever became of its narration, a credit is never   *)
(* lost to another batch while its own is left open; and no batches have   *)
(* changed credits among themselves (resolve, and the order of P2 to P8).  *)
LinksAreTrue ==
    LET has(b, o) == links[b].credit = CreditId(o)
    IN  Complete =>
          /\ \A b \in Settled :
                \/ \E o \in OrphanNotes : has(b, o)
                \/ \E o \in Delivered : has(b, o) /\ (o \in Settled \/ links[o] = Waiting)
          /\ \A group \in (SUBSET Settled) \ {{}} :
                \E b \in group : \A o \in group \ {b} : ~has(b, o)

(* A residual of a few paise on a batch's own credit is reported as a      *)
(* rounding difference, and nothing else is.  A residual on a credit whose *)
(* amount was rendered before is not in the file.                          *)
ResidualsAreFound ==
    Complete =>
        \A b \in Settled :
            links[b].credit = CreditId(b) =>
                ((links[b].category = "ROUNDING_DIFFERENCE")
                   <=> (Residual(b) # 0 /\ b \notin DOMAIN texts))

(* The row variances are true on every day: the ledger rows reported as    *)
(* duplicates are copies, and all the copies once delivered; a credit      *)
(* reported as an orphan is one.                                           *)
RowVariancesAreTrue ==
    stage = "WRITTEN" /\ pass = "DONE" =>
        /\ {rows.ledger[r].order : r \in rowVariances.duplicates}
             \subseteq TargetsOf("duplicate_ledger_rows", "DUPLICATE_CONFIRMED")
        /\ rowVariances.orphans \subseteq {CreditId(c) : c \in OrphanNotes}
        /\ Complete => Cardinality(rowVariances.duplicates)
                         = Cardinality(TargetsOf("duplicate_ledger_rows", "DUPLICATE_CONFIRMED"))

(* What a later run may say of what an earlier one said, on which run_day  *)
(* relies: a case or a link once reported is always reported again, and an *)
(* orphan that is no longer one never becomes one again.                   *)
HistoriesStay ==
    \A m, n \in DOMAIN history :
        m < n =>
            /\ DOMAIN history[m].cases \subseteq DOMAIN history[n].cases
            /\ \A b \in BatchIds :
                  history[m].links[b] # Undecided => history[n].links[b] # Undecided
            /\ \A k \in DOMAIN history :
                  n < k => (history[m].orphans \intersect history[k].orphans)
                               \subseteq history[n].orphans

(* The store never takes back a confirmation, so the engine should not     *)
(* either: on the generator's files a case that one run confirms is        *)
(* confirmed by every later one, unless an order like it has come since,   *)
(* and a batch whose credit names it in full keeps that credit.  A batch   *)
(* settled on other evidence may lose its credit when more is delivered.   *)
ConfirmationsStand ==
    stage = "WRITTEN" =>
        \A m, n \in DOMAIN history :
            m < n =>
                /\ \A p \in DOMAIN history[m].cases :
                      history[m].cases[p].status = "CONFIRMED"
                        => history[n].cases[p].status = "CONFIRMED" \/ p \in Repeated
                /\ \A b \in BatchIds :
                      LET credit == history[m].links[b].credit
                      IN  credit # NoCredit /\ CarriesUtr(WrittenBank[credit].token, rows.batches[b].utr)
                            => history[n].links[b].credit = credit

(* The verifier never lets the model name the wrong order: of an order and *)
(* the copy duplicate_ledger_rows made of it, on complete data, it         *)
(* confirms none or the copy (the lines it compares are those of both      *)
(* payments and of their refunds), unless one of the two was split and so  *)
(* settles on a line more.                                                 *)
CopiesAreNamed ==
    Complete =>
        LET copies == TargetsOf("duplicate_ledger_rows", "DUPLICATE_CANDIDATE")
            split == TargetsOf("split_settlement", "SPLIT_SETTLEMENT")
        IN  \A h \in Nominations(data) :
                AutoConfirms(h, data, TRUE) =>
                    LET pair == {h.evidence[1].id, h.evidence[2].id}
                    IN  pair \intersect copies = {} \/ pair \intersect split # {}
                          \/ h.candidate \in copies

(* The verifier and the engine mean the same by a duplicate: a nomination  *)
(* that is confirmed is about cases the engine leaves open, on any files   *)
(* (_verify_duplicate_candidate against find_candidate_duplicates), unless *)
(* one of the two orders has a row the engine reports as a copy: it asks   *)
(* no more about that order, the verifier does not look.                   *)
ConfirmedPairsAreOpen ==
    pass = "DONE" =>
        \A h \in Nominations(data) :
            LET pair == {h.evidence[1].id, h.evidence[2].id}
            IN  AutoConfirms(h, data, TRUE) /\ pair \intersect ConfirmedOrders(data.ledger) = {} =>
                  \A p \in DOMAIN cases :
                      data.payments[p].order \in pair => cases[p].status = "OPEN"

(* The verifier would confirm every link the engine makes, on stale data   *)
(* too; and of the claims about a credit and a batch it confirms none with *)
(* a residual that is not the real one, and on stale data none at all,     *)
(* whatever comparison the model proposes, unless their amounts agree      *)
(* (_verify_arithmetic and the weights against auto_confirm).              *)
StaleClaimsAgree ==
    LET confirms(b, c, op, claimed, fresh) ==
            AutoConfirms(PaymentClaim(c, op, b, claimed), data, fresh)
        residual(b, c) == data.bank[c].amount - data.batches[b].net
    IN  pass = "DONE" =>
          /\ \A b \in Settled :
                LET c == links[b].credit
                IN  \A claimed \in {{}, {residual(b, c)}} : confirms(b, c, "==", claimed, FALSE)
          /\ \A b \in BatchIds, c \in CreditIds, op \in {"==", ">=", "<", "!="} :
                /\ confirms(b, c, op, {}, FALSE) => AmountAgrees(data.bank[c], data.batches[b])
                /\ confirms(b, c, op, {0}, TRUE) => residual(b, c) = 0

=============================================================================
