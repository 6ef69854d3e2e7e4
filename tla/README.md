# A TLA+ verification of SettleSense

SettleSense reconciles a merchant's orders with the payment gateway's settlement
files and with the bank statement.  Files arrive day by day; a deterministic
matching engine classifies every captured payment, settlement batch and unmatched
bank credit over all the data delivered so far; what it cannot resolve becomes an
*exception* in an SQLite store; later days, an AI stage and reviewers resolve
exceptions; resolved ones are exported to accounting as a journal batch.

This directory holds TLA+ models of that program: the parts that keep state across
commits, days and processes, and the matching engine with its verifier, together with the
generator that writes the data and the truth the engine is measured against.  With them
come the TLC runs that check them on small instances, and TLAPS proofs of safety properties
for every instance.

Source paths below are relative to the repository (`settlesense/...`, `eval/...`).

## 1. Inventory

| Component | Source | State it keeps | Operations | Works with |
|---|---|---|---|---|
| Exception lifecycle | `settlesense/exceptions/store.py:114`, `types.py:225` | none | the table of legal transitions, the actors | used by the store |
| Exception store, writes | `settlesense/exceptions/store.py` | tables `exceptions`, `audit`, `resolutions` | `upsert_exception`, `append_audit`, `_transition`, `confirm_exception`, `close_exception`, `mark_status` | called by every writer below; several commits per operation |
| Day driver | `store.py:399-452, 884-1130` | tables `files`, `watermarks`; the loop of a run | `run_day`: `ingest_file`, `reevaluate_open`, `_persist_outcomes`, `set_watermark` | calls the engine, then the store |
| Store and queue views | `store.py:508-582, 628-653`, `ui/queue.py` | none | `get_queue`, `get_audit`, `residual_sequence`, `current_categories` | read the tables |
| Matching engine | `settlesense/matching/engine.py` | during a run: the pool of unclaimed credits, the batches decided so far | `run_with_telemetry`: the passes P1 to P9 in their order | a function of the data delivered up to a day; called by the day driver, the exporter, the evaluation |
| Matching passes | `matching/exact.py`, `fuzzy_utr.py`, `duplicates.py`, `timing.py`, `arithmetic.py` | none | exact links, fuzzy scores, duplicates, working days, fees, variances | called by the engine; calendar and rates also by the generator |
| Ingest and normalisation | `ingest.py`, `normalize.py` | none | parse a file, refuse it, merge days, canonical forms | feeds the engine |
| AI stage | `ai/orchestrator.py`, `ai/loop.py`, `ai/pairing.py` | the rows read at its start | confirm, mark unavailable, abstain; a pair's verdict on both rows | reads the residual, waits on the model, writes to the store |
| Model client, hypotheses | `ai/client.py`, `ai/hypothesis.py` | attempts | calls, nested retries, fixture replay | the AI stage |
| Verifier, confidence | `ai/verifier.py`, `ai/confidence.py` | none | accept or refuse a hypothesis, score it | the AI stage |
| Tally export | `export/tally.py`, `eval/run_export.py` | the documents on disk | `build_batch`, `write_dry_run`, `close_exported` | reads CONFIRMED rows and the engine, writes files, closes rows |
| Evidence queue UI | `ui/` | none of its own | rendering; `build_state` runs the checkpoint days | reads the store; drives `run_day` |
| Configuration, serialisation, telemetry | `config.py`, `core/` | none after loading | | all |
| Dataset generator | `gen/` | while it runs: the rows, the notes of what was injected, late rows, rendered amounts | plan and chains, batches, twelve injectors, the truth, the self-check, the files by delivery day | writes what ingest reads and the truth the evaluation reads |
| Evaluation | `eval/` | none | scores the engine against the truth | offline, read-only |

### What is hard about it

* **Commits inside one operation.**  The store commits the row and its audit entry in
  separate transactions, and `confirm_exception` commits up to six times (key, reopening and
  its entry, confidence, status and its entry).  A process that dies in between leaves a
  combination of tables no operation intended, and the next process goes on from there.
* **Replay.**  Idempotency rests on three guards of different strength: the content hash of
  a file, the key of a resolution, and the existence of a row.  A guard that is committed
  before the work it guards turns a crash into a permanent omission.
* **Long histories of legal calls.**  Day driver, AI stage, reviewer and exporter all move
  the same row; columns written by different calls must agree with the whole audit trail.
* **Days skipped, repeated, cut short.**  Whatever the caller does, the residual must be
  what one run over all the data reports.
* **Two systems of record.**  The exporter writes a file and then closes rows one by one;
  neither side can be rolled back when it dies in between.
* **Waiting on a model.**  The AI stage reads statuses, waits for as long as the nested
  retries take, and writes by what it read; outages and recoveries alternate over stages,
  and the verdict on a pair is written on two rows in separate commits.

* **Greedy claims.**  Batches and credits compete for each other one at a time in id order,
  over a pool that earlier claims have shrunk.  An ambiguous credit must be refused although
  the order of the ids would settle it.
* **Late rows.**  A run sees the data up to its day.  The due date of a batch depends on which
  of its lines have come, so what one run reports may be taken back by the next, while the
  store never takes back a confirmation.
* **Noise over noise.**  Injectors change rows that others have already priced, rendered or
  noted; books, chains and truth must still agree to the paisa at the end.
* **Two programs, one notion.**  Engine and verifier each decide what a duplicate is and when
  amounts agree; engine and truth each decide what a case's category is.

`PROJECT.json` lists each of these at its line under `hazards`, with the properties that
cover it.

### What makes each component correct

* *Store*: moves are legal; the trail of an exception is complete without crashes and never
  contradicts the row with them; slots of a day follow insertion; columns agree with the
  trail; a resolver is named only where a resolution is recorded.
* *Day driver*: the rows a finished day leaves residual are the engine's; a repeated day is
  quiet; what the driver confirms was seen on an earlier day; a recorded resolution resolves;
  a started day ends.
* *Export*: nothing is closed without a document; nothing posted is or becomes unresolved;
  nothing is posted twice.
* *AI stage*: no write is refused although it waited on the model; only a verified
  hypothesis confirms; the report is what the store holds; a pair's verdict is on both of
  its rows; one question costs a bounded number of attempts; a stage returns.
* *Matching engine*: a credit settles at most one batch; every link rests on evidence; a batch
  left open had no claim nearly as good as the one that won; a batch reported without a
  credit has none; a case confirmed without a category is whole.
* *Verifier*: it confirms what the engine would; it never lets the model pick the wrong one of
  two orders; without fresh data it confirms no amount that disagrees.
* *Generator and truth*: no noise breaks the books; what is refused is bad luck.
* *Evaluation*: on complete data the engine's false matches are the split settlements, for
  which it has no rule, and no other case; links, residuals and row variances are the truth's;
  histories of reports are such as the day driver relies on.

## 2. Modules

```
Lifecycle ── ExceptionStore ─┬─ StoreRefinement ── MCExceptionStore
    │              │         │        └─ INSTANCE AuditedLifecycle
    │              │         ├─ DayDriver ── MCDayDriver
    │              │         ├─ TallyExport ── MCTallyExport
    │              │         └─ AIStage ── MCAIStage
    │              │               │
    │              │         HypothesisLoop
    └─ AuditedLifecycle

StoreProofs ─┬─ DayDriverProofs
             ├─ TallyExportProofs
             └─ AIStageProofs

Config ── Calendar ── Pricing ── FuzzyUtr ── CaseRules ─┬─ MatchEngine ── MCMatchEngine
                                                        ├─ CleanData ── Noise ── Truth
                                                        ├─ Ingest
                                                        └─ Verifier
Truth, MatchEngine, Ingest, Verifier ── Pipeline ── MCPipeline

RuleProofs ─┬─ EngineProofs ────┐
            └─ GeneratorProofs ─┴─ PipelineProofs
```

(A line is EXTENDS, left to right; the proof modules also extend the module they prove
about: `StoreProofs` extends `StoreRefinement`, `RuleProofs` `CaseRules`, `EngineProofs`
`MatchEngine`, `GeneratorProofs` `Truth`, the others the module they are named for.)

### Lifecycle, ExceptionStore

`Lifecycle` is the table `LEGAL_TRANSITIONS` and the ranks of the statuses along it.
`ExceptionStore` is the write side of the store, one action per **commit**:

| Code | Actions |
|---|---|
| `upsert_exception` | `UpsertException`, then `AppendAudit` |
| `_transition` (inside the next three) | the operator `Transition`, then `AppendAudit` |
| `confirm_exception` | `InsertResolution`; `ReopenPending`, `AppendAudit` if the row is pending; `WriteConfidence` if a confidence is given; `Confirm`, `AppendAudit` or `RefuseConfirm` (`IllegalTransitionError`); without a row `RefuseUnknown` (`StoreError`), the key committed already |
| `close_exception` | `CloseException`, `AppendAudit` |
| `mark_status` | `MarkStatus`, `AppendAudit` |
| death of the caller | `Crash`, at any point |

`unaudited` is the status change whose audit entry is not committed yet, `confirming` the
`confirm_exception` past its first commit.  The store is used by one program at a time (it
holds one connection and takes no locks of its own), so a new call begins only when both
are empty.  A call that finds nothing to do, or that is refused before its first commit,
changes nothing and is no step.  Days may be named in any order, and exceptions that were
never opened too: `confirm_exception` commits its key before it looks the row up
(`store.py:768-774`).  That a recorded resolution resolves (`ResolutionResolves`) is
therefore no property of the store; it is one of the programs on it, which confirm only what
they have read from the table, and run `days` checks it of the day driver.

`crashes` counts the deaths so far.  Properties that a crash is known to break say
`crashes = 0 => ...`; all others hold whatever crashes happen.

`AuditedLifecycle` is the abstract specification: exceptions, moves, one common trail that
each move is written on as it is made.  The refinement mapping of `StoreRefinement` shows
the pending entry as already written (`abstractTrail`), so the second commit is a step that
settles it and a crash between the two a step that loses it; the abstract specification
admits the loss of the newest entry and of no other.

### DayDriver

`run_day` as a sequential job (`job`: the day, the phase, the next file, the subjects the
pass still has to do) that acts on the store through the store's own actions:

| Code | Actions |
|---|---|
| `run_day` entered, the day's files read | `StartDay` |
| `ingest_file` | `IngestFile` |
| `reevaluate_open`: the rows read, the engine asked | `Reevaluate` |
| its loop, one `confirm_exception` each | `ConfirmNext`, `FinishCall` |
| `_persist_outcomes`: the unresolved subjects | `Persist` |
| its loop, `_open_if_new` | `OpenNext`, `FinishCall` |
| `set_watermark`, return | `FinishDay` |
| death of the process | `Die` |

The engine is a function of the data delivered up to a day; its verdicts are a constant
history per subject (`outcome`), chosen in `DayInit` among the histories the rules of
`matching/engine.py` allow for the subject's population: a case may go back from CONFIRMED
to OPEN (a later duplicate), a batch may wait (PENDING_EVIDENCE), also again after it was overdue, for its due date
moves when its lines arrive (the fallback at `engine.py:604`), an orphan credit disappears
when a batch accounts for it.  `HistoriesStay`, of `Pipeline`, checks of the modelled engine
what these histories take for granted: a subject once reported stays reported, and an orphan
that is gone does not come back.

`StartDay` takes days in order, a day any number of times: that is how the repository's
callers (`ui/build_state.py`, the tests, the evaluation) use `run_day`.  The code does not
enforce it.

### TallyExport

| Code | Actions |
|---|---|
| `run_export.main` to the start of `close_exported` | `Export` |
| the loop of `close_exported` | `CloseNext`, `FinishCall` |
| its return | `FinishExport` |
| the other users of the store, between exports | `OtherCall`, `FinishCall` |
| death of the exporter (or of the other program) | `Die` |

What the engine says of each subject (`current_categories`) is an input of `Export`: a
category with a ledger, cleared (category None), not postable (no ledger, or no positive
amount), or not reported.  `documents` is the output directory; a file is found by its
idempotency key, which `_canonical` computes from batch date and exception ids (and the
provenance, the same in every run here).  Only one program runs on the store at a time.

### HypothesisLoop, AIStage

`HypothesisLoop` is one question put to the model; `AIStage` extends it and
`ExceptionStore`, and models both stages over the store: `run_ai_stage` asks one question per
sendable residual row and writes when all are answered (path `"ROWS"`), `run_store_ai_stage`
asks one per pair of residual rows and writes each verdict on both rows before the next
question (path `"PAIRS"`).

| Code | Actions |
|---|---|
| a stage entered, the residual read, rows filtered or paired | `StartStage` |
| `resolve_exception` entered | `AskNext` (`Ask`) |
| a failed attempt, a reply without a hypothesis | `AskAgain` (`CallFails`, `BadReply`) |
| `resolve_exception` returns | `RecordAnswer` (`Resolve`, `Decide`) |
| `mark_status` after an outage or an abstention | `WriteMark`, `FinishCall` |
| `confirm_exception` | `WriteConfirmation`, `FinishCall` |
| no status to change, or a replayed key | `WriteNothing` |
| the report returned | `FinishStage` |
| days and exporter between stages | `OtherCall`, `FinishCall` |
| death of the process | `Die` |

`stage.waiting` is what the stage read of the statuses, `stage.answer` the verdicts,
`stage.todo` the rows with a verdict still to write.  A hypothesis is what it nominates and
what the verifier and the threshold make of it, freely chosen.  The client is one of three:
over the network (`RealLLMClient`), over recordings, always down.  A recording reads the same
each time, so its bad reply is bad to the last retry and it is missing at once.  An
exception that `retry_until_unavailable` does not catch (`RETRYABLE`; the vendor's own error
classes are not in the repository) ends the process, which is `Die`.

Between stages the model lets other programs open rows, confirm them deterministically and
close them.  The engine opens no row of a sendable category in PENDING_EVIDENCE: what waits
for its evidence has no category yet.

### Config, Calendar, Pricing, FuzzyUtr, CaseRules

The pure part of the engine, as operators.  `Config` states what the loaders accept, as the
assumption everything else rests on.  `Calendar` is `timing.py`: working days, the due date
of a settlement line (T+0) and of a bank credit (T+N in working days).  `Pricing` is
`arithmetic.py`: fee, tax, what the components leave of a variance, and the headline
category.  `FuzzyUtr` is `fuzzy_utr.py`: the scores of its two paths and `Resolve`, which
accepts the best batch for a credit if it passes the threshold and leads by the margin
(why a credit is refused, AMBIGUOUS or ABSTAINED, makes no difference to the engine).
`CaseRules` decides duplicates and the status and category of a case.

What is abstracted: a date is a day number (day 0 a Monday), money is in paise, a score in
millionths.  A narration is one token: the first characters of some UTR (`PREFIX`), a UTR with
two characters swapped (`GARBLED`), or nothing; `Stem` says how many leading characters two
UTRs share.  That is all the injectors produce.  Date proximity is rounded once, where the
code's `Decimal` division carries 28 digits.  Row ids are numbers in the order the code sorts
its rows.

### MatchEngine

One run of `run_with_telemetry`.  Cases do not disturb one another and are one step; batches
and credits compete, so each is a step of its own.

| Code | Actions |
|---|---|
| P7a | `FindDuplicates` |
| P1, P3, P4, P6, P7b, P9 over the payments | `ClassifyCases` |
| `_batch_profiles`, the due dates | `DeriveProfiles` |
| `EngineError` | `Raise` |
| `link_batches_to_bank` (P2), batch by batch | `LinkExact` |
| P2b, and the batches that wait | `LinkNear` |
| P8, credit by credit | `ResolveCredit`, `NothingLeftOpen` |
| a pass with nothing to do | `Skip` |
| the categories of batches left open | `CategoriseOpen` |
| row variances, the result | `AssembleRows` |

`remaining` is the pool of unclaimed credits, `links` the outcome of each batch once decided,
`due` the due dates with their fallback.  Nothing here is chosen: the only choice is the input.

### CleanData, Noise, Truth

The generator, one action per stage of `gen.generate.main`: `BuildClean` (the plan, one chain
per order, the batches, their credits), `VerifyClean`, one action per injector in
`NOISE_ORDER`, `SkipWithheld` (an injector `--include-withheld` would run), `CheckAndWrite`.
What the code draws at random is a free choice: which rows an injector picks (`Picks`,
together at most `call.maxNoise` of them), and how far a line is delayed, a payment captured
or split, a UTR cut, an amount off.  What is drawn before any noise (customers, amounts,
methods, refunds) is a list of draws per call; a draw names the nth customer of its profile's
pool, and customers' ids tell their profile (`CustomerId`, `gen/lifecycle.py:467`).  A call also fixes the order of the credits'
ids, which the code derives from a hash, because P8 goes by that order.

`notes` is the `NoiseLedger`, `lags` the rows delivered late, `texts` the amounts rendered when
`mixed_amount_formats` ran.  `Truth` holds the self-check, condition by condition, what
`build_truth` derives, and `DeliveredBy`, the files up to a delivery day read back.
The code of the generator imports nothing from `settlesense`: it has its own rates, calendar,
rounding and row types, meant to be the same.  The model has one of each, so a disagreement
between the two copies is outside it; what is compared is what each program makes of them.

### Ingest, Verifier, Pipeline

`Ingest` is what `load_dataset` refuses.  `Verifier` is `verify` on both of its paths, the
score, and the threshold, over whatever hypothesis the model may put forward.  `Pipeline` puts
everything together:

| Code | Actions |
|---|---|
| `gen.generate` | `Generate` (any step of `GeneratorNext`) |
| `evaluate`, a run on files from elsewhere | `RunFiles` |
| `run_day`: the files up to a day loaded, the engine called | `RunDay` |
| the engine | `EngineStep` |

`history` keeps what each completed run reported.  `EngineAtRest` and `given` exist only to let
generator and engine be one system: either a data set is generated and the engine run on its
days in order, or the engine is run once on a hand-made set of files.

## 3. Runs

| Run | Checks | Instance and bounds | Shows |
|---|---|---|---|
| `store` | 6 invariants, the refinement | 2 exceptions, opened or not, 2 days in any order, 1 evidence list, reviewer calls; new calls while the audit table has < 4 entries (`MaxAudit`) and of at most 2 resolutions (`MaxKeys`); at most 1 crash | the store's properties, and that it implements `AuditedLifecycle` |
| `days` | 3 invariants, 2 action properties, 1 liveness | a case and a batch, 3 days, 2 file contents of which both are delivered again later; at most 1 crash | the driver's properties under every pair of verdict histories |
| `export` | 4 invariants | 2 exceptions, 1 day, 1 batch date, 1 category; the other programs confirm rows and mark them as the AI stage does, while the trail has < 6 entries (`MaxAudit`); at most 2 resolutions (`MaxKeys`), 1 crash | the exporter's properties |
| `ai` | 5 invariants, 1 action property, 1 liveness | 2 sendable rows that make a pair, 1 day, 2 nominees; 2 replies (`MaxRetries` 1) of at most 2 hypotheses, 2 attempts at each; new stages and calls while the trail has < 5 entries; at most 1 crash | the properties of both stages |
| `pipeline` | 16 invariants | 5 payments of 2 profiles over 2 days before a week-end and a holiday, 4 batches; six calls of the generator with at most 2, 2, 1, 1, 0 and 0 pieces of noise, in one of which a customer buys again at the price of the day before; the engine after days 1, 2, 6 and 9; and on some 12,600 hand-made sets of files (572,000 states in all) | the engine, the generator, the truth and the verifier against one another |
| `store_crash_audit` | `EveryChangeAudited` | as `store` | *violated*: see findings |
| `day_crash_replay` | `VerifiedIsConfirmed` | as `days`, 1 crash | *violated* |
| `day_endpoint` | `StoreHoldsWhatBatchReports` | an orphan credit, 3 days, no crash | *violated* |
| `export_crash_repost` | `NoSecondPosting` | as `export` | *violated* |
| `export_rewrite` | `RewriteIsIdentical` | as `export`, no crash | *violated* |
| `pair_crash` | `PairsAgree` | as `ai`, 1 nominee, < 4 entries | *violated* |
| `credit_unreported` | `EveryCreditReported` | the engine alone on the hand-made files | *violated* |

**Why the bounds are enough to be interesting.**  Two exceptions interleave two trails in
one audit table, which is what sequence slots and trails could get wrong; nothing in the
store relates more than two rows.  Four entries and the calls begun below that bound carry
a row from opening through a reopening to CONFIRMED, with the other exception's entries in between, or
from opening to CLOSED.  One crash may fall between any two commits and be followed by
every further call; the proofs remove all three bounds.  Three days are needed for a day to
be skipped and caught up with and for a verdict to change twice.  In `export`, six entries
allow one exception to be opened, confirmed, exported and closed and the other to be
confirmed after that, and both in one batch.  In `ai`, five entries allow an outage to mark
both rows and a later stage to reopen or confirm them; two attempts at two replies are the
least at which the retry loops nest (the code has three of each); two rows are a pair, and a
row alone in its group is what is left when the other one is confirmed.

In `pipeline`, two payouts are equal and due on one day, two UTRs share eight characters, and
an orphan can be a third of another batch: what the matcher could confuse is there before any
noise.  Two pieces of noise suffice to cut one UTR and withhold or imitate a credit, to split
a repeated order, or to move a line and have it delivered late; the same instance with three
in the first call and a seventh credit id (5.3 million states, five and a half minutes, too long
to keep as a run) violates none of the sixteen invariants either.  The hand-made files let two credits with six kinds
of narration, three amounts and three dates compete for two batches in every combination, and
settle one payment in every way over two week-ends and a holiday.  Days 1 and 2 see cases
without lines and batches without credits, day 6 the credits of one profile, day 9 what came
late.  A call with no refund and one whose refund exceeds its batch are refused by the
generator's own checks.

**Deadlock** is checked in the day runs.  The runs over `BoundedSpec` turn it off, because
the bounds on new calls really stop the system there; so does `pipeline`, whose system ends.

**Symmetry** is used on exceptions only, in runs without liveness.

**Fairness.**  `FairDaySpec` adds `WF(JobStep)`: `run_day` is straight-line sequential code,
so once started it takes its next step unless its process dies.  No fairness is assumed of
`StartDay`, of `Die`, or of any caller of the store, and none for the exporter.
`FairStageSpec` adds `WF(StageStep)` for the same reason: a stage is a loop over the rows it
read, and each attempt at the model ends, at the latest with a timeout.  `StageEnds` does not
assume that the model ever answers: that the failures are counted is what ends the stage.

## 4. Proofs

All theorems hold for every value of the constants that satisfies the named assumptions:
days are positive numbers (`as_of_for_arrival_day` refuses a day below 1), callers are
actors, the null values differ from what they stand beside, `Exceptions` is finite where a
header counts them, rulings without a voucher are not categories, and `Delivery` is a
sequence of contents per day; the verdicts' names differ from the nominees, the groups of
duplicates are disjoint sets of sendable rows, and the retry bounds are numbers, the attempts
at least one.

**Store** (`StoreProofs`).  No safety invariant is inductive
alone: appending the entry needs to know that the change in flight is legal and is the row's
last, and confirming needs to know that its key and its confidence are in.  `StoreInv` is
the types, the existence of a highest slot per day (`TopExists`: the maximum taken by
`next_sequence` exists), `MoveInFlight`, `ConfirmInFlight` and the five invariants together.
The argument for the trails goes through ranks (`RankFacts`): a transition never goes back in
life, so an entry no later than its row stays so.

**Refinement** (the last part of `StoreProofs`).  The initial state maps to the initial state;
`AppendAudit` maps to `Settle`, a crash with a change in flight to `Lose`, every status
commit to `Open` or `Move`, everything else to a stutter.

**Day driver** (`DayDriverProofs`).  `DayUsesStore` shows that each step of the driver is a
step of the store, so `StoreInv` holds.  `DayInv` adds: a call in flight belongs to the job
(`CallsBelongToJob`); what is still to do is due (`TodoIsDue`); a row was unresolved on the
day it was first seen and resolved on the day it was confirmed (`RowsFollowEngine`); what a
pass has passed it need not return to (`PassesMakeProgress`, `FilesMakeProgress`); and what
a finished day leaves stands until a later day starts (`FinishedDayStands`).  The last gives
`RerunIsQuiet`, the passes give `FinishedDayMatchesEngine`, which compares the members of the
residual, not the status each shows.  `ResolutionsInv` is about the keys: the exception being
confirmed has a row, since the pass has read it, and rows stay (`RowStays`); every other key is
of a resolved exception while nothing has crashed.  The same conjunct is in `StageInv`, for a
stage names only rows it has read (`ResolutionResolvesInStages`).

**Export** (`TallyExportProofs`).  `TallyUsesStore` as above.  `TallyInv` adds: a document
posts exactly the exceptions its key names (`KeyNamesLines`, so an overwrite loses none);
what is to be closed is in a document already (`ClosingIsPosted`); and, while no run leaves its batch open
or dies, what is posted is closed or about to be by the run that posted it
(`PostedIsClosing`), so the next export, which posts CONFIRMED rows only, posts none of it.

**AI stage** (`AIStageProofs`).  `StageUsesStore` as above.  What makes writing by an old
status safe is that only the stage moves the rows while it runs, and each once: `StageInv`
adds that the questions share no row (`QuestionsAreApart`), that a row not yet written has
the status that was read of it (`ReadIsCurrent`), that a written one has the status of its
verdict (`WrittenIsTrue`), and that a call in flight confirms a row the stage has crossed off
and that is still residual (`CallsBelongToStage`).  These give `StageNeverRaises`,
`OnlyVerifiedConfirms` and `ReportIsTrue`.  `BothRowsWritten` needs that, before any crash,
the missing half of a pair is still to be written with the same verdict (`OtherHalfIsDue`),
`CallsBounded` that attempts are at most replies times `MaxAttempts` plus failures
(`CallsAreCounted`).  The groups may have any size: that pairs alone are posed is not needed.

**Rules** (`RuleProofs`).  From `ConfigAssumption` alone: on every calendar the loader
accepts the walk to the next working day ends within `_MAX_CALENDAR_STEPS`, so that the code's
`ValueError` behind the loop cannot be raised (every 7 days past the holidays hold a worked weekday,
`WeekHasWorkedDay`, and the window has fewer days than the bound, `WorkingDayWithinReach`);
it returns the first working day there is; the walk of up to four working days from a
settlement to its credit ends too (`SettlementWalkTerminates`); and the engine's T+0 comparison
of a settlement date says exactly that no working day lies in between.  The lemmas beside them
are about sums over rows, rounding half to even, and what a score of `fuzzy_utr.py` can come to.

**Configuration.**  Some theorems about the engine hold of the weights in
`config/thresholds.yaml` and not of every configuration `config.py` loads.  What they need is
named, stated beside the operators it is about, and evaluated for the values of that file by
every run of the engine (`MCConfiguration`, `MCVerifierConfiguration`):

| Hypothesis | Says | In the repository |
|---|---|---|
| `CyclesAreShort` | settlement cycles are T+4 or less | T+1, T+2, T+3 (`config/calendar_v1.yaml:50`) |
| `AmountDecides` | no score of P8 suffices without the amount | .50 and .30 against .85; .40 against .90 |
| `MostOfTheUtr` | with the amount, 13/16 of what a narration kept of its UTR must agree | .50, .30, .20 against .85 |
| `PrefixesAreCompared` | `_shares_utr_prefix` calls nothing a prefix that P8 would not look at | 6 characters in both |
| `UtrsApart` | no UTR is nearly another | 16 characters of a SHA-256 (`gen/lifecycle.py:109`) |
| `UtrsDiffer` | no two batches of a data set have one UTR | the same hash, of a batch's profile, date and id; of files from elsewhere it is asked, for ingest does not |
| `ResidualDecides` | engine and verifier tolerate the same residual; without fresh data the residual decides | 1.00 in both; .40 + .20 + .15 against .80, with .20 for the residual |
| `RoundingsAreTolerated` | what `rounding_residual` takes off or adds is tolerated | 1 to 99 paise (`gen/noise.py:1185`) against 1.00 |

**Engine** (`EngineProofs`), of any data whose rows have ids of the instance
(`IdsAssumption`, `InputsAssumption`), whatever their contents.

* `EngineInv` is the types and `CreditSettlesOneBatch`, which is not inductive alone: a pass
  links what is still in the pool, so it takes `PassesTakeTheirOwn`, that during P2 and P2b what
  is left to do are batches and during P8 credits still unclaimed.
* `LinksFallDue`, for any weights and thresholds: `EvidenceInv` adds that the pool holds
  credits of the data (`PoolIsDelivered`) and that nothing is linked before the due dates are
  derived, after which they stand for the run (`LinksComeAfterDueDates`); `AcceptedFallsDue` is
  the gate of `resolve`, where a score of zero is refused.
* `BestClaimsStand`, for any weights and thresholds.  Of a batch still undecided and one settled
  by other evidence than its name, the settled one led by the margin when the credit was
  resolved (`BestClaimSoFar`); since scores are of due dates and data that stand, and what is
  decided is never undone (`PassesInOrder`), it led at the end.
* For the proofs below: a settled batch agrees with its credit (`AmountsAgree`) and, if its
  credit shows part of the UTR of a batch left without one, also in most of the UTR
  (`SharesMost`); no batch is settled by a credit that names in full one left without
  (`NamesAreServed`); each credit of the data is in the pool or has settled a batch
  (`PoolIsAccounted`); a link carries the category its amounts give it
  (`RoundingsAreNamed`), each case the one its facts give (`CasesAreClassified`); and what is
  reported is of this run's data, all of it (`Reported`).

**Generator** (`GeneratorProofs`), of any call, any number of days, profiles and payments, and
any noise.  `build_plan` has exactly as many entries as records were asked for, whatever does
not divide evenly (`PlanIsListed`); every refund finds a batch on or after its day, so the
error `assemble_batches` keeps for that case is not raised (`BatchIsFound`); each injector
keeps `GeneratorInv` (one lemma `...Keeps` per injector).  Types alone would not be inductive:
an injector samples rows by what earlier ones left, and looks up the batch and the order behind
a line.  So `GeneratorInv` also has that every line leads to a payment and to a batch of its
date, and every payment to a line, and that a batch keeps its UTR (`Wired`), that no order has more than two ledger rows, and
two that are the same (`TwiceAtMost`), that late rows are rows and rendered amounts the totals of
their batches (`Late`, `Rendered`); and, up to the stage that ends it, that each payment has one
ledger row (`Plain`) and one line (`SingleLines`), that each batch has a credit of its total
(`PaidOut`), and that nothing is late or rendered yet.  A data
set that was written has passed the self-check, and stays as checked (`Checked`).

**Engine and generator together** (`PipelineProofs`).  All of these are of any number of days
run in order on whatever the generator writes, and of any files from elsewhere, provided the
generated ids fit the instance (`[]GeneratedIdsFit`: a call draws an id for every credit; run
`pipeline` checks it as part of `PipelineTypeOK`).

| Theorem | States | Hypotheses |
|---|---|---|
| `PipelineSettlesOnce`, `PipelineLinksFallDue`, `PipelineBestClaims` | the engine's, over all days | none |
| `CleanCasesAreWhole` | `CleanCaseIsWhole` | none |
| `ConfirmedPairsStayOpen` | `ConfirmedPairsAreOpen` | none |
| `MissingCreditsAreMissing` | `MissingMeansNoCredit` | `CyclesAreShort`, `PrefixesAreCompared`, `MostOfTheUtr` |
| `LinksRestOnEvidence` | `LinkRestsOnEvidence` | `CyclesAreShort`, `PrefixesAreCompared`, `AmountDecides`, `UtrsApart`, `UtrsDiffer` |
| `StaleClaimsConfirmed` | `StaleClaimsAgree` | `CyclesAreShort`, `AmountDecides`, `ResidualDecides` |
| `PipelineIsTyped` | `PipelineTypeOK` | `CyclesAreShort`, `AmountDecides` |
| `HistoriesOnlyGrow` | `HistoriesStay` | `CyclesAreShort`, `AmountDecides` |
| `RowVariancesStayTrue` | `RowVariancesAreTrue` | these and `RoundingsAreTolerated` |
| `ResidualsStayFound` | `ResidualsAreFound` | `CyclesAreShort`, `AmountDecides` |
| `LinksStayTrue` | `LinksAreTrue` | `CyclesAreShort`, `AmountDecides`, `UtrsDiffer`, `RoundingsAreTolerated` |
| `FalseMatchesStaySplits` | `FalseMatchesAreSplits` | `CyclesAreShort`, `AmountDecides` |
| `CopiesStayNamed` | `CopiesAreNamed` | `CyclesAreShort`, `AmountDecides` |
| `ConfirmationsStay` | `ConfirmationsStand` | `CyclesAreShort`, `AmountDecides`, `UtrsDiffer` |

The last eight need all of the above at once.  `DaysInv` joins the engine's invariants, the
generator's and `HistoryInv`: each report shows what the files of its day held (its cases are
their payments, its settled batches are among theirs, its orphans are the credits that
resemble no delivered batch), and what is delivered only grows from day to day
(`DeliveriesGrow`).  An orphan that has gone was explained by a batch delivered since; that
batch stays, so the orphan does not come back (`OrphansDoNotReturn`).  `RowsAreTrue` then puts
the self-check beside the report: the rows repeated in the files are those the check counted,
and a credit made for a batch resembles it, for it is off by what the engine tolerates at most
and is never delivered before it (`BatchesComeFirst`, `WrittenIsNear`).

`LinksStayTrue` goes through what a batch has a right to: a credit of its amount and due date
whose narration, if it has any UTR, has this batch's (`Rightful`).  With everything delivered its
own credit is one (`OwnIsRightful`: `Marked` says what each row of the generator keeps of its
chain, whatever the noise).  No batch ever takes a credit that is by rights an undecided other
one's (`ClaimLeavesRights`): the other would have been named, or have scored as high and left no
margin.  So nothing a settled batch has is by rights a waiting one's (`RightsAreServed`), and of
any group of settled batches the first to be settled has a credit that is by rights none of the
others' (`NoneExchanged`).

`FalseMatchesStaySplits` and `CopiesStayNamed` need to know of each note what it says of the rows, which
`GeneratorInv` does not tell; `NotesInv` does.  What a payment captured is at most what was
authorized, and what its one or two lines add up to (`Whole`); none settles before it is due, and
those that settle later are the ones noted as delayed or split (`Timely`); a copied order is in
the ledger once, is not refunded and is like another order (`CopiesMatch`); and until the
injectors are past the partial captures nothing else is noted (`FirstNotes`).  Beside `DaysInv`
and `Marked` this is `NotedInv`, which is inductive.  On complete data the facts of a case are
those of the payment as written (`WholePaymentsAgree`), its timing component is a late line
(`DeferredIsTiming`) and a candidate an order like another (`CandidatesAreRepeated`); so the
components explain the whole variance and `_classify_case` calls a case short, or else late, or
neither (`ExplainedVerdict` in `RuleProofs`, by sums of one and of two components).  The truth,
by precedence, calls it split before it calls it short or late (`TruthIsKnown`); a copy has a
category that would come in between, but is open.  The two differ on the splits only
(`SplitsAreMistaken`).  A confirmed
nomination settled on fewer lines than the other order (`NominationVerified`), and no order does
than a copy that was not split, which has one line (`CopiesSettleLeast`).

`ConfirmationsStay` compares two reports of different days, so its invariant `ConfirmedInv` says
more of each report than `HistoryInv` does (`SaidInv`): every case is the verdict of
`_classify_case` on the files of that day, every link is to a credit of the batch's amount, and
a batch has the credit that alone names it in full.  The last is true of a run because until P2b
has come to the batch that credit is in the pool and the batch undecided (`NamingInv`: no other
batch has that UTR, so none takes the credit by name, and P8 comes after).  Of a later day a case
has the same payment, as much or more settled, never more than captured (`MoreIsSettled`), so
what was within the tolerance stays so (`ConfirmedMeansSettled`); and a ledger row comes with its
copy, so an order is a candidate only if it is one of the whole ledger (`CandidatesStay`).  Of a
later day the credit still names the batch alone: a narration never has another batch's UTR, and
the credits of the orphans have none (`CreditsNameTheirOwn`, from `Marked` and `NamelessInv`).

**What the proofs changed.**  Two properties turned out to be stronger than what the code
does, in cases the instance of the run did not have; they were corrected, and the instance
has these cases now.  `ConfirmedPairsAreOpen` excepts pairs one order of which has a ledger row
to the letter the same as another: the engine asks no further about such an order, the
verifier does.  `ConfirmationsStand` excepts orders that resemble another by chance, since the
generator draws customer and amount at random (`gen/lifecycle.py:461,467`): the second of them
may be of a later day.  `LinksAreTrue` said that a settled batch whose own credit settles
another has the credit of an orphan; but an orphan that settles one batch early sets its credit
free for a second batch, whose own credit in turn has lost its UTR.  It says now what holds of
such chains: each ends at a credit nobody stands behind or at a batch that waits, and none
closes.  And a draw named a customer whatever the profile, where the code forms the id from
the profile's name; no draw of the instance did so, but no theorem could tell.

**Only model-checked.**  `OnlyBadLuckRefuses`, the two liveness properties, and the seven violations.
The first compares sums over the lines of every batch before and after each injector.
Out of reach of the prover are liveness under fairness, ENABLED, and induction over
data; sums over rows are proved about by one step of the library's fold at a time.  The
inductive invariants were checked with TLC before they were proved.

## 5. Findings

Seven places where the code does not do what a document or a comment of the repository says:

1. **A status change without its entry** (`store_crash_audit`).  `_transition` commits the
   status (`store.py:709`), then `append_audit` commits the entry (`store.py:625`).
   `types.py:467` promises one entry per status change, the comment at `store.py:721` one
   transaction.  After a crash in between, nothing writes the entry later.
2. **A replay that repairs nothing** (`day_crash_replay`).  The key of a resolution is
   committed first (`store.py:768`); a crash before the status leaves a row open that every
   re-run passes over (`store.py:769`), while SDD 4.7 has each day close what now verifies.
3. **An orphan that never leaves the queue** (`day_endpoint`).  A credit reported on one day
   and accounted for by a batch on a later one is no longer reported, so `reevaluate_open`
   skips it (`store.py:908`) and its row stays OPEN; the README's endpoint says the store holds
   what a single-shot run reports.
4. **A second posting after a crash** (`export_crash_repost`).  The rows left CONFIRMED by a
   dead exporter are exported again, with what was confirmed since, under another key;
   PDD 7.5 promises no second posting candidate.
5. **One name, two documents** (`export_rewrite`).  `clearedCount` and the categories are in
   the document and not in its key; a row that is confirmed and has cleared changes the
   document under an unchanged name, where `tally.py:496` says a rewrite is byte-identical
   and `tally.py:40` that everything the header states is hashed.
6. **Half a pair** (`pair_crash`).  The verdict on a pair is written on one row after the
   other (`ai/pairing.py:204`).  After a crash in between, the row left behind is alone in
   its group, so no later stage asks about it (`pairing.py:131`); `pairing.py:179` says that
   both rows are written.
7. **A credit in no table** (`credit_unreported`).  A leftover credit is an orphan only if no
   delivered batch resembles it, batches that have their credit included
   (`engine.py:697`); a second credit of a settled batch's amount is then neither linked nor
   reported.  `exact.py:130` says an unclaimed credit is an orphan and becomes a row variance.

Seen while modelling, and allowed for in the properties rather than counted as findings:

* The engine has no rule for split settlements.  It confirms one as `PARTIAL_CAPTURE` if less
  was captured than authorized and as `T_PLUS_N_TIMING` otherwise, while `dominant_category`
  ranks `SPLIT_SETTLEMENT` above both: a false match each time, unless the order is a duplicate
  candidate and its case open.  `LIMITATIONS.md:5-18` reports it of seed 999 (52 false matches,
  48 and 4).  `FalseMatchesAreSplits` says that these are the only ones; both kinds occur in the
  run.
* `confirm_exception` commits its key before it looks the row up (`store.py:768-774`).  Of an
  exception never opened the key stays behind a `StoreError`, without any crash, and once the row
  is opened every confirmation with that evidence is taken for a replay.  No program here does
  so, which is what `ResolutionResolves` says of them.
* A row opened as PENDING_EVIDENCE keeps that status when its credit becomes overdue, and a
  confirmed row stays confirmed when the engine takes its verdict back; both rows are where
  `FinishedDayMatchesEngine` looks for them, or left aside by it (`Steady`).
* `evaluate_assertion` applies the tolerance to `==` only, and nothing looks at the residual of
  another comparison, so `bank.amount >= batch.net_total` is verified however far the two are
  apart; the remaining weights sum to the threshold of 0.80 exactly, so on fresh data it is
  confirmed as well.  SDD 4.5 has the verifier check the residual.  An assertion between two
  literals is verified too.  The wiring sends the model duplicates only, which take the other
  path; `StaleClaimsAgree` states what does hold.
* A duplicate nomination compares the lines settled so far.  Before all lines have come it may
  name the original, and does if the copy's line came first; a copy that is split does the same
  for ever.  `CopiesAreNamed` is about complete data and makes an exception of splits.
* Path B of the matcher scores amount and date alone and may accept a credit that names
  another batch, if that one has its credit or is not yet due (`LinkRestsOnEvidence`); an
  orphan of the right amount may settle a batch whose own credit lost its UTR (`LinksAreTrue`).
* P2b confirms a credit that is late but names its batch, with no category.
* Which credit P8 resolves first depends on the credits' ids, which are hashes.
* A batch none of whose lines has been delivered is due on its settlement date.
* Noise may leave a batch with nothing to pay out; it is written all the same.
* `mixed_amount_formats` renders an amount before `rounding_residual` changes it, so the file
  lacks the residual the truth notes (`run_eval.py:275` says so); `ResidualsAreFound` leaves
  these credits aside.

## 6. Not modelled

* In the store, day driver, export and AI stage: amounts, categories, reasons and evidence
  contents of rows.  XML, HTML and file formats: no property reads them.
* `link_refunds` and `duplicates.classify`, which the engine never calls; reason strings,
  per-link confidences and telemetry.
* Parsing of amounts, dates, headers and YAML; `merchant_name_variants`, which rewords the
  narration around the UTR; the AI settings of the configuration and its hash; the check that
  all dates fall in one year.
* The generator's random draws (every outcome within the instance is tried instead) and its
  lower bounds on some injectors (`MinUnexplainable`, `MinRounding`), set to zero so that small
  data sets may go without.  One value each for the share captured, split or imitated.
* The store's and the queue's read views (`get_queue`, `residual_sequence`): they select and
  sort rows and change nothing.
* The AI stage's order of rows, its caller's own choice of rows (`rows`), prompts and schema
  validation; the counters of its report, which follow from the verdicts.
* A day run after a later one: no caller in the repository does it.  The store module does
  allow calls with days in any order.
* Two programs on one database at a time.
* The evaluation's ratios, baselines and benchmarks; rendering: no state, and no decision.

## 7. Plan

Done: the store, its refinement, the day driver, the export, the AI stages; the engine with
all its passes, the generator with its truth, the verifier, and their composition; with the
proofs above.  What would come next:

1. `System`: days, AI stages and export taking turns on one store, over the theorems that
   each acts through `StoreNext`, with the engine of `Pipeline` in place of the verdict
   histories.
2. `QueueViews`: `residual_sequence` against the history of the rows.
3. A proof of `OnlyBadLuckRefuses`, whose parts are sums over lines.
4. The evaluation's metrics as operators, with their totals against the populations.
