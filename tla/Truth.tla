------------------------------- MODULE Truth -------------------------------
(***************************************************************************)
(* The dataset generator, last part: the ground truth, derived from what   *)
(* the injectors noted, the self-check over data and truth, and main,      *)
(* which writes nothing unless the check finds nothing.                    *)
(***************************************************************************)
EXTENDS Noise

(* CATEGORY_PRECEDENCE, of the categories an injector notes. *)
CategoryPrecedence ==
    <<"UNEXPLAINED", "MISSING_VS_LATE_CREDIT", "SPLIT_SETTLEMENT", "UTR_MISSING_MAPPING",
      "UTR_TRUNCATED_MAPPING", "DUPLICATE_CANDIDATE", "DUPLICATE_CONFIRMED",
      "PARTIAL_CAPTURE", "T_PLUS_N_TIMING", "ROUNDING_DIFFERENCE">>

(* NoiseLedger.by_target *)
Noted(kind, target) == {a \in notes : a.kind = kind /\ a.target = target}

(* The targets of one injector's notes. *)
TargetsOf(noise, category) ==
    {a.target : a \in {n \in notes : n.noise = noise /\ n.category = category}}

(* dominant_category *)
DominantCategory(annotations) ==
    LET present == {a.category : a \in annotations}
        ranks == {k \in DOMAIN CategoryPrecedence : CategoryPrecedence[k] \in present}
    IN  IF ranks = {} THEN NoCategory ELSE CategoryPrecedence[First(ranks)]

Variance(annotations) == MapThenSumSet(LAMBDA a : a.amount, annotations)

(* build_truth: a case for each payment and a link for each batch, the     *)
(* credit of which is the one generated with it; rows in neither           *)
(* population have a table of their own.                                   *)
TruthCase(p) ==
    [category |-> DominantCategory(Noted("case", p)),
     variance |-> Variance(Noted("case", p)),
     resolvable |-> \A a \in Noted("case", p) : a.resolvable]

TruthLink(b) ==
    [credit |-> IF b \in DOMAIN rows.bank THEN b ELSE 0,
     category |-> DominantCategory(Noted("batch_link", b)),
     variance |-> Variance(Noted("batch_link", b)),
     resolvable |-> \A a \in Noted("batch_link", b) : a.resolvable]

TruthRows == {a \in notes : a.kind \in {"ledger_row", "bank_row"}}

-----------------------------------------------------------------------------
(* run_self_check: the numbered assertions, each a check that may fail.    *)
Total(table, field) == SumOf(table, DOMAIN table, field)

LinesOf(b) == {l \in DOMAIN rows.lines : rows.lines[l].batch = b}
TypesIn(b) == {rows.lines[l].type : l \in LinesOf(b)}
Banked == DOMAIN rows.batches \intersect DOMAIN rows.bank
Unbanked == TargetsOf("unexplainable", "MISSING_VS_LATE_CREDIT")
OrphanNotes == TargetsOf("unexplainable", "UNEXPLAINED")

Residual(b) ==
    Variance({a \in Noted("batch_link", b) : a.noise = "rounding_residual"})

(* 1: no order has two payments.  The other edges are functions of the     *)
(* rows they start from.                                                   *)
EdgesRespectCardinality ==
    \A p, q \in DOMAIN rows.payments :
        rows.payments[p].order = rows.payments[q].order => p = q

SplitsAreMarked ==
    \A p \in DOMAIN rows.payments :
        Cardinality(PaymentLines(rows, p)) >= 2 => TruthCase(p).category = "SPLIT_SETTLEMENT"

(* 6 *)
ChainsBalance ==
    \A p \in DOMAIN rows.chains :
        LET chain == rows.chains[p]
        IN  chain.net - chain.refund = chain.captured - chain.fee - chain.tax - chain.refund

(* 7 *)
BatchesHaveLines == \A b \in DOMAIN rows.batches : LinesOf(b) # {}

BatchesSumTheirLines ==
    \A b \in DOMAIN rows.batches :
        LinesOf(b) # {} =>
            rows.batches[b].net = SumOf(rows.lines, LinesOf(b), "net")

SomeBatchMixes == \E b \in DOMAIN rows.batches : TypesIn(b) = {"PAYMENT", "REFUND"}

(* 7a *)
CreditsFollowBatches ==
    /\ Cardinality(Banked) = Cardinality(DOMAIN rows.batches) - Cardinality(Unbanked)
    /\ \A b \in Banked :
          /\ rows.bank[b].amount - rows.batches[b].net = Residual(b)
          /\ Magnitude(Residual(b)) < 100

SomeRefundIsPaidOut == \E b \in Banked : "REFUND" \in TypesIn(b)

(* 7b and 8 *)
LinesAreWhole ==
    \A l \in DOMAIN rows.lines :
        LET line == rows.lines[l]
        IN  /\ line.batch \in DOMAIN rows.batches /\ line.payment \in DOMAIN rows.payments
            /\ IF line.type = "PAYMENT"
               THEN line.refund = 0 /\ line.net > 0 /\ line.net = line.gross - line.fee - line.tax
               ELSE /\ line.refund \in DOMAIN rows.refunds
                    /\ line.net = -rows.refunds[line.refund].amount
                    /\ line.gross = 0 /\ line.fee = 0 /\ line.tax = 0

BothTypesSeen == {rows.lines[l].type : l \in DOMAIN rows.lines} = {"PAYMENT", "REFUND"}

EveryPaymentHasCaseAndOrder ==
    /\ DOMAIN rows.chains = DOMAIN rows.payments
    /\ \A p \in DOMAIN rows.payments :
          \E r \in DOMAIN rows.ledger : rows.ledger[r].order = rows.payments[p].order

(* 9 *)
FeesRecompute ==
    \A l \in PaymentLineIds :
        LET line == rows.lines[l]
        IN  /\ line.fee = Fee(line.gross, rows.payments[line.payment].method, ProfileOfLine(l))
            /\ line.tax = Gst(line.fee)

(* 10 *)
MoneyIsConserved ==
    LET net == Total(rows.lines, "net")
        refunds == Total(rows.refunds, "amount")
        orphans == SumOf(rows.bank, OrphanNotes \intersect DOMAIN rows.bank, "amount")
        missing == SumOf(rows.batches, Unbanked, "net")
        residuals == Variance({a \in notes : a.noise = "rounding_residual"})
    IN  /\ Total(rows.chains, "net") - Total(rows.chains, "refund") = net
        /\ Total(rows.chains, "captured")
             = net + refunds + Total(rows.chains, "fee") + Total(rows.chains, "tax")
        /\ Total(rows.batches, "net") = net
        /\ Total(rows.bank, "amount") = net + orphans - missing + residuals

(* _account_for_noise: everything odd in the data has a note, and every    *)
(* note something odd.                                                     *)
NoiseIsAccountedFor ==
    /\ DOMAIN rows.bank \ DOMAIN rows.batches = OrphanNotes
    /\ DOMAIN rows.batches \ DOMAIN rows.bank = Unbanked
    /\ {rows.ledger[r].order : r \in {s \in DOMAIN rows.ledger : \E o \in DOMAIN rows.ledger :
           o # s /\ rows.ledger[o].order = rows.ledger[s].order}}
         = TargetsOf("duplicate_ledger_rows", "DUPLICATE_CONFIRMED")
    /\ {p \in DOMAIN rows.payments : Cardinality(PaymentLines(rows, p)) >= 2}
         = TargetsOf("split_settlement", "SPLIT_SETTLEMENT")
    /\ {p \in DOMAIN rows.payments : rows.payments[p].captured < rows.payments[p].authorized}
         = TargetsOf("partial_captures", "PARTIAL_CAPTURE")

(* 13 *)
BatchesSettleOnWorkingDays ==
    \A b \in DOMAIN rows.batches : IsWorkingDay(rows.batches[b].settled)

CreditsFallDue ==
    \A b \in Banked :
        Cardinality(Owners(b)) = 1 =>
            rows.bank[b].valueDate
              = BankValueDue(rows.batches[b].settled, CHOOSE o \in Owners(b) : TRUE)

OneOwnerEach == \A b \in Banked : Cardinality(Owners(b)) = 1

(* Noise that is random may hit a batch's last line, or the last refund. *)
BadLuck ==
    \/ ~BatchesHaveLines \/ ~SomeBatchMixes \/ ~SomeRefundIsPaidOut

(* What no noise may break. *)
BooksAreSound ==
    /\ EdgesRespectCardinality /\ SplitsAreMarked /\ ChainsBalance /\ BatchesSumTheirLines
    /\ CreditsFollowBatches /\ LinesAreWhole /\ EveryPaymentHasCaseAndOrder /\ FeesRecompute
    /\ MoneyIsConserved /\ NoiseIsAccountedFor
    /\ BatchesSettleOnWorkingDays /\ CreditsFallDue

RunSelfCheck ==
    /\ BooksAreSound
    /\ BatchesHaveLines /\ SomeBatchMixes /\ SomeRefundIsPaidOut /\ BothTypesSeen
    /\ OneOwnerEach

-----------------------------------------------------------------------------
(* verify_clean_dataset: before any noise each batch has its credit, to    *)
(* the paisa and by its UTR, each payment one line, and each refund, no    *)
(* larger than its payment, a line that does not settle before it is made. *)
VerifyCleanDataset ==
    /\ BatchesHaveLines /\ BatchesSumTheirLines /\ LinesAreWhole /\ MoneyIsConserved
    /\ EveryPaymentHasCaseAndOrder
    /\ Cardinality(DOMAIN rows.bank) = Cardinality(DOMAIN rows.batches)
    /\ \A b \in DOMAIN rows.bank :
          /\ rows.bank[b].direction = "CREDIT"
          /\ CarriesUtr(rows.bank[b].token, rows.batches[b].utr)
          /\ rows.bank[b].amount = rows.batches[b].net
    /\ \A l \in DOMAIN rows.lines : rows.lines[l].settled = rows.batches[rows.lines[l].batch].settled
    /\ \A p \in DOMAIN rows.payments : Cardinality(PaymentLines(rows, p)) = 1
    /\ \A r \in DOMAIN rows.refunds :
          LET paidOut == {l \in DOMAIN rows.lines : rows.lines[l].refund = r}
          IN  /\ Cardinality(paidOut) = 1
              /\ \A l \in paidOut : rows.lines[l].settled >= rows.refunds[r].created
              /\ rows.refunds[r].amount =< rows.payments[rows.refunds[r].payment].captured

(* main: the clean data are verified and checked against their own truth.  *)
VerifyClean ==
    /\ stage = "VERIFY"
    /\ stage' = IF VerifyCleanDataset /\ RunSelfCheck THEN NoiseOrder[1] ELSE "REFUSED"
    /\ UNCHANGED <<call, rows, notes, lags, texts>>

(* main: the noisy data and their truth are written, or nothing is. *)
CheckAndWrite ==
    /\ stage = "TRUTH"
    /\ stage' = IF RunSelfCheck THEN "WRITTEN" ELSE "REFUSED"
    /\ UNCHANGED <<call, rows, notes, lags, texts>>

GeneratorNext == BuildClean \/ VerifyClean \/ ApplyNoise \/ CheckAndWrite

-----------------------------------------------------------------------------
(* _write_csv: an amount rendered by mixed_amount_formats is written as it *)
(* was then, whatever has become of it since.                              *)
WrittenAmount(c) == IF c \in DOMAIN texts THEN texts[c] ELSE rows.bank[c].amount

(* The credits as written, by the ids they are written under. *)
CreditId(c) == call.creditIds[c]
WrittenBank ==
    LET ids == {CreditId(c) : c \in DOMAIN rows.bank}
        credit(id) == CHOOSE c \in DOMAIN rows.bank : CreditId(c) = id
    IN  [id \in ids |-> [rows.bank[credit(id)] EXCEPT !.amount = WrittenAmount(credit(id))]]

(* _bucket: the delivery day of a row dated on a day. *)
ArrivalDay(table, i, date) ==
    date - BaseDate + 1 + (IF <<table, i>> \in DOMAIN lags THEN lags[<<table, i>>] ELSE 0)

Chosen(table, ids) == [i \in ids |-> table[i]]

(* The rows of the files whose delivery day is one of these. *)
FilesOf(IsDelivered(_)) ==
    LET arrived(table, i, date) == IsDelivered(ArrivalDay(table, i, date))
        credits == {c \in DOMAIN rows.bank : arrived("bank", c, rows.bank[c].valueDate)}
    IN  [ledger   |-> Chosen(rows.ledger,
                        {i \in DOMAIN rows.ledger : arrived("ledger", i, rows.ledger[i].date)}),
         payments |-> Chosen(rows.payments,
                        {i \in DOMAIN rows.payments :
                            arrived("payments", i, rows.payments[i].capturedAt)}),
         refunds  |-> Chosen(rows.refunds,
                        {i \in DOMAIN rows.refunds : arrived("refunds", i, rows.refunds[i].created)}),
         lines    |-> Chosen(rows.lines,
                        {i \in DOMAIN rows.lines : arrived("lines", i, rows.lines[i].settled)}),
         batches  |-> Chosen(rows.batches,
                        {i \in DOMAIN rows.batches : arrived("batches", i, rows.batches[i].settled)}),
         bank     |-> Chosen(WrittenBank, {CreditId(c) : c \in credits})]

(* Deviation: only the files of the day itself are read. *)
DeliveredOn(arrivalDay) == FilesOf(LAMBDA d : d = arrivalDay)

(* write_dataset, read back by cumulative_dataset: merge_days of the days  *)
(* up to this one.                                                         *)
DeliveredBy(arrivalDay) == FilesOf(LAMBDA d : d =< arrivalDay)

-----------------------------------------------------------------------------
Stages == {"IDLE", "BUILD", "VERIFY", "FAILED", "REFUSED", "WRITTEN"}
            \union {NoiseOrder[k] : k \in DOMAIN NoiseOrder}

NoteTypes ==
    [noise : {NoiseOrder[k] : k \in DOMAIN NoiseOrder},
     kind : {"case", "batch_link", "ledger_row", "bank_row"}, target : Nat \ {0},
     category : {CategoryPrecedence[k] : k \in DOMAIN CategoryPrecedence},
     resolvable : BOOLEAN, amount : Int]

(* The variables hold what main keeps while it builds a data set; whatever *)
(* is annotated, delayed or rendered is a row of it, unless it has since   *)
(* been withheld.                                                          *)
GeneratorTypeOK ==
    /\ stage \in Stages
    /\ notes \subseteq NoteTypes
    /\ DOMAIN rows.chains = DOMAIN rows.payments
    /\ \A at \in DOMAIN lags :
          /\ lags[at] \in 1 .. 2
          /\ at \in {<<"lines", l>> : l \in DOMAIN rows.lines}
                    \union {<<"bank", c>> : c \in DOMAIN rows.batches}
                    \union {<<"refunds", r>> : r \in DOMAIN rows.refunds}
    /\ DOMAIN texts \subseteq DOMAIN rows.batches

(* Noise never breaks the books: a data set is refused only because chance *)
(* took a batch's last line or left no refund to be paid out, never for a  *)
(* sum, a fee, a date or a note that went wrong on the way through the     *)
(* injectors (apply_noise, run_self_check).                                *)
OnlyBadLuckRefuses == stage = "REFUSED" => BadLuck /\ BooksAreSound

=============================================================================
