----------------------------- MODULE CaseRules -----------------------------
(***************************************************************************)
(* What the engine decides about ledger rows and payments: duplicates      *)
(* (P7a, P7b), the lines each payment settled on (P1), and the category of *)
(* each payment's case (P3, P4, P6, P9).                                   *)
(*                                                                         *)
(* A data set is a record of tables, each a function from row ids; ids are *)
(* numbers in the order the code sorts its rows.                           *)
(*   ledger:   order, customer, gross, invoice, date (and nothing else)    *)
(*   payments: order, method, authorized, captured, capturedAt             *)
(*   refunds:  payment, amount, created                                    *)
(*   lines:    type, payment, refund, batch, gross, fee, tax, net, settled *)
(*   batches:  utr, net, settled                                           *)
(*   bank:     direction, amount, valueDate, token                         *)
(***************************************************************************)
EXTENDS FuzzyUtr

CONSTANT
    CustomerProfile   \* the profile a customer id carries

NoProfile == "NONE"

(* Sorted ids: the first and the last of a set. *)
First(ids) == CHOOSE i \in ids : \A j \in ids : i =< j
Last(ids) == CHOOSE i \in ids : \A j \in ids : j =< i

SumOf(table, ids, field) == MapThenSumSet(LAMBDA i : table[i][field], ids)

(* The dataclasses of the rows: amounts are decimals, dates are dates.  A  *)
(* UTR and a narration are any text, and stand for what of them is kept.   *)
RowIds(table) == DOMAIN table \subseteq Nat /\ IsFiniteSet(DOMAIN table)

Typed(d) ==
    /\ RowIds(d.ledger) /\ RowIds(d.payments) /\ RowIds(d.refunds)
    /\ RowIds(d.lines) /\ RowIds(d.batches) /\ RowIds(d.bank)
    /\ \A i \in DOMAIN d.ledger : d.ledger[i].gross \in Int /\ d.ledger[i].date \in Int
    /\ \A p \in DOMAIN d.payments :
          /\ d.payments[p].authorized \in Int /\ d.payments[p].captured \in Int
          /\ d.payments[p].capturedAt \in Int
    /\ \A r \in DOMAIN d.refunds : d.refunds[r].amount \in Int /\ d.refunds[r].created \in Int
    /\ \A l \in DOMAIN d.lines :
          /\ d.lines[l].gross \in Int /\ d.lines[l].fee \in Int /\ d.lines[l].tax \in Int
          /\ d.lines[l].net \in Int /\ d.lines[l].settled \in Int
    /\ \A b \in DOMAIN d.batches :
          /\ d.batches[b].utr \in Utrs
          /\ d.batches[b].net \in Int /\ d.batches[b].settled \in Int
    /\ \A c \in DOMAIN d.bank :
          /\ d.bank[c].token \in Tokens
          /\ d.bank[c].amount \in Int /\ d.bank[c].valueDate \in Int

-----------------------------------------------------------------------------
(* find_confirmed_duplicates: every ledger row whose content equals that   *)
(* of an earlier row, one verdict each.                                    *)
ConfirmedDuplicates(ledger) ==
    {r \in DOMAIN ledger : \E o \in DOMAIN ledger : o < r /\ ledger[o] = ledger[r]}

ConfirmedOrders(ledger) == {ledger[r].order : r \in ConfirmedDuplicates(ledger)}

(* find_candidate_duplicates: orders of one customer at one amount, the    *)
(* orders with a confirmed duplicate left aside.                           *)
CandidateOrders(ledger) ==
    LET rows == {r \in DOMAIN ledger : ledger[r].order \notin ConfirmedOrders(ledger)}
    IN  {ledger[r].order : r \in
            {s \in rows : \E o \in rows :
                /\ ledger[o].order # ledger[s].order
                /\ ledger[o].customer = ledger[s].customer
                /\ ledger[o].gross = ledger[s].gross}}

-----------------------------------------------------------------------------
(* _profile_of an order; NoProfile where it raises. *)
ProfileOf(data, order) ==
    LET rows == {r \in DOMAIN data.ledger : data.ledger[r].order = order}
    IN  IF rows = {} THEN NoProfile
        ELSE CustomerProfile[data.ledger[Last(rows)].customer]

(* link_payments_to_settlements: the lines of a payment, of either type,   *)
(* and the payment lines among them.                                       *)
SettlementLines(data, p) == {l \in DOMAIN data.lines : data.lines[l].payment = p}
PaymentLines(data, p) ==
    {l \in SettlementLines(data, p) : data.lines[l].type = "PAYMENT"}

(* build_cases: the facts a case is classified on. *)
SettledGross(data, p) == SumOf(data.lines, PaymentLines(data, p), "gross")
SettledDates(data, p) == {data.lines[l].settled : l \in PaymentLines(data, p)}

CaseFacts(data, p) ==
    LET payment == data.payments[p]
        fee == Fee(payment.captured, payment.method, ProfileOf(data, payment.order))
        refunded == {r \in DOMAIN data.refunds : data.refunds[r].payment = p}
    IN  [payment |-> payment,
         settledGross |-> SettledGross(data, p),
         settledDates |-> SettledDates(data, p),
         hasLines |-> SettlementLines(data, p) # {},
         expectedNet |-> ExpectedNet(payment.captured, fee, Gst(fee),
                            SumOf(data.refunds, refunded, "amount"))]

(* build_cases raises EngineError: a payment whose order has no ledger     *)
(* row, or whose customer id names no configured profile.                  *)
CasesRefused(data) ==
    \E p \in DOMAIN data.payments :
        ProfileOf(data, data.payments[p].order) \notin Profiles

-----------------------------------------------------------------------------
TimingToleranceDays == 0   \* TIMING_TOLERANCE_DAYS

(* What was authorised and never captured. *)
UncapturedComponent(facts) ==
    IF facts.payment.authorized > facts.payment.captured
    THEN {Component("PARTIAL_CAPTURE", facts.payment.authorized - facts.payment.captured)}
    ELSE {}

(* Deviation: the first of a payment's settlement dates is compared. *)
TimingComponentFirst(facts) ==
    IF facts.settledDates # {}
         /\ ~IsTimingExplained(SettlementLineDue(facts.payment.capturedAt),
                First(facts.settledDates), TimingToleranceDays)
    THEN {Component("T_PLUS_N_TIMING", 0)} ELSE {}

(* The last of a payment's settlement dates is not its due date. *)
TimingComponent(facts) ==
    IF facts.settledDates # {}
         /\ ~IsTimingExplained(SettlementLineDue(facts.payment.capturedAt),
                Last(facts.settledDates), TimingToleranceDays)
    THEN {Component("T_PLUS_N_TIMING", 0)} ELSE {}

(* Deviation: a case whose settlement lines have not come is confirmed. *)
ClassifyCaseEager(facts, isCandidate) ==
    LET direct == UncapturedComponent(facts) \union TimingComponent(facts)
        remainder == IF facts.hasLines
                     THEN Unexplained(facts.payment.authorized - facts.settledGross, direct)
                     ELSE 0
    IN  [status |-> IF remainder # 0 \/ isCandidate THEN "OPEN" ELSE "CONFIRMED",
         category |-> IF remainder # 0 THEN "UNEXPLAINED" ELSE Headline(direct),
         variance |-> facts.payment.authorized - facts.settledGross]

(* _classify_case: what accounts for the difference between authorised and *)
(* settled money; a remainder within tolerance is a rounding difference.   *)
(* A case stays OPEN while money is unaccounted for, while its order may   *)
(* be a duplicate, and while it has no settlement line.                    *)
ClassifyCase(facts, isCandidate) ==
    LET total == facts.payment.authorized - facts.settledGross
        direct == UncapturedComponent(facts) \union TimingComponent(facts)
                    \union (IF isCandidate THEN {Component("DUPLICATE_CANDIDATE", 0)} ELSE {})
        remainder == Unexplained(total, direct)
        isRounding == remainder # 0 /\ Magnitude(remainder) =< RoundingTolerance
        components == direct \union
            (IF isRounding THEN {Component("ROUNDING_DIFFERENCE", remainder)} ELSE {})
        unexplained == Unexplained(total, components)
    IN  [status |-> IF unexplained # 0 \/ isCandidate \/ ~facts.hasLines
                    THEN "OPEN" ELSE "CONFIRMED",
         category |-> IF unexplained # 0 THEN "UNEXPLAINED" ELSE Headline(components),
         variance |-> total]

=============================================================================
