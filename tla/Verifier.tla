------------------------------ MODULE Verifier ------------------------------
(***************************************************************************)
(* What becomes of a hypothesis of the model: verify recomputes it from    *)
(* the data, compute_confidence scores the result, should_auto_confirm     *)
(* lets it confirm or not.  Whatever the model says is possible, so a      *)
(* hypothesis is any record of                                             *)
(*   category, candidate, evidence (a sequence of row references),         *)
(*   assertion (at most one of lhs, op, rhs), claimed (at most one amount) *)
(* Data sets are as CaseRules describes them.  A ledger row is referred to *)
(* by its order, any other row by its id.                                  *)
(***************************************************************************)
EXTENDS CaseRules

CONSTANTS
    VerifierTolerance,   \* tolerance.verifier_rupees, in paise
    Confidence           \* confidence: the weights and auto_confirm

ConfidenceTerms == {"passed", "within", "completeness", "separation", "freshness"}

(* load_thresholds, its confidence section: the weights sum to one. *)
ValidConfidence ==
    /\ Confidence \in [ConfidenceTerms \union {"auto_confirm"} -> Int]
    /\ MapThenSumSet(LAMBDA t : Confidence[t], ConfidenceTerms) = Unit
    /\ Confidence.auto_confirm \in UnitInterval
    /\ VerifierTolerance \in Nat \ {0}

ASSUME ConfidenceAssumption == ValidConfidence

Reference(table, id) == [table |-> table, id |-> id]

(* _row_index: the rows that go by a reference, of which the last is read. *)
RowsNamed(d, ref) ==
    IF ref.table = "ledger" THEN {r \in DOMAIN d.ledger : d.ledger[r].order = ref.id}
    ELSE {ref.id} \intersect DOMAIN d[ref.table]

Refused == [passed |-> FALSE, residual |-> {}, separation |-> 0]
Passed(residual) == [passed |-> TRUE, residual |-> {residual}, separation |-> 1]

-----------------------------------------------------------------------------
(* FIELD_GRAMMAR *)
Grammar(table) ==
    CASE table = "ledger" -> {"gross"}
      [] table = "payments" -> {"authorized", "captured"}
      [] table = "refunds" -> {"amount"}
      [] table = "lines" -> {"gross", "fee", "tax", "net"}
      [] table = "batches" -> {"net"}
      [] table = "bank" -> {"amount"}

(* A term of an assertion is a field of a row, or a literal amount. *)
Field(table, field) == [literal |-> {}, table |-> table, field |-> field]

(* _by_table: of the rows cited of one table the last is read. *)
CitedRows(d, evidence, table) ==
    UNION {RowsNamed(d, evidence[i]) : i \in {j \in DOMAIN evidence : evidence[j].table = table}}

(* resolve_field: the value a term stands for; none where it raises. *)
Values(d, evidence, term) ==
    IF term.literal # {} THEN term.literal
    ELSE LET cited == CitedRows(d, evidence, term.table)
         IN  IF cited = {} \/ term.field \notin Grammar(term.table) THEN {}
             ELSE {d[term.table][Last(cited)][term.field]}

(* evaluate_assertion: an equality holds within tolerance, any other       *)
(* comparison to the paisa.                                                *)
Holds(left, op, right) ==
    CASE op = "==" -> Magnitude(left - right) =< VerifierTolerance
      [] op = "!=" -> left # right
      [] op = "<"  -> left < right
      [] op = "<=" -> left =< right
      [] op = ">"  -> left > right
      [] op = ">=" -> left >= right

(* _verify_arithmetic: the assertion holds, and a residual the hypothesis  *)
(* claims is the one the data give.                                        *)
VerifyArithmetic(h, d) ==
    LET compared(a) == Values(d, h.evidence, a.lhs) \X Values(d, h.evidence, a.rhs)
        residuals == UNION {{pair[1] - pair[2] :
            pair \in {q \in compared(a) : Holds(q[1], a.op, q[2])}} : a \in h.assertion}
    IN  IF residuals = {} \/ ~(h.claimed \subseteq residuals) THEN Refused
        ELSE Passed(CHOOSE r \in residuals : TRUE)

-----------------------------------------------------------------------------
(* _chain_length: the settlement lines of an order's payments. *)
ChainLength(d, order) ==
    Cardinality(UNION {SettlementLines(d, p) :
        p \in {q \in DOMAIN d.payments : d.payments[q].order = order}})

(* The ledger row of an order. *)
LedgerRow(d, order) == d.ledger[Last(RowsNamed(d, Reference("ledger", order)))]

(* Deviation: two orders of one amount are alike, whoever bought. *)
AlikeInGross(d, o1, o2) == LedgerRow(d, o1).gross = LedgerRow(d, o2).gross

Alike(d, o1, o2) ==
    /\ LedgerRow(d, o1).customer = LedgerRow(d, o2).customer
    /\ LedgerRow(d, o1).gross = LedgerRow(d, o2).gross

(* Deviation: chains that are equally long do not stop a nomination. *)
SettledNoMore(d, nominated, other) == ChainLength(d, nominated) =< ChainLength(d, other)

SettledLess(d, nominated, other) == ChainLength(d, nominated) < ChainLength(d, other)

(* _verify_duplicate_candidate: two orders of one customer at one amount,  *)
(* and the one nominated settled on fewer lines than the other.            *)
VerifyDuplicate(h, d) ==
    LET cited == {i \in DOMAIN h.evidence : h.evidence[i].table = "ledger"}
        pair == {h.evidence[i].id : i \in cited}
    IN  IF /\ Cardinality(cited) = 2 /\ Cardinality(pair) = 2
           /\ h.candidate \in pair
           /\ \A other \in pair \ {h.candidate} :
                 Alike(d, h.candidate, other) /\ SettledLess(d, h.candidate, other)
        THEN Passed(0) ELSE Refused

(* verify: every row cited is there, and at least one is; a duplicate is   *)
(* verified by its structure, anything else by its assertion.              *)
Verify(h, d) ==
    IF h.evidence = <<>> \/ \E i \in DOMAIN h.evidence : RowsNamed(d, h.evidence[i]) = {}
    THEN Refused
    ELSE IF h.category = "DUPLICATE_CANDIDATE" THEN VerifyDuplicate(h, d)
    ELSE VerifyArithmetic(h, d)

-----------------------------------------------------------------------------
One(condition) == IF condition THEN 1 ELSE 0

(* The score, in units of a ten-thousandth, halves rounded up. *)
Quantised(score) == 100 * ((score + 50) \div 100)

(* Deviation: any residual the verifier computed counts as within. *)
ConfidenceOfKnownResidual(result, freshness) ==
    Quantised(
          Confidence.passed * One(result.passed)
        + Confidence.within * One(result.residual # {})
        + Confidence.completeness
        + Confidence.separation * result.separation
        + Confidence.freshness * One(freshness))

(* compute_confidence, of a result that passed: its evidence is complete.  *)
ConfidenceOf(result, freshness) ==
    Quantised(
          Confidence.passed * One(result.passed)
        + Confidence.within
            * One(\E r \in result.residual : Magnitude(r) =< VerifierTolerance)
        + Confidence.completeness
        + Confidence.separation * result.separation
        + Confidence.freshness * One(freshness))

(* should_auto_confirm, as resolve_exception asks it. *)
AutoConfirms(h, d, freshness) ==
    LET result == Verify(h, d)
    IN  result.passed /\ ConfidenceOf(result, freshness) >= Confidence.auto_confirm

(* What thresholds.yaml comes to; the loader does not ask for it.  The     *)
(* engine and the verifier take the same residual for none, and evidence   *)
(* that is not fresh confirms a residual within tolerance, and no other.   *)
ResidualDecides ==
    LET given == Confidence.passed + Confidence.completeness + Confidence.separation
    IN  /\ VerifierTolerance = RoundingTolerance
        /\ Quantised(given) < Confidence.auto_confirm
        /\ Quantised(given + Confidence.within) >= Confidence.auto_confirm

-----------------------------------------------------------------------------
(* Hypotheses the model may put forward: of two orders, one is a second    *)
(* entry of the other; a credit pays a batch, or pays it at least.         *)
Nominations(d) ==
    LET orders == {d.ledger[r].order : r \in DOMAIN d.ledger}
    IN  {[category |-> "DUPLICATE_CANDIDATE", candidate |-> nominated, assertion |-> {},
          claimed |-> {},
          evidence |-> <<Reference("ledger", o1), Reference("ledger", o2)>>] :
            nominated \in orders, o1 \in orders, o2 \in orders}

PaymentClaim(c, op, b, claimed) ==
    [category |-> "UTR_MISSING_MAPPING", candidate |-> c, claimed |-> claimed,
     assertion |-> {[lhs |-> Field("bank", "amount"), op |-> op,
                     rhs |-> Field("batches", "net")]},
     evidence |-> <<Reference("batches", b), Reference("bank", c)>>]

=============================================================================
