------------------------------- MODULE Noise -------------------------------
(***************************************************************************)
(* The dataset generator, second part: the noise injectors, each a step,   *)
(* in the fixed order of NOISE_ORDER.  An injector picks rows at random,   *)
(* changes them and notes what it did; here it picks any rows, as many as  *)
(* the call allows, and takes its other random values from samples.        *)
(***************************************************************************)
EXTENDS CleanData

CONSTANTS
    MinUnexplainable,  \* _MIN_UNEXPLAINABLE and _MIN_ROUNDING, which small
    MinRounding,       \*   instances scale down with everything else
    CapturedParts,     \* percentages of an amount a partial capture takes
    SplitParts,        \* and of a line the first part of a split takes
    KeepLengths,       \* characters a truncated UTR may keep
    GarblePositions,   \* where two characters of a UTR may be exchanged
    OrphanParts,       \* fractions of a payout an orphan credit may be
    Residuals          \* paise a credit may be off by

ASSUME SamplesAssumption ==
    /\ CapturedParts \subseteq 30 .. 90 /\ SplitParts \subseteq 30 .. 70
    /\ KeepLengths \subseteq 6 .. 10 /\ GarblePositions \subseteq 0 .. UtrLength - 2
    /\ OrphanParts \subseteq 3 .. 11 /\ Residuals \subseteq -99 .. 99 \ {0}

NoiseOrder ==
    <<"partial_captures", "duplicate_ledger_rows", "delayed_settlement", "split_settlement",
      "truncate_utr", "drop_utr", "garbled_narration", "mixed_amount_formats",
      "out_of_order_arrival", "unexplainable", "rounding_residual", "TRUTH">>

Following(name) ==
    NoiseOrder[1 + CHOOSE k \in 1 .. Len(NoiseOrder) - 1 : NoiseOrder[k] = name]

Spent == Cardinality(notes) + Cardinality(DOMAIN lags) + Cardinality(DOMAIN texts)

(* _pick: any rows, at least the minimum of them if there are so many.     *)
Picks(population, minimum) ==
    LET least == IF Cardinality(population) < minimum THEN Cardinality(population) ELSE minimum
    IN  UNION {kSubset(k, population) : k \in least .. call.maxNoise - Spent}

Note(noise, kind, target, category, resolvable, amount) ==
    [noise |-> noise, kind |-> kind, target |-> target, category |-> category,
     resolvable |-> resolvable, amount |-> amount]

(* An injector ran: the next one is due.                                   *)
Injected(name, newRows, newNotes) ==
    /\ rows' = newRows
    /\ notes' = notes \union newNotes
    /\ stage' = Following(name)
    /\ UNCHANGED <<call, lags, texts>>

PaymentLineIds == {l \in DOMAIN rows.lines : rows.lines[l].type = "PAYMENT"}

(* _resum_batches: totals follow the lines, and a batch's credit its       *)
(* total.                                                                  *)
Resummed(r) ==
    LET total == [b \in DOMAIN r.batches |->
            SumOf(r.lines, {l \in DOMAIN r.lines : r.lines[l].batch = b}, "net")]
    IN  [r EXCEPT
            !.batches = [b \in DOMAIN @ |-> [@[b] EXCEPT !.net = total[b]]],
            !.bank = [c \in DOMAIN @ |-> IF c \in DOMAIN total
                         THEN [@[c] EXCEPT !.amount = total[c]] ELSE @[c]]]

-----------------------------------------------------------------------------
(* Replace the amounts of a line or of a chain. *)
Repriced(record, priced) ==
    [record EXCEPT !.gross = priced.gross, !.fee = priced.fee, !.tax = priced.tax,
                   !.net = priced.net]

ChainOf(chain, captured, fee, tax, net) ==
    [chain EXCEPT !.captured = captured, !.fee = fee, !.tax = tax, !.net = net]

(* partial_captures: less is captured than was authorised, and everything  *)
(* is priced on what was.  Payments with a refund are left aside.          *)
PartialCaptures ==
    /\ stage = "partial_captures"
    /\ \E picked \in Picks({p \in DOMAIN rows.chains : rows.chains[p].refund = 0}, 0) :
       \E part \in [picked -> CapturedParts] :
          LET authorized(p) == rows.payments[p].authorized
              priced == [p \in picked |-> Priced((authorized(p) * part[p]) \div 100,
                                              rows.payments[p].method, rows.chains[p].profile)]
              partial == {p \in picked : priced[p].gross \in 1 .. authorized(p) - 1}
          IN  Injected("partial_captures",
                Resummed([rows EXCEPT
                  !.payments = [p \in DOMAIN @ |-> IF p \in partial
                      THEN [@[p] EXCEPT !.captured = priced[p].gross] ELSE @[p]],
                  !.chains = [p \in DOMAIN @ |-> IF p \in partial
                      THEN ChainOf(@[p], priced[p].gross, priced[p].fee, priced[p].tax,
                                   priced[p].net) ELSE @[p]],
                  !.lines = [l \in DOMAIN @ |-> IF @[l].type = "PAYMENT" /\ @[l].payment \in partial
                      THEN Repriced(@[l], priced[@[l].payment]) ELSE @[l]]]),
                {Note("partial_captures", "case", p, "PARTIAL_CAPTURE", TRUE,
                      authorized(p) - priced[p].gross) : p \in partial})

LineOf(p) == CHOOSE l \in PaymentLineIds : rows.lines[l].payment = p

(* duplicate_ledger_rows: a ledger row is repeated to the letter, or the   *)
(* customer buys the same once more, captured in full and settled in the   *)
(* same batch.                                                             *)
DuplicateLedgerRows ==
    /\ stage = "duplicate_ledger_rows"
    /\ \E picked \in Picks(DOMAIN rows.chains, 0) :
       \E copied \in SUBSET picked :
          LET copies == Ascending(copied)
              repeats == Ascending(picked \ copied)
              old == Len(rows.payments)
              repeat(i) == rows.payments[repeats[i]]
          IN  Injected("duplicate_ledger_rows",
                Resummed([rows EXCEPT
                  !.ledger = @ \o [i \in DOMAIN copies |-> @[copies[i]]]
                               \o [i \in DOMAIN repeats |-> [@[repeats[i]] EXCEPT
                                      !.order = old + i, !.invoice = old + i]],
                  !.payments = @ \o [i \in DOMAIN repeats |-> [repeat(i) EXCEPT
                                      !.order = old + i, !.authorized = repeat(i).captured]],
                  !.lines = @ \o [i \in DOMAIN repeats |-> [@[LineOf(repeats[i])] EXCEPT
                                      !.payment = old + i]],
                  !.chains = @ \o [i \in DOMAIN repeats |-> [@[repeats[i]] EXCEPT !.refund = 0]]]),
                {Note("duplicate_ledger_rows", "ledger_row", p, "DUPLICATE_CONFIRMED", TRUE,
                      rows.ledger[p].gross) : p \in copied}
                \union {Note("duplicate_ledger_rows", "case", old + i, "DUPLICATE_CANDIDATE",
                             TRUE, 0) : i \in DOMAIN repeats})

-----------------------------------------------------------------------------
(* The profile whose payments a batch pays out, if it is one profile.      *)
Owners(b) ==
    {rows.chains[rows.lines[l].payment].profile :
        l \in {k \in DOMAIN rows.lines : rows.lines[k].batch = b}}

(* The batch a profile settles n batches after b. *)
LaterBatches(b, profile, n) ==
    LET sameOwner == {o \in DOMAIN rows.batches : Owners(o) = {profile}}
        settled(o) == rows.batches[o].settled
    IN  {o \in sameOwner :
            /\ b \in sameOwner /\ settled(b) < settled(o)
            /\ Cardinality({x \in sameOwner :
                   settled(b) < settled(x) /\ settled(x) =< settled(o)}) = n}

ProfileOfLine(l) == rows.chains[rows.lines[l].payment].profile

Moved(line, b) == [line EXCEPT !.batch = b, !.settled = rows.batches[b].settled]

(* Deviation: the totals and the credits are left as they were. *)
DelayedSettlementStale ==
    /\ stage = "delayed_settlement"
    /\ \E picked \in Picks(PaymentLineIds, 0) :
       \E lag \in [picked -> 1 .. 2] :
          LET target == [l \in picked |->
                  LaterBatches(rows.lines[l].batch, ProfileOfLine(l), lag[l])]
              late == {l \in picked : target[l] # {}}
          IN  Injected("delayed_settlement",
                [rows EXCEPT !.lines = [l \in DOMAIN @ |-> IF l \in late
                    THEN Moved(@[l], CHOOSE b \in target[l] : TRUE) ELSE @[l]]],
                {Note("delayed_settlement", "case", rows.lines[l].payment, "T_PLUS_N_TIMING",
                      TRUE, 0) : l \in late})

(* delayed_settlement: a payment's line settles one or two batches late;   *)
(* without so late a batch it is left alone.                               *)
DelayedSettlement ==
    /\ stage = "delayed_settlement"
    /\ \E picked \in Picks(PaymentLineIds, 0) :
       \E lag \in [picked -> 1 .. 2] :
          LET target == [l \in picked |->
                  LaterBatches(rows.lines[l].batch, ProfileOfLine(l), lag[l])]
              late == {l \in picked : target[l] # {}}
          IN  Injected("delayed_settlement",
                Resummed([rows EXCEPT !.lines = [l \in DOMAIN @ |-> IF l \in late
                    THEN Moved(@[l], CHOOSE b \in target[l] : TRUE) ELSE @[l]]]),
                {Note("delayed_settlement", "case", rows.lines[l].payment, "T_PLUS_N_TIMING",
                      TRUE, 0) : l \in late})

SplitFloor == 20000   \* Decimal("200.00")

(* split_settlement, withheld: a payment settles in two parts, the second  *)
(* in the profile's next batch, each priced by itself.                     *)
SplitSettlement ==
    /\ stage = "split_settlement" /\ call.withheld
    /\ \E picked \in Picks({l \in PaymentLineIds : rows.lines[l].gross >= SplitFloor}, 0) :
       \E part \in [picked -> SplitParts] :
          LET next == [l \in picked |->
                  LaterBatches(rows.lines[l].batch, ProfileOfLine(l), 1)]
              priced(l, gross) ==
                  Priced(gross, rows.payments[rows.lines[l].payment].method, ProfileOfLine(l))
              first == [l \in picked |-> priced(l, (rows.lines[l].gross * part[l]) \div 100)]
              second == [l \in picked |-> priced(l, rows.lines[l].gross - first[l].gross)]
              split == {l \in picked :
                           next[l] # {} /\ first[l].net > 0 /\ second[l].net > 0}
              added == Ascending(split)
              lineOf == [p \in {rows.lines[l].payment : l \in split} |-> LineOf(p)]
          IN  Injected("split_settlement",
                Resummed([rows EXCEPT
                  !.lines = [l \in DOMAIN @ |-> IF l \in split
                                THEN Repriced(@[l], first[l]) ELSE @[l]]
                      \o [i \in DOMAIN added |-> Moved(Repriced(@[added[i]], second[added[i]]),
                                                     CHOOSE b \in next[added[i]] : TRUE)],
                  !.chains = [p \in DOMAIN @ |-> IF p \in DOMAIN lineOf
                      THEN LET a == first[lineOf[p]]
                               b == second[lineOf[p]]
                           IN  ChainOf(@[p], @[p].captured, a.fee + b.fee, a.tax + b.tax,
                                       a.net + b.net)
                      ELSE @[p]]]),
                {Note("split_settlement", "case", rows.lines[l].payment, "SPLIT_SETTLEMENT",
                      TRUE, 0) : l \in split})

-----------------------------------------------------------------------------
(* Credits whose narration still has the whole UTR of a batch, which is    *)
(* the batch with the credit's own number.                                 *)
IntactCredits ==
    {c \in DOMAIN rows.bank : c \in DOMAIN rows.batches
                                /\ CarriesUtr(rows.bank[c].token, rows.batches[c].utr)}

WithTokens(token) ==
    [rows EXCEPT !.bank = [c \in DOMAIN @ |-> IF c \in DOMAIN token
        THEN [@[c] EXCEPT !.token = token[c]] ELSE @[c]]]

(* truncate_utr: the first few characters are kept; which batch is meant   *)
(* can be told if no other shares them.                                    *)
TruncateUtr ==
    /\ stage = "truncate_utr"
    /\ \E picked \in Picks(IntactCredits, 0) :
       \E keep \in [picked -> KeepLengths] :
          LET prefix == [c \in picked |-> [rows.bank[c].token EXCEPT !.kept = keep[c]]]
              sharing(c) == {b \in DOMAIN rows.batches :
                                Shared(prefix[c], rows.batches[b].utr) = keep[c]}
          IN  Injected("truncate_utr", WithTokens(prefix),
                {Note("truncate_utr", "batch_link", c, "UTR_TRUNCATED_MAPPING",
                      Cardinality(sharing(c)) = 1, 0) : c \in picked})

(* drop_utr: the UTR is gone; the amount tells the batch if it is unique.  *)
DropUtr ==
    /\ stage = "drop_utr"
    /\ \E picked \in Picks(IntactCredits, 0) :
          LET equal(c) == {b \in DOMAIN rows.batches :
                              rows.batches[b].net = rows.bank[c].amount}
          IN  Injected("drop_utr", WithTokens([c \in picked |-> NoToken]),
                {Note("drop_utr", "batch_link", c, "UTR_MISSING_MAPPING",
                      Cardinality(equal(c)) = 1, 0) : c \in picked})

(* garbled_narration, withheld: two neighbouring characters of the UTR     *)
(* change places.                                                          *)
GarbledNarration ==
    /\ stage = "garbled_narration" /\ call.withheld
    /\ \E picked \in Picks(IntactCredits, 0) :
       \E at \in [picked -> GarblePositions] :
          Injected("garbled_narration",
              WithTokens([c \in picked |->
                  [kind |-> "GARBLED", of |-> rows.batches[c].utr, kept |-> at[c]]]),
              {Note("garbled_narration", "batch_link", c, "UTR_TRUNCATED_MAPPING", TRUE, 0) :
                  c \in picked})

(* mixed_amount_formats: an amount is rendered another way, here and now.  *)
(* Of the cells it may choose only the amounts of credits change later.    *)
MixedAmountFormats ==
    /\ stage = "mixed_amount_formats"
    /\ \E picked \in Picks(DOMAIN rows.bank, 0) :
          texts' = [c \in picked |-> rows.bank[c].amount]
    /\ stage' = Following("mixed_amount_formats")
    /\ UNCHANGED <<call, rows, notes, lags>>

(* out_of_order_arrival: a row is delivered a day or two after its date.   *)
OutOfOrderArrival ==
    /\ stage = "out_of_order_arrival"
    /\ \E picked \in Picks({<<"lines", l>> : l \in DOMAIN rows.lines}
                             \union {<<"bank", c>> : c \in DOMAIN rows.bank}
                             \union {<<"refunds", r>> : r \in DOMAIN rows.refunds}, 0) :
          lags' \in [picked -> 1 .. 2]
    /\ stage' = Following("out_of_order_arrival")
    /\ UNCHANGED <<call, rows, notes, texts>>

-----------------------------------------------------------------------------
(* unexplainable: credits no batch stands behind are added, then credits   *)
(* are withheld; a pick that falls on an added credit withholds nothing.   *)
Unexplainable ==
    /\ stage = "unexplainable"
    /\ \E picked \in Picks(DOMAIN rows.batches, MinUnexplainable) :
       \E part \in [picked -> OrphanParts] :
          LET amount == [b \in picked |->
                  (2 * rows.batches[b].net + part[b]) \div (2 * part[b])]
              behind == Ascending({b \in picked : amount[b] > 0})
              last == Len(rows.batches)
              orphans == last + 1 .. last + Len(behind)
              bank == [c \in DOMAIN rows.bank \union orphans |->
                  IF c \in DOMAIN rows.bank THEN rows.bank[c]
                  ELSE [direction |-> "CREDIT", amount |-> amount[behind[c - last]],
                        valueDate |-> rows.batches[behind[c - last]].settled,
                        token |-> NoToken]]
          IN  \E withheld \in Picks(DOMAIN bank, MinUnexplainable) :
                /\ Cardinality(picked) + Cardinality(withheld) =< call.maxNoise - Spent
                /\ Injected("unexplainable",
                     [rows EXCEPT !.bank =
                        [c \in DOMAIN bank \ (withheld \ orphans) |-> bank[c]]],
                     {Note("unexplainable", "bank_row", c, "UNEXPLAINED", FALSE,
                           bank[c].amount) : c \in orphans}
                     \union {Note("unexplainable", "batch_link", c, "MISSING_VS_LATE_CREDIT",
                                  FALSE, bank[c].amount) : c \in withheld \ orphans})

(* rounding_residual: a batch's credit is a few paise off its total. *)
RoundingResidual ==
    /\ stage = "rounding_residual"
    /\ \E picked \in Picks(DOMAIN rows.bank \intersect DOMAIN rows.batches, MinRounding) :
       \E delta \in [picked -> Residuals] :
          LET off == {c \in picked : rows.bank[c].amount + delta[c] > 0}
              bank == [c \in DOMAIN rows.bank |->
                  IF c \in off THEN [rows.bank[c] EXCEPT !.amount = @ + delta[c]]
                  ELSE rows.bank[c]]
          IN  Injected("rounding_residual", [rows EXCEPT !.bank = bank],
                {Note("rounding_residual", "batch_link", c, "ROUNDING_DIFFERENCE", TRUE,
                      delta[c]) : c \in off})

(* Without --include-withheld two of the injectors are not run. *)
SkipWithheld ==
    /\ stage \in {"split_settlement", "garbled_narration"} /\ ~call.withheld
    /\ stage' = Following(stage)
    /\ UNCHANGED <<call, rows, notes, lags, texts>>

(* apply_noise.  merchant_name_variants, which rewords the narration       *)
(* around the UTR, changes nothing the model tells apart.                  *)
ApplyNoise ==
    \/ PartialCaptures \/ DuplicateLedgerRows \/ DelayedSettlement \/ SplitSettlement
    \/ TruncateUtr \/ DropUtr \/ GarbledNarration \/ MixedAmountFormats
    \/ OutOfOrderArrival \/ Unexplainable \/ RoundingResidual \/ SkipWithheld

=============================================================================
