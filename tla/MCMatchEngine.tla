--------------------------- MODULE MCMatchEngine ---------------------------
(* A small instance of MatchEngine.  Week-ends are off and the Monday of   *)
(* the second week is a holiday.  UTRs u1 and u2 share eight leading       *)
(* characters, the others none.                                 *)
EXTENDS MatchEngine

MCProfiles == {"A", "B"}
MCMethods == {"CARD", "UPI"}
MCMdrRate == [A |-> [CARD |-> 200, UPI |-> 0], B |-> [CARD |-> 235, UPI |-> 0]]
MCWeeklyOffs == {5, 6}
MCHolidays == {7}
MCSettlementCycle == [A |-> 2, B |-> 1]
MCFuzzy ==
    [weight_prefix |-> 500000, weight_edit |-> 300000, weight_amount |-> 200000,
     accept_score |-> 850000, min_separation |-> 150000,
     weight_amount_no_utr |-> 600000, weight_date_no_utr |-> 400000,
     accept_score_no_utr |-> 900000, date_window_days |-> 3, fragment_min_chars |-> 6]
MCUtrs == {"u1", "u2", "u3", "u4"}
MCStem ==
    [u \in MCUtrs |-> [v \in MCUtrs |->
        IF u = v THEN 16 ELSE IF {u, v} = {"u1", "u2"} THEN 8 ELSE 0]]
MCCustomerProfile == [a1 |-> "A", a2 |-> "A", b1 |-> "B", b2 |-> "B", x1 |-> NoProfile]
MCBatchIds == 1 .. 4
MCCreditIds == 1 .. 6

(* What thresholds.yaml and calendar_v1.yaml come to, beyond what their    *)
(* loaders ask for.                                                        *)
ASSUME MCConfiguration ==
    CyclesAreShort /\ AmountDecides /\ MostOfTheUtr /\ UtrsApart /\ PrefixesAreCompared

-----------------------------------------------------------------------------
Order(order, customer, gross) ==
    [order |-> order, customer |-> customer, gross |-> gross, invoice |-> order, date |-> 3]
Payment(order, authorized, captured, day) ==
    [order |-> order, method |-> "CARD", authorized |-> authorized, captured |-> captured,
     capturedAt |-> day]
Line(payment, batch, gross, day) ==
    [type |-> "PAYMENT", payment |-> payment, refund |-> 0, batch |-> batch, gross |-> gross,
     fee |-> 0, tax |-> 0, net |-> gross, settled |-> day]
Batch(utr, net, day) == [utr |-> utr, net |-> net, settled |-> day]
Credit(amount, day, token) ==
    [direction |-> "CREDIT", amount |-> amount, valueDate |-> day, token |-> token]
Keeps(utr, n) == [kind |-> "PREFIX", of |-> utr, kept |-> n]
Garbled(utr, n) == [kind |-> "GARBLED", of |-> utr, kept |-> n]

(* Two orders of profile A, each settled on the Thursday in a batch of its *)
(* own, so that both credits are due on Tuesday, day 8.                    *)
TwoBatches(utr2, net2, bank) ==
    [ledger   |-> <<Order("o1", "a1", 10000), Order("o2", "a2", net2)>>,
     payments |-> <<Payment("o1", 10000, 10000, 3), Payment("o2", net2, net2, 3)>>,
     refunds  |-> <<>>,
     lines    |-> <<Line(1, 1, 10000, 3), Line(2, 2, net2, 3)>>,
     batches  |-> <<Batch("u1", 10000, 3), Batch(utr2, net2, 3)>>,
     bank     |-> bank]

SomeTokens ==
    {Keeps("u1", 16), Keeps("u2", 16), Keeps("u1", 8), Keeps("u1", 6),
     Garbled("u1", 13), NoToken}

SomeCredits ==
    {Credit(amount, day, token) :
        amount \in {10000, 10050, 20000}, day \in {8, 9, 12}, token \in SomeTokens}

(* Two credits compete for two batches in every combination. *)
BatchInputs ==
    {[data |-> TwoBatches(utr2, net2, <<c1, c2>>), asOf |-> 14] :
        utr2 \in {"u2", "u3"}, net2 \in {10000, 20000}, c1 \in SomeCredits, c2 \in SomeCredits}

-----------------------------------------------------------------------------
(* One order with its payment, captured on a Saturday unless it says       *)
(* otherwise, settled by the lines given, all in batch 1.                  *)
OneCase(ledger, payment, lines) ==
    [ledger |-> ledger, payments |-> <<payment>>, refunds |-> <<>>, lines |-> lines,
     batches |-> <<Batch("u1", 10000, 8)>>,
     bank |-> <<Credit(10000, 10, Keeps("u1", 16))>>]

SettlementDays == {4, 5, 8, 9, 12}

Settlements(gross) ==
    {<<>>} \union {<<Line(1, 1, gross - short, day)>> :
                       short \in {0, 50, 200}, day \in SettlementDays}
           \union {<<Line(1, 1, 6000, 8), Line(1, 1, gross - 6000, day)>> :
                       day \in SettlementDays}

Ledgers ==
    {<<Order("o1", "a1", 10000)>>,
     <<Order("o1", "a1", 10000), Order("o1", "a1", 10000)>>,
     <<Order("o1", "a1", 10000), Order("o2", "a1", 10000)>>,
     <<Order("o1", "a1", 10000), Order("o1", "a1", 10000), Order("o2", "a1", 10000)>>,
     <<Order("o1", "x1", 10000)>>,
     <<Order("o2", "a1", 10000)>>}

CaseInputs ==
    {[data |-> OneCase(ledger, Payment("o1", 10000, captured, 5), lines), asOf |-> day] :
        ledger \in Ledgers, captured \in {9000, 10000},
        lines \in Settlements(10000) \union Settlements(9000), day \in {9, 14}}

(* No batch yet; a batch whose lines have not come; a debit; a batch of    *)
(* two profiles.                                                           *)
OddInputs ==
    LET none == TwoBatches("u2", 20000, <<Credit(10000, 8, NoToken)>>)
    IN  {[data |-> [none EXCEPT !.batches = <<>>, !.lines = <<>>], asOf |-> 14],
         [data |-> [none EXCEPT !.batches = <<>>, !.lines = <<>>, !.bank = <<>>], asOf |-> 14],
         [data |-> [none EXCEPT !.bank[1].direction = "DEBIT"], asOf |-> 14],
         [data |-> [none EXCEPT !.ledger[2].customer = "b1", !.lines[2].batch = 1], asOf |-> 14]}
        \union {[data |-> [none EXCEPT !.lines = <<>>, !.bank[1].valueDate = day], asOf |-> 7] :
                   day \in {3, 7, 8}}

(* A row repeated to the letter, and an order that looks like it.          *)
CopiedInputs ==
    LET row(order) == Order(order, "a1", 10000)
    IN  {[data |-> OneCase(<<row("o1"), row("o1"), row("o2")>>,
                           Payment("o2", 10000, 10000, 5), lines), asOf |-> 14] :
            lines \in {<<>>, <<Line(1, 1, 10000, 8)>>}}

MCInputs == BatchInputs \union CaseInputs \union OddInputs \union CopiedInputs

=============================================================================
