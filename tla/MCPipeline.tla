----------------------------- MODULE MCPipeline -----------------------------
(* Two profiles, two days of captures on a Thursday and a Friday before a  *)
(* week-end and a holiday, and five payments: the generator makes four     *)
(* batches.  The credit of A's first batch and that of B's second are due  *)
(* on the same day.                                                        *)
EXTENDS Pipeline, MCMatchEngine

MCProfileOrder == <<"A", "B">>
MCCustomerId == [A |-> <<"a1", "a2">>, B |-> <<"b1", "b2">>]
MCUtrOf == <<"u1", "u2", "u3", "u4">>

Draw(customer, gross, refund, refundLag) ==
    [customer |-> customer, gross |-> gross, method |-> "UPI", refund |-> refund,
     refundLag |-> refundLag]

(* By card, so that there are fees, and with a refund. *)
Carded(draw) == [draw EXCEPT !.method = "CARD"]

Ids == <<1, 2, 3, 4, 5, 6>>
Backwards == <<6, 5, 4, 3, 2, 1>>

(* Two payouts that are equal and due on one day; B's first is a third of  *)
(* its second, so an orphan credit may look like the first's own.          *)
EqualPayouts ==
    <<Draw(1, 30000, 0, 0), Draw(2, 31000, 1000, 0), Draw(1, 20000, 0, 0),
      Draw(1, 20000, 0, 0), Draw(1, 60000, 0, 0)>>

(* Fees to recompute.  B's second payout is a third of A's first, so an    *)
(* orphan credit may be delivered before a batch that resembles it.        *)
WithFees ==
    <<Carded(Draw(1, 30015, 0, 0)), Carded(Draw(2, 21007, 999, 2)),
      Carded(Draw(1, 20000, 0, 0)), Carded(Draw(1, 45000, 0, 0)),
      Draw(2, 17106, 500, 0)>>

(* No refund at all, and one that takes more than its batch pays out. *)
Unrefunded == [EqualPayouts EXCEPT ![2].refund = 0]
Overdrawn == [EqualPayouts EXCEPT ![2].refund = 31000, ![2].refundLag = 1]

ACall(draws, ids, withheld, maxNoise) ==
    [records |-> 5, days |-> 2, withheld |-> withheld, draws |-> draws,
     creditIds |-> ids, maxNoise |-> maxNoise]

(* The second day's customer buys at the amount of the first day's. *)
BoughtAgain == [EqualPayouts EXCEPT ![4].gross = 30000]

MCCalls ==
    {ACall(EqualPayouts, Backwards, TRUE, 2), ACall(WithFees, Ids, TRUE, 2),
     ACall(EqualPayouts, Ids, FALSE, 1), ACall(BoughtAgain, Ids, TRUE, 1),
     ACall(Unrefunded, Ids, FALSE, 0), ACall(Overdrawn, Ids, FALSE, 0)}

MCRunDays == <<1, 2, 6, 9>>

MCResiduals == {-50, 99}

MCConfidence ==
    [passed |-> 400000, within |-> 200000, completeness |-> 200000, separation |-> 150000,
     freshness |-> 50000, auto_confirm |-> 800000]

(* What thresholds.yaml comes to for the verifier and the generator; and   *)
(* UTRs that tell batches apart.                                           *)
ASSUME MCVerifierConfiguration == ResidualDecides /\ RoundingsAreTolerated /\ UtrsDiffer

(* The files the engine is run on by itself, and files ingest refuses.     *)
OddFiles ==
    LET odd == TwoBatches("u2", 20000, <<Credit(10000, 8, NoToken)>>)
    IN  {[data |-> [odd EXCEPT !.bank[1].valueDate = WindowEnd + n], asOf |-> 14] : n \in 0 .. 1}
        \union {[data |-> [odd EXCEPT !.lines[1].type = "REFUND"], asOf |-> 14],
                [data |-> [odd EXCEPT !.ledger[1].date = WindowStart - 1], asOf |-> 14]}

MCFiles == MCInputs \union OddFiles

=============================================================================
