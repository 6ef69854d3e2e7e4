----------------------------- MODULE CleanData -----------------------------
(***************************************************************************)
(* The dataset generator, first part: a plan, a chain of clean rows for    *)
(* each payment of it, and the batches that pay them out.  The generator   *)
(* shares no code with the engine; here the two share the calendar, the    *)
(* rate table and the rounding, of which each has the same in its own      *)
(* words.                                                                  *)
(*                                                                         *)
(* Tables are the ones CaseRules describes, with the chains beside them:   *)
(* what the generator remembers of each payment.  Ids are numbers in the   *)
(* order rows are made; an order has the number of its payment, a credit   *)
(* that of its batch.  The ids credits are written under are hashes, so    *)
(* the order the engine takes credits in is part of the call.              *)
(***************************************************************************)
EXTENDS CaseRules, Sequences

CONSTANTS
    ProfileOrder,      \* PROFILES, in the order of their names
    CustomerId,        \* the nth of a profile's customers
    Calls,             \* what main may be called with, and draw at random
    UtrOf              \* _stable_utr of the nth batch

(* A call has the records and days asked for, --include-withheld, one draw *)
(* for each chain, the id each credit is written under, no two the same,   *)
(* and maxNoise, a bound of the model on the picks of all injectors        *)
(* together.                                                               *)
ASSUME CallsAssumption ==
    \A call \in Calls :
        /\ call.days \in Nat \ {0} /\ call.records \in Nat
        /\ call.records >= call.days * Len(ProfileOrder)
        /\ Len(call.draws) = call.records
        /\ call.maxNoise \in Nat /\ call.withheld \in BOOLEAN
        /\ \A i \in 1 .. call.records :
              /\ \A profile \in Profiles :
                    call.draws[i].customer \in DOMAIN CustomerId[profile]
              /\ call.draws[i].method \in Methods
              /\ call.draws[i].gross \in Nat
              /\ call.draws[i].refund \in 0 .. call.draws[i].gross
              /\ call.draws[i].refundLag \in 0 .. 3
        /\ \A b \in DOMAIN call.creditIds : call.creditIds[b] \in Nat \ {0}
        /\ \A b, c \in DOMAIN call.creditIds :
              call.creditIds[b] = call.creditIds[c] => b = c

ASSUME ProfilesAssumption ==
    /\ ProfileOrder \in Seq(Profiles) /\ ProfileOrder # <<>>
    /\ \A j, k \in DOMAIN ProfileOrder : ProfileOrder[j] = ProfileOrder[k] => j = k

(* A customer's id has the profile's name in it. *)
ASSUME CustomersAssumption ==
    \A profile \in Profiles : \A n \in DOMAIN CustomerId[profile] :
        LET id == CustomerId[profile][n]
        IN  id \in DOMAIN CustomerProfile /\ CustomerProfile[id] = profile

VARIABLES
    call,    \* the arguments, with the draws
    stage,   \* the step main is about to take, or how it ended; IDLE if not run
    rows,    \* the CleanDataset as it stands
    notes,   \* the annotations
    lags,    \* day_overrides: table and row -> days
    texts    \* format_overrides of bank amounts: row -> the amount rendered

generatorVars == <<call, stage, rows, notes, lags, texts>>

BaseDate == NextWorkingDay(WindowStart)

-----------------------------------------------------------------------------
(* build_plan: chains are shared evenly among days, and a day's among      *)
(* profiles, the first taking what is left over.                           *)
PerDay(day) == call.records \div call.days + (IF day =< call.records % call.days THEN 1 ELSE 0)

Share(day, k) ==
    PerDay(day) \div Len(ProfileOrder)
      + (IF k =< PerDay(day) % Len(ProfileOrder) THEN 1 ELSE 0)

Before(s, t) ==
    \E i \in DOMAIN s : s[i] < t[i] /\ \A j \in 1 .. i - 1 : s[j] = t[j]

(* The members of a set in order: the ith has i - 1 before it. *)
SortedBy(S, IsBefore(_, _)) ==
    [i \in 1 .. Cardinality(S) |->
        CHOOSE x \in S : Cardinality({y \in S : IsBefore(y, x)}) = i - 1]

Ascending(S) == SortedBy(S, <)
Lexical(S) == SortedBy(S, Before)

Plan ==
    Lexical({entry \in (1 .. call.days) \X (DOMAIN ProfileOrder) \X (1 .. call.records) :
                entry[3] =< Share(entry[1], entry[2])})

(* Amounts of a captured payment on one line. *)
Priced(gross, method, profile) ==
    LET fee == Fee(gross, method, profile)
    IN  [gross |-> gross, fee |-> fee, tax |-> Gst(fee), net |-> gross - fee - Gst(fee)]

(* generate_clean_chain: captured in full on the order's day; a refund is  *)
(* made up to three days later, never after the last capture.              *)
CleanChain(i) ==
    LET draw == call.draws[i]
        profile == ProfileOrder[Plan[i][2]]
        day == BaseDate + Plan[i][1] - 1
        lastCapture == BaseDate + call.days - 1
        refunded == IF day + draw.refundLag < lastCapture
                    THEN day + draw.refundLag ELSE lastCapture
    IN  [profile |-> profile, day |-> Plan[i][1], k |-> Plan[i][2],
         customer |-> CustomerId[profile][draw.customer], method |-> draw.method, date |-> day,
         refund |-> draw.refund, refundDate |-> refunded,
         settles |-> NextWorkingDay(day), refundSettles |-> NextWorkingDay(refunded),
         priced |-> Priced(draw.gross, draw.method, profile)]

(* assemble_batches: one batch for each profile and day it settles; a      *)
(* refund goes to the first of them on or after the day it settles.        *)
Refunded(chains) == Ascending({i \in 1 .. Len(chains) : chains[i].refund > 0})

BatchKeys(chains) ==
    Lexical({<<chains[i].k, chains[i].settles>> : i \in 1 .. Len(chains)})

AssembledLines(chains) ==
    LET refunded == Refunded(chains)
        keys == BatchKeys(chains)
        batchOf(k, day) == CHOOSE b \in DOMAIN keys :
            /\ keys[b][1] = k /\ keys[b][2] >= day
            /\ \A o \in 1 .. b - 1 : keys[o][1] # k \/ keys[o][2] < day
        line(i, priced, b) ==
            [type |-> "PAYMENT", payment |-> i, refund |-> 0, batch |-> b,
             gross |-> priced.gross, fee |-> priced.fee, tax |-> priced.tax,
             net |-> priced.net, settled |-> keys[b][2]]
        refundLine(r, b) ==
            [type |-> "REFUND", payment |-> refunded[r], refund |-> r, batch |-> b,
             gross |-> 0, fee |-> 0, tax |-> 0, net |-> -chains[refunded[r]].refund,
             settled |-> keys[b][2]]
    IN  [i \in 1 .. Len(chains) |->
            line(i, chains[i].priced, batchOf(chains[i].k, chains[i].settles))]
          \o [r \in 1 .. Len(refunded) |->
                refundLine(r, batchOf(chains[refunded[r]].k, chains[refunded[r]].refundSettles))]

Assemble(chains) ==
    LET n == Len(chains)
        refunded == Refunded(chains)
        keys == BatchKeys(chains)
        lines == AssembledLines(chains)
        net == [b \in DOMAIN keys |->
                   SumOf(lines, {l \in DOMAIN lines : lines[l].batch = b}, "net")]
    IN  [ledger   |-> [i \in 1 .. n |-> [order |-> i, customer |-> chains[i].customer,
                          gross |-> chains[i].priced.gross, invoice |-> i,
                          date |-> chains[i].date]],
         payments |-> [i \in 1 .. n |-> [order |-> i, method |-> chains[i].method,
                          authorized |-> chains[i].priced.gross,
                          captured |-> chains[i].priced.gross, capturedAt |-> chains[i].date]],
         refunds  |-> [r \in DOMAIN refunded |-> [payment |-> refunded[r],
                          amount |-> chains[refunded[r]].refund,
                          created |-> chains[refunded[r]].refundDate]],
         lines    |-> lines,
         batches  |-> [b \in DOMAIN keys |-> [utr |-> UtrOf[b], net |-> net[b],
                          settled |-> keys[b][2]]],
         bank     |-> [b \in DOMAIN keys |-> [direction |-> "CREDIT", amount |-> net[b],
                          valueDate |-> BankValueDue(keys[b][2], ProfileOrder[keys[b][1]]),
                          token |-> [kind |-> "PREFIX", of |-> UtrOf[b], kept |-> UtrLength]]],
         chains   |-> [i \in 1 .. n |-> [profile |-> chains[i].profile, day |-> chains[i].day,
                          captured |-> chains[i].priced.gross, fee |-> chains[i].priced.fee,
                          tax |-> chains[i].priced.tax, net |-> chains[i].priced.net,
                          refund |-> chains[i].refund]]]

NoData == [ledger |-> <<>>, payments |-> <<>>, refunds |-> <<>>, lines |-> <<>>,
           batches |-> <<>>, bank |-> <<>>, chains |-> <<>>]

GeneratorInit ==
    /\ call \in Calls /\ stage = "BUILD" /\ rows = NoData
    /\ notes = {} /\ lags = <<>> /\ texts = <<>>

(* build_clean_dataset; a batch that would not pay out raises.             *)
BuildClean ==
    /\ stage = "BUILD"
    /\ rows' = Assemble([i \in 1 .. Len(Plan) |-> CleanChain(i)])
    /\ stage' = IF \E b \in DOMAIN rows'.batches : rows'.batches[b].net =< 0
                THEN "FAILED" ELSE "VERIFY"
    /\ UNCHANGED <<call, notes, lags, texts>>

=============================================================================
