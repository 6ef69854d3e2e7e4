---------------------------- MODULE MatchEngine ----------------------------
(***************************************************************************)
(* One run of the matching engine over the data delivered so far: the      *)
(* passes of run_with_telemetry in their strict order.  Cases do not       *)
(* disturb one another and are classified in one step; batches and credits *)
(* compete for each other, so each is a step of its own, taken in the      *)
(* order of the ids, and what one step claims the next does not see.       *)
(***************************************************************************)
EXTENDS CaseRules

CONSTANTS
    BatchIds, CreditIds,   \* ids a data set may use for batches, bank rows
    Inputs                 \* data sets and dates the engine is run on

ASSUME IdsAssumption ==
    /\ BatchIds \subseteq Nat \ {0}
    /\ CreditIds \subseteq Nat \ {0}

(* The batches and the bank rows of a data set have ids of their own. *)
Fits(d) == DOMAIN d.batches \subseteq BatchIds /\ DOMAIN d.bank \subseteq CreditIds

ASSUME InputsAssumption == \A input \in Inputs : Fits(input.data)

VARIABLES
    data,       \* the data set (merge_days of the days delivered)
    asOf,       \* as_of, injected
    pass,       \* the pass about to be taken, or how the run ended
    todo,       \* batches, or in P8 credits, the pass has yet to take
    due,        \* due_dates, with the fallback for a batch it lacks
    remaining,  \* credits no batch has claimed
    links,      \* BatchLinkOutcome of each batch, once decided
    cases,      \* CaseOutcome of each payment
    rowVariances

engineVars == <<data, asOf, pass, todo, due, remaining, links, cases, rowVariances>>

NoCredit == 0
BankWindowDays == 0   \* BANK_WINDOW_DAYS
UtrPrefixFloor == 6   \* _UTR_PREFIX_FLOOR

Undecided == [status |-> "UNDECIDED", credit |-> NoCredit, category |-> NoCategory]
LinkedTo(c, category) == [status |-> "CONFIRMED", credit |-> c, category |-> category]
Waiting == [status |-> "PENDING_EVIDENCE", credit |-> NoCredit, category |-> NoCategory]
LeftOpen(category) == [status |-> "OPEN", credit |-> NoCredit, category |-> category]

MappingCategories ==
    {"UTR_TRUNCATED_MAPPING", "UTR_MISSING_MAPPING", "MISSING_VS_LATE_CREDIT"}

LinkOutcomes ==
    {Undecided, Waiting}
      \union {LinkedTo(c, category) : c \in CreditIds,
                 category \in {NoCategory, "ROUNDING_DIFFERENCE"}}
      \union {LeftOpen(category) : category \in MappingCategories}

NoRows == [duplicates |-> {}, orphans |-> {}]

Delivered == DOMAIN data.batches
StillOpen == {b \in Delivered : links[b] = Undecided}

(* The engine has been called; nothing is decided yet. *)
Fresh(d, day) ==
    [data |-> d, asOf |-> day, pass |-> "P7", todo |-> {}, due |-> <<>>,
     remaining |-> {c \in DOMAIN d.bank : d.bank[c].direction = "CREDIT"},
     links |-> [b \in BatchIds |-> Undecided], cases |-> <<>>, rowVariances |-> NoRows]

EngineInit ==
    \E input \in Inputs :
        LET s == Fresh(input.data, input.asOf)
        IN  /\ data = s.data /\ asOf = s.asOf /\ pass = s.pass /\ todo = s.todo
            /\ due = s.due /\ remaining = s.remaining /\ links = s.links
            /\ cases = s.cases /\ rowVariances = s.rowVariances

(* run: called again, on another data set or date. *)
Call(d, day) ==
    LET s == Fresh(d, day)
    IN  /\ data' = s.data /\ asOf' = s.asOf /\ pass' = s.pass /\ todo' = s.todo
        /\ due' = s.due /\ remaining' = s.remaining /\ links' = s.links
        /\ cases' = s.cases /\ rowVariances' = s.rowVariances

-----------------------------------------------------------------------------
(* P7a: ledger rows that repeat an earlier one become row variances. *)
FindDuplicates ==
    /\ pass = "P7"
    /\ rowVariances' = [rowVariances EXCEPT !.duplicates = ConfirmedDuplicates(data.ledger)]
    /\ pass' = "CASES"
    /\ UNCHANGED <<data, asOf, todo, due, remaining, links, cases>>

(* P1, P3, P4, P6, P7b, P9 over every payment. *)
ClassifyCases ==
    /\ pass = "CASES" /\ ~CasesRefused(data)
    /\ cases' = [p \in DOMAIN data.payments |->
                    ClassifyCase(CaseFacts(data, p),
                        data.payments[p].order \in CandidateOrders(data.ledger))]
    /\ pass' = "PROFILES"
    /\ UNCHANGED <<data, asOf, todo, due, remaining, links, rowVariances>>

(* The profiles of the payments a batch's lines belong to; lines of        *)
(* payments that have not been delivered do not say.                       *)
BatchProfiles(b) ==
    {ProfileOf(data, data.payments[data.lines[l].payment].order) :
        l \in {k \in DOMAIN data.lines :
                  /\ data.lines[k].batch = b
                  /\ data.lines[k].payment \in DOMAIN data.payments}}

(* The batches a line names, those among them that have not come too. *)
BatchesNamed == {data.lines[l].batch : l \in DOMAIN data.lines}
Mixed(b) == Cardinality(BatchProfiles(b)) > 1

(* due_dates.get(batch_id, batch.settled_event_date) *)
DueDate(b) ==
    IF BatchProfiles(b) = {} THEN data.batches[b].settled
    ELSE BankValueDue(data.batches[b].settled, CHOOSE p \in BatchProfiles(b) : TRUE)

(* _batch_profiles and the due dates; a batch of mixed profiles raises. *)
DeriveProfiles ==
    /\ pass = "PROFILES"
    /\ \A b \in BatchesNamed : ~Mixed(b)
    /\ due' = [b \in Delivered |-> DueDate(b)]
    /\ pass' = "P2" /\ todo' = Delivered
    /\ UNCHANGED <<data, asOf, remaining, links, cases, rowVariances>>

(* EngineError: the run ends without a result. *)
Raise ==
    /\ \/ pass = "CASES" /\ CasesRefused(data)
       \/ pass = "PROFILES" /\ \E b \in BatchesNamed : Mixed(b)
    /\ pass' = "FAILED"
    /\ UNCHANGED <<data, asOf, todo, due, remaining, links, cases, rowVariances>>

-----------------------------------------------------------------------------
(* The pass has taken b; after its last the next pass takes over. *)
Taken(b, nextPass, nextTodo) ==
    IF todo = {b} THEN pass' = nextPass /\ todo' = nextTodo
                  ELSE todo' = todo \ {b} /\ UNCHANGED pass

Skip(thisPass, nextPass, nextTodo) ==
    /\ pass = thisPass /\ todo = {}
    /\ pass' = nextPass /\ todo' = nextTodo
    /\ UNCHANGED <<data, asOf, due, remaining, links, cases, rowVariances>>

(* Credits that carry the batch's whole UTR and its exact amount, on the   *)
(* working day they are due.                                               *)
ExactCredits(b) ==
    {c \in remaining :
        /\ CarriesUtr(data.bank[c].token, data.batches[b].utr)
        /\ data.bank[c].amount = data.batches[b].net
        /\ IsTimingExplained(due[b], data.bank[c].valueDate, BankWindowDays)}

(* Deviation: a credit linked by P2 is offered to the next batch as well. *)
LinkExactShared ==
    /\ pass = "P2" /\ todo # {}
    /\ LET b == First(todo)
       IN  /\ links' = IF ExactCredits(b) = {} THEN links
                       ELSE [links EXCEPT ![b] = LinkedTo(First(ExactCredits(b)), NoCategory)]
           /\ Taken(b, "P2B", Delivered)
    /\ UNCHANGED <<data, asOf, due, remaining, cases, rowVariances>>

(* P2, link_batches_to_bank: the next batch takes its first exact credit.  *)
LinkExact ==
    /\ pass = "P2" /\ todo # {}
    /\ LET b == First(todo)
           found == ExactCredits(b)
       IN  /\ IF found = {} THEN UNCHANGED <<links, remaining>>
              ELSE /\ links' = [links EXCEPT ![b] = LinkedTo(First(found), NoCategory)]
                   /\ remaining' = remaining \ {First(found)}
           /\ Taken(b, "P2B", Delivered)
    /\ UNCHANGED <<data, asOf, due, cases, rowVariances>>

(* Credits that carry the batch's whole UTR, its amount within tolerance,  *)
(* on any date.                                                            *)
NearCredits(b) ==
    {c \in remaining :
        /\ CarriesUtr(data.bank[c].token, data.batches[b].utr)
        /\ AmountAgrees(data.bank[c], data.batches[b])}

(* Deviation: amounts are compared in whole rupees. *)
RoundingCategoryInRupees(b, c) ==
    IF data.bank[c].amount \div 100 = data.batches[b].net \div 100 THEN NoCategory
    ELSE "ROUNDING_DIFFERENCE"

(* _p9_rounding_category of a difference within tolerance. *)
RoundingCategory(b, c) ==
    IF data.bank[c].amount = data.batches[b].net THEN NoCategory
    ELSE "ROUNDING_DIFFERENCE"

(* P2b: a batch without an exact credit takes its first near one; failing  *)
(* that it waits while its credit is not yet due.                          *)
LinkNear ==
    /\ pass = "P2B" /\ todo # {}
    /\ LET b == First(todo)
           near == NearCredits(b)
       IN  /\ IF links[b] # Undecided THEN UNCHANGED <<links, remaining>>
              ELSE IF near # {} THEN
                   /\ links' = [links EXCEPT
                          ![b] = LinkedTo(First(near), RoundingCategory(b, First(near)))]
                   /\ remaining' = remaining \ {First(near)}
              ELSE /\ links' = IF due[b] > asOf THEN [links EXCEPT ![b] = Waiting] ELSE links
                   /\ UNCHANGED remaining
           /\ Taken(b, "P8", remaining')
    /\ UNCHANGED <<data, asOf, due, cases, rowVariances>>

Candidates == [b \in StillOpen |-> data.batches[b]]

(* P8: the next credit is resolved against the batches still open. *)
ResolveCredit ==
    /\ pass = "P8" /\ todo # {} /\ StillOpen # {}
    /\ LET c == First(todo)
           accepted == Resolve(data.bank[c], Candidates, due)
       IN  /\ IF accepted = {} THEN UNCHANGED <<links, remaining>>
              ELSE \E b \in accepted :
                     /\ links' = [links EXCEPT ![b] = LinkedTo(c, RoundingCategory(b, c))]
                     /\ remaining' = remaining \ {c}
           /\ Taken(c, "OPEN", {})
    /\ UNCHANGED <<data, asOf, due, cases, rowVariances>>

(* P8 ends early once no batch is open. *)
NothingLeftOpen ==
    /\ pass = "P8" /\ todo # {} /\ StillOpen = {}
    /\ pass' = "OPEN" /\ todo' = {}
    /\ UNCHANGED <<data, asOf, due, remaining, links, cases, rowVariances>>

-----------------------------------------------------------------------------
(* _shares_utr_prefix *)
SharesUtrPrefix(b, c) ==
    Shared(data.bank[c].token, data.batches[b].utr) >= UtrPrefixFloor

(* What of a UTR is called a prefix is enough for P8 to compare: equal in  *)
(* thresholds.yaml and the constant, which nothing ties together.          *)
PrefixesAreCompared == Fuzzy.fragment_min_chars =< UtrPrefixFloor

(* Deviation: without a credit in sight no category is given. *)
OpenCategoryUnnamed(b) ==
    IF \E c \in remaining : SharesUtrPrefix(b, c) THEN "UTR_TRUNCATED_MAPPING"
    ELSE IF \E c \in remaining : AmountAgrees(data.bank[c], data.batches[b])
         THEN "UTR_MISSING_MAPPING"
    ELSE NoCategory

(* Why a batch is still open, on the evidence of the credits left over. *)
OpenCategory(b) ==
    IF \E c \in remaining : SharesUtrPrefix(b, c) THEN "UTR_TRUNCATED_MAPPING"
    ELSE IF \E c \in remaining : AmountAgrees(data.bank[c], data.batches[b])
         THEN "UTR_MISSING_MAPPING"
    ELSE "MISSING_VS_LATE_CREDIT"

CategoriseOpen ==
    /\ pass = "OPEN"
    /\ links' = [b \in BatchIds |->
                    IF b \in StillOpen THEN LeftOpen(OpenCategory(b)) ELSE links[b]]
    /\ pass' = "ROWS"
    /\ UNCHANGED <<data, asOf, todo, due, remaining, cases, rowVariances>>

(* Deviation: only the batches left open are asked about an orphan. *)
OrphanCreditsOfOpen ==
    {c \in remaining :
        \A b \in Delivered : links[b].status = "OPEN" =>
            ~SharesUtrPrefix(b, c) /\ ~AmountAgrees(data.bank[c], data.batches[b])}

(* Leftover credits that no batch's UTR or amount accounts for. *)
OrphanCredits ==
    {c \in remaining :
        \A b \in Delivered :
            ~SharesUtrPrefix(b, c) /\ ~AmountAgrees(data.bank[c], data.batches[b])}

(* Row-grain variances; the result is complete. *)
AssembleRows ==
    /\ pass = "ROWS"
    /\ rowVariances' = [rowVariances EXCEPT !.orphans = OrphanCredits]
    /\ pass' = "DONE"
    /\ UNCHANGED <<data, asOf, todo, due, remaining, links, cases>>

EngineNext ==
    \/ FindDuplicates \/ ClassifyCases \/ DeriveProfiles \/ Raise
    \/ LinkExact \/ LinkNear \/ ResolveCredit \/ NothingLeftOpen
    \/ Skip("P2", "P2B", {}) \/ Skip("P2B", "P8", remaining) \/ Skip("P8", "OPEN", {})
    \/ CategoriseOpen \/ AssembleRows

EngineSpec == EngineInit /\ [][EngineNext]_engineVars

-----------------------------------------------------------------------------
Passes == {"P7", "CASES", "PROFILES", "P2", "P2B", "P8", "OPEN", "ROWS", "DONE", "FAILED"}

(* The variables hold what run_with_telemetry and _classify_batches keep   *)
(* in theirs.                                                              *)
EngineTypeOK ==
    /\ pass \in Passes
    /\ remaining \subseteq CreditIds
    /\ todo \subseteq BatchIds \union CreditIds
    /\ links \in [BatchIds -> LinkOutcomes]

(* A bank credit settles at most one batch, and one that settles a batch   *)
(* is offered to no other (claimed in link_batches_to_bank, the deletions  *)
(* from remaining in _classify_batches).                                   *)
CreditSettlesOneBatch ==
    /\ \A b \in BatchIds : links[b].credit \notin remaining
    /\ \A b1, b2 \in BatchIds :
          b1 # b2 /\ links[b1].credit # NoCredit => links[b1].credit # links[b2].credit

Settled == {b \in Delivered : links[b].status = "CONFIRMED"}
CreditOf(b) == data.bank[links[b].credit]

(* Every confirmed link is to a credit of the data, and one that does not  *)
(* name this batch in full fell within the window of the batch's due date  *)
(* (the hard gate of resolve).                                             *)
LinkFallsDue ==
    \A b \in Settled :
        /\ links[b].credit \in DOMAIN data.bank
        /\ CreditOf(b).direction = "CREDIT"
        /\ \/ CarriesUtr(CreditOf(b).token, data.batches[b].utr)
           \/ Magnitude(CreditOf(b).valueDate - due[b]) =< Fuzzy.date_window_days

(* Every confirmed link rests on the evidence its pass asks for, whatever  *)
(* was claimed before: it is of the batch's amount, within tolerance, and  *)
(* if it names another batch, that one had its credit already or was not   *)
(* yet due.  (P2, P2b, and the weights of P8 against its thresholds.)      *)
LinkRestsOnEvidence ==
    /\ LinkFallsDue
    /\ \A b \in Settled :
          /\ AmountAgrees(CreditOf(b), data.batches[b])
          /\ \A o \in Delivered : CarriesUtr(CreditOf(b).token, data.batches[o].utr) =>
                o = b \/ links[o].status \in {"CONFIRMED", "PENDING_EVIDENCE"}

(* P8 claims greedily in id order, yet a batch left open never had nearly  *)
(* as good a claim to a credit as the batch that got it.                   *)
BestClaimStands ==
    pass \in {"ROWS", "DONE"} =>
        \A b \in Settled, o \in Delivered \ Settled :
            links[o].status = "OPEN" /\ ~CarriesUtr(CreditOf(b).token, data.batches[b].utr) =>
                \E fragment \in {FALSE, IsCandidate(CreditOf(b).token)} :
                    Score(CreditOf(b), data.batches[b], due[b], fragment)
                      - Score(CreditOf(b), data.batches[o], due[o], fragment)
                            >= Fuzzy.min_separation

(* A batch reported as having no credit at all really has none: a credit   *)
(* that still shows part of the batch's UTR and is nevertheless gone       *)
(* settled another batch, whose UTR agrees with at least thirteen          *)
(* sixteenths of what the narration kept.                                  *)
MissingMeansNoCredit ==
    pass \in {"ROWS", "DONE"} =>
        \A b \in Delivered, c \in DOMAIN data.bank :
            LET token == data.bank[c].token
            IN  /\ links[b].category = "MISSING_VS_LATE_CREDIT"
                /\ data.bank[c].direction = "CREDIT"
                /\ SharesUtrPrefix(b, c)
                => \E o \in Settled \ {b} :
                      /\ links[o].credit = c
                      /\ 16 * Shared(token, data.batches[o].utr) >= 13 * TokenLength(token)

(* A case confirmed without a category is whole: everything authorised was *)
(* captured and settled, no working day passed between the day its lines   *)
(* were due and the day one is dated, and no other order looks like a      *)
(* second copy of its own.                                                 *)
CleanCaseIsWhole ==
    \A p \in DOMAIN cases :
        LET payment == data.payments[p]
            dueDay == SettlementLineDue(payment.capturedAt)
        IN  cases[p].status = "CONFIRMED" /\ cases[p].category = NoCategory =>
              /\ payment.authorized = SettledGross(data, p)
              /\ \A settled \in SettledDates(data, p) :
                    \A d \in WindowStart .. settled : IsWorkingDay(d) => d =< dueDay
              /\ \A r, o \in DOMAIN data.ledger :
                    /\ data.ledger[r].order = payment.order
                    /\ data.ledger[o].order # payment.order
                    /\ data.ledger[o].customer = data.ledger[r].customer
                    /\ data.ledger[o].gross = data.ledger[r].gross
                    => {payment.order, data.ledger[o].order}
                          \cap ConfirmedOrders(data.ledger) # {}

(* "An unclaimed credit is an orphan and becomes a Population C row        *)
(* variance" (exact.py:130): when the run is over, each credit settled a   *)
(* batch, is reported as an orphan, or may still settle a batch reported   *)
(* as not settled.                                                         *)
EveryCreditReported ==
    pass = "DONE" =>
        \A c \in remaining :
            \/ c \in rowVariances.orphans
            \/ \E b \in Delivered \ Settled :
                  SharesUtrPrefix(b, c) \/ AmountAgrees(data.bank[c], data.batches[b])

=============================================================================
