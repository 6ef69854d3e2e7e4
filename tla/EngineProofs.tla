---------------------------- MODULE EngineProofs ----------------------------
(***************************************************************************)
(* One call of the matching engine, on any data and under any              *)
(* configuration: its variables keep their types, a bank credit settles at *)
(* most one batch, and the credit that settles a batch names it or fell    *)
(* due with it.                                                            *)
(***************************************************************************)
EXTENDS MatchEngine, RuleProofs

(* The last pass offers only credits that are still unclaimed. *)
PassesTakeTheirOwn ==
    /\ pass \in {"P2", "P2B"} => todo \subseteq BatchIds
    /\ pass = "P8" => todo \subseteq remaining

(* The inductive invariant of the engine. *)
EngineInv ==
    /\ EngineTypeOK
    /\ Fits(data)
    /\ PassesTakeTheirOwn
    /\ CreditSettlesOneBatch

(* First finds a member of any set of ids. *)
LEMMA FirstIsMember ==
  ASSUME NEW ids \in SUBSET Nat, ids # {}
  PROVE  First(ids) \in ids
BY LeastNumber DEF First

LEMMA OutcomesTyped ==
  /\ Undecided \in LinkOutcomes /\ Waiting \in LinkOutcomes
  /\ \A c \in CreditIds, category \in {NoCategory, "ROUNDING_DIFFERENCE"} :
        LinkedTo(c, category) \in LinkOutcomes /\ LinkedTo(c, category).credit = c
  /\ \A category \in MappingCategories :
        LeftOpen(category) \in LinkOutcomes /\ LeftOpen(category).credit = NoCredit
  /\ Undecided.credit = NoCredit /\ Waiting.credit = NoCredit
<1>1. /\ Undecided \in LinkOutcomes /\ Waiting \in LinkOutcomes
      /\ Undecided.credit = NoCredit /\ Waiting.credit = NoCredit
  BY DEF LinkOutcomes, Undecided, Waiting
<1>2. ASSUME NEW c \in CreditIds, NEW category \in {NoCategory, "ROUNDING_DIFFERENCE"}
      PROVE  LinkedTo(c, category) \in LinkOutcomes /\ LinkedTo(c, category).credit = c
  <2>1. LinkedTo(c, category) \in LinkOutcomes
    BY DEF LinkOutcomes
  <2>. QED  BY <2>1 DEF LinkedTo
<1>3. ASSUME NEW category \in MappingCategories
      PROVE  LeftOpen(category) \in LinkOutcomes /\ LeftOpen(category).credit = NoCredit
  <2>1. LeftOpen(category) \in LinkOutcomes
    BY DEF LinkOutcomes
  <2>. QED  BY <2>1 DEF LeftOpen
<1>. QED  BY <1>1, <1>2, <1>3

LEMMA CategoriesTyped ==
  ASSUME NEW b, NEW c
  PROVE  /\ RoundingCategory(b, c) \in {NoCategory, "ROUNDING_DIFFERENCE"}
         /\ OpenCategory(b) \in MappingCategories
BY DEF RoundingCategory, OpenCategory, MappingCategories

-----------------------------------------------------------------------------
(* A batch that has no credit is given one nobody has claimed, and the     *)
(* credit is claimed: all that LinkExact, LinkNear and ResolveCredit do.   *)
LEMMA ClaimKeepsOneBatch ==
  ASSUME EngineTypeOK, CreditSettlesOneBatch,
         NEW b, NEW c \in remaining, NEW category \in {NoCategory, "ROUNDING_DIFFERENCE"},
         links' = [links EXCEPT ![b] = LinkedTo(c, category)],
         remaining' = remaining \ {c}
  PROVE  /\ links' \in [BatchIds -> LinkOutcomes]
         /\ CreditSettlesOneBatch'
<1>1. c \in CreditIds /\ links \in [BatchIds -> LinkOutcomes]
  BY DEF EngineTypeOK
<1>2. LinkedTo(c, category) \in LinkOutcomes /\ LinkedTo(c, category).credit = c
  BY <1>1, OutcomesTyped
<1>3. links' \in [BatchIds -> LinkOutcomes]
  BY <1>1, <1>2
<1>4. c # NoCredit
  BY <1>1, IdsAssumption DEF NoCredit
<1>5. ASSUME NEW o \in BatchIds
      PROVE  links'[o].credit = IF o = b THEN c ELSE links[o].credit
  BY <1>1, <1>2
<1>6. ASSUME NEW o \in BatchIds
      PROVE  links'[o].credit \notin remaining'
  BY <1>5, <1>6 DEF CreditSettlesOneBatch
<1>7. ASSUME NEW b1 \in BatchIds, NEW b2 \in BatchIds, b1 # b2, links'[b1].credit # NoCredit
      PROVE  links'[b1].credit # links'[b2].credit
  <2>1. links[b1].credit # c /\ links[b2].credit # c
    BY DEF CreditSettlesOneBatch
  <2>. QED  BY <1>5, <1>7, <2>1 DEF CreditSettlesOneBatch
<1>. QED  BY <1>3, <1>6, <1>7 DEF CreditSettlesOneBatch

(* A batch told to wait keeps no credit from the others. *)
LEMMA WaitKeepsOneBatch ==
  ASSUME EngineTypeOK, CreditSettlesOneBatch, NEW b,
         links' = [links EXCEPT ![b] = Waiting], UNCHANGED remaining
  PROVE  /\ links' \in [BatchIds -> LinkOutcomes]
         /\ CreditSettlesOneBatch'
<1>1. links \in [BatchIds -> LinkOutcomes] /\ NoCredit \notin remaining
  BY IdsAssumption DEF EngineTypeOK, NoCredit
<1>2. ASSUME NEW o \in BatchIds
      PROVE  links'[o].credit = IF o = b THEN NoCredit ELSE links[o].credit
  BY <1>1, OutcomesTyped
<1>3. links' \in [BatchIds -> LinkOutcomes]
  BY <1>1, OutcomesTyped
<1>. QED  BY <1>1, <1>2, <1>3 DEF CreditSettlesOneBatch

(* A pass hands what it has not taken to the next step, or all that the    *)
(* next pass is to take.                                                   *)
LEMMA TakenKeepsPass ==
  ASSUME NEW b, NEW nextPass, NEW nextTodo, Taken(b, nextPass, nextTodo)
  PROVE  \/ pass' = nextPass /\ todo' = nextTodo
         \/ pass' = pass /\ todo' = todo \ {b}
BY DEF Taken

-----------------------------------------------------------------------------
(* Every call of the engine establishes the invariant. *)
LEMMA CallEstablishes ==
  ASSUME NEW d, NEW day, Fits(d), Call(d, day)
  PROVE  EngineInv'
<1>1. /\ pass' = "P7" /\ todo' = {} /\ data' = d
      /\ remaining' \subseteq DOMAIN d.bank
      /\ links' = [b \in BatchIds |-> Undecided]
  BY DEF Call, Fresh
<1>2. remaining' \subseteq CreditIds
  BY <1>1 DEF Fits
<1>3. EngineTypeOK'
  BY <1>1, <1>2, OutcomesTyped DEF EngineTypeOK, Passes
<1>4. NoCredit \notin remaining'
  BY <1>2, IdsAssumption DEF NoCredit
<1>5. CreditSettlesOneBatch'
  BY <1>1, <1>4, OutcomesTyped DEF CreditSettlesOneBatch
<1>6. Fits(data)' /\ PassesTakeTheirOwn'
  BY <1>1 DEF Fits, PassesTakeTheirOwn
<1>. QED  BY <1>3, <1>5, <1>6 DEF EngineInv

-----------------------------------------------------------------------------
(* The steps that claim nothing and decide nothing about a link. *)
LEMMA QuietSteps ==
  ASSUME EngineInv,
         \/ FindDuplicates \/ ClassifyCases \/ DeriveProfiles \/ Raise \/ AssembleRows
         \/ NothingLeftOpen \/ Skip("P2", "P2B", {}) \/ Skip("P2B", "P8", remaining)
         \/ Skip("P8", "OPEN", {}) \/ UNCHANGED engineVars
  PROVE  EngineInv'
<1>. USE DEF EngineInv, EngineTypeOK, Fits, PassesTakeTheirOwn
<1>1. links' = links /\ remaining' = remaining /\ data' = data
  BY DEF FindDuplicates, ClassifyCases, DeriveProfiles, Raise, AssembleRows,
         NothingLeftOpen, Skip, engineVars
<1>2. CreditSettlesOneBatch'
  BY <1>1 DEF CreditSettlesOneBatch
<1>3. \/ pass' = pass /\ todo' = todo
      \/ pass' \in Passes \ {"P2", "P2B", "P8"} /\ todo' \in {todo, {}}
      \/ pass' = "P2" /\ todo' = Delivered
      \/ pass' = "P2B" /\ todo' = {}
      \/ pass' = "P8" /\ todo' = remaining
  BY DEF FindDuplicates, ClassifyCases, DeriveProfiles, Raise, AssembleRows,
         NothingLeftOpen, Skip, engineVars, Passes
<1>4. pass' \in Passes /\ todo' \subseteq BatchIds \union CreditIds /\ PassesTakeTheirOwn'
  BY <1>1, <1>3 DEF Passes, Delivered
<1>. QED  BY <1>1, <1>2, <1>4

LEMMA LinkExactStep ==
  ASSUME EngineInv, LinkExact
  PROVE  EngineInv'
<1>. USE DEF EngineInv
<1>1. PICK b : /\ b = First(todo)
               /\ \/ UNCHANGED <<links, remaining>>
                  \/ /\ ExactCredits(b) # {}
                     /\ links' = [links EXCEPT ![b] = LinkedTo(First(ExactCredits(b)), NoCategory)]
                     /\ remaining' = remaining \ {First(ExactCredits(b))}
               /\ Taken(b, "P2B", Delivered)
  BY DEF LinkExact
<1>2. data' = data /\ pass = "P2" /\ todo \subseteq BatchIds /\ Delivered \subseteq BatchIds
  BY DEF LinkExact, PassesTakeTheirOwn, Delivered, Fits
<1>3. links' \in [BatchIds -> LinkOutcomes] /\ CreditSettlesOneBatch' /\ remaining' \subseteq remaining
  <2>1. CASE UNCHANGED <<links, remaining>>
    BY <2>1 DEF EngineTypeOK, CreditSettlesOneBatch
  <2>2. CASE ~UNCHANGED <<links, remaining>>
    <3>1. First(ExactCredits(b)) \in remaining
      <4>1. ExactCredits(b) \in SUBSET Nat /\ ExactCredits(b) \subseteq remaining
        BY IdsAssumption DEF ExactCredits, EngineTypeOK
      <4>. QED  BY <1>1, <2>2, <4>1, FirstIsMember
    <3>. QED  BY <1>1, <2>2, <3>1, ClaimKeepsOneBatch
  <2>. QED  BY <2>1, <2>2
<1>4. \/ pass' = "P2B" /\ todo' = Delivered
      \/ pass' = "P2" /\ todo' \subseteq todo
  BY <1>1, <1>2, TakenKeepsPass
<1>. QED  BY <1>2, <1>3, <1>4 DEF EngineTypeOK, Fits, PassesTakeTheirOwn, Passes

LEMMA LinkNearStep ==
  ASSUME EngineInv, LinkNear
  PROVE  EngineInv'
<1>. USE DEF EngineInv
<1>1. PICK b : /\ b = First(todo)
               /\ \/ UNCHANGED <<links, remaining>>
                  \/ /\ NearCredits(b) # {}
                     /\ links' = [links EXCEPT ![b] = LinkedTo(First(NearCredits(b)),
                                    RoundingCategory(b, First(NearCredits(b))))]
                     /\ remaining' = remaining \ {First(NearCredits(b))}
                  \/ links' = [links EXCEPT ![b] = Waiting] /\ UNCHANGED remaining
               /\ Taken(b, "P8", remaining')
  BY DEF LinkNear
<1>2. data' = data /\ pass = "P2B" /\ todo \subseteq BatchIds
  BY DEF LinkNear, PassesTakeTheirOwn
<1>3. links' \in [BatchIds -> LinkOutcomes] /\ CreditSettlesOneBatch' /\ remaining' \subseteq remaining
  <2>1. CASE UNCHANGED <<links, remaining>>
    BY <2>1 DEF EngineTypeOK, CreditSettlesOneBatch
  <2>2. CASE links' = [links EXCEPT ![b] = Waiting] /\ UNCHANGED remaining
    BY <2>2, WaitKeepsOneBatch
  <2>3. CASE /\ NearCredits(b) # {}
             /\ links' = [links EXCEPT ![b] = LinkedTo(First(NearCredits(b)),
                            RoundingCategory(b, First(NearCredits(b))))]
             /\ remaining' = remaining \ {First(NearCredits(b))}
    <3>1. First(NearCredits(b)) \in remaining
      <4>1. NearCredits(b) \in SUBSET Nat /\ NearCredits(b) \subseteq remaining
        BY IdsAssumption DEF NearCredits, EngineTypeOK
      <4>. QED  BY <2>3, <4>1, FirstIsMember
    <3>. QED  BY <2>3, <3>1, ClaimKeepsOneBatch, CategoriesTyped
  <2>. QED  BY <1>1, <2>1, <2>2, <2>3
<1>4. \/ pass' = "P8" /\ todo' = remaining'
      \/ pass' = "P2B" /\ todo' \subseteq todo
  BY <1>1, <1>2, TakenKeepsPass
<1>. QED  BY <1>2, <1>3, <1>4 DEF EngineTypeOK, Fits, PassesTakeTheirOwn, Passes

LEMMA ResolveCreditStep ==
  ASSUME EngineInv, ResolveCredit
  PROVE  EngineInv'
<1>. USE DEF EngineInv
<1>1. PICK c, b : /\ c = First(todo)
                  /\ \/ UNCHANGED <<links, remaining>>
                     \/ /\ links' = [links EXCEPT ![b] = LinkedTo(c, RoundingCategory(b, c))]
                        /\ remaining' = remaining \ {c}
                  /\ Taken(c, "OPEN", {})
  BY DEF ResolveCredit
<1>2. data' = data /\ pass = "P8" /\ todo \subseteq remaining /\ todo # {}
  BY DEF ResolveCredit, PassesTakeTheirOwn
<1>3. c \in remaining
  <2>1. todo \in SUBSET Nat
    BY <1>2, IdsAssumption DEF EngineTypeOK
  <2>. QED  BY <1>1, <1>2, <2>1, FirstIsMember
<1>4. /\ links' \in [BatchIds -> LinkOutcomes] /\ CreditSettlesOneBatch'
      /\ remaining' \subseteq remaining /\ remaining \ {c} \subseteq remaining'
  <2>1. CASE UNCHANGED <<links, remaining>>
    BY <2>1 DEF EngineTypeOK, CreditSettlesOneBatch
  <2>2. CASE ~UNCHANGED <<links, remaining>>
    BY <1>1, <1>3, <2>2, ClaimKeepsOneBatch, CategoriesTyped
  <2>. QED  BY <2>1, <2>2
<1>5. \/ pass' = "OPEN" /\ todo' = {}
      \/ pass' = "P8" /\ todo' = todo \ {c}
  BY <1>1, <1>2, TakenKeepsPass
<1>. QED  BY <1>2, <1>4, <1>5 DEF EngineTypeOK, Fits, PassesTakeTheirOwn, Passes

LEMMA CategoriseOpenStep ==
  ASSUME EngineInv, CategoriseOpen
  PROVE  EngineInv'
<1>. USE DEF EngineInv
<1>1. /\ data' = data /\ remaining' = remaining /\ todo' = todo /\ pass' = "ROWS"
      /\ links' = [b \in BatchIds |->
                      IF b \in StillOpen THEN LeftOpen(OpenCategory(b)) ELSE links[b]]
  BY DEF CategoriseOpen
<1>2. NoCredit \notin remaining /\ links \in [BatchIds -> LinkOutcomes]
  BY IdsAssumption DEF EngineTypeOK, NoCredit
<1>3. ASSUME NEW b \in BatchIds
      PROVE  /\ links'[b] \in LinkOutcomes
             /\ links'[b].credit = IF b \in StillOpen THEN NoCredit ELSE links[b].credit
  BY <1>1, <1>2, OutcomesTyped, CategoriesTyped
<1>4. links' \in [BatchIds -> LinkOutcomes]
  BY <1>1, <1>3
<1>5. CreditSettlesOneBatch'
  BY <1>1, <1>2, <1>3 DEF CreditSettlesOneBatch
<1>. QED  BY <1>1, <1>4, <1>5 DEF EngineTypeOK, Fits, PassesTakeTheirOwn, Passes

LEMMA EngineStepKeeps ==
  ASSUME EngineInv, [EngineNext]_engineVars
  PROVE  EngineInv'
BY QuietSteps, LinkExactStep, LinkNearStep, ResolveCreditStep, CategoriseOpenStep DEF EngineNext

-----------------------------------------------------------------------------
LEMMA EngineStarts ==
  ASSUME EngineInit
  PROVE  EngineInv
<1>1. PICK input \in Inputs :
         /\ data = input.data /\ pass = "P7" /\ todo = {}
         /\ remaining \subseteq DOMAIN input.data.bank
         /\ links = [b \in BatchIds |-> Undecided]
  BY DEF EngineInit, Fresh
<1>2. Fits(data)
  BY <1>1, InputsAssumption
<1>3. remaining \subseteq CreditIds /\ NoCredit \notin remaining
  BY <1>1, <1>2, IdsAssumption DEF Fits, NoCredit
<1>4. EngineTypeOK
  BY <1>1, <1>3, OutcomesTyped DEF EngineTypeOK, Passes
<1>5. CreditSettlesOneBatch
  BY <1>1, <1>3, OutcomesTyped DEF CreditSettlesOneBatch
<1>6. PassesTakeTheirOwn
  BY <1>1 DEF PassesTakeTheirOwn
<1>. QED  BY <1>2, <1>4, <1>5, <1>6 DEF EngineInv

(* One run of the engine, on any data whose ids fit: the variables of      *)
(* run_with_telemetry and _classify_batches keep their types.              *)
THEOREM EngineTyped == EngineSpec => []EngineTypeOK
<1>1. EngineInv => EngineTypeOK
  BY DEF EngineInv
<1>. QED  BY <1>1, EngineStarts, EngineStepKeeps, PTL DEF EngineSpec

(* No bank credit settles two batches, in any run on any data: what        *)
(* link_batches_to_bank claims, _classify_batches offers to no other.      *)
THEOREM CreditsSettleOneBatch == EngineSpec => []CreditSettlesOneBatch
<1>1. EngineInv => CreditSettlesOneBatch
  BY DEF EngineInv
<1>. QED  BY <1>1, EngineStarts, EngineStepKeeps, PTL DEF EngineSpec

-----------------------------------------------------------------------------
(* The pool holds credits of the data. *)
PoolIsDelivered ==
    \A c \in remaining : c \in DOMAIN data.bank /\ data.bank[c].direction = "CREDIT"

(* Nothing is linked before the due dates are derived. *)
LinksComeAfterDueDates ==
    pass \in {"P7", "CASES", "PROFILES"} => \A b \in BatchIds : links[b] = Undecided

(* What the confirmed links rest on, and what it takes to keep it so. *)
EvidenceInv ==
    /\ PoolIsDelivered
    /\ LinksComeAfterDueDates
    /\ LinkFallsDue

LEMMA OnlyLinkedIsConfirmed ==
  /\ Undecided.status # "CONFIRMED" /\ Waiting.status # "CONFIRMED"
  /\ \A category \in MappingCategories : LeftOpen(category).status # "CONFIRMED"
  /\ \A c \in CreditIds, category \in {NoCategory, "ROUNDING_DIFFERENCE"} :
        LinkedTo(c, category).credit = c
BY DEF Undecided, Waiting, LeftOpen, LinkedTo

(* A step that links no batch, on the same data and due dates. *)
LEMMA NoNewLinkKeepsEvidence ==
  ASSUME EngineInv, EvidenceInv, UNCHANGED <<data, due>>, remaining' \subseteq remaining,
         \A b \in BatchIds : links'[b] = links[b] \/ links'[b].status # "CONFIRMED",
         pass' \in {"P7", "CASES", "PROFILES"} => links' = links /\ pass \in {"P7", "CASES", "PROFILES"}
  PROVE  EvidenceInv'
<1>. USE DEF EvidenceInv
<1>1. PoolIsDelivered'
  BY DEF PoolIsDelivered
<1>2. LinksComeAfterDueDates'
  BY DEF LinksComeAfterDueDates
<1>3. ASSUME NEW b \in Settled'
      PROVE  b \in Settled /\ links'[b] = links[b]
  BY DEF Settled, Delivered, EngineInv, Fits
<1>4. LinkFallsDue'
  BY <1>3 DEF LinkFallsDue, CreditOf
<1>. QED  BY <1>1, <1>2, <1>4

(* A credit of the pool is given to a batch it names, or fell due with. *)
LEMMA ClaimKeepsEvidence ==
  ASSUME EngineInv, EvidenceInv, UNCHANGED <<data, due>>, pass' \notin {"P7", "CASES", "PROFILES"},
         NEW b, NEW c \in remaining, NEW category \in {NoCategory, "ROUNDING_DIFFERENCE"},
         links' = [links EXCEPT ![b] = LinkedTo(c, category)],
         remaining' = remaining \ {c},
         \/ CarriesUtr(data.bank[c].token, data.batches[b].utr)
         \/ Magnitude(data.bank[c].valueDate - due[b]) =< Fuzzy.date_window_days
  PROVE  EvidenceInv'
<1>. USE DEF EvidenceInv
<1>1. PoolIsDelivered'
  BY DEF PoolIsDelivered
<1>2. LinksComeAfterDueDates'
  BY DEF LinksComeAfterDueDates
<1>3. c \in CreditIds /\ links \in [BatchIds -> LinkOutcomes] /\ Delivered \subseteq BatchIds
  BY DEF EngineInv, EngineTypeOK, Fits, Delivered
<1>4. ASSUME NEW o \in Settled', o # b
      PROVE  o \in Settled /\ links'[o] = links[o]
  BY <1>3, <1>4 DEF Settled, Delivered
<1>5. b \in Settled' => links'[b].credit = c
  BY <1>3, OnlyLinkedIsConfirmed DEF Settled, Delivered
<1>6. c \in DOMAIN data.bank /\ data.bank[c].direction = "CREDIT"
  BY DEF PoolIsDelivered
<1>7. LinkFallsDue'
  BY <1>4, <1>5, <1>6 DEF LinkFallsDue, CreditOf
<1>. QED  BY <1>1, <1>2, <1>7

(* What resolve accepts fell into the window: a score of zero is refused.  *)
LEMMA AcceptedFallsDue ==
  ASSUME NEW credit, NEW candidates, NEW dates, NEW b \in Resolve(credit, candidates, dates)
  PROVE  b \in DOMAIN candidates /\ Magnitude(credit.valueDate - dates[b]) =< Fuzzy.date_window_days
<1>1. /\ b \in DOMAIN candidates
      /\ Score(credit, candidates[b], dates[b], Path(credit, candidates)) > 0
  BY DEF Resolve, Scores
<1>2. ~(0 > 0)
  OBVIOUS
<1>. QED  BY <1>1, <1>2 DEF Score

LEMMA EvidenceStepKeeps ==
  ASSUME EngineInv, EvidenceInv, [EngineNext]_engineVars
  PROVE  EvidenceInv'
<1>1. CASE UNCHANGED engineVars
  BY <1>1, NoNewLinkKeepsEvidence DEF engineVars
<1>2. CASE FindDuplicates \/ ClassifyCases \/ Raise \/ AssembleRows \/ NothingLeftOpen
           \/ Skip("P2", "P2B", {}) \/ Skip("P2B", "P8", remaining) \/ Skip("P8", "OPEN", {})
  <2>1. /\ UNCHANGED <<data, due, links, remaining>>
        /\ pass' \in {"P7", "CASES", "PROFILES"} => pass \in {"P7", "CASES", "PROFILES"}
    BY <1>2 DEF FindDuplicates, ClassifyCases, Raise, AssembleRows, NothingLeftOpen, Skip
  <2>. QED  BY <2>1, NoNewLinkKeepsEvidence
<1>3. CASE DeriveProfiles
  <2>1. /\ pass' = "P2" /\ UNCHANGED <<data, links, remaining>>
        /\ \A b \in BatchIds : links[b] = Undecided
    BY <1>3 DEF DeriveProfiles, EvidenceInv, LinksComeAfterDueDates
  <2>2. Settled' = {}
    BY <2>1, OnlyLinkedIsConfirmed DEF Settled, Delivered, EngineInv, Fits
  <2>. QED  BY <2>1, <2>2 DEF EvidenceInv, PoolIsDelivered, LinksComeAfterDueDates, LinkFallsDue
<1>4. CASE LinkExact
  <2>1. /\ UNCHANGED <<data, due>> /\ pass = "P2"
        /\ ExactCredits(First(todo)) \in SUBSET Nat /\ ExactCredits(First(todo)) \subseteq remaining
    BY <1>4, IdsAssumption DEF LinkExact, ExactCredits, EngineInv, EngineTypeOK
  <2>2. pass' \in {"P2", "P2B"}
    BY <1>4, <2>1 DEF LinkExact, Taken
  <2>3. CASE ExactCredits(First(todo)) = {}
    BY <1>4, <2>1, <2>2, <2>3, NoNewLinkKeepsEvidence DEF LinkExact
  <2>4. CASE ExactCredits(First(todo)) # {}
    <3>1. First(ExactCredits(First(todo))) \in ExactCredits(First(todo))
      BY <2>1, <2>4, FirstIsMember
    <3>2. CarriesUtr(data.bank[First(ExactCredits(First(todo)))].token,
                     data.batches[First(todo)].utr)
      BY <3>1 DEF ExactCredits
    <3>. QED  BY <1>4, <2>1, <2>2, <2>4, <3>1, <3>2, ClaimKeepsEvidence DEF LinkExact
  <2>. QED  BY <2>3, <2>4
<1>5. CASE LinkNear
  <2>1. /\ UNCHANGED <<data, due>> /\ pass = "P2B"
        /\ NearCredits(First(todo)) \in SUBSET Nat /\ NearCredits(First(todo)) \subseteq remaining
    BY <1>5, IdsAssumption DEF LinkNear, NearCredits, EngineInv, EngineTypeOK
  <2>2. pass' \in {"P2B", "P8"}
    BY <1>5, <2>1 DEF LinkNear, Taken
  <2>3. CASE UNCHANGED remaining /\ links' \in {links, [links EXCEPT ![First(todo)] = Waiting]}
    <3>1. ASSUME NEW b \in BatchIds
          PROVE  links'[b] = links[b] \/ links'[b].status # "CONFIRMED"
      BY <2>3, OnlyLinkedIsConfirmed DEF EngineInv, EngineTypeOK
    <3>. QED  BY <2>1, <2>2, <2>3, <3>1, NoNewLinkKeepsEvidence
  <2>4. CASE /\ NearCredits(First(todo)) # {}
             /\ links' = [links EXCEPT ![First(todo)] =
                    LinkedTo(First(NearCredits(First(todo))),
                             RoundingCategory(First(todo), First(NearCredits(First(todo)))))]
             /\ remaining' = remaining \ {First(NearCredits(First(todo)))}
    <3>1. First(NearCredits(First(todo))) \in NearCredits(First(todo))
      BY <2>1, <2>4, FirstIsMember
    <3>2. CarriesUtr(data.bank[First(NearCredits(First(todo)))].token,
                     data.batches[First(todo)].utr)
      BY <3>1 DEF NearCredits
    <3>. QED  BY <2>1, <2>2, <2>4, <3>1, <3>2, ClaimKeepsEvidence, CategoriesTyped
  <2>. QED  BY <1>5, <2>3, <2>4 DEF LinkNear
<1>6. CASE ResolveCredit
  <2>1. /\ UNCHANGED <<data, due>> /\ pass = "P8" /\ First(todo) \in remaining
    <3>1. todo \in SUBSET Nat /\ todo # {} /\ todo \subseteq remaining
      BY <1>6, IdsAssumption DEF ResolveCredit, EngineInv, EngineTypeOK, PassesTakeTheirOwn
    <3>. QED  BY <1>6, <3>1, FirstIsMember DEF ResolveCredit
  <2>2. pass' \in {"P8", "OPEN"}
    BY <1>6, <2>1 DEF ResolveCredit, Taken
  <2>3. CASE UNCHANGED <<links, remaining>>
    BY <2>1, <2>2, <2>3, NoNewLinkKeepsEvidence
  <2>4. ASSUME NEW b \in Resolve(data.bank[First(todo)], Candidates, due),
               links' = [links EXCEPT ![b] = LinkedTo(First(todo), RoundingCategory(b, First(todo)))],
               remaining' = remaining \ {First(todo)}
        PROVE  EvidenceInv'
    BY <2>1, <2>2, <2>4, AcceptedFallsDue, ClaimKeepsEvidence, CategoriesTyped
  <2>. QED  BY <1>6, <2>3, <2>4 DEF ResolveCredit
<1>7. CASE CategoriseOpen
  <2>1. /\ UNCHANGED <<data, due, remaining>> /\ pass' = "ROWS"
        /\ \A b \in BatchIds : links'[b] = links[b] \/ links'[b] = LeftOpen(OpenCategory(b))
    BY <1>7 DEF CategoriseOpen
  <2>2. ASSUME NEW b \in BatchIds
        PROVE  links'[b] = links[b] \/ links'[b].status # "CONFIRMED"
    BY <2>1, OnlyLinkedIsConfirmed, CategoriesTyped
  <2>. QED  BY <2>1, <2>2, NoNewLinkKeepsEvidence
<1>. QED  BY <1>1, <1>2, <1>3, <1>4, <1>5, <1>6, <1>7 DEF EngineNext

(* Whether the engine starts, or is called again. *)
LEMMA FreshHasEvidence ==
  ASSUME EngineInit
  PROVE  EvidenceInv
<1>1. PICK input \in Inputs :
         /\ data = input.data
         /\ remaining = {c \in DOMAIN input.data.bank : input.data.bank[c].direction = "CREDIT"}
         /\ links = [b \in BatchIds |-> Undecided]
  BY DEF EngineInit, Fresh
<1>2. Settled = {}
  BY <1>1, InputsAssumption, OnlyLinkedIsConfirmed DEF Settled, Delivered, Fits
<1>. QED  BY <1>1, <1>2 DEF EvidenceInv, PoolIsDelivered, LinksComeAfterDueDates, LinkFallsDue

LEMMA CallHasEvidence ==
  ASSUME NEW d, NEW day, Fits(d), Call(d, day)
  PROVE  EvidenceInv'
<1>1. /\ data' = d
      /\ remaining' = {c \in DOMAIN d.bank : d.bank[c].direction = "CREDIT"}
      /\ links' = [b \in BatchIds |-> Undecided]
  BY DEF Call, Fresh
<1>2. Settled' = {}
  BY <1>1, OnlyLinkedIsConfirmed DEF Settled, Delivered, Fits
<1>. QED  BY <1>1, <1>2 DEF EvidenceInv, PoolIsDelivered, LinksComeAfterDueDates, LinkFallsDue

(* In any run on any data, whatever the weights and thresholds, a batch is *)
(* settled only by a credit of the data that names it in full or that fell *)
(* within the window of its due date (links of P2, P2b and P8).            *)
THEOREM LinksFallDue == EngineSpec => []LinkFallsDue
<1>1. EvidenceInv => LinkFallsDue
  BY DEF EvidenceInv
<1>. QED  BY <1>1, EngineStarts, EngineStepKeeps, FreshHasEvidence, EvidenceStepKeeps,
             PTL DEF EngineSpec

-----------------------------------------------------------------------------
(* What the steps of the engine come to for a link: nothing is decided, a  *)
(* batch is given a credit, a batch is told to wait, or every batch still  *)
(* undecided is left open.                                                 *)
Early == {"P7", "CASES", "PROFILES"}

Quiet ==
    /\ UNCHANGED <<data, asOf, due, remaining, links>>
    /\ \/ pass' = pass \/ pass' = "FAILED"
       \/ <<pass, pass'>> \in {<<"P7", "CASES">>, <<"CASES", "PROFILES">>, <<"P2", "P2B">>,
                               <<"P2B", "P8">>, <<"P8", "OPEN">>, <<"ROWS", "DONE">>}
    /\ pass' = "P2" => todo' \subseteq todo
    /\ pass' = "P2B" => todo' \subseteq Delivered
    /\ pass' = "PROFILES" => pass = "PROFILES" \/ ~CasesRefused(data)

Claims(b, c) ==
    /\ UNCHANGED <<data, asOf, due, cases, rowVariances>>
    /\ links[b] = Undecided
    /\ links' = [links EXCEPT ![b] = LinkedTo(c, RoundingCategory(b, c))]
    /\ remaining' = remaining \ {c}
    /\ \/ pass = "P2" /\ pass' \in {"P2", "P2B"} /\ c \in ExactCredits(b)
       \/ pass = "P2B" /\ pass' \in {"P2B", "P8"} /\ c \in NearCredits(b)
       \/ /\ pass = "P8" /\ pass' \in {"P8", "OPEN"}
          /\ b \in Resolve(data.bank[c], Candidates, due)
    /\ pass' = "P2" => todo' \subseteq todo \ {b}
    /\ pass' = "P2B" => todo' \subseteq Delivered

Waits(b) ==
    /\ UNCHANGED <<data, asOf, due, remaining, cases, rowVariances>>
    /\ pass = "P2B" /\ pass' \in {"P2B", "P8"}
    /\ links[b] = Undecided /\ due[b] > asOf
    /\ links' = [links EXCEPT ![b] = Waiting]
    /\ pass' = "P2B" => todo' \subseteq Delivered

(* A batch is taken by P2 once, and is left open only when P8 is over. *)
PassesInOrder ==
    /\ pass \in {"P2", "P2B"} => todo \subseteq Delivered
    /\ pass = "P2" => \A b \in todo : links[b] = Undecided
    /\ pass \in Early \union {"P2", "P2B", "P8", "OPEN"} =>
          \A b \in BatchIds : links[b].status # "OPEN"

LEMMA EngineStepCases ==
  ASSUME EngineInv, PassesInOrder, [EngineNext]_engineVars
  PROVE  \/ Quiet \/ DeriveProfiles \/ CategoriseOpen
         \/ \E b \in Delivered, c \in remaining : Claims(b, c)
         \/ \E b \in Delivered : Waits(b)
<1>1. CASE UNCHANGED engineVars
  BY <1>1 DEF engineVars, Quiet, PassesInOrder
<1>2. CASE FindDuplicates \/ ClassifyCases \/ Raise \/ AssembleRows \/ NothingLeftOpen
           \/ Skip("P2", "P2B", {}) \/ Skip("P2B", "P8", remaining) \/ Skip("P8", "OPEN", {})
  <2>1. UNCHANGED <<data, asOf, due, remaining, links>>
    BY <1>2 DEF FindDuplicates, ClassifyCases, Raise, AssembleRows, NothingLeftOpen, Skip
  <2>2. \/ pass' = "FAILED"
        \/ <<pass, pass'>> \in {<<"P7", "CASES">>, <<"CASES", "PROFILES">>, <<"P2", "P2B">>,
                                <<"P2B", "P8">>, <<"P8", "OPEN">>, <<"ROWS", "DONE">>}
    BY <1>2 DEF FindDuplicates, ClassifyCases, Raise, AssembleRows, NothingLeftOpen, Skip
  <2>3. pass' # "P2" /\ (pass' = "P2B" => todo' = {})
    BY <1>2 DEF FindDuplicates, ClassifyCases, Raise, AssembleRows, NothingLeftOpen, Skip
  <2>4. pass' = "PROFILES" => ~CasesRefused(data)
    BY <1>2 DEF FindDuplicates, ClassifyCases, Raise, AssembleRows, NothingLeftOpen, Skip
  <2>. QED  BY <2>1, <2>2, <2>3, <2>4 DEF Quiet
<1>3. CASE LinkExact
  <2>1. PICK b : /\ b = First(todo)
                 /\ \/ UNCHANGED <<links, remaining>>
                    \/ /\ ExactCredits(b) # {}
                       /\ links' = [links EXCEPT ![b] = LinkedTo(First(ExactCredits(b)), NoCategory)]
                       /\ remaining' = remaining \ {First(ExactCredits(b))}
                 /\ Taken(b, "P2B", Delivered)
    BY <1>3 DEF LinkExact
  <2>2. /\ UNCHANGED <<data, asOf, due, cases, rowVariances>> /\ pass = "P2"
        /\ todo \in SUBSET Nat /\ todo # {} /\ todo \subseteq Delivered
    BY <1>3, IdsAssumption DEF LinkExact, EngineInv, Fits, PassesInOrder, Delivered
  <2>3. b \in Delivered /\ links[b] = Undecided
    BY <2>1, <2>2, FirstIsMember DEF PassesInOrder
  <2>4. /\ pass' \in {"P2", "P2B"}
        /\ pass' = "P2" => todo' = todo \ {b}
        /\ pass' = "P2B" => todo' = Delivered
    BY <2>1, <2>2 DEF Taken
  <2>5. CASE UNCHANGED <<links, remaining>>
    <3>1. pass' = pass \/ <<pass, pass'>> = <<"P2", "P2B">>
      BY <2>2, <2>4
    <3>. QED  BY <2>2, <2>4, <2>5, <3>1 DEF Quiet
  <2>6. CASE ~UNCHANGED <<links, remaining>>
    <3>1. First(ExactCredits(b)) \in ExactCredits(b) /\ ExactCredits(b) \subseteq remaining
      <4>1. ExactCredits(b) \in SUBSET Nat /\ ExactCredits(b) \subseteq remaining
        BY IdsAssumption DEF ExactCredits, EngineInv, EngineTypeOK
      <4>. QED  BY <2>1, <2>6, <4>1, FirstIsMember
    <3>2. RoundingCategory(b, First(ExactCredits(b))) = NoCategory
      BY <3>1 DEF RoundingCategory, ExactCredits
    <3>3. Claims(b, First(ExactCredits(b)))
      BY <2>1, <2>2, <2>3, <2>4, <2>6, <3>1, <3>2 DEF Claims
    <3>. QED  BY <2>3, <3>1, <3>3
  <2>. QED  BY <2>5, <2>6
<1>4. CASE LinkNear
  <2>1. PICK b :
          /\ b = First(todo)
          /\ \/ UNCHANGED <<links, remaining>>
             \/ /\ links[b] = Undecided /\ NearCredits(b) # {}
                /\ links' = [links EXCEPT ![b] = LinkedTo(First(NearCredits(b)),
                               RoundingCategory(b, First(NearCredits(b))))]
                /\ remaining' = remaining \ {First(NearCredits(b))}
             \/ /\ links[b] = Undecided /\ due[b] > asOf
                /\ links' = [links EXCEPT ![b] = Waiting] /\ UNCHANGED remaining
          /\ Taken(b, "P8", remaining')
    BY <1>4 DEF LinkNear
  <2>2. /\ UNCHANGED <<data, asOf, due, cases, rowVariances>> /\ pass = "P2B"
        /\ todo \in SUBSET Nat /\ todo # {} /\ todo \subseteq Delivered
    BY <1>4, IdsAssumption DEF LinkNear, EngineInv, Fits, PassesInOrder, Delivered
  <2>3. b \in Delivered
    BY <2>1, <2>2, FirstIsMember
  <2>4. pass' \in {"P2B", "P8"} /\ (pass' = "P2B" => todo' = todo \ {b})
    BY <2>1, <2>2 DEF Taken
  <2>5. CASE UNCHANGED <<links, remaining>>
    <3>1. pass' = pass \/ <<pass, pass'>> = <<"P2B", "P8">>
      BY <2>2, <2>4
    <3>. QED  BY <2>2, <2>4, <2>5, <3>1 DEF Quiet
  <2>6. CASE /\ links[b] = Undecided /\ NearCredits(b) # {}
             /\ links' = [links EXCEPT ![b] = LinkedTo(First(NearCredits(b)),
                            RoundingCategory(b, First(NearCredits(b))))]
             /\ remaining' = remaining \ {First(NearCredits(b))}
    <3>1. First(NearCredits(b)) \in NearCredits(b) /\ NearCredits(b) \subseteq remaining
      <4>1. NearCredits(b) \in SUBSET Nat /\ NearCredits(b) \subseteq remaining
        BY IdsAssumption DEF NearCredits, EngineInv, EngineTypeOK
      <4>. QED  BY <2>6, <4>1, FirstIsMember
    <3>2. Claims(b, First(NearCredits(b)))
      BY <2>2, <2>4, <2>6, <3>1 DEF Claims
    <3>. QED  BY <2>3, <3>1, <3>2
  <2>7. CASE /\ links[b] = Undecided /\ due[b] > asOf
             /\ links' = [links EXCEPT ![b] = Waiting] /\ UNCHANGED remaining
    BY <2>2, <2>3, <2>4, <2>7 DEF Waits
  <2>. QED  BY <2>1, <2>5, <2>6, <2>7
<1>5. CASE ResolveCredit
  <2>1. PICK c : /\ c = First(todo)
                 /\ \/ UNCHANGED <<links, remaining>>
                    \/ \E b \in Resolve(data.bank[c], Candidates, due) :
                         /\ links' = [links EXCEPT ![b] = LinkedTo(c, RoundingCategory(b, c))]
                         /\ remaining' = remaining \ {c}
                 /\ Taken(c, "OPEN", {})
    BY <1>5 DEF ResolveCredit
  <2>2. /\ UNCHANGED <<data, asOf, due, cases, rowVariances>> /\ pass = "P8"
        /\ todo \in SUBSET Nat /\ todo # {} /\ todo \subseteq remaining
    BY <1>5, IdsAssumption DEF ResolveCredit, EngineInv, EngineTypeOK, PassesTakeTheirOwn
  <2>3. c \in remaining
    BY <2>1, <2>2, FirstIsMember
  <2>4. pass' \in {"P8", "OPEN"}
    BY <2>1, <2>2 DEF Taken
  <2>5. CASE UNCHANGED <<links, remaining>>
    <3>1. /\ pass' = pass \/ <<pass, pass'>> = <<"P8", "OPEN">>
          /\ pass' # "P2" /\ pass' # "P2B"
      BY <2>2, <2>4
    <3>. QED  BY <2>2, <2>5, <3>1 DEF Quiet
  <2>6. ASSUME NEW b \in Resolve(data.bank[c], Candidates, due),
               links' = [links EXCEPT ![b] = LinkedTo(c, RoundingCategory(b, c))],
               remaining' = remaining \ {c}
        PROVE  b \in Delivered /\ Claims(b, c)
    <3>1. b \in StillOpen
      BY DEF Resolve, Candidates
    <3>2. b \in Delivered /\ links[b] = Undecided
      BY <3>1 DEF StillOpen
    <3>. QED  BY <2>2, <2>4, <2>6, <3>2 DEF Claims
  <2>. QED  BY <2>1, <2>3, <2>5, <2>6
<1>. QED  BY <1>1, <1>2, <1>3, <1>4, <1>5 DEF EngineNext

(* The outcomes, by their status. *)
LEMMA OutcomeStatus ==
  ASSUME NEW outcome \in LinkOutcomes
  PROVE  /\ outcome.status \in {"UNDECIDED", "CONFIRMED", "PENDING_EVIDENCE", "OPEN"}
         /\ outcome.status = "UNDECIDED" <=> outcome = Undecided
         /\ outcome.status = "CONFIRMED" => outcome.credit \in CreditIds
         /\ outcome.status # "CONFIRMED" => outcome.credit = NoCredit
<1>1. CASE outcome \in {Undecided, Waiting}
  BY <1>1 DEF Undecided, Waiting
<1>2. ASSUME NEW c \in CreditIds, NEW category \in {NoCategory, "ROUNDING_DIFFERENCE"},
             outcome = LinkedTo(c, category)
      PROVE  outcome.status = "CONFIRMED" /\ outcome.credit = c /\ outcome # Undecided
  BY <1>2 DEF LinkedTo, Undecided
<1>3. ASSUME NEW category \in MappingCategories, outcome = LeftOpen(category)
      PROVE  outcome.status = "OPEN" /\ outcome.credit = NoCredit /\ outcome # Undecided
  BY <1>3 DEF LeftOpen, Undecided
<1>. QED  BY <1>1, <1>2, <1>3 DEF LinkOutcomes

(* Batches that are settled stay so, and keep their credit. *)
LEMMA ClaimUpdates ==
  ASSUME EngineInv, NEW b \in Delivered, NEW c \in remaining, Claims(b, c)
  PROVE  /\ \A o \in BatchIds :
              links'[o] = IF o = b THEN LinkedTo(c, RoundingCategory(b, c)) ELSE links[o]
         /\ Settled' = Settled \union {b} /\ b \notin Settled
         /\ CreditOf(b)' = data.bank[c]
         /\ \A o \in Settled : CreditOf(o)' = CreditOf(o)
<1>1. links \in [BatchIds -> LinkOutcomes] /\ b \in BatchIds /\ Delivered \subseteq BatchIds
  BY DEF EngineInv, EngineTypeOK, Fits, Delivered
<1>2. /\ data' = data /\ links[b] = Undecided
      /\ links' = [links EXCEPT ![b] = LinkedTo(c, RoundingCategory(b, c))]
  BY DEF Claims
<1>3. \A o \in BatchIds :
         links'[o] = IF o = b THEN LinkedTo(c, RoundingCategory(b, c)) ELSE links[o]
  BY <1>1, <1>2
<1>4. b \notin Settled /\ Delivered' = Delivered
  BY <1>2 DEF Settled, Undecided, Delivered
<1>5. LinkedTo(c, RoundingCategory(b, c)).status = "CONFIRMED"
      /\ LinkedTo(c, RoundingCategory(b, c)).credit = c
  BY DEF LinkedTo
<1>6. Settled' = Settled \union {b}
  BY <1>1, <1>3, <1>4, <1>5 DEF Settled
<1>7. CreditOf(b)' = data.bank[c]
  BY <1>1, <1>2, <1>3, <1>5 DEF CreditOf
<1>8. ASSUME NEW o \in Settled
      PROVE  CreditOf(o)' = CreditOf(o)
  BY <1>1, <1>2, <1>3, <1>4 DEF CreditOf, Settled
<1>. QED  BY <1>3, <1>4, <1>6, <1>7, <1>8

LEMMA WaitUpdates ==
  ASSUME EngineInv, NEW b \in Delivered, Waits(b)
  PROVE  /\ \A o \in BatchIds : links'[o] = IF o = b THEN Waiting ELSE links[o]
         /\ Settled' = Settled
         /\ \A o \in Settled : CreditOf(o)' = CreditOf(o)
<1>1. links \in [BatchIds -> LinkOutcomes] /\ b \in BatchIds /\ Delivered \subseteq BatchIds
  BY DEF EngineInv, EngineTypeOK, Fits, Delivered
<1>2. data' = data /\ links[b] = Undecided /\ links' = [links EXCEPT ![b] = Waiting]
  BY DEF Waits
<1>3. \A o \in BatchIds : links'[o] = IF o = b THEN Waiting ELSE links[o]
  BY <1>1, <1>2
<1>4. Settled' = Settled
  BY <1>1, <1>2, <1>3 DEF Settled, Undecided, Waiting, Delivered
<1>. QED  BY <1>1, <1>2, <1>3, <1>4 DEF CreditOf, Settled, Undecided

LEMMA CategoriseUpdates ==
  ASSUME EngineInv, CategoriseOpen
  PROVE  /\ \A o \in BatchIds :
              links'[o] = IF o \in StillOpen THEN LeftOpen(OpenCategory(o)) ELSE links[o]
         /\ Settled' = Settled
         /\ \A o \in Settled : CreditOf(o)' = CreditOf(o)
<1>1. Delivered \subseteq BatchIds
  BY DEF EngineInv, Fits, Delivered
<1>2. /\ data' = data
      /\ \A o \in BatchIds :
            links'[o] = IF o \in StillOpen THEN LeftOpen(OpenCategory(o)) ELSE links[o]
  BY DEF CategoriseOpen
<1>3. ASSUME NEW o \in BatchIds, o \in StillOpen
      PROVE  links[o].status = "UNDECIDED" /\ links'[o].status = "OPEN"
  <2>1. LeftOpen(OpenCategory(o)).status = "OPEN" /\ Undecided.status = "UNDECIDED"
    BY DEF LeftOpen, Undecided
  <2>. QED  BY <1>2, <1>3, <2>1 DEF StillOpen
<1>4. Settled' = Settled
  BY <1>1, <1>2, <1>3 DEF Settled, Delivered
<1>. QED  BY <1>1, <1>2, <1>3, <1>4 DEF CreditOf, Settled

(* Until the due dates are known nothing is settled. *)
LEMMA NothingSettledEarly ==
  ASSUME EngineInv, EvidenceInv, pass \in Early
  PROVE  Settled = {}
BY OnlyLinkedIsConfirmed DEF Early, EngineInv, EvidenceInv, LinksComeAfterDueDates, Settled,
   Delivered, Fits

LEMMA DeriveUpdates ==
  ASSUME EngineInv, EvidenceInv, DeriveProfiles
  PROVE  Settled = {} /\ Settled' = {} /\ UNCHANGED <<data, links, remaining>>
<1>1. pass \in Early /\ UNCHANGED <<data, links, remaining>>
  BY DEF DeriveProfiles, Early
<1>2. Settled = {}
  BY <1>1, NothingSettledEarly
<1>. QED  BY <1>1, <1>2 DEF Settled, Delivered

LEMMA QuietUpdates ==
  ASSUME Quiet
  PROVE  Settled' = Settled /\ Delivered' = Delivered /\ \A o : CreditOf(o)' = CreditOf(o)
BY DEF Quiet, Settled, Delivered, CreditOf

LEMMA PassesStayInOrder ==
  ASSUME EngineInv, EvidenceInv, PassesInOrder, [EngineNext]_engineVars
  PROVE  PassesInOrder'
<1>. USE DEF PassesInOrder
<1>1. CASE Quiet
  BY <1>1 DEF Quiet, Delivered, Early
<1>2. CASE DeriveProfiles
  <2>1. /\ pass' = "P2" /\ todo' = Delivered' /\ links' = links
        /\ \A b \in BatchIds : links[b] = Undecided
    BY <1>2 DEF DeriveProfiles, Delivered, EvidenceInv, LinksComeAfterDueDates
  <2>2. Delivered' \subseteq BatchIds
    BY <1>2 DEF DeriveProfiles, EngineInv, Fits, Delivered
  <2>. QED  BY <2>1, <2>2 DEF Undecided
<1>3. CASE CategoriseOpen
  BY <1>3 DEF CategoriseOpen, Early
<1>4. ASSUME NEW b \in Delivered, NEW c \in remaining, Claims(b, c)
      PROVE  PassesInOrder'
  <2>1. \A o \in BatchIds :
           links'[o] = IF o = b THEN LinkedTo(c, RoundingCategory(b, c)) ELSE links[o]
    BY <1>4, ClaimUpdates
  <2>2. LinkedTo(c, RoundingCategory(b, c)).status # "OPEN"
    BY DEF LinkedTo
  <2>3. Delivered' = Delivered /\ Delivered \subseteq BatchIds
    BY <1>4 DEF Claims, Delivered, EngineInv, Fits
  <2>4. /\ pass \in {"P2", "P2B", "P8"}
        /\ pass' = "P2" => pass = "P2" /\ todo' \subseteq todo \ {b}
        /\ pass' = "P2B" => todo' \subseteq Delivered
    BY <1>4 DEF Claims
  <2>. QED  BY <2>1, <2>2, <2>3, <2>4
<1>5. ASSUME NEW b \in Delivered, Waits(b)
      PROVE  PassesInOrder'
  <2>1. \A o \in BatchIds : links'[o] = IF o = b THEN Waiting ELSE links[o]
    BY <1>5, WaitUpdates
  <2>. QED  BY <1>5, <2>1 DEF Waits, Waiting, Delivered
<1>. QED  BY <1>1, <1>2, <1>3, <1>4, <1>5, EngineStepCases

-----------------------------------------------------------------------------
(* BestClaimStands while the passes go on: of a batch that is still        *)
(* undecided as of one left open.                                          *)
BestClaimSoFar ==
    \A b \in Settled, o \in Delivered :
        /\ links[o].status \in {"UNDECIDED", "OPEN"}
        /\ ~CarriesUtr(CreditOf(b).token, data.batches[b].utr)
        => \E fragment \in {FALSE, IsCandidate(CreditOf(b).token)} :
              Score(CreditOf(b), data.batches[b], due[b], fragment)
                - Score(CreditOf(b), data.batches[o], due[o], fragment)
                      >= Fuzzy.min_separation

(* Path is one of the paths a credit can be scored on. *)
LEMMA PathIsOpenTo ==
  ASSUME NEW credit, NEW candidates
  PROVE  Path(credit, candidates) \in {FALSE, IsCandidate(credit.token)}
BY DEF Path, HasFragment, IsCandidate

LEMMA AcceptedLeads ==
  ASSUME NEW c, NEW b \in Resolve(data.bank[c], Candidates, due),
         NEW o \in StillOpen, o # b
  PROVE  Score(data.bank[c], data.batches[b], due[b], Path(data.bank[c], Candidates))
           - Score(data.bank[c], data.batches[o], due[o], Path(data.bank[c], Candidates))
              >= Fuzzy.min_separation
<1>1. DOMAIN Candidates = StillOpen /\ b \in StillOpen
  BY DEF Candidates, Resolve
<1>2. Candidates[b] = data.batches[b] /\ Candidates[o] = data.batches[o]
  BY <1>1 DEF Candidates
<1>. QED  BY <1>1, <1>2 DEF Resolve, Scores

LEMMA BestClaimKept ==
  ASSUME EngineInv, EvidenceInv, PassesInOrder, BestClaimSoFar, [EngineNext]_engineVars
  PROVE  BestClaimSoFar'
<1>0. Delivered \subseteq BatchIds /\ links \in [BatchIds -> LinkOutcomes]
  BY DEF EngineInv, EngineTypeOK, Fits, Delivered
<1>1. CASE Quiet
  BY <1>1, QuietUpdates DEF Quiet, BestClaimSoFar
<1>2. CASE DeriveProfiles
  BY <1>2, DeriveUpdates DEF BestClaimSoFar
<1>3. CASE CategoriseOpen
  <2>1. UNCHANGED <<data, due>> /\ Delivered' = Delivered
    BY <1>3 DEF CategoriseOpen, Delivered
  <2>2. ASSUME NEW o \in Delivered, links'[o].status \in {"UNDECIDED", "OPEN"}
        PROVE  links[o].status \in {"UNDECIDED", "OPEN"}
    BY <1>0, <1>3, <2>2, CategoriseUpdates DEF StillOpen, Undecided
  <2>. QED  BY <1>3, <2>1, <2>2, CategoriseUpdates DEF BestClaimSoFar
<1>4. ASSUME NEW b \in Delivered, NEW c \in remaining, Claims(b, c)
      PROVE  BestClaimSoFar'
  <2>1. UNCHANGED <<data, due>> /\ Delivered' = Delivered
    BY <1>4 DEF Claims, Delivered
  <2>2. ASSUME NEW o \in Delivered, links'[o].status \in {"UNDECIDED", "OPEN"}
        PROVE  o # b /\ links[o].status \in {"UNDECIDED", "OPEN"}
    <3>1. LinkedTo(c, RoundingCategory(b, c)).status = "CONFIRMED"
      BY DEF LinkedTo
    <3>. QED  BY <1>0, <1>4, <2>2, <3>1, ClaimUpdates
  <2>3. ASSUME NEW o \in Delivered, links'[o].status \in {"UNDECIDED", "OPEN"},
               ~CarriesUtr(data.bank[c].token, data.batches[b].utr)
        PROVE  \E fragment \in {FALSE, IsCandidate(data.bank[c].token)} :
                  Score(data.bank[c], data.batches[b], due[b], fragment)
                    - Score(data.bank[c], data.batches[o], due[o], fragment)
                        >= Fuzzy.min_separation
    <3>1. pass = "P8" /\ b \in Resolve(data.bank[c], Candidates, due)
      BY <1>4, <2>3 DEF Claims, ExactCredits, NearCredits
    <3>2. links[o].status # "OPEN"
      BY <1>0, <3>1 DEF PassesInOrder
    <3>3. o \in StillOpen
      BY <1>0, <2>2, <2>3, <3>2, OutcomeStatus DEF StillOpen
    <3>. QED  BY <2>2, <2>3, <3>1, <3>3, AcceptedLeads, PathIsOpenTo
  <2>4. ASSUME NEW s \in Settled', NEW o \in Delivered,
               links'[o].status \in {"UNDECIDED", "OPEN"},
               ~CarriesUtr(CreditOf(s)'.token, data.batches[s].utr)
        PROVE  \E fragment \in {FALSE, IsCandidate(CreditOf(s)'.token)} :
                  Score(CreditOf(s)', data.batches[s], due[s], fragment)
                    - Score(CreditOf(s)', data.batches[o], due[o], fragment)
                        >= Fuzzy.min_separation
    <3>1. CASE s = b
      <4>1. CreditOf(s)' = data.bank[c]
        BY <1>4, <3>1, ClaimUpdates
      <4>. QED  BY <2>3, <2>4, <3>1, <4>1
    <3>2. CASE s # b
      <4>1. s \in Settled /\ CreditOf(s)' = CreditOf(s)
        BY <1>4, <3>2, ClaimUpdates
      <4>. QED  BY <2>2, <2>4, <4>1 DEF BestClaimSoFar
    <3>. QED  BY <3>1, <3>2
  <2>. QED  BY <2>1, <2>4 DEF BestClaimSoFar
<1>5. ASSUME NEW b \in Delivered, Waits(b)
      PROVE  BestClaimSoFar'
  <2>1. UNCHANGED <<data, due>> /\ Delivered' = Delivered
    BY <1>5 DEF Waits, Delivered
  <2>2. ASSUME NEW o \in Delivered, links'[o].status \in {"UNDECIDED", "OPEN"}
        PROVE  links[o].status \in {"UNDECIDED", "OPEN"}
    BY <1>0, <1>5, <2>2, WaitUpdates DEF Waiting
  <2>. QED  BY <1>5, <2>1, <2>2, WaitUpdates DEF BestClaimSoFar
<1>. QED  BY <1>1, <1>2, <1>3, <1>4, <1>5, EngineStepCases

-----------------------------------------------------------------------------
(* The engine at the start of a run, before anything is decided. *)
Begun ==
    /\ Fits(data)
    /\ pass \in {"P7", "DONE"} /\ todo = {} /\ cases = <<>>
    /\ remaining = {c \in DOMAIN data.bank : data.bank[c].direction = "CREDIT"}
    /\ links = [b \in BatchIds |-> Undecided] /\ rowVariances = NoRows
    /\ pass = "DONE" => /\ Delivered = {} /\ DOMAIN data.payments = {}
                        /\ DOMAIN data.ledger = {} /\ DOMAIN data.bank = {}

LEMMA InitHasBegun ==
  ASSUME EngineInit
  PROVE  Begun
BY InputsAssumption DEF EngineInit, Fresh, Begun

LEMMA CallHasBegun ==
  ASSUME NEW d, NEW day, Fits(d), Call(d, day)
  PROVE  Begun'
BY DEF Call, Fresh, Begun, Fits

LEMMA BegunIsUnsettled ==
  ASSUME Begun
  PROVE  Settled = {} /\ \A b \in BatchIds : links[b].status = "UNDECIDED"
BY DEF Begun, Settled, Undecided, Delivered, Fits

LEMMA BegunInOrder ==
  ASSUME Begun
  PROVE  PassesInOrder /\ BestClaimSoFar
BY BegunIsUnsettled DEF Begun, PassesInOrder, BestClaimSoFar

(* Of two batches that could have had a credit on other evidence than its  *)
(* name, one is left open only if the other had the better claim by the    *)
(* required margin: whatever the order credits were taken in, of any data  *)
(* and with any weights and thresholds (the guard of resolve, and the one  *)
(* pass over the credits of _classify_batches).                            *)
THEOREM BestClaimsStand == EngineSpec => []BestClaimStands
<1>1. BestClaimSoFar => BestClaimStands
  BY DEF BestClaimSoFar, BestClaimStands
<1>2. EngineInit => PassesInOrder /\ BestClaimSoFar
  BY InitHasBegun, BegunInOrder
<1>. QED  BY <1>1, <1>2, EngineStarts, EngineStepKeeps, FreshHasEvidence, EvidenceStepKeeps,
             PassesStayInOrder, BestClaimKept, PTL DEF EngineSpec

-----------------------------------------------------------------------------
(* What a step leaves of the batches that are settled, and adds to them.   *)
Undecideds == {o \in Delivered : links[o].status \in {"UNDECIDED", "OPEN"}}

SettledOnlyGrows ==
    /\ data' = data /\ remaining' \subseteq remaining
    /\ Undecideds' \subseteq Undecideds
    /\ \A o \in Settled : o \in Settled' /\ links'[o] = links[o] /\ CreditOf(o)' = CreditOf(o)
    /\ \A o \in Settled' \ Settled :
          \E c \in remaining : Claims(o, c) /\ CreditOf(o)' = data.bank[c]

LEMMA SettledGrows ==
  ASSUME EngineInv, EvidenceInv, PassesInOrder, [EngineNext]_engineVars
  PROVE  SettledOnlyGrows
<1>0. Delivered \subseteq BatchIds /\ links \in [BatchIds -> LinkOutcomes]
  BY DEF EngineInv, EngineTypeOK, Fits, Delivered
<1>1. CASE Quiet
  BY <1>1, QuietUpdates DEF Quiet, SettledOnlyGrows, Undecideds
<1>2. CASE DeriveProfiles
  <2>1. Settled = {} /\ Settled' = {} /\ UNCHANGED <<data, links, remaining>>
    BY <1>2, DeriveUpdates
  <2>. QED  BY <2>1 DEF SettledOnlyGrows, Undecideds, Delivered
<1>3. CASE CategoriseOpen
  <2>1. UNCHANGED <<data, remaining>> /\ Delivered' = Delivered
    BY <1>3 DEF CategoriseOpen, Delivered
  <2>2. Undecideds' \subseteq Undecideds
    BY <1>0, <1>3, <2>1, CategoriseUpdates DEF Undecideds, StillOpen, Undecided
  <2>3. ASSUME NEW o \in Settled
        PROVE  links'[o] = links[o]
    BY <1>0, <1>3, CategoriseUpdates DEF Settled, StillOpen, Undecided
  <2>. QED  BY <1>3, <2>1, <2>2, <2>3, CategoriseUpdates DEF SettledOnlyGrows
<1>4. ASSUME NEW b \in Delivered, NEW c \in remaining, Claims(b, c)
      PROVE  SettledOnlyGrows
  <2>1. data' = data /\ Delivered' = Delivered /\ remaining' \subseteq remaining
    BY <1>4 DEF Claims, Delivered
  <2>2. Undecideds' \subseteq Undecideds
    <3>1. LinkedTo(c, RoundingCategory(b, c)).status = "CONFIRMED"
      BY DEF LinkedTo
    <3>. QED  BY <1>0, <1>4, <2>1, <3>1, ClaimUpdates DEF Undecideds
  <2>3. ASSUME NEW o \in Settled
        PROVE  links'[o] = links[o]
    BY <1>0, <1>4, ClaimUpdates DEF Settled
  <2>. QED  BY <1>4, <2>1, <2>2, <2>3, ClaimUpdates DEF SettledOnlyGrows
<1>5. ASSUME NEW b \in Delivered, Waits(b)
      PROVE  SettledOnlyGrows
  <2>1. UNCHANGED <<data, remaining>> /\ Delivered' = Delivered /\ links[b] = Undecided
    BY <1>5 DEF Waits, Delivered
  <2>2. Undecideds' \subseteq Undecideds
    BY <1>0, <1>5, <2>1, WaitUpdates DEF Undecideds, Waiting
  <2>3. ASSUME NEW o \in Settled
        PROVE  links'[o] = links[o]
    BY <1>0, <1>5, <2>1, WaitUpdates DEF Settled, Undecided
  <2>. QED  BY <1>5, <2>1, <2>2, <2>3, WaitUpdates DEF SettledOnlyGrows
<1>. QED  BY <1>1, <1>2, <1>3, <1>4, <1>5, EngineStepCases

-----------------------------------------------------------------------------
(* Each CREDIT of the data is in the pool or has settled a batch; a batch  *)
(* left as missing its credit has none in the pool that may be its own.    *)
PoolIsAccounted ==
    /\ \A c \in DOMAIN data.bank : data.bank[c].direction = "CREDIT" =>
          c \in remaining \/ \E o \in Settled : links[o].credit = c
    /\ \A b \in Delivered : links[b].category = "MISSING_VS_LATE_CREDIT" =>
          \A c \in remaining : ~SharesUtrPrefix(b, c)

LEMMA BegunIsAccounted ==
  ASSUME Begun
  PROVE  PoolIsAccounted
<1>1. \A b \in BatchIds : links[b].category # "MISSING_VS_LATE_CREDIT"
  BY DEF Begun, Undecided, NoCategory
<1>. QED  BY <1>1 DEF Begun, Fits, Delivered, PoolIsAccounted

LEMMA PoolStaysAccounted ==
  ASSUME EngineInv, EvidenceInv, PassesInOrder, PoolIsAccounted, [EngineNext]_engineVars
  PROVE  PoolIsAccounted'
<1>0. Delivered \subseteq BatchIds /\ links \in [BatchIds -> LinkOutcomes]
  BY DEF EngineInv, EngineTypeOK, Fits, Delivered
<1>1. SettledOnlyGrows
  BY SettledGrows
<1>2. ASSUME NEW c \in DOMAIN data.bank, data.bank[c].direction = "CREDIT",
             c \notin remaining'
      PROVE  \E o \in Settled' : links'[o].credit = c
  <2>1. CASE c \notin remaining
    BY <1>1, <1>2, <2>1 DEF PoolIsAccounted, SettledOnlyGrows
  <2>2. CASE c \in remaining
    <3>1. PICK b \in Delivered, k \in remaining : Claims(b, k)
      <4>1. ~Quiet /\ ~DeriveProfiles /\ ~CategoriseOpen /\ \A b : ~Waits(b)
        BY <1>2, <2>2 DEF Quiet, DeriveProfiles, CategoriseOpen, Waits
      <4>. QED  BY <4>1, EngineStepCases
    <3>2. k = c
      BY <1>2, <2>2, <3>1 DEF Claims
    <3>3. b \in Settled' /\ links'[b] = LinkedTo(c, RoundingCategory(b, c))
      BY <1>0, <3>1, <3>2, ClaimUpdates
    <3>4. LinkedTo(c, RoundingCategory(b, c)).credit = c
      BY DEF LinkedTo
    <3>. QED  BY <3>3, <3>4
  <2>. QED  BY <2>1, <2>2
<1>3. ASSUME NEW b \in Delivered, links'[b].category = "MISSING_VS_LATE_CREDIT"
      PROVE  \A c \in remaining' : ~SharesUtrPrefix(b, c)
  <2>0. b \in BatchIds /\ remaining' \subseteq remaining
    BY <1>0, <1>1 DEF SettledOnlyGrows
  <2>1. CASE links[b].category = "MISSING_VS_LATE_CREDIT"
    BY <2>0, <2>1 DEF PoolIsAccounted
  <2>2. CASE links[b].category # "MISSING_VS_LATE_CREDIT"
    <3>1. ~Quiet /\ ~DeriveProfiles
      BY <1>3, <2>2 DEF Quiet, DeriveProfiles
    <3>2. ASSUME NEW o \in Delivered, Waits(o)
          PROVE  FALSE
      BY <1>3, <2>0, <2>2, <3>2, WaitUpdates DEF Waiting, NoCategory
    <3>3. ASSUME NEW o \in Delivered, NEW c \in remaining, Claims(o, c)
          PROVE  FALSE
      <4>1. LinkedTo(c, RoundingCategory(o, c)).category # "MISSING_VS_LATE_CREDIT"
        BY DEF LinkedTo, RoundingCategory, NoCategory
      <4>. QED  BY <1>3, <2>0, <2>2, <3>3, <4>1, ClaimUpdates
    <3>4. CategoriseOpen
      BY <3>1, <3>2, <3>3, EngineStepCases
    <3>5. links'[b] = LeftOpen(OpenCategory(b))
      BY <1>3, <2>0, <2>2, <3>4, CategoriseUpdates
    <3>6. OpenCategory(b) = "MISSING_VS_LATE_CREDIT"
      BY <1>3, <3>5 DEF LeftOpen
    <3>7. ~ \E c \in remaining : SharesUtrPrefix(b, c)
      BY <3>6 DEF OpenCategory
    <3>. QED  BY <2>0, <3>7
  <2>. QED  BY <2>1, <2>2
<1>4. data' = data
  BY <1>1 DEF SettledOnlyGrows
<1>. QED  BY <1>2, <1>3, <1>4 DEF PoolIsAccounted, Delivered, SharesUtrPrefix

-----------------------------------------------------------------------------
(* Where P8 compares dates, they are dates. *)
DueDatesAreDates ==
    /\ pass = "PROFILES" => ~CasesRefused(data)
    /\ pass \in {"P2", "P2B", "P8"} => \A b \in Delivered : due[b] \in Int

LEMMA BegunHasNoDates ==
  ASSUME Begun
  PROVE  DueDatesAreDates
BY DEF Begun, DueDatesAreDates

LEMMA DueDatesStayDates ==
  ASSUME Typed(data), CyclesAreShort,
         EngineInv, PassesInOrder, DueDatesAreDates, [EngineNext]_engineVars
  PROVE  DueDatesAreDates'
<1>1. CASE Quiet
  <2>1. UNCHANGED <<data, due>> /\ Delivered' = Delivered
    BY <1>1 DEF Quiet, Delivered
  <2>2. pass' = "PROFILES" => ~CasesRefused(data)
    BY <1>1 DEF Quiet, DueDatesAreDates
  <2>3. pass' \in {"P2", "P2B", "P8"} => pass \in {"P2", "P2B", "P8"}
    BY <1>1 DEF Quiet
  <2>. QED  BY <2>1, <2>2, <2>3 DEF DueDatesAreDates, CasesRefused, ProfileOf
<1>2. CASE DeriveProfiles
  <2>1. /\ pass' = "P2" /\ Delivered' = Delivered /\ ~CasesRefused(data)
        /\ \A b \in Delivered : due'[b] = DueDate(b)
    BY <1>2 DEF DeriveProfiles, DueDatesAreDates, Delivered
  <2>2. ASSUME NEW b \in Delivered
        PROVE  DueDate(b) \in Int
    <3>1. data.batches[b].settled \in Int
      BY DEF Typed, Delivered
    <3>2. CASE BatchProfiles(b) = {}
      BY <3>1, <3>2 DEF DueDate
    <3>3. CASE BatchProfiles(b) # {}
      <4>1. PICK p \in BatchProfiles(b) : p = CHOOSE q \in BatchProfiles(b) : TRUE
        BY <3>3
      <4>2. p \in Profiles
        BY <2>1 DEF BatchProfiles, CasesRefused
      <4>3. SettlementCycle[p] \in 0 .. 4
        BY <4>2, ConfigAssumption DEF ValidConfig, ValidCalendar, CyclesAreShort
      <4>4. AddWorkingDays(data.batches[b].settled, SettlementCycle[p]) \in Int
        BY <3>1, <4>3, ConfigAssumption, SettlementWalkTerminates DEF ValidConfig
      <4>. QED  BY <3>3, <4>1, <4>4 DEF DueDate, BankValueDue
    <3>. QED  BY <3>2, <3>3
  <2>. QED  BY <2>1, <2>2 DEF DueDatesAreDates
<1>3. ASSUME CategoriseOpen \/ (\E b \in Delivered, c \in remaining : Claims(b, c))
               \/ (\E b \in Delivered : Waits(b))
      PROVE  DueDatesAreDates'
  <2>1. UNCHANGED <<data, due>> /\ Delivered' = Delivered /\ pass' # "PROFILES"
    BY <1>3 DEF CategoriseOpen, Claims, Waits, Delivered
  <2>2. pass' \in {"P2", "P2B", "P8"} => pass \in {"P2", "P2B", "P8"}
    BY <1>3 DEF CategoriseOpen, Claims, Waits
  <2>. QED  BY <2>1, <2>2 DEF DueDatesAreDates
<1>. QED  BY <1>1, <1>2, <1>3, EngineStepCases

-----------------------------------------------------------------------------
(* A batch takes a credit that names it in full and agrees in amount, or   *)
(* one that P8 accepts for it.                                             *)
Accepts(b, c, fragment) ==
    /\ b \in StillOpen /\ fragment = Path(data.bank[c], Candidates)
    /\ Score(data.bank[c], data.batches[b], due[b], fragment) > 0
    /\ Score(data.bank[c], data.batches[b], due[b], fragment) >= Threshold(fragment)

LEMMA ClaimRests ==
  ASSUME Typed(data), EvidenceInv, DueDatesAreDates,
         NEW b \in Delivered, NEW c \in remaining, Claims(b, c)
  PROVE  /\ c \in DOMAIN data.bank
         /\ data.bank[c].token \in Tokens /\ data.bank[c].amount \in Int
         /\ data.bank[c].valueDate \in Int
         /\ data.batches[b].utr \in Utrs /\ data.batches[b].net \in Int
         /\ \/ /\ CarriesUtr(data.bank[c].token, data.batches[b].utr)
               /\ AmountAgrees(data.bank[c], data.batches[b])
            \/ /\ pass = "P8" /\ due[b] \in Int
               /\ \E fragment \in BOOLEAN : Accepts(b, c, fragment)
<1>1. c \in DOMAIN data.bank
  BY DEF EvidenceInv, PoolIsDelivered
<1>2. /\ data.bank[c].token \in Tokens /\ data.bank[c].amount \in Int
      /\ data.bank[c].valueDate \in Int
      /\ data.batches[b].utr \in Utrs /\ data.batches[b].net \in Int
  BY <1>1 DEF Typed, Delivered
<1>3. CASE pass = "P2" /\ c \in ExactCredits(b)
  <2>1. /\ CarriesUtr(data.bank[c].token, data.batches[b].utr)
        /\ data.bank[c].amount = data.batches[b].net
    BY <1>3 DEF ExactCredits
  <2>2. RoundingTolerance >= 0
    BY ConfigAssumption DEF ValidConfig, ValidTolerance
  <2>3. Magnitude(data.bank[c].amount - data.batches[b].net) = 0
    BY <1>2, <2>1 DEF Magnitude
  <2>. QED  BY <1>1, <1>2, <2>1, <2>2, <2>3 DEF AmountAgrees
<1>4. CASE pass = "P2B" /\ c \in NearCredits(b)
  BY <1>1, <1>2, <1>4 DEF NearCredits
<1>5. CASE pass = "P8" /\ b \in Resolve(data.bank[c], Candidates, due)
  <2>1. Path(data.bank[c], Candidates) \in BOOLEAN
    BY DEF Path, HasFragment, IsCandidate
  <2>2. Accepts(b, c, Path(data.bank[c], Candidates))
    <3>1. DOMAIN Candidates = StillOpen
      BY DEF Candidates
    <3>2. b \in StillOpen
      BY <1>5, <3>1 DEF Resolve
    <3>3. Candidates[b] = data.batches[b]
      BY <3>2 DEF Candidates
    <3>. QED  BY <1>5, <3>1, <3>2, <3>3 DEF Resolve, Scores, Accepts
  <2>3. due[b] \in Int
    BY <1>5 DEF DueDatesAreDates
  <2>. QED  BY <1>1, <1>2, <1>5, <2>1, <2>2, <2>3
<1>. QED  BY <1>3, <1>4, <1>5 DEF Claims

(* What is scored on a fragment has one. *)
LEMMA PathNeedsFragment ==
  ASSUME NEW credit, NEW candidates, Path(credit, candidates)
  PROVE  IsCandidate(credit.token)
BY DEF Path, HasFragment

LEMMA ClaimAgrees ==
  ASSUME Typed(data), EvidenceInv, DueDatesAreDates, AmountDecides,
         NEW b \in Delivered, NEW c \in remaining, Claims(b, c)
  PROVE  AmountAgrees(data.bank[c], data.batches[b])
<1>1. CASE AmountAgrees(data.bank[c], data.batches[b])
  BY <1>1
<1>2. CASE due[b] \in Int /\ \E fragment \in BOOLEAN : Accepts(b, c, fragment)
  <2>1. PICK fragment \in BOOLEAN : Accepts(b, c, fragment)
    BY <1>2
  <2>2. fragment => IsCandidate(data.bank[c].token)
    BY <2>1, PathNeedsFragment DEF Accepts
  <2>. QED  BY <1>2, <2>1, <2>2, ClaimRests, AcceptedAgrees DEF Accepts
<1>. QED  BY <1>1, <1>2, ClaimRests

(* An undecided batch whose UTR a credit shows part of puts it on the path *)
(* that compares UTRs.                                                     *)
LEMMA FragmentIsSeen ==
  ASSUME Typed(data), EngineInv, PassesInOrder, EvidenceInv, PrefixesAreCompared, pass = "P8",
         NEW o \in Undecideds, NEW c \in remaining, SharesUtrPrefix(o, c)
  PROVE  o \in StillOpen /\ Path(data.bank[c], Candidates)
<1>1. /\ o \in Delivered /\ o \in BatchIds /\ links[o] \in LinkOutcomes
      /\ c \in DOMAIN data.bank
  BY DEF Undecideds, EngineInv, EngineTypeOK, Fits, Delivered, EvidenceInv, PoolIsDelivered
<1>2. o \in StillOpen
  <2>1. links[o].status # "OPEN"
    BY <1>1 DEF PassesInOrder
  <2>. QED  BY <1>1, <2>1, OutcomeStatus DEF Undecideds, StillOpen
<1>. DEFINE token == data.bank[c].token
            utr == data.batches[o].utr
<1>3. token \in Tokens /\ utr \in Utrs
  BY <1>1 DEF Typed, Delivered
<1>4. Shared(token, utr) >= 6
  BY DEF SharesUtrPrefix, UtrPrefixFloor
<1>5. TokenLength(token) \in 0 .. UtrLength /\ Shared(token, utr) \in 0 .. TokenLength(token)
  BY <1>3, TokenMeasures
<1>6. token # NoToken
  BY <1>4 DEF Shared
<1>7. IsCandidate(token)
  BY <1>4, <1>5, <1>6 DEF IsCandidate, UtrCandidateMinLen, UtrLength
<1>8. Shared(token, utr) >= Fuzzy.fragment_min_chars
  BY <1>4, <1>5, WeightsTyped DEF PrefixesAreCompared, UtrPrefixFloor, UtrLength
<1>9. utr \in {Candidates[b].utr : b \in DOMAIN Candidates}
  BY <1>2 DEF Candidates
<1>. QED  BY <1>2, <1>7, <1>8, <1>9 DEF Path, HasFragment

(* A batch takes from an undecided one's sight only what agrees with most  *)
(* of its own UTR.                                                         *)
LEMMA ClaimSharesMost ==
  ASSUME Typed(data), EngineInv, PassesInOrder, EvidenceInv, DueDatesAreDates,
         PrefixesAreCompared, MostOfTheUtr,
         NEW b \in Delivered, NEW c \in remaining, Claims(b, c),
         NEW o \in Undecideds, SharesUtrPrefix(o, c)
  PROVE  16 * Shared(data.bank[c].token, data.batches[b].utr)
           >= 13 * TokenLength(data.bank[c].token)
<1>. DEFINE token == data.bank[c].token
            utr == data.batches[b].utr
<1>1. token \in Tokens /\ utr \in Utrs
  BY ClaimRests
<1>2. CASE CarriesUtr(token, utr)
  <2>1. TokenLength(token) = UtrLength
    BY <1>1, <1>2, CarriedUtr
  <2>2. Shared(token, utr) = UtrLength
    BY <1>2 DEF CarriesUtr
  <2>. QED  BY <2>1, <2>2 DEF UtrLength
<1>3. CASE pass = "P8" /\ \E fragment \in BOOLEAN : Accepts(b, c, fragment)
  <2>1. Accepts(b, c, TRUE)
    BY <1>3, FragmentIsSeen DEF Accepts
  <2>2. IsCandidate(token)
    BY <2>1, PathNeedsFragment DEF Accepts
  <2>3. Score(data.bank[c], data.batches[b], due[b], TRUE) = ScorePathA(data.bank[c], data.batches[b])
    <3>1. ~(0 > 0)
      OBVIOUS
    <3>. QED  BY <2>1, <3>1 DEF Accepts, Score
  <2>4. ScorePathA(data.bank[c], data.batches[b]) >= Fuzzy.accept_score
    BY <2>1, <2>3 DEF Accepts, Threshold
  <2>. QED  BY <1>1, <2>2, <2>4, AcceptedSharesMost
<1>. QED  BY <1>2, <1>3, ClaimRests

(* The batches have UTRs of their own. *)
NamesDiffer ==
    \A b, o \in Delivered : b # o => data.batches[b].utr # data.batches[o].utr

(* No batch takes a credit that names an undecided other one in full. *)
LEMMA ClaimLeavesNames ==
  ASSUME Typed(data), EngineInv, PassesInOrder, EvidenceInv, DueDatesAreDates,
         PrefixesAreCompared, AmountDecides, UtrsApart, NamesDiffer,
         NEW b \in Delivered, NEW c \in remaining, Claims(b, c),
         NEW o \in Undecideds, CarriesUtr(data.bank[c].token, data.batches[o].utr)
  PROVE  o = b
<1>. DEFINE token == data.bank[c].token
<1>1. /\ token \in Tokens /\ data.batches[b].utr \in Utrs
      /\ o \in Delivered /\ data.batches[o].utr \in Utrs
  BY ClaimRests DEF Undecideds, Typed, Delivered
<1>2. CASE CarriesUtr(token, data.batches[b].utr)
  <2>1. data.batches[b].utr = data.batches[o].utr
    BY <1>1, <1>2, CarriedUtr
  <2>. QED  BY <1>1, <2>1 DEF NamesDiffer
<1>3. ASSUME pass = "P8", NEW fragment \in BOOLEAN, Accepts(b, c, fragment), o # b
      PROVE  FALSE
  <2>1. SharesUtrPrefix(o, c)
    <3>1. Shared(token, data.batches[o].utr) = UtrLength
      BY DEF CarriesUtr
    <3>. QED  BY <3>1 DEF SharesUtrPrefix, UtrPrefixFloor, UtrLength
  <2>2. Accepts(b, c, TRUE)
    BY <1>3, <2>1, FragmentIsSeen DEF Accepts
  <2>3. Score(data.bank[c], data.batches[b], due[b], TRUE) = ScorePathA(data.bank[c], data.batches[b])
    <3>1. ~(0 > 0)
      OBVIOUS
    <3>. QED  BY <2>2, <3>1 DEF Accepts, Score
  <2>4. ScorePathA(data.bank[c], data.batches[b]) >= Fuzzy.accept_score
    BY <2>2, <2>3 DEF Accepts, Threshold
  <2>5. data.batches[b].utr # data.batches[o].utr
    BY <1>1, <1>3 DEF NamesDiffer
  <2>6. ScorePathA(data.bank[c], data.batches[b]) < Fuzzy.accept_score
    BY <1>1, <2>5, OtherNameRefused
  <2>7. ScorePathA(data.bank[c], data.batches[b]) \in Int
    <3>1. IsCandidate(token)
      BY <1>1, CarriedUtr
    <3>. QED  BY <1>1, <3>1, PathAParts, WeightsTyped
  <2>. QED  BY <2>4, <2>6, <2>7, WeightsTyped
<1>. QED  BY <1>2, <1>3, ClaimRests

-----------------------------------------------------------------------------
(* What is true of the credit of each settled batch, once the batch has    *)
(* it, stays true: it agrees in amount; ...                                *)
AmountsAgree == \A b \in Settled : AmountAgrees(CreditOf(b), data.batches[b])

LEMMA AmountsStayAgreed ==
  ASSUME Typed(data), AmountDecides, EngineInv, EvidenceInv, PassesInOrder, DueDatesAreDates,
         AmountsAgree, [EngineNext]_engineVars
  PROVE  AmountsAgree'
<1>1. SettledOnlyGrows
  BY SettledGrows
<1>2. ASSUME NEW b \in Settled'
      PROVE  AmountAgrees(CreditOf(b)', data.batches[b])
  <2>1. CASE b \in Settled
    BY <1>1, <2>1 DEF SettledOnlyGrows, AmountsAgree
  <2>2. CASE b \notin Settled
    <3>1. PICK c \in remaining : Claims(b, c) /\ CreditOf(b)' = data.bank[c]
      BY <1>1, <2>2 DEF SettledOnlyGrows
    <3>2. b \in Delivered
      BY <1>1 DEF SettledOnlyGrows, Settled, Delivered
    <3>. QED  BY <3>1, <3>2, ClaimAgrees
  <2>. QED  BY <2>1, <2>2
<1>. QED  BY <1>1, <1>2 DEF SettledOnlyGrows, AmountsAgree

(* ... if it shows part of the UTR of a batch left without one, it agrees  *)
(* with most of the UTR of the batch that has it; ...                      *)
SharesMost ==
    \A b \in Settled, o \in Undecideds :
        Shared(CreditOf(b).token, data.batches[o].utr) >= UtrPrefixFloor =>
            16 * Shared(CreditOf(b).token, data.batches[b].utr)
              >= 13 * TokenLength(CreditOf(b).token)

LEMMA SharesStayMost ==
  ASSUME Typed(data), PrefixesAreCompared, MostOfTheUtr,
         EngineInv, EvidenceInv, PassesInOrder, DueDatesAreDates,
         SharesMost, [EngineNext]_engineVars
  PROVE  SharesMost'
<1>1. SettledOnlyGrows
  BY SettledGrows
<1>2. ASSUME NEW b \in Settled', NEW o \in Undecideds,
             Shared(CreditOf(b)'.token, data.batches[o].utr) >= UtrPrefixFloor
      PROVE  16 * Shared(CreditOf(b)'.token, data.batches[b].utr)
               >= 13 * TokenLength(CreditOf(b)'.token)
  <2>1. CASE b \in Settled
    <3>1. CreditOf(b)' = CreditOf(b)
      BY <1>1, <2>1 DEF SettledOnlyGrows
    <3>. QED  BY <1>2, <2>1, <3>1 DEF SharesMost
  <2>2. CASE b \notin Settled
    <3>1. PICK c \in remaining : Claims(b, c) /\ CreditOf(b)' = data.bank[c]
      BY <1>1, <2>2 DEF SettledOnlyGrows
    <3>2. b \in Delivered
      BY <1>1 DEF SettledOnlyGrows, Settled, Delivered
    <3>3. SharesUtrPrefix(o, c)
      BY <1>2, <3>1 DEF SharesUtrPrefix
    <3>4. 16 * Shared(data.bank[c].token, data.batches[b].utr)
            >= 13 * TokenLength(data.bank[c].token)
      BY <3>1, <3>2, <3>3, ClaimSharesMost
    <3>. QED  BY <3>1, <3>4
  <2>. QED  BY <2>1, <2>2
<1>3. data' = data /\ Undecideds' \subseteq Undecideds
  BY <1>1 DEF SettledOnlyGrows
<1>. QED  BY <1>2, <1>3 DEF SharesMost

(* ... and it names no batch left without one.                             *)
NamesAreServed ==
    \A b \in Settled, o \in Undecideds : ~CarriesUtr(CreditOf(b).token, data.batches[o].utr)

LEMMA NamesStayServed ==
  ASSUME Typed(data), PrefixesAreCompared, AmountDecides, UtrsApart, NamesDiffer,
         EngineInv, EvidenceInv, PassesInOrder, DueDatesAreDates,
         NamesAreServed, [EngineNext]_engineVars
  PROVE  NamesAreServed'
<1>1. SettledOnlyGrows
  BY SettledGrows
<1>2. ASSUME NEW b \in Settled', NEW o \in Undecideds',
             CarriesUtr(CreditOf(b)'.token, data.batches[o].utr)
      PROVE  FALSE
  <2>0. o \in Undecideds
    BY <1>1 DEF SettledOnlyGrows
  <2>1. CASE b \in Settled
    <3>1. CreditOf(b)' = CreditOf(b)
      BY <1>1, <2>1 DEF SettledOnlyGrows
    <3>. QED  BY <1>2, <2>0, <2>1, <3>1 DEF NamesAreServed
  <2>2. CASE b \notin Settled
    <3>1. PICK c \in remaining : Claims(b, c) /\ CreditOf(b)' = data.bank[c]
      BY <1>1, <2>2 DEF SettledOnlyGrows
    <3>2. b \in Delivered
      BY <1>1 DEF SettledOnlyGrows, Settled, Delivered
    <3>3. o = b
      BY <1>2, <2>0, <3>1, <3>2, ClaimLeavesNames
    <3>. QED  BY <1>2, <3>3 DEF Undecideds, Settled
  <2>. QED  BY <2>1, <2>2
<1>3. data' = data
  BY <1>1 DEF SettledOnlyGrows
<1>. QED  BY <1>2, <1>3 DEF NamesAreServed

(* A difference between the two is named.                                  *)
RoundingsAreNamed ==
    \A b \in Settled : links[b].category = RoundingCategory(b, links[b].credit)

LEMMA RoundingsStayNamed ==
  ASSUME EngineInv, EvidenceInv, PassesInOrder, RoundingsAreNamed, [EngineNext]_engineVars
  PROVE  RoundingsAreNamed'
<1>1. SettledOnlyGrows
  BY SettledGrows
<1>2. \A b, c : RoundingCategory(b, c)' = RoundingCategory(b, c)
  BY <1>1 DEF SettledOnlyGrows, RoundingCategory
<1>3. ASSUME NEW b \in Settled'
      PROVE  links'[b].category = RoundingCategory(b, links'[b].credit)
  <2>1. CASE b \in Settled
    BY <1>1, <2>1 DEF SettledOnlyGrows, RoundingsAreNamed
  <2>2. CASE b \notin Settled
    <3>1. PICK c \in remaining : Claims(b, c)
      BY <1>1, <2>2 DEF SettledOnlyGrows
    <3>2. b \in Delivered /\ b \in BatchIds
      BY <1>1 DEF SettledOnlyGrows, Settled, Delivered, EngineInv, Fits
    <3>3. links'[b] = LinkedTo(c, RoundingCategory(b, c))
      BY <3>1, <3>2, ClaimUpdates
    <3>. QED  BY <3>3 DEF LinkedTo
  <2>. QED  BY <2>1, <2>2
<1>. QED  BY <1>2, <1>3 DEF RoundingsAreNamed

LEMMA BegunHasNoLinks ==
  ASSUME Begun
  PROVE  AmountsAgree /\ SharesMost /\ NamesAreServed /\ RoundingsAreNamed
BY BegunIsUnsettled DEF AmountsAgree, SharesMost, NamesAreServed, RoundingsAreNamed

LEMMA NamesServedRest ==
  ASSUME EngineInv, EvidenceInv, AmountsAgree, NamesAreServed
  PROVE  LinkRestsOnEvidence
<1>1. ASSUME NEW b \in Settled, NEW o \in Delivered,
             CarriesUtr(CreditOf(b).token, data.batches[o].utr)
      PROVE  links[o].status \in {"CONFIRMED", "PENDING_EVIDENCE"}
  <2>1. links[o] \in LinkOutcomes
    BY DEF EngineInv, EngineTypeOK, Fits, Delivered
  <2>2. o \notin Undecideds
    BY <1>1 DEF NamesAreServed
  <2>. QED  BY <2>1, <2>2, OutcomeStatus DEF Undecideds
<1>. QED  BY <1>1 DEF LinkRestsOnEvidence, EvidenceInv, AmountsAgree

(* The categories, by the status they come with. *)
LEMMA MissingIsOpen ==
  ASSUME NEW outcome \in LinkOutcomes, outcome.category = "MISSING_VS_LATE_CREDIT"
  PROVE  outcome.status = "OPEN"
<1>1. outcome \notin {Undecided, Waiting}
  BY DEF Undecided, Waiting, NoCategory
<1>2. ASSUME NEW c \in CreditIds, NEW category \in {NoCategory, "ROUNDING_DIFFERENCE"},
             outcome = LinkedTo(c, category)
      PROVE  FALSE
  BY <1>2 DEF LinkedTo, NoCategory
<1>3. ASSUME NEW category \in MappingCategories, outcome = LeftOpen(category)
      PROVE  outcome.status = "OPEN"
  BY <1>3 DEF LeftOpen
<1>. QED  BY <1>1, <1>2, <1>3 DEF LinkOutcomes

LEMMA MissingHasNone ==
  ASSUME EngineInv, PoolIsAccounted, SharesMost
  PROVE  MissingMeansNoCredit
<1>1. ASSUME NEW b \in Delivered, NEW c \in DOMAIN data.bank,
             links[b].category = "MISSING_VS_LATE_CREDIT",
             data.bank[c].direction = "CREDIT", SharesUtrPrefix(b, c)
      PROVE  \E o \in Settled \ {b} :
                /\ links[o].credit = c
                /\ 16 * Shared(data.bank[c].token, data.batches[o].utr)
                     >= 13 * TokenLength(data.bank[c].token)
  <2>1. links[b] \in LinkOutcomes
    BY DEF EngineInv, EngineTypeOK, Fits, Delivered
  <2>2. links[b].status = "OPEN"
    BY <1>1, <2>1, MissingIsOpen
  <2>3. c \notin remaining
    BY <1>1 DEF PoolIsAccounted
  <2>4. PICK o \in Settled : links[o].credit = c
    BY <1>1, <2>3 DEF PoolIsAccounted
  <2>5. o # b
    BY <2>2 DEF Settled
  <2>6. b \in Undecideds /\ CreditOf(o) = data.bank[c]
    BY <2>2, <2>4 DEF Undecideds, CreditOf
  <2>. QED  BY <1>1, <2>4, <2>5, <2>6 DEF SharesMost, SharesUtrPrefix
<1>. QED  BY <1>1 DEF MissingMeansNoCredit

-----------------------------------------------------------------------------
(* The cases, once there are any, are what _classify_case says of them. *)
CasesAreClassified ==
    cases = <<>> \/ cases = [p \in DOMAIN data.payments |->
                                ClassifyCase(CaseFacts(data, p),
                                    data.payments[p].order \in CandidateOrders(data.ledger))]

LEMMA CasesStayClassified ==
  ASSUME CasesAreClassified, [EngineNext]_engineVars
  PROVE  CasesAreClassified'
<1>1. data' = data
  BY DEF EngineNext, FindDuplicates, ClassifyCases, DeriveProfiles, Raise, LinkExact, LinkNear,
         ResolveCredit, NothingLeftOpen, Skip, CategoriseOpen, AssembleRows, engineVars
<1>2. CASE ClassifyCases
  BY <1>1, <1>2 DEF ClassifyCases, CasesAreClassified
<1>3. CASE ~ClassifyCases
  <2>1. cases' = cases
    BY <1>3 DEF EngineNext, FindDuplicates, DeriveProfiles, Raise, LinkExact, LinkNear,
       ResolveCredit, NothingLeftOpen, Skip, CategoriseOpen, AssembleRows, engineVars
  <2>. QED  BY <1>1, <2>1 DEF CasesAreClassified
<1>. QED  BY <1>2, <1>3

LEMMA BegunHasNoCases ==
  ASSUME Begun
  PROVE  CasesAreClassified
BY DEF Begun, CasesAreClassified

-----------------------------------------------------------------------------
(* What the result of a run says, pass by pass: every payment has a case,  *)
(* every batch that was delivered has a link, and no other.                *)
Reported ==
    /\ DOMAIN rowVariances = {"duplicates", "orphans"}
    /\ pass \notin {"P7", "FAILED"} =>
          rowVariances.duplicates = ConfirmedDuplicates(data.ledger)
    /\ pass \notin {"P7", "CASES", "FAILED"} => DOMAIN cases = DOMAIN data.payments
    /\ pass \in {"ROWS", "DONE"} => \A b \in Delivered : links[b] # Undecided
    /\ \A b \in BatchIds \ Delivered : links[b] = Undecided
    /\ pass = "DONE" => rowVariances.orphans = OrphanCredits

LEMMA BegunIsReported ==
  ASSUME Begun
  PROVE  Reported
<1>1. rowVariances = [duplicates |-> {}, orphans |-> {}]
  BY DEF Begun, NoRows
<1>2. CASE pass = "P7"
  BY <1>1, <1>2 DEF Begun, Reported
<1>3. CASE pass = "DONE"
  <2>1. DOMAIN cases = {} /\ remaining = {}
    BY <1>3 DEF Begun
  <2>2. ConfirmedDuplicates(data.ledger) = {}
    BY <1>3 DEF Begun, ConfirmedDuplicates
  <2>3. OrphanCredits = {}
    BY <2>1 DEF OrphanCredits
  <2>. QED  BY <1>1, <1>3, <2>1, <2>2, <2>3 DEF Begun, Reported
<1>. QED  BY <1>2, <1>3 DEF Begun

LEMMA StaysReported ==
  ASSUME EngineInv, PassesInOrder, Reported, [EngineNext]_engineVars
  PROVE  Reported'
<1>0. Delivered \subseteq BatchIds /\ links \in [BatchIds -> LinkOutcomes]
  BY DEF EngineInv, EngineTypeOK, Fits, Delivered
<1>1. CASE UNCHANGED engineVars
  BY <1>1 DEF engineVars, Reported, Delivered, OrphanCredits, SharesUtrPrefix
<1>2. CASE FindDuplicates
  <2>1. rowVariances' = [rowVariances EXCEPT !.duplicates = ConfirmedDuplicates(data.ledger)]
        /\ pass' = "CASES" /\ UNCHANGED <<data, links>>
    BY <1>2 DEF FindDuplicates
  <2>2. /\ DOMAIN rowVariances' = {"duplicates", "orphans"}
        /\ rowVariances'.duplicates = ConfirmedDuplicates(data.ledger)
    BY <2>1 DEF Reported
  <2>. QED  BY <2>1, <2>2 DEF Reported, Delivered
<1>3. CASE ClassifyCases
  <2>1. /\ pass = "CASES" /\ pass' = "PROFILES" /\ UNCHANGED <<data, links, rowVariances>>
        /\ DOMAIN cases' = DOMAIN data.payments
    BY <1>3 DEF ClassifyCases
  <2>. QED  BY <2>1 DEF Reported, Delivered
<1>4. CASE AssembleRows
  <2>1. /\ pass = "ROWS" /\ pass' = "DONE" /\ UNCHANGED <<data, links, cases, remaining>>
        /\ rowVariances' = [rowVariances EXCEPT !.orphans = OrphanCredits]
    BY <1>4 DEF AssembleRows
  <2>2. /\ DOMAIN rowVariances' = {"duplicates", "orphans"}
        /\ rowVariances'.orphans = OrphanCredits
        /\ rowVariances'.duplicates = rowVariances.duplicates
    BY <2>1 DEF Reported
  <2>3. OrphanCredits' = OrphanCredits
    BY <2>1 DEF OrphanCredits, SharesUtrPrefix, Delivered
  <2>. QED  BY <2>1, <2>2, <2>3 DEF Reported, Delivered
<1>5. CASE CategoriseOpen
  <2>1. /\ pass = "OPEN" /\ pass' = "ROWS" /\ UNCHANGED <<data, cases, rowVariances>>
    BY <1>5 DEF CategoriseOpen
  <2>2. ASSUME NEW b \in BatchIds
        PROVE  IF b \in Delivered THEN links'[b] # Undecided ELSE links'[b] = Undecided
    <3>1. LeftOpen(OpenCategory(b)) # Undecided
      <4>1. LeftOpen(OpenCategory(b)).status = "OPEN" /\ Undecided.status = "UNDECIDED"
        BY DEF LeftOpen, Undecided
      <4>. QED  BY <4>1
    <3>. QED  BY <1>5, <3>1, CategoriseUpdates DEF Reported, StillOpen
  <2>. QED  BY <1>0, <2>1, <2>2 DEF Reported, Delivered
<1>6. CASE \/ DeriveProfiles \/ Raise \/ LinkExact \/ LinkNear \/ ResolveCredit
           \/ NothingLeftOpen \/ Skip("P2", "P2B", {}) \/ Skip("P2B", "P8", remaining)
           \/ Skip("P8", "OPEN", {})
  <2>1. UNCHANGED <<data, cases, rowVariances>>
    BY <1>6 DEF DeriveProfiles, Raise, LinkExact, LinkNear, ResolveCredit, NothingLeftOpen, Skip
  <2>2. /\ pass' \notin {"P7", "CASES", "ROWS", "DONE"}
        /\ pass \in {"P7", "CASES"} => pass' = "FAILED"
        /\ pass = "FAILED" => pass' = "FAILED"
    BY <1>6 DEF DeriveProfiles, Raise, LinkExact, LinkNear, ResolveCredit, NothingLeftOpen, Skip,
                Taken
  <2>3. \A b \in BatchIds \ Delivered : links'[b] = Undecided
    <3>1. CASE Quiet \/ DeriveProfiles
      <4>1. links' = links
        BY <3>1 DEF Quiet, DeriveProfiles
      <4>. QED  BY <4>1 DEF Reported
    <3>2. ASSUME NEW b \in Delivered, NEW c \in remaining, Claims(b, c)
          PROVE  \A o \in BatchIds \ Delivered : links'[o] = Undecided
      BY <3>2, ClaimUpdates DEF Reported
    <3>3. ASSUME NEW b \in Delivered, Waits(b)
          PROVE  \A o \in BatchIds \ Delivered : links'[o] = Undecided
      BY <3>3, WaitUpdates DEF Reported
    <3>4. ~CategoriseOpen
      BY <2>2 DEF CategoriseOpen
    <3>. QED  BY <3>1, <3>2, <3>3, <3>4, EngineStepCases
  <2>. QED  BY <2>1, <2>2, <2>3 DEF Reported, Delivered
<1>. QED  BY <1>1, <1>2, <1>3, <1>4, <1>5, <1>6 DEF EngineNext

(* The credits that nothing delivered accounts for. *)
Unaccounted(d) ==
    {c \in DOMAIN d.bank :
        /\ d.bank[c].direction = "CREDIT"
        /\ \A b \in DOMAIN d.batches :
              /\ ~(Shared(d.bank[c].token, d.batches[b].utr) >= UtrPrefixFloor)
              /\ ~AmountAgrees(d.bank[c], d.batches[b])}

(* Where every link is between amounts that agree, the orphans do not      *)
(* depend on what became of the credits.                                   *)
LEMMA OrphansAreUnaccounted ==
  ASSUME EngineInv, EvidenceInv, PoolIsAccounted, AmountsAgree
  PROVE  OrphanCredits = Unaccounted(data)
<1>1. ASSUME NEW c \in remaining
      PROVE  c \in DOMAIN data.bank /\ data.bank[c].direction = "CREDIT"
  BY DEF EvidenceInv, PoolIsDelivered
<1>2. ASSUME NEW c \in Unaccounted(data)
      PROVE  c \in remaining
  <2>1. ASSUME c \notin remaining
        PROVE  FALSE
    <3>1. PICK o \in Settled : links[o].credit = c
      BY <1>2, <2>1 DEF PoolIsAccounted, Unaccounted
    <3>2. AmountAgrees(data.bank[c], data.batches[o]) /\ o \in DOMAIN data.batches
      BY <3>1 DEF AmountsAgree, CreditOf, Settled, Delivered
    <3>. QED  BY <1>2, <3>2 DEF Unaccounted
  <2>. QED  BY <2>1
<1>. QED  BY <1>1, <1>2 DEF OrphanCredits, Unaccounted, SharesUtrPrefix, Delivered

(* An order that looks like another is a candidate, if neither has a row   *)
(* repeated to the letter.                                                 *)
LEMMA LookalikesAreCandidates ==
  ASSUME NEW ledger, NEW r \in DOMAIN ledger, NEW o \in DOMAIN ledger,
         ledger[o].order # ledger[r].order, ledger[o].customer = ledger[r].customer,
         ledger[o].gross = ledger[r].gross,
         {ledger[r].order, ledger[o].order} \cap ConfirmedOrders(ledger) = {}
  PROVE  ledger[r].order \in CandidateOrders(ledger)
<1>. DEFINE rows == {s \in DOMAIN ledger : ledger[s].order \notin ConfirmedOrders(ledger)}
<1>1. r \in rows /\ o \in rows
  OBVIOUS
<1>2. CandidateOrders(ledger) = {ledger[s].order : s \in
            {t \in rows : \E u \in rows :
                /\ ledger[u].order # ledger[t].order
                /\ ledger[u].customer = ledger[t].customer
                /\ ledger[u].gross = ledger[t].gross}}
  BY DEF CandidateOrders
<1>. HIDE DEF rows
<1>. QED  BY <1>1, <1>2

(* The facts of a case of typed data, and what settled in time means.      *)
LEMMA FactsAreAmounts ==
  ASSUME NEW d, Typed(d), NEW p \in DOMAIN d.payments
  PROVE  /\ CaseFacts(d, p).payment = d.payments[p]
         /\ d.payments[p].authorized \in Int /\ d.payments[p].captured \in Int
         /\ d.payments[p].capturedAt \in Int
         /\ CaseFacts(d, p).settledGross = SettledGross(d, p) /\ SettledGross(d, p) \in Int
         /\ CaseFacts(d, p).settledDates = SettledDates(d, p)
         /\ SettledDates(d, p) \in SUBSET Int
<1>1. PaymentLines(d, p) \subseteq DOMAIN d.lines
  BY DEF PaymentLines, SettlementLines
<1>2. IsFiniteSet(PaymentLines(d, p))
  BY <1>1, FS_Subset DEF Typed, RowIds
<1>3. \A l \in PaymentLines(d, p) : d.lines[l]["gross"] \in Int
  BY <1>1 DEF Typed
<1>4. SettledGross(d, p) \in Int
  BY <1>2, <1>3, SumIsAmount DEF SettledGross
<1>5. SettledDates(d, p) \in SUBSET Int
  BY <1>1 DEF SettledDates, Typed
<1>6. /\ d.payments[p].authorized \in Int /\ d.payments[p].captured \in Int
      /\ d.payments[p].capturedAt \in Int
  BY DEF Typed
<1>7. /\ CaseFacts(d, p).payment = d.payments[p]
      /\ CaseFacts(d, p).settledGross = SettledGross(d, p)
      /\ CaseFacts(d, p).settledDates = SettledDates(d, p)
  BY DEF CaseFacts
<1>. QED  BY <1>4, <1>5, <1>6, <1>7

LEMMA SettledInTime ==
  ASSUME NEW facts, facts.payment.capturedAt \in Int, facts.settledDates \in SUBSET Int,
         NEW end \in Int, \A s \in facts.settledDates : s =< end,
         TimingComponent(facts) = {},
         NEW settled \in facts.settledDates, NEW d \in WindowStart .. settled, IsWorkingDay(d)
  PROVE  d =< SettlementLineDue(facts.payment.capturedAt)
<1>. DEFINE dueDay == SettlementLineDue(facts.payment.capturedAt)
            last == Last(facts.settledDates)
<1>1. dueDay \in Int
  <2>1. ValidCalendar
    BY ConfigAssumption DEF ValidConfig
  <2>2. dueDay = NextWorkingDay(facts.payment.capturedAt)
    BY <2>1, LineDueIsNextWorkingDay
  <2>3. NextWorkingDay(facts.payment.capturedAt) \in Int
    BY <2>1, CalendarWalkTerminates
  <2>. QED  BY <2>2, <2>3
<1>2. last \in facts.settledDates /\ \A s \in facts.settledDates : s =< last
  BY LastDateIsLatest
<1>3. last \in Int /\ settled \in Int /\ WindowStart \in Int /\ settled =< last
  BY <1>2, ConfigAssumption DEF ValidConfig, ValidCalendar
<1>4. d \in Int /\ d =< last
  BY <1>3
<1>5. IsTimingExplained(dueDay, last, 0)
  BY DEF TimingComponent, TimingToleranceDays
<1>. HIDE DEF dueDay, last
<1>6. IF dueDay =< last THEN WorkingDays(dueDay + 1, last) = {}
                      ELSE WorkingDays(last, dueDay - 1) = {}
  BY <1>1, <1>3, <1>5, OnTimeMeansNoWorkingDay
<1>7. CASE dueDay =< last
  <2>1. d \notin dueDay + 1 .. last
    BY <1>6, <1>7 DEF WorkingDays
  <2>. QED  BY <1>1, <1>3, <1>4, <2>1 DEF dueDay
<1>8. CASE ~(dueDay =< last)
  BY <1>1, <1>3, <1>4, <1>8 DEF dueDay
<1>. QED  BY <1>7, <1>8

LEMMA ClassifiedMeansWhole ==
  ASSUME Typed(data), CasesAreClassified,
         \A l \in DOMAIN data.lines : data.lines[l].settled =< WindowEnd
  PROVE  CleanCaseIsWhole
<1>1. ASSUME NEW p \in DOMAIN cases, cases[p].status = "CONFIRMED",
             cases[p].category = NoCategory
      PROVE  /\ data.payments[p].authorized = SettledGross(data, p)
             /\ \A settled \in SettledDates(data, p) :
                   \A d \in WindowStart .. settled :
                      IsWorkingDay(d) => d =< SettlementLineDue(data.payments[p].capturedAt)
             /\ \A r, o \in DOMAIN data.ledger :
                    /\ data.ledger[r].order = data.payments[p].order
                    /\ data.ledger[o].order # data.payments[p].order
                    /\ data.ledger[o].customer = data.ledger[r].customer
                    /\ data.ledger[o].gross = data.ledger[r].gross
                    => {data.payments[p].order, data.ledger[o].order}
                          \cap ConfirmedOrders(data.ledger) # {}
  <2>. DEFINE facts == CaseFacts(data, p)
              isCandidate == data.payments[p].order \in CandidateOrders(data.ledger)
  <2>1. p \in DOMAIN data.payments /\ cases[p] = ClassifyCase(facts, isCandidate)
    BY DEF CasesAreClassified
  <2>2. /\ facts.payment = data.payments[p]
        /\ facts.payment.authorized \in Int /\ facts.payment.captured \in Int
        /\ facts.payment.capturedAt \in Int
        /\ facts.settledGross = SettledGross(data, p) /\ facts.settledGross \in Int
        /\ facts.settledDates = SettledDates(data, p)
        /\ facts.settledDates \in SUBSET Int
    BY <2>1, FactsAreAmounts
  <2>3. isCandidate \in BOOLEAN
    OBVIOUS
  <2>. HIDE DEF facts, isCandidate
  <2>4. /\ facts.payment.authorized = facts.settledGross
        /\ TimingComponent(facts) = {} /\ ~isCandidate
    BY <1>1, <2>1, <2>2, <2>3, CleanVerdict
  <2>5. WindowEnd \in Int
    BY ConfigAssumption DEF ValidConfig, ValidCalendar
  <2>6. \A s \in facts.settledDates : s =< WindowEnd
    BY <2>2 DEF SettledDates, PaymentLines, SettlementLines
  <2>7. ASSUME NEW settled \in SettledDates(data, p), NEW d \in WindowStart .. settled,
               IsWorkingDay(d)
        PROVE  d =< SettlementLineDue(data.payments[p].capturedAt)
    BY <2>2, <2>4, <2>5, <2>6, <2>7, SettledInTime
  <2>8. ASSUME NEW r \in DOMAIN data.ledger, NEW o \in DOMAIN data.ledger,
               data.ledger[r].order = data.payments[p].order,
               data.ledger[o].order # data.payments[p].order,
               data.ledger[o].customer = data.ledger[r].customer,
               data.ledger[o].gross = data.ledger[r].gross,
               {data.payments[p].order, data.ledger[o].order}
                 \cap ConfirmedOrders(data.ledger) = {}
        PROVE  FALSE
    BY <2>4, <2>8, LookalikesAreCandidates DEF isCandidate
  <2>. QED  BY <2>2, <2>4, <2>7, <2>8
<1>. QED  BY <1>1 DEF CleanCaseIsWhole

-----------------------------------------------------------------------------
(* Due dates, once they are there, are what the profiles make of them.     *)
DueDatesStand ==
    pass \in {"P2", "P2B", "P8"} => \A b \in Delivered : due[b] = DueDate(b)

LEMMA DueDatesStillStand ==
  ASSUME EngineInv, PassesInOrder, DueDatesStand, [EngineNext]_engineVars
  PROVE  DueDatesStand'
<1>1. CASE DeriveProfiles
  <2>1. data' = data
    BY <1>1 DEF DeriveProfiles
  <2>2. Delivered' = Delivered /\ \A b \in Delivered : due'[b] = DueDate(b)
    BY <1>1 DEF DeriveProfiles, Delivered
  <2>3. \A b : DueDate(b)' = DueDate(b)
    BY <2>1 DEF DueDate, BatchProfiles, ProfileOf
  <2>. QED  BY <2>2, <2>3 DEF DueDatesStand
<1>2. ASSUME \/ Quiet \/ CategoriseOpen
             \/ \E b \in Delivered, c \in remaining : Claims(b, c)
             \/ \E b \in Delivered : Waits(b)
      PROVE  DueDatesStand'
  <2>1. UNCHANGED <<data, due>> /\ Delivered' = Delivered
    BY <1>2 DEF Quiet, CategoriseOpen, Claims, Waits, Delivered
  <2>2. pass' \in {"P2", "P2B", "P8"} => pass \in {"P2", "P2B", "P8"}
    BY <1>2 DEF Quiet, CategoriseOpen, Claims, Waits
  <2>3. \A b : DueDate(b)' = DueDate(b)
    BY <2>1 DEF DueDate, BatchProfiles, ProfileOf
  <2>. QED  BY <2>1, <2>2, <2>3 DEF DueDatesStand
<1>. QED  BY <1>1, <1>2, EngineStepCases

(* A credit is a batch's by rights: it agrees in amount, falls due on the  *)
(* batch's day, and what is left of its narration is of the batch's UTR.   *)
Rightful(o, c) ==
    /\ c \in DOMAIN data.bank /\ AmountAgrees(data.bank[c], data.batches[o])
    /\ data.bank[c].valueDate = DueDate(o)
    /\ \/ data.bank[c].token = NoToken
       \/ data.bank[c].token.of = data.batches[o].utr

(* No batch takes a credit that is by rights an undecided other one's. *)
LEMMA ClaimLeavesRights ==
  ASSUME Typed(data), EngineInv, PassesInOrder, EvidenceInv, DueDatesAreDates,
         DueDatesStand, AmountDecides, NamesDiffer,
         NEW b \in Delivered, NEW c \in remaining, Claims(b, c),
         NEW o \in Undecideds, Rightful(o, c)
  PROVE  o = b
<1>. DEFINE credit == data.bank[c]
            own == data.batches[o]
            batch == data.batches[b]
<1>1. /\ credit.token \in Tokens /\ batch.utr \in Utrs /\ credit.valueDate \in Int
      /\ o \in Delivered /\ own.utr \in Utrs
  BY ClaimRests DEF Undecideds, Typed, Delivered
<1>2. CASE CarriesUtr(credit.token, batch.utr)
  <2>1. credit.token.of = batch.utr /\ credit.token.kind = "PREFIX"
    BY <1>1, <1>2, CarriedUtr
  <2>2. credit.token # NoToken
    BY <2>1 DEF NoToken
  <2>3. batch.utr = own.utr
    BY <2>1, <2>2 DEF Rightful
  <2>. QED  BY <1>1, <2>3 DEF NamesDiffer
<1>3. ASSUME pass = "P8", b \in Resolve(credit, Candidates, due), o # b
      PROVE  FALSE
  <2>. DEFINE fragment == Path(credit, Candidates)
              score(x) == Score(credit, data.batches[x], due[x], fragment)
  <2>1. o \in BatchIds /\ links[o] \in LinkOutcomes
    BY <1>1 DEF EngineInv, EngineTypeOK, Fits, Delivered
  <2>2. o \in StillOpen
    <3>1. links[o].status # "OPEN"
      BY <1>3, <2>1 DEF PassesInOrder
    <3>. QED  BY <1>1, <2>1, <3>1, OutcomeStatus DEF Undecideds, StillOpen
  <2>3. DOMAIN Candidates = StillOpen /\ b \in StillOpen
    BY <1>3 DEF Candidates, Resolve
  <2>4. Candidates[b] = batch /\ Candidates[o] = own
    BY <2>2, <2>3 DEF Candidates
  <2>5. score(b) > 0 /\ score(o) < score(b)
    BY <1>3, <2>2, <2>3, <2>4 DEF Resolve, Scores
  <2>6. due[b] \in Int /\ credit.valueDate = due[o]
    BY <1>1, <1>3 DEF DueDatesAreDates, DueDatesStand, Rightful
  <2>7. AmountAgrees(credit, batch) /\ AmountAgrees(credit, own)
    BY ClaimAgrees DEF Rightful
  <2>8. fragment \in BOOLEAN /\ (fragment => IsCandidate(credit.token))
    BY DEF Path, HasFragment, IsCandidate
  <2>9. credit.token = NoToken \/ credit.token.of = own.utr
    BY DEF Rightful
  <2>. HIDE DEF credit, batch, own, fragment
  <2>10. /\ Score(credit, batch, due[b], fragment)
              =< Score(credit, own, credit.valueDate, fragment)
         /\ Score(credit, batch, due[b], fragment) \in Int
         /\ Score(credit, own, credit.valueDate, fragment) \in Int
    BY <1>1, <2>5, <2>6, <2>7, <2>8, <2>9, OwnScoreIsBest DEF batch
  <2>11. score(b) =< score(o) /\ score(b) \in Int /\ score(o) \in Int
    BY <2>6, <2>10 DEF batch, own
  <2>. HIDE DEF score
  <2>. QED  BY <2>5, <2>11
<1>. QED  BY <1>2, <1>3 DEF Claims, ExactCredits, NearCredits

(* No settled batch has a credit that is by rights another's which was left *)
(* without one, and no settled batches have each other's.                  *)
RightsAreServed ==
    \A b \in Settled, o \in Undecideds : ~Rightful(o, links[b].credit)

NoneExchanged ==
    \A group \in (SUBSET Settled) \ {{}} :
        \E b \in group : \A o \in group \ {b} : ~Rightful(o, links[b].credit)

RightsInv == DueDatesStand /\ RightsAreServed /\ NoneExchanged

LEMMA RightsStayServed ==
  ASSUME Typed(data), AmountDecides, NamesDiffer,
         EngineInv, EvidenceInv, PassesInOrder, DueDatesAreDates,
         RightsInv, [EngineNext]_engineVars
  PROVE  RightsInv'
<1>. USE DEF RightsInv
<1>0. DueDatesStand'
  BY DueDatesStillStand
<1>1. SettledOnlyGrows
  BY SettledGrows
<1>2. \A o, c : Rightful(o, c)' <=> Rightful(o, c)
  <2>1. data' = data
    BY <1>1 DEF SettledOnlyGrows
  <2>. QED  BY <2>1 DEF Rightful, DueDate, BatchProfiles, ProfileOf
<1>3. ASSUME NEW b \in Settled'
      PROVE  IF b \in Settled THEN links'[b].credit = links[b].credit
             ELSE /\ b \in Undecideds
                  /\ \A o \in Undecideds \ {b} : ~Rightful(o, links'[b].credit)
  <2>1. CASE b \in Settled
    BY <1>1, <2>1 DEF SettledOnlyGrows
  <2>2. CASE b \notin Settled
    <3>1. PICK c \in remaining : Claims(b, c)
      BY <1>1, <2>2 DEF SettledOnlyGrows
    <3>2. b \in Delivered /\ b \in BatchIds
      BY <1>1 DEF SettledOnlyGrows, Settled, Delivered, EngineInv, Fits
    <3>3. links'[b].credit = c
      <4>1. links'[b] = LinkedTo(c, RoundingCategory(b, c))
        BY <3>1, <3>2, ClaimUpdates
      <4>. QED  BY <4>1 DEF LinkedTo
    <3>4. b \in Undecideds
      BY <3>1, <3>2 DEF Claims, Undecideds, Undecided
    <3>5. ASSUME NEW o \in Undecideds, Rightful(o, c)
          PROVE  o = b
      BY <3>1, <3>2, <3>5, ClaimLeavesRights
    <3>. QED  BY <2>2, <3>3, <3>4, <3>5
  <2>. QED  BY <2>1, <2>2
<1>4. ASSUME NEW b \in Settled', NEW o \in Undecideds', Rightful(o, links'[b].credit)
      PROVE  FALSE
  <2>1. o \in Undecideds
    BY <1>1 DEF SettledOnlyGrows
  <2>2. o # b
    BY DEF Undecideds, Settled
  <2>. QED  BY <1>3, <1>4, <2>1, <2>2 DEF RightsAreServed
<1>5. ASSUME NEW group \in SUBSET Settled', group # {}
      PROVE  \E b \in group : \A o \in group \ {b} : ~Rightful(o, links'[b].credit)
  <2>. DEFINE old == group \intersect Settled
  <2>1. CASE old = {}
    BY <1>3, <1>5, <2>1
  <2>2. CASE old # {}
    <3>1. old \in (SUBSET Settled) \ {{}}
      BY <2>2
    <3>2. PICK b \in old : \A o \in old \ {b} : ~Rightful(o, links[b].credit)
      BY <3>1 DEF NoneExchanged
    <3>3. ASSUME NEW o \in group \ {b}
          PROVE  ~Rightful(o, links[b].credit)
      <4>1. CASE o \in Settled
        BY <3>2, <4>1
      <4>2. CASE o \notin Settled
        <5>1. o \in Undecideds
          BY <1>3, <4>2
        <5>. QED  BY <3>2, <5>1 DEF RightsAreServed
      <4>. QED  BY <4>1, <4>2
    <3>4. links'[b].credit = links[b].credit
      BY <1>3, <3>2
    <3>. QED  BY <3>2, <3>3, <3>4
  <2>. QED  BY <2>1, <2>2
<1>6. RightsAreServed'
  BY <1>2, <1>4 DEF RightsAreServed
<1>7. NoneExchanged'
  BY <1>2, <1>5 DEF NoneExchanged
<1>. QED  BY <1>0, <1>6, <1>7

LEMMA BegunHasRights ==
  ASSUME Begun
  PROVE  RightsInv
BY BegunIsUnsettled DEF Begun, RightsInv, DueDatesStand, RightsAreServed, NoneExchanged

-----------------------------------------------------------------------------
(* A credit of the batch's amount names it in full, and no other does.     *)
NamesOnly(d, c, b) ==
    /\ c \in DOMAIN d.bank /\ d.bank[c].direction = "CREDIT"
    /\ AmountAgrees(d.bank[c], d.batches[b]) /\ CarriesUtr(d.bank[c].token, d.batches[b].utr)
    /\ \A k \in DOMAIN d.bank :
          CarriesUtr(d.bank[k].token, d.batches[b].utr) => k = c

(* P2 and P2b have yet to come to a batch.                                 *)
YetToCome(b) ==
    \/ pass \in Early \union {"P2", "FAILED"}
    \/ pass = "P2B" /\ b \in todo

(* A batch such a credit names gets it, whatever else is delivered: until  *)
(* P2b has taken the batch, no other takes the credit.                     *)
OwnIsServed ==
    \A b \in Delivered, c \in CreditIds : NamesOnly(data, c, b) =>
        \/ links[b].credit = c
        \/ links[b] = Undecided /\ c \in remaining /\ YetToCome(b)

(* P2 has nothing left to do only where nothing was delivered.             *)
NamingInv ==
    /\ pass = "P2" /\ todo = {} => Delivered = {}
    /\ OwnIsServed

LEMMA OwnStaysServed ==
  ASSUME Typed(data), NamesDiffer, EngineInv, EvidenceInv, PassesInOrder, NamingInv,
         [EngineNext]_engineVars
  PROVE  NamingInv'
<1>0. /\ Delivered \subseteq BatchIds /\ links \in [BatchIds -> LinkOutcomes]
      /\ remaining \subseteq CreditIds /\ CreditIds \subseteq Nat \ {0}
      /\ todo \subseteq Nat /\ remaining \subseteq Nat
  BY IdsAssumption DEF EngineInv, EngineTypeOK, Fits, Delivered
<1>1. data' = data /\ Delivered' = Delivered
  BY DEF EngineNext, FindDuplicates, ClassifyCases, DeriveProfiles, Raise, LinkExact, LinkNear,
         ResolveCredit, NothingLeftOpen, Skip, CategoriseOpen, AssembleRows, engineVars, Delivered
<1>2. \A b \in Delivered : links[b] = Undecided => links[b].credit \notin CreditIds
  BY <1>0 DEF Undecided, NoCredit
<1>3. ASSUME NEW b \in Delivered, NEW c \in CreditIds, NamesOnly(data, c, b),
             NEW o \in Delivered, CarriesUtr(data.bank[c].token, data.batches[o].utr)
      PROVE  o = b
  <2>1. /\ data.bank[c].token \in Tokens
        /\ data.batches[b].utr \in Utrs /\ data.batches[o].utr \in Utrs
    BY <1>3 DEF Typed, NamesOnly, Delivered
  <2>2. data.batches[b].utr = data.batches[o].utr
    BY <1>3, <2>1, CarriedUtr DEF NamesOnly
  <2>. QED  BY <2>2 DEF NamesDiffer
<1>4. CASE UNCHANGED engineVars
  BY <1>4, <1>1 DEF engineVars, NamingInv, OwnIsServed, YetToCome
<1>5. CASE FindDuplicates \/ ClassifyCases \/ Raise \/ DeriveProfiles
  <2>1. /\ pass \in Early /\ UNCHANGED <<links, remaining>>
        /\ \/ pass' \in Early \union {"FAILED"}
           \/ pass' = "P2" /\ todo' = Delivered
    BY <1>5 DEF FindDuplicates, ClassifyCases, Raise, DeriveProfiles, Early
  <2>2. OwnIsServed'
    BY <1>1, <2>1 DEF NamingInv, OwnIsServed, YetToCome, Early
  <2>. QED  BY <1>1, <2>1, <2>2 DEF NamingInv, Early
<1>6. CASE LinkExact
  <2>. DEFINE o == First(todo)
              found == ExactCredits(o)
  <2>1. o \in todo /\ o \in Delivered /\ links[o] = Undecided /\ pass = "P2"
    BY <1>0, <1>6, FirstIsMember DEF LinkExact, PassesInOrder
  <2>2. \/ todo = {o} /\ pass' = "P2B" /\ todo' = Delivered
        \/ todo # {o} /\ pass' = "P2" /\ todo' = todo \ {o}
    BY <1>6, <2>1 DEF LinkExact, Taken
  <2>3. IF found = {} THEN UNCHANGED <<links, remaining>>
        ELSE /\ links' = [links EXCEPT ![o] = LinkedTo(First(found), NoCategory)]
             /\ remaining' = remaining \ {First(found)}
    BY <1>6 DEF LinkExact
  <2>4. found # {} => /\ First(found) \in remaining
                      /\ CarriesUtr(data.bank[First(found)].token, data.batches[o].utr)
    <3>1. found \subseteq remaining
      BY DEF ExactCredits
    <3>2. found # {} => First(found) \in found
      BY <1>0, <3>1, FirstIsMember
    <3>. QED  BY <3>2 DEF ExactCredits
  <2>5. LinkedTo(First(found), NoCategory).credit = First(found)
    BY DEF LinkedTo
  <2>. HIDE DEF o, found
  <2>6. ASSUME NEW b \in Delivered, NEW c \in CreditIds, NamesOnly(data, c, b)
        PROVE  \/ links'[b].credit = c
               \/ links'[b] = Undecided /\ c \in remaining' /\ YetToCome(b)'
    <3>1. YetToCome(b)'
      BY <2>2 DEF YetToCome
    <3>2. \/ links[b].credit = c
          \/ links[b] = Undecided /\ c \in remaining
      BY <2>6 DEF NamingInv, OwnIsServed
    <3>3. CASE found = {}
      BY <2>3, <3>1, <3>2, <3>3
    <3>4. CASE found # {} /\ b = o
      <4>1. First(found) = c
        BY <2>4, <2>6, <3>4 DEF NamesOnly, EvidenceInv, PoolIsDelivered
      <4>. QED  BY <1>0, <2>3, <2>5, <3>4, <4>1
    <3>5. CASE found # {} /\ b # o
      <4>1. First(found) # c
        BY <1>3, <2>1, <2>4, <2>6, <3>5
      <4>2. links'[b] = links[b]
        BY <1>0, <2>3, <3>5
      <4>. QED  BY <2>3, <3>1, <3>2, <3>5, <4>1, <4>2
    <3>. QED  BY <3>3, <3>4, <3>5
  <2>7. pass' = "P2" => todo' # {}
    BY <2>1, <2>2
  <2>8. OwnIsServed'
    BY <1>1, <2>6 DEF OwnIsServed
  <2>. QED  BY <2>7, <2>8 DEF NamingInv
<1>7. CASE LinkNear
  <2>. DEFINE o == First(todo)
              near == NearCredits(o)
  <2>1. o \in todo /\ o \in Delivered /\ pass = "P2B"
    BY <1>0, <1>7, FirstIsMember DEF LinkNear, PassesInOrder
  <2>2. \/ todo = {o} /\ pass' = "P8"
        \/ todo # {o} /\ pass' = "P2B" /\ todo' = todo \ {o}
    BY <1>7, <2>1 DEF LinkNear, Taken
  <2>3. IF links[o] # Undecided THEN UNCHANGED <<links, remaining>>
        ELSE IF near # {}
        THEN /\ links' = [links EXCEPT ![o] = LinkedTo(First(near), RoundingCategory(o, First(near)))]
             /\ remaining' = remaining \ {First(near)}
        ELSE /\ links' = [links EXCEPT ![o] = Waiting] \/ links' = links
             /\ UNCHANGED remaining
    BY <1>7 DEF LinkNear
  <2>4. near # {} => /\ First(near) \in remaining
                     /\ CarriesUtr(data.bank[First(near)].token, data.batches[o].utr)
    <3>1. near \subseteq remaining
      BY DEF NearCredits
    <3>2. near # {} => First(near) \in near
      BY <1>0, <3>1, FirstIsMember
    <3>. QED  BY <3>2 DEF NearCredits
  <2>5. LinkedTo(First(near), RoundingCategory(o, First(near))).credit = First(near)
    BY DEF LinkedTo
  <2>6. \A c \in remaining : NamesOnly(data, c, o) => c \in near
    BY DEF NamesOnly, NearCredits
  <2>. HIDE DEF o, near
  <2>7. ASSUME NEW b \in Delivered, NEW c \in CreditIds, NamesOnly(data, c, b)
        PROVE  \/ links'[b].credit = c
               \/ links'[b] = Undecided /\ c \in remaining' /\ YetToCome(b)'
    <3>1. \/ links[b].credit = c /\ links[b] # Undecided
          \/ links[b] = Undecided /\ c \in remaining /\ b \in todo
      BY <1>2, <2>1, <2>7 DEF NamingInv, OwnIsServed, YetToCome, Early
    <3>2. CASE b = o
      <4>1. CASE links[o] # Undecided
        BY <2>3, <3>1, <3>2, <4>1
      <4>2. CASE links[o] = Undecided
        <5>1. near # {}
          BY <2>6, <2>7, <3>1, <3>2, <4>2
        <5>2. First(near) = c
          BY <2>4, <2>7, <3>2, <5>1 DEF NamesOnly, EvidenceInv, PoolIsDelivered
        <5>. QED  BY <1>0, <2>3, <2>5, <3>2, <4>2, <5>1, <5>2
      <4>. QED  BY <4>1, <4>2
    <3>3. CASE b # o
      <4>1. links'[b] = links[b]
        BY <1>0, <2>3, <3>3
      <4>2. c \in remaining => c \in remaining'
        <5>1. near # {} => First(near) # c
          BY <1>3, <2>1, <2>4, <2>7, <3>3
        <5>. QED  BY <2>3, <5>1
      <4>3. b \in todo => YetToCome(b)'
        BY <2>1, <2>2, <3>3 DEF YetToCome
      <4>. QED  BY <3>1, <4>1, <4>2, <4>3
    <3>. QED  BY <3>2, <3>3
  <2>8. OwnIsServed'
    BY <1>1, <2>7 DEF OwnIsServed
  <2>. QED  BY <2>2, <2>8 DEF NamingInv
<1>8. CASE \/ ResolveCredit \/ NothingLeftOpen \/ CategoriseOpen \/ AssembleRows
           \/ Skip("P2B", "P8", remaining) \/ Skip("P8", "OPEN", {})
  <2>1. /\ pass \in {"P8", "OPEN", "ROWS"} \/ (pass = "P2B" /\ todo = {})
        /\ pass' # "P2"
    BY <1>8 DEF ResolveCredit, NothingLeftOpen, CategoriseOpen, AssembleRows, Skip, Taken
  <2>2. ASSUME NEW b \in Delivered, links[b] # Undecided
        PROVE  links'[b] = links[b]
    <3>1. CASE NothingLeftOpen \/ AssembleRows \/ Skip("P2B", "P8", remaining)
               \/ Skip("P8", "OPEN", {})
      BY <3>1 DEF NothingLeftOpen, AssembleRows, Skip
    <3>2. CASE CategoriseOpen
      BY <1>0, <2>2, <3>2 DEF CategoriseOpen, StillOpen
    <3>3. CASE ResolveCredit
      <4>1. PICK c : \/ UNCHANGED links
                     \/ \E o \in Resolve(data.bank[c], Candidates, due) :
                           links' = [links EXCEPT ![o] = LinkedTo(c, RoundingCategory(o, c))]
        BY <3>3 DEF ResolveCredit
      <4>2. CASE UNCHANGED links
        BY <4>2
      <4>3. ASSUME NEW o \in Resolve(data.bank[c], Candidates, due),
                   links' = [links EXCEPT ![o] = LinkedTo(c, RoundingCategory(o, c))]
            PROVE  links'[b] = links[b]
        <5>1. o \in StillOpen
          BY DEF Resolve, Candidates
        <5>2. o # b
          BY <2>2, <5>1 DEF StillOpen
        <5>. QED  BY <1>0, <4>3, <5>2
      <4>. QED  BY <4>1, <4>2, <4>3
    <3>. QED  BY <1>8, <3>1, <3>2, <3>3
  <2>3. ASSUME NEW b \in Delivered, NEW c \in CreditIds, NamesOnly(data, c, b)
        PROVE  links'[b].credit = c
    <3>1. links[b].credit = c
      BY <2>1, <2>3 DEF NamingInv, OwnIsServed, YetToCome, Early
    <3>2. links[b] # Undecided
      BY <1>2, <3>1
    <3>. QED  BY <2>2, <3>1, <3>2
  <2>4. OwnIsServed'
    BY <1>1, <2>3 DEF OwnIsServed
  <2>. QED  BY <2>1, <2>4 DEF NamingInv
<1>9. CASE Skip("P2", "P2B", {})
  <2>1. Delivered = {}
    BY <1>9 DEF Skip, NamingInv
  <2>2. pass' # "P2"
    BY <1>9 DEF Skip
  <2>. QED  BY <1>1, <2>1, <2>2 DEF NamingInv, OwnIsServed
<1>. QED  BY <1>4, <1>5, <1>6, <1>7, <1>8, <1>9 DEF EngineNext

LEMMA BegunServesOwn ==
  ASSUME Begun
  PROVE  NamingInv
<1>1. ASSUME NEW b \in Delivered, NEW c \in CreditIds, NamesOnly(data, c, b)
      PROVE  links[b] = Undecided /\ c \in remaining /\ YetToCome(b)
  <2>1. b \in BatchIds /\ pass = "P7"
    BY DEF Begun, Fits, Delivered
  <2>. QED  BY <1>1, <2>1 DEF Begun, NamesOnly, YetToCome, Early
<1>. QED  BY <1>1 DEF NamingInv, OwnIsServed, Begun

=============================================================================
