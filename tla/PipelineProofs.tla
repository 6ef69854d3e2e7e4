--------------------------- MODULE PipelineProofs ---------------------------
(***************************************************************************)
(* What is proved of one call of the engine holds of the pipeline that     *)
(* calls it day after day, on whatever the generator writes.               *)
(***************************************************************************)
EXTENDS Pipeline, EngineProofs, GeneratorProofs

-----------------------------------------------------------------------------
(* The inductive invariant of the pipeline. *)
PipelineInv == EngineInv /\ given \subseteq Inputs

(* What is delivered of a data set fits if the data set does. *)
LEMMA DeliveredFits ==
  ASSUME GeneratedIdsFit, NEW day
  PROVE  Fits(DeliveredBy(day))
<1>1. DOMAIN DeliveredBy(day).batches \subseteq DOMAIN rows.batches
  BY DEF DeliveredBy, FilesOf, Chosen
<1>2. DOMAIN DeliveredBy(day).bank \subseteq {CreditId(c) : c \in DOMAIN rows.bank}
  BY DEF DeliveredBy, FilesOf, Chosen
<1>3. DOMAIN WrittenBank = {CreditId(c) : c \in DOMAIN rows.bank}
  BY DEF WrittenBank
<1>. QED  BY <1>1, <1>2, <1>3 DEF GeneratedIdsFit, Fits

LEMMA RunOnKeeps ==
  ASSUME EngineInv, NEW files, NEW day, Fits(files), RunOn(files, day)
  PROVE  EngineInv'
<1>1. CASE Readable(files)
  BY <1>1, CallEstablishes DEF RunOn
<1>2. CASE ~Readable(files)
  <2>1. pass' = "FAILED" /\ UNCHANGED <<data, todo, remaining, links>>
    BY <1>2 DEF RunOn
  <2>. QED  BY <2>1 DEF EngineInv, EngineTypeOK, Fits, PassesTakeTheirOwn,
                      CreditSettlesOneBatch, Passes
<1>. QED  BY <1>1, <1>2

LEMMA PipelineStarts ==
  ASSUME PipelineInit
  PROVE  PipelineInv
<1>1. /\ pass = "DONE" /\ todo = {} /\ data = NoData /\ remaining = {}
      /\ links = [b \in BatchIds |-> Undecided]
  BY DEF PipelineInit, EngineAtRest, Fresh, NoData
<1>2. Fits(data) /\ PassesTakeTheirOwn
  BY <1>1 DEF Fits, NoData, PassesTakeTheirOwn
<1>3. EngineTypeOK
  BY <1>1, OutcomesTyped DEF EngineTypeOK, Passes
<1>4. CreditSettlesOneBatch
  BY <1>1, OutcomesTyped DEF CreditSettlesOneBatch
<1>5. given \subseteq Inputs
  BY DEF PipelineInit
<1>. QED  BY <1>2, <1>3, <1>4, <1>5 DEF PipelineInv, EngineInv

LEMMA PipelineStepKeeps ==
  ASSUME PipelineInv, GeneratedIdsFit, [PipelineNext]_pipelineVars
  PROVE  PipelineInv'
<1>. USE DEF PipelineInv
<1>1. CASE Generate \/ UNCHANGED pipelineVars
  BY <1>1, EngineStepKeeps DEF Generate, pipelineVars
<1>2. CASE RunFiles
  <2>1. PICK file \in given : RunOn(file.data, file.asOf)
    BY <1>2 DEF RunFiles
  <2>2. Fits(file.data)
    BY InputsAssumption
  <2>3. EngineInv'
    BY <2>1, <2>2, RunOnKeeps
  <2>. QED  BY <1>2, <2>3 DEF RunFiles
<1>3. CASE RunDay
  <2>1. PICK day : RunOn(DeliveredBy(day), AsOf(day))
    BY <1>3 DEF RunDay
  <2>2. EngineInv'
    BY <2>1, DeliveredFits, RunOnKeeps
  <2>. QED  BY <1>3, <2>2 DEF RunDay
<1>4. CASE EngineStep
  BY <1>4, EngineStepKeeps DEF EngineStep
<1>. QED  BY <1>1, <1>2, <1>3, <1>4 DEF PipelineNext

(* The same over any number of days: of whatever the generator writes and  *)
(* whichever days are run, as long as the rows have ids of the instance,   *)
(* no run of the engine settles two batches by one credit.                 *)
THEOREM PipelineSettlesOnce ==
  PipelineSpec /\ []GeneratedIdsFit => []CreditSettlesOneBatch
<1>1. PipelineInv => CreditSettlesOneBatch
  BY DEF PipelineInv, EngineInv
<1>. QED  BY <1>1, PipelineStarts, PipelineStepKeeps, PTL DEF PipelineSpec

LEMMA RunOnHasEvidence ==
  ASSUME EngineInv, EvidenceInv, NEW files, NEW day, Fits(files), RunOn(files, day)
  PROVE  EvidenceInv'
<1>1. CASE Readable(files)
  BY <1>1, CallHasEvidence DEF RunOn
<1>2. CASE ~Readable(files)
  <2>1. pass' = "FAILED" /\ UNCHANGED <<data, due, remaining, links>>
    BY <1>2 DEF RunOn
  <2>. QED  BY <2>1, NoNewLinkKeepsEvidence
<1>. QED  BY <1>1, <1>2

LEMMA RestHasEvidence ==
  ASSUME PipelineInit
  PROVE  EvidenceInv
<1>1. data = NoData /\ remaining = {} /\ links = [b \in BatchIds |-> Undecided]
  BY DEF PipelineInit, EngineAtRest, Fresh, NoData
<1>2. Settled = {}
  BY <1>1 DEF Settled, Delivered, NoData
<1>. QED  BY <1>1, <1>2 DEF EvidenceInv, PoolIsDelivered, LinksComeAfterDueDates, LinkFallsDue

LEMMA PipelineKeepsEvidence ==
  ASSUME PipelineInv, EvidenceInv, GeneratedIdsFit, [PipelineNext]_pipelineVars
  PROVE  EvidenceInv'
<1>. USE DEF PipelineInv
<1>1. CASE Generate \/ UNCHANGED pipelineVars
  BY <1>1, EvidenceStepKeeps DEF Generate, pipelineVars
<1>2. CASE RunFiles
  <2>1. PICK file \in given : RunOn(file.data, file.asOf)
    BY <1>2 DEF RunFiles
  <2>. QED  BY <2>1, InputsAssumption, RunOnHasEvidence
<1>3. CASE RunDay
  <2>1. PICK day : RunOn(DeliveredBy(day), AsOf(day))
    BY <1>3 DEF RunDay
  <2>. QED  BY <2>1, DeliveredFits, RunOnHasEvidence
<1>4. CASE EngineStep
  BY <1>4, EvidenceStepKeeps DEF EngineStep
<1>. QED  BY <1>1, <1>2, <1>3, <1>4 DEF PipelineNext

(* The same over any number of days, and of whatever the generator writes. *)
THEOREM PipelineLinksFallDue ==
  PipelineSpec /\ []GeneratedIdsFit => []LinkFallsDue
<1>1. EvidenceInv => LinkFallsDue
  BY DEF EvidenceInv
<1>. QED  BY <1>1, PipelineStarts, PipelineStepKeeps, RestHasEvidence, PipelineKeepsEvidence,
             PTL DEF PipelineSpec

-----------------------------------------------------------------------------
(* Whatever the engine has been called on could be read. *)
LEMMA NoDataIsReadable == Readable(NoData)
BY FS_EmptySet DEF NoData, Readable, Typed, RowIds

(* The call of the engine did not come about. *)
Unread ==
    /\ pass' = "FAILED"
    /\ UNCHANGED <<data, asOf, todo, due, remaining, links, cases, rowVariances>>

(* What a step of the pipeline is to the engine: a step of its own, the    *)
(* beginning of a run on files that could be read, or the end of it.       *)
LEMMA PipelineStepCases ==
  ASSUME PipelineInv, GeneratedIdsFit, [PipelineNext]_pipelineVars
  PROVE  \/ [EngineNext]_engineVars
         \/ Begun' /\ Readable(data)'
         \/ Unread
<1>. USE DEF PipelineInv
<1>1. ASSUME NEW files, NEW day, Fits(files), RunOn(files, day)
      PROVE  (Begun' /\ Readable(data)') \/ Unread
  <2>1. CASE Readable(files)
    <3>1. Call(files, day)
      BY <1>1, <2>1 DEF RunOn
    <3>2. data' = files
      BY <3>1 DEF Call, Fresh
    <3>. QED  BY <1>1, <2>1, <3>1, <3>2, CallHasBegun
  <2>2. CASE ~Readable(files)
    BY <1>1, <2>2 DEF RunOn, Unread
  <2>. QED  BY <2>1, <2>2
<1>2. CASE Generate \/ UNCHANGED pipelineVars
  BY <1>2 DEF Generate, pipelineVars
<1>3. CASE RunFiles
  <2>1. PICK file \in given : RunOn(file.data, file.asOf)
    BY <1>3 DEF RunFiles
  <2>2. Fits(file.data)
    BY InputsAssumption
  <2>. QED  BY <1>1, <2>1, <2>2
<1>4. CASE RunDay
  <2>1. PICK day : RunOn(DeliveredBy(day), AsOf(day))
    BY <1>4 DEF RunDay
  <2>. QED  BY <1>1, <2>1, DeliveredFits
<1>5. CASE EngineStep
  BY <1>5 DEF EngineStep
<1>. QED  BY <1>2, <1>3, <1>4, <1>5 DEF PipelineNext

LEMMA PipelineHasBegun ==
  ASSUME PipelineInit
  PROVE  Begun /\ Readable(data)
<1>1. /\ pass = "DONE" /\ todo = {} /\ data = NoData /\ remaining = {} /\ cases = <<>>
      /\ links = [b \in BatchIds |-> Undecided] /\ rowVariances = NoRows
  BY DEF PipelineInit, EngineAtRest, Fresh, NoData
<1>2. /\ DOMAIN NoData.batches = {} /\ DOMAIN NoData.payments = {}
      /\ DOMAIN NoData.ledger = {} /\ DOMAIN NoData.bank = {}
  BY DEF NoData
<1>3. Begun
  BY <1>1, <1>2 DEF Begun, Fits, Delivered
<1>. QED  BY <1>1, <1>3, NoDataIsReadable

(* What holds of every run, on whatever data and configuration. *)
RunInv ==
    /\ PipelineInv /\ EvidenceInv /\ Readable(data)
    /\ PassesInOrder /\ BestClaimSoFar /\ PoolIsAccounted /\ CasesAreClassified

LEMMA RunStarts ==
  ASSUME PipelineInit
  PROVE  RunInv
BY PipelineStarts, RestHasEvidence, PipelineHasBegun, BegunInOrder, BegunIsAccounted,
   BegunHasNoCases DEF RunInv

LEMMA NewRunStarts ==
  Begun' => (PassesInOrder /\ BestClaimSoFar /\ PoolIsAccounted /\ CasesAreClassified)'
<1>1. Begun => PassesInOrder /\ BestClaimSoFar /\ PoolIsAccounted /\ CasesAreClassified
  BY BegunInOrder, BegunIsAccounted, BegunHasNoCases
<1>. QED  BY <1>1, PTL

LEMMA RunStepKeeps ==
  ASSUME RunInv, GeneratedIdsFit, [PipelineNext]_pipelineVars
  PROVE  RunInv'
<1>. USE DEF RunInv
<1>1. PipelineInv' /\ EvidenceInv'
  BY PipelineStepKeeps, PipelineKeepsEvidence
<1>2. CASE [EngineNext]_engineVars
  <2>1. EngineInv
    BY DEF PipelineInv
  <2>2. SettledOnlyGrows
    BY <1>2, <2>1, SettledGrows
  <2>3. Readable(data)'
    BY <2>2 DEF SettledOnlyGrows
  <2>. QED  BY <1>1, <1>2, <2>1, <2>3, PassesStayInOrder, BestClaimKept, PoolStaysAccounted,
               CasesStayClassified
<1>3. CASE Begun' /\ Readable(data)'
  BY <1>1, <1>3, NewRunStarts
<1>4. CASE Unread
  <2>0. pass' = "FAILED" /\ UNCHANGED <<data, due, remaining, links, cases>>
    BY <1>4 DEF Unread
  <2>1. Settled' = Settled /\ Delivered' = Delivered /\ \A o : CreditOf(o)' = CreditOf(o)
    BY <2>0 DEF Settled, Delivered, CreditOf
  <2>2. PassesInOrder'
    BY <2>0 DEF PassesInOrder, Early
  <2>3. BestClaimSoFar'
    BY <2>0, <2>1 DEF BestClaimSoFar
  <2>4. PoolIsAccounted'
    BY <2>0, <2>1 DEF PoolIsAccounted, SharesUtrPrefix
  <2>5. CasesAreClassified' /\ Readable(data)'
    BY <2>0 DEF CasesAreClassified
  <2>. QED  BY <1>1, <2>2, <2>3, <2>4, <2>5
<1>. QED  BY <1>2, <1>3, <1>4, PipelineStepCases DEF PipelineInv

(* BestClaimsStand, over any number of days and of whatever the generator  *)
(* writes or is given: no batch is left open that had nearly as good a     *)
(* claim to a credit as the batch that got it.                             *)
THEOREM PipelineBestClaims ==
  PipelineSpec /\ []GeneratedIdsFit => []BestClaimStands
<1>1. RunInv => BestClaimStands
  BY DEF RunInv, BestClaimSoFar, BestClaimStands
<1>. QED  BY <1>1, RunStarts, RunStepKeeps, PTL DEF PipelineSpec

(* A case _classify_case confirms without a category is whole, on any data *)
(* load_dataset accepts and on any calendar: what was authorised has been  *)
(* settled, no working day passed after the due date, and no other order   *)
(* looks like its own.                                                     *)
THEOREM CleanCasesAreWhole ==
  PipelineSpec /\ []GeneratedIdsFit => []CleanCaseIsWhole
<1>1. RunInv => CleanCaseIsWhole
  <2>1. Readable(data) => \A l \in DOMAIN data.lines : data.lines[l].settled =< WindowEnd
    BY DEF Readable, WholeLine, InWindow
  <2>. QED  BY <2>1, ClassifiedMeansWhole DEF RunInv, Readable
<1>. QED  BY <1>1, RunStarts, RunStepKeeps, PTL DEF PipelineSpec

-----------------------------------------------------------------------------
(* What holds of every run where the settlement cycles are short: P8 can   *)
(* compare dates.                                                          *)
DatedInv == RunInv /\ DueDatesAreDates

LEMMA DatedStarts ==
  ASSUME PipelineInit
  PROVE  DatedInv
BY RunStarts, PipelineHasBegun, BegunHasNoDates DEF DatedInv

LEMMA NewRunHasNoLinks ==
  Begun' =>
    (DueDatesAreDates /\ AmountsAgree /\ SharesMost /\ NamesAreServed /\ RoundingsAreNamed)'
<1>1. Begun =>
        DueDatesAreDates /\ AmountsAgree /\ SharesMost /\ NamesAreServed /\ RoundingsAreNamed
  BY BegunHasNoDates, BegunHasNoLinks
<1>. QED  BY <1>1, PTL

(* A run that fails for its files leaves the links of the one before. *)
LEMMA UnreadKeepsLinks ==
  ASSUME Unread
  PROVE  /\ DueDatesAreDates'
         /\ AmountsAgree => AmountsAgree'
         /\ SharesMost => SharesMost'
         /\ NamesAreServed => NamesAreServed'
<1>0. pass' = "FAILED" /\ UNCHANGED <<data, due, links>>
  BY DEF Unread
<1>1. /\ Settled' = Settled /\ Undecideds' = Undecideds
      /\ \A o : CreditOf(o)' = CreditOf(o)
  BY <1>0 DEF Settled, Undecideds, Delivered, CreditOf
<1>2. DueDatesAreDates'
  BY <1>0 DEF DueDatesAreDates
<1>3. AmountsAgree => AmountsAgree'
  BY <1>0, <1>1 DEF AmountsAgree
<1>4. SharesMost => SharesMost'
  BY <1>0, <1>1 DEF SharesMost
<1>5. NamesAreServed => NamesAreServed'
  BY <1>0, <1>1 DEF NamesAreServed
<1>. QED  BY <1>2, <1>3, <1>4, <1>5

LEMMA DatedStepKeeps ==
  ASSUME CyclesAreShort, DatedInv, GeneratedIdsFit, [PipelineNext]_pipelineVars
  PROVE  DatedInv'
<1>1. RunInv'
  BY RunStepKeeps DEF DatedInv
<1>2. CASE [EngineNext]_engineVars
  BY <1>1, <1>2, DueDatesStayDates DEF DatedInv, RunInv, PipelineInv, Readable
<1>3. CASE Begun'
  BY <1>1, <1>3, NewRunHasNoLinks DEF DatedInv
<1>4. CASE Unread
  BY <1>1, <1>4, UnreadKeepsLinks DEF DatedInv
<1>. QED  BY <1>2, <1>3, <1>4, PipelineStepCases DEF DatedInv, RunInv

LEMMA AmountsStepKeeps ==
  ASSUME AmountDecides, DatedInv, AmountsAgree, GeneratedIdsFit, [PipelineNext]_pipelineVars
  PROVE  AmountsAgree'
<1>1. CASE [EngineNext]_engineVars
  BY <1>1, AmountsStayAgreed DEF DatedInv, RunInv, PipelineInv, Readable
<1>2. CASE Begun'
  BY <1>2, NewRunHasNoLinks
<1>3. CASE Unread
  BY <1>3, UnreadKeepsLinks
<1>. QED  BY <1>1, <1>2, <1>3, PipelineStepCases DEF DatedInv, RunInv

LEMMA SharesStepKeeps ==
  ASSUME PrefixesAreCompared, MostOfTheUtr,
         DatedInv, SharesMost, GeneratedIdsFit, [PipelineNext]_pipelineVars
  PROVE  SharesMost'
<1>1. CASE [EngineNext]_engineVars
  BY <1>1, SharesStayMost DEF DatedInv, RunInv, PipelineInv, Readable
<1>2. CASE Begun'
  BY <1>2, NewRunHasNoLinks
<1>3. CASE Unread
  BY <1>3, UnreadKeepsLinks
<1>. QED  BY <1>1, <1>2, <1>3, PipelineStepCases DEF DatedInv, RunInv

LEMMA NamesStepKeeps ==
  ASSUME PrefixesAreCompared, AmountDecides, UtrsApart,
         DatedInv, NamesAreServed, NamesDiffer, GeneratedIdsFit, [PipelineNext]_pipelineVars
  PROVE  NamesAreServed'
<1>1. CASE [EngineNext]_engineVars
  BY <1>1, NamesStayServed DEF DatedInv, RunInv, PipelineInv, Readable
<1>2. CASE Begun'
  BY <1>2, NewRunHasNoLinks
<1>3. CASE Unread
  BY <1>3, UnreadKeepsLinks
<1>. QED  BY <1>1, <1>2, <1>3, PipelineStepCases DEF DatedInv, RunInv

LEMMA LinksStart ==
  ASSUME PipelineInit
  PROVE  DatedInv /\ AmountsAgree /\ SharesMost /\ NamesAreServed /\ RoundingsAreNamed
BY DatedStarts, PipelineHasBegun, BegunHasNoLinks

(* A batch reported as having no credit really has none, in any run on any *)
(* data load_dataset accepts, as long as the weights and thresholds of P8  *)
(* ask for most of a UTR and look at every prefix that _shares_utr_prefix  *)
(* counts as one: a credit that shows part of its UTR settled a batch that *)
(* agrees with thirteen sixteenths of what the narration kept.             *)
THEOREM MissingCreditsAreMissing ==
  ASSUME CyclesAreShort, PrefixesAreCompared, MostOfTheUtr
  PROVE  PipelineSpec /\ []GeneratedIdsFit => []MissingMeansNoCredit
<1>. DEFINE Inv == DatedInv /\ SharesMost
<1>1. PipelineInit => Inv
  BY LinksStart
<1>2. Inv /\ GeneratedIdsFit /\ [PipelineNext]_pipelineVars => Inv'
  BY DatedStepKeeps, SharesStepKeeps
<1>3. Inv => MissingMeansNoCredit
  BY MissingHasNone DEF DatedInv, RunInv, PipelineInv
<1>. QED  BY <1>1, <1>2, <1>3, PTL DEF PipelineSpec

-----------------------------------------------------------------------------
(* The rows an order goes by, and the one of them the verifier reads. *)
LEMMA LedgerRowIsThere ==
  ASSUME NEW d, Typed(d), NEW r \in DOMAIN d.ledger
  PROVE  \E s \in DOMAIN d.ledger :
            d.ledger[s].order = d.ledger[r].order /\ LedgerRow(d, d.ledger[r].order) = d.ledger[s]
<1>. DEFINE o == d.ledger[r].order
            named == RowsNamed(d, Reference("ledger", o))
<1>1. named = {s \in DOMAIN d.ledger : d.ledger[s].order = o}
  BY DEF RowsNamed, Reference
<1>2. named \in SUBSET Nat /\ IsFiniteSet(named) /\ named # {}
  BY <1>1, FS_Subset DEF Typed, RowIds
<1>3. Last(named) \in named
  BY <1>2, LastIsGreatest
<1>. QED  BY <1>1, <1>3 DEF LedgerRow

(* What verify asks of two orders nominated as a duplicate. *)
LEMMA NominationVerified ==
  ASSUME NEW d, NEW h \in Nominations(d), Verify(h, d).passed
  PROVE  /\ h.evidence[1].id # h.evidence[2].id
         /\ Alike(d, h.evidence[1].id, h.evidence[2].id)
         /\ \E r, s \in DOMAIN d.ledger :
               d.ledger[r].order = h.evidence[1].id /\ d.ledger[s].order = h.evidence[2].id
         /\ h.candidate \in {h.evidence[1].id, h.evidence[2].id}
         /\ \A other \in {h.evidence[1].id, h.evidence[2].id} \ {h.candidate} :
               SettledLess(d, h.candidate, other)
<1>1. PICK r \in DOMAIN d.ledger, s \in DOMAIN d.ledger, n \in DOMAIN d.ledger :
         h = [category |-> "DUPLICATE_CANDIDATE", candidate |-> d.ledger[n].order,
              assertion |-> {}, claimed |-> {},
              evidence |-> <<Reference("ledger", d.ledger[r].order),
                             Reference("ledger", d.ledger[s].order)>>]
  BY DEF Nominations
<1>. DEFINE o1 == d.ledger[r].order
            o2 == d.ledger[s].order
            cited == {i \in DOMAIN h.evidence : h.evidence[i].table = "ledger"}
            pair == {h.evidence[i].id : i \in cited}
<1>2. h.evidence = <<Reference("ledger", o1), Reference("ledger", o2)>>
  BY <1>1
<1>3. h.evidence[1].id = o1 /\ h.evidence[2].id = o2 /\ DOMAIN h.evidence = {1, 2}
  BY <1>2 DEF Reference
<1>4. pair \subseteq {o1, o2}
  BY <1>3
<1>5. VerifyDuplicate(h, d).passed
  BY <1>1 DEF Verify, Refused
<1>6. /\ Cardinality(pair) = 2 /\ h.candidate \in pair
      /\ \A other \in pair \ {h.candidate} :
            Alike(d, h.candidate, other) /\ SettledLess(d, h.candidate, other)
  <2>1. ~Refused.passed
    BY DEF Refused
  <2>. QED  BY <1>5, <2>1 DEF VerifyDuplicate
<1>7. o1 # o2
  <2>1. ASSUME o1 = o2
        PROVE  FALSE
    <3>1. pair \subseteq {o1}
      BY <1>4, <2>1
    <3>2. pair = {} \/ pair = {o1}
      BY <3>1
    <3>3. Cardinality({o1}) = 1 /\ Cardinality({}) = 0
      BY FS_EmptySet, FS_Singleton
    <3>4. Cardinality(pair) # 2
      <4>. HIDE DEF pair
      <4>. QED  BY <3>2, <3>3
    <3>. QED  BY <1>6, <3>4
  <2>. QED  BY <2>1
<1>8. pair = {o1, o2}
  <2>1. h.evidence[1].table = "ledger" /\ h.evidence[2].table = "ledger"
    BY <1>2 DEF Reference
  <2>2. cited = {1, 2}
    BY <1>3, <2>1
  <2>. QED  BY <1>3, <2>2
<1>9. Alike(d, o1, o2)
  <2>1. Alike(d, o1, o2) \/ Alike(d, o2, o1)
    BY <1>6, <1>7, <1>8
  <2>. QED  BY <2>1 DEF Alike
<1>10. \E r1, s1 \in DOMAIN d.ledger : d.ledger[r1].order = o1 /\ d.ledger[s1].order = o2
  OBVIOUS
<1>. HIDE DEF pair, cited
<1>. QED  BY <1>3, <1>6, <1>7, <1>8, <1>9, <1>10

(* Orders the verifier takes for a duplicate find_candidate_duplicates     *)
(* pairs too, if it asks about them at all.                                *)
LEMMA VerifiedAreCandidates ==
  ASSUME NEW d, Typed(d), NEW h \in Nominations(d), Verify(h, d).passed,
         {h.evidence[1].id, h.evidence[2].id} \cap ConfirmedOrders(d.ledger) = {}
  PROVE  {h.evidence[1].id, h.evidence[2].id} \subseteq CandidateOrders(d.ledger)
<1>. DEFINE o1 == h.evidence[1].id
            o2 == h.evidence[2].id
<1>1. /\ o1 # o2 /\ Alike(d, o1, o2)
      /\ \E r, s \in DOMAIN d.ledger : d.ledger[r].order = o1 /\ d.ledger[s].order = o2
  BY NominationVerified
<1>2. PICK r \in DOMAIN d.ledger : d.ledger[r].order = o1 /\ LedgerRow(d, o1) = d.ledger[r]
  BY <1>1, LedgerRowIsThere
<1>3. PICK s \in DOMAIN d.ledger : d.ledger[s].order = o2 /\ LedgerRow(d, o2) = d.ledger[s]
  BY <1>1, LedgerRowIsThere
<1>4. /\ d.ledger[r].customer = d.ledger[s].customer
      /\ d.ledger[r].gross = d.ledger[s].gross
  BY <1>1, <1>2, <1>3 DEF Alike
<1>. HIDE DEF o1, o2
<1>5. o1 \in CandidateOrders(d.ledger)
  BY <1>1, <1>2, <1>3, <1>4, LookalikesAreCandidates DEF o1, o2
<1>6. o2 \in CandidateOrders(d.ledger)
  BY <1>1, <1>2, <1>3, <1>4, LookalikesAreCandidates DEF o1, o2
<1>. QED  BY <1>5, <1>6 DEF o1, o2

(* The verifier and the engine mean the same by a duplicate, on any data   *)
(* load_dataset accepts: a nomination that is confirmed is about cases the *)
(* engine leaves open, unless it reports a row of one of the two orders as *)
(* a copy to the letter.                                                   *)
THEOREM ConfirmedPairsStayOpen ==
  PipelineSpec /\ []GeneratedIdsFit => []ConfirmedPairsAreOpen
<1>1. RunInv => ConfirmedPairsAreOpen
  <2>. SUFFICES ASSUME RunInv, NEW h \in Nominations(data), AutoConfirms(h, data, TRUE),
                       {h.evidence[1].id, h.evidence[2].id}
                          \cap ConfirmedOrders(data.ledger) = {},
                       NEW p \in DOMAIN cases,
                       data.payments[p].order \in {h.evidence[1].id, h.evidence[2].id}
                PROVE  cases[p].status = "OPEN"
    BY DEF ConfirmedPairsAreOpen
  <2>1. Typed(data) /\ Verify(h, data).passed
    BY DEF RunInv, Readable, AutoConfirms
  <2>2. data.payments[p].order \in CandidateOrders(data.ledger)
    BY <2>1, VerifiedAreCandidates
  <2>3. cases[p] = ClassifyCase(CaseFacts(data, p), TRUE)
    <3>. DEFINE isCandidate(q) == data.payments[q].order \in CandidateOrders(data.ledger)
                verdict(q) == ClassifyCase(CaseFacts(data, q), isCandidate(q))
    <3>1. cases = [q \in DOMAIN data.payments |-> verdict(q)]
      BY DEF RunInv, CasesAreClassified
    <3>. HIDE DEF verdict
    <3>2. cases[p] = verdict(p)
      BY <3>1
    <3>3. isCandidate(p) = TRUE
      BY <2>2
    <3>. QED  BY <3>2, <3>3 DEF verdict
  <2>4. ClassifyCase(CaseFacts(data, p), TRUE).status = "OPEN"
    BY DEF ClassifyCase
  <2>. QED  BY <2>3, <2>4
<1>. QED  BY <1>1, RunStarts, RunStepKeeps, PTL DEF PipelineSpec

-----------------------------------------------------------------------------
LEMMA OnlyRow ==
  ASSUME NEW i \in Nat
  PROVE  Last({i}) = i
BY FS_Singleton, LastIsGreatest

(* What verify makes of the claim that a credit pays a batch. *)
LEMMA ClaimVerified ==
  ASSUME NEW d, Typed(d), NEW b, NEW c, NEW op, NEW claimed
  PROVE  /\ Verify(PaymentClaim(c, op, b, claimed), d).passed
               <=> /\ b \in DOMAIN d.batches /\ c \in DOMAIN d.bank
                   /\ Holds(d.bank[c].amount, op, d.batches[b].net)
                   /\ claimed \subseteq {d.bank[c].amount - d.batches[b].net}
         /\ Verify(PaymentClaim(c, op, b, claimed), d).passed
               => Verify(PaymentClaim(c, op, b, claimed), d)
                    = Passed(d.bank[c].amount - d.batches[b].net)
<1>. DEFINE h == PaymentClaim(c, op, b, claimed)
            a == [lhs |-> Field("bank", "amount"), op |-> op, rhs |-> Field("batches", "net")]
            there == b \in DOMAIN d.batches /\ c \in DOMAIN d.bank
            amount == d.bank[c].amount
            net == d.batches[b].net
<1>1. /\ h.assertion = {a} /\ h.claimed = claimed /\ h.category = "UTR_MISSING_MAPPING"
      /\ h.evidence = <<Reference("batches", b), Reference("bank", c)>>
  BY DEF PaymentClaim
<1>2. /\ DOMAIN h.evidence = {1, 2} /\ h.evidence # <<>>
      /\ h.evidence[1] = Reference("batches", b) /\ h.evidence[2] = Reference("bank", c)
  BY <1>1
<1>3. /\ RowsNamed(d, h.evidence[1]) = {b} \cap DOMAIN d.batches
      /\ RowsNamed(d, h.evidence[2]) = {c} \cap DOMAIN d.bank
  BY <1>2 DEF RowsNamed, Reference
<1>4. h.evidence[1].table = "batches" /\ h.evidence[2].table = "bank"
  BY <1>2 DEF Reference
<1>. HIDE DEF h, a
<1>5. CASE ~there
  <2>1. \E i \in DOMAIN h.evidence : RowsNamed(d, h.evidence[i]) = {}
    BY <1>2, <1>3, <1>5
  <2>2. ~Verify(h, d).passed
    BY <2>1 DEF Verify, Refused
  <2>. QED  BY <1>5, <2>2 DEF h
<1>6. CASE there
  <2>1. \A i \in DOMAIN h.evidence : RowsNamed(d, h.evidence[i]) # {}
    BY <1>2, <1>3, <1>6
  <2>2. Verify(h, d) = VerifyArithmetic(h, d)
    BY <1>1, <1>2, <2>1 DEF Verify
  <2>3. b \in Nat /\ c \in Nat
    BY <1>6 DEF Typed, RowIds
  <2>4. CitedRows(d, h.evidence, "bank") = {c} /\ CitedRows(d, h.evidence, "batches") = {b}
    BY <1>2, <1>3, <1>4, <1>6 DEF CitedRows
  <2>5. Values(d, h.evidence, Field("bank", "amount")) = {amount}
    <3>1. /\ Field("bank", "amount").literal = {} /\ Field("bank", "amount").table = "bank"
          /\ Field("bank", "amount").field = "amount"
      BY DEF Field
    <3>2. "amount" \in Grammar("bank")
      BY DEF Grammar
    <3>3. Values(d, h.evidence, Field("bank", "amount")) = {d["bank"][Last({c})]["amount"]}
      BY <2>4, <3>1, <3>2 DEF Values
    <3>. QED  BY <2>3, <3>3, OnlyRow
  <2>6. Values(d, h.evidence, Field("batches", "net")) = {net}
    <3>1. /\ Field("batches", "net").literal = {} /\ Field("batches", "net").table = "batches"
          /\ Field("batches", "net").field = "net"
      BY DEF Field
    <3>2. "net" \in Grammar("batches")
      BY DEF Grammar
    <3>3. Values(d, h.evidence, Field("batches", "net")) = {d["batches"][Last({b})]["net"]}
      BY <2>4, <3>1, <3>2 DEF Values
    <3>. QED  BY <2>3, <3>3, OnlyRow
  <2>. DEFINE compared(x) == Values(d, h.evidence, x.lhs) \X Values(d, h.evidence, x.rhs)
              residualsOf(x) == {pair[1] - pair[2] :
                  pair \in {q \in compared(x) : Holds(q[1], x.op, q[2])}}
              residuals == UNION {residualsOf(x) : x \in h.assertion}
  <2>7. residuals = residualsOf(a)
    <3>. HIDE DEF residualsOf
    <3>. QED  BY <1>1
  <2>8. /\ a.op = op /\ a.lhs = Field("bank", "amount") /\ a.rhs = Field("batches", "net")
    BY DEF a
  <2>9. compared(a) = {<<amount, net>>}
    <3>1. \A x, y : {x} \X {y} = {<<x, y>>}
      OBVIOUS
    <3>. QED  BY <2>5, <2>6, <2>8, <3>1
  <2>10. residualsOf(a) = IF Holds(amount, op, net) THEN {amount - net} ELSE {}
    <3>. HIDE DEF compared
    <3>1. \A q \in compared(a) : q[1] = amount /\ q[2] = net
      BY <2>9
    <3>. DEFINE holding == {q \in compared(a) : Holds(q[1], a.op, q[2])}
    <3>2. holding = IF Holds(amount, op, net) THEN {<<amount, net>>} ELSE {}
      BY <2>8, <2>9, <3>1
    <3>3. residualsOf(a) = {pair[1] - pair[2] : pair \in holding}
      OBVIOUS
    <3>. HIDE DEF holding, residualsOf
    <3>4. CASE Holds(amount, op, net)
      BY <3>2, <3>3, <3>4
    <3>5. CASE ~Holds(amount, op, net)
      BY <3>2, <3>3, <3>5
    <3>. QED  BY <3>4, <3>5
  <2>11. VerifyArithmetic(h, d) = IF residuals = {} \/ ~(h.claimed \subseteq residuals) THEN Refused
                                  ELSE Passed(CHOOSE r \in residuals : TRUE)
    BY DEF VerifyArithmetic
  <2>. HIDE DEF residuals, residualsOf
  <2>12. CASE ~Holds(amount, op, net)
    <3>1. VerifyArithmetic(h, d) = Refused
      BY <2>7, <2>10, <2>11, <2>12
    <3>. QED  BY <2>2, <2>12, <3>1 DEF h, Refused
  <2>13. CASE Holds(amount, op, net)
    <3>1. residuals = {amount - net}
      BY <2>7, <2>10, <2>13
    <3>2. VerifyArithmetic(h, d)
            = IF claimed \subseteq {amount - net} THEN Passed(amount - net) ELSE Refused
      BY <1>1, <2>11, <3>1
    <3>3. Passed(amount - net).passed /\ ~Refused.passed
      BY DEF Passed, Refused
    <3>. QED  BY <1>6, <2>2, <2>13, <3>2, <3>3 DEF h
  <2>. QED  BY <2>12, <2>13
<1>. QED  BY <1>5, <1>6

(* What compute_confidence makes of it on evidence that is not fresh. *)
LEMMA StaleConfidence ==
  ASSUME ResidualDecides, NEW residual \in Int
  PROVE  (ConfidenceOf(Passed(residual), FALSE) >= Confidence.auto_confirm)
            <=> Magnitude(residual) =< RoundingTolerance
<1>. DEFINE passed == Confidence["passed"]
            within == Confidence["within"]
            completeness == Confidence["completeness"]
            separation == Confidence["separation"]
            freshness == Confidence["freshness"]
            small == Magnitude(residual) =< RoundingTolerance
<1>1. /\ passed \in Int /\ within \in Int /\ completeness \in Int
      /\ separation \in Int /\ freshness \in Int /\ Confidence["auto_confirm"] \in Int
  BY ConfidenceAssumption DEF ValidConfidence, ConfidenceTerms
<1>2. /\ Passed(residual).passed = TRUE /\ Passed(residual).residual = {residual}
      /\ Passed(residual).separation = 1
  BY DEF Passed
<1>3. (\E r \in Passed(residual).residual : Magnitude(r) =< VerifierTolerance) <=> small
  BY <1>2 DEF ResidualDecides
<1>4. ConfidenceOf(Passed(residual), FALSE)
        = Quantised(passed * One(TRUE) + within * One(small) + completeness
                      + separation * 1 + freshness * One(FALSE))
  BY <1>2, <1>3 DEF ConfidenceOf, One
<1>5. passed * One(TRUE) = passed /\ separation * 1 = separation /\ freshness * One(FALSE) = 0
  BY <1>1 DEF One
<1>6. CASE small
  <2>1. within * One(small) = within
    BY <1>1, <1>6 DEF One
  <2>. HIDE DEF passed, within, completeness, separation, freshness
  <2>2. passed + within + completeness + separation + 0
          = passed + completeness + separation + within
    BY <1>1
  <2>3. ConfidenceOf(Passed(residual), FALSE)
          = Quantised(passed + completeness + separation + within)
    BY <1>4, <1>5, <2>1, <2>2
  <2>. QED  BY <1>6, <2>3 DEF ResidualDecides, passed, within, completeness, separation
<1>7. CASE ~small
  <2>1. within * One(small) = 0
    BY <1>1, <1>7 DEF One
  <2>. HIDE DEF passed, within, completeness, separation, freshness
  <2>2. passed + 0 + completeness + separation + 0 = passed + completeness + separation
    BY <1>1
  <2>3. ConfidenceOf(Passed(residual), FALSE) = Quantised(passed + completeness + separation)
    BY <1>4, <1>5, <2>1, <2>2
  <2>4. ~(ConfidenceOf(Passed(residual), FALSE) >= Confidence["auto_confirm"])
    <3>. DEFINE score == Quantised(passed + completeness + separation)
                enough == Confidence["auto_confirm"]
    <3>1. score \in Int /\ enough \in Int
      BY <1>1 DEF Quantised
    <3>2. score < enough
      BY DEF ResidualDecides, passed, completeness, separation
    <3>. HIDE DEF score, enough
    <3>3. ~(score >= enough)
      BY <3>1, <3>2
    <3>. QED  BY <2>3, <3>3 DEF score, enough
  <2>. QED  BY <1>7, <2>4
<1>. QED  BY <1>6, <1>7

(* The verifier would confirm every link the engine makes, on stale data   *)
(* too; a claim of stale data that it confirms is one whose amounts agree, *)
(* and one with a residual is of the real one: on any data load_dataset    *)
(* accepts, as long as the weights of compute_confidence ask for the       *)
(* residual, and those of P8 for the amount.                               *)
THEOREM StaleClaimsConfirmed ==
  ASSUME CyclesAreShort, AmountDecides, ResidualDecides
  PROVE  PipelineSpec /\ []GeneratedIdsFit => []StaleClaimsAgree
<1>. DEFINE Inv == DatedInv /\ AmountsAgree
            residual(b, c) == data.bank[c].amount - data.batches[b].net
            claim(b, c, op, claimed) == PaymentClaim(c, op, b, claimed)
<1>1. PipelineInit => Inv
  BY LinksStart
<1>2. Inv /\ GeneratedIdsFit /\ [PipelineNext]_pipelineVars => Inv'
  BY DatedStepKeeps, AmountsStepKeeps
<1>3. ASSUME Typed(data), NEW b \in DOMAIN data.batches, NEW c \in DOMAIN data.bank
      PROVE  /\ residual(b, c) \in Int
             /\ AmountAgrees(data.bank[c], data.batches[b])
                   <=> Magnitude(residual(b, c)) =< RoundingTolerance
  BY <1>3 DEF Typed, AmountAgrees
<1>4. ASSUME Typed(data), NEW b \in DOMAIN data.batches, NEW c \in DOMAIN data.bank,
             AmountAgrees(data.bank[c], data.batches[b]),
             NEW claimed, claimed \subseteq {residual(b, c)}
      PROVE  AutoConfirms(claim(b, c, "==", claimed), data, FALSE)
  <2>. DEFINE h == claim(b, c, "==", claimed)
  <2>1. residual(b, c) \in Int /\ Magnitude(residual(b, c)) =< RoundingTolerance
    BY <1>3, <1>4
  <2>2. Holds(data.bank[c].amount, "==", data.batches[b].net)
    BY <2>1 DEF Holds, ResidualDecides
  <2>3. Verify(h, data).passed /\ Verify(h, data) = Passed(residual(b, c))
    <3>1. claimed \subseteq {data.bank[c].amount - data.batches[b].net}
      BY <1>4
    <3>. HIDE DEF residual
    <3>2. Verify(PaymentClaim(c, "==", b, claimed), data).passed
      BY <1>4, <2>2, <3>1, ClaimVerified, Zenon
    <3>3. Verify(PaymentClaim(c, "==", b, claimed), data)
            = Passed(data.bank[c].amount - data.batches[b].net)
      BY <1>4, <3>2, ClaimVerified
    <3>. QED  BY <3>2, <3>3 DEF residual
  <2>4. ConfidenceOf(Verify(h, data), FALSE) >= Confidence.auto_confirm
    <3>. HIDE DEF residual, h
    <3>. QED  BY <2>1, <2>3, StaleConfidence
  <2>. QED  BY <2>3, <2>4 DEF AutoConfirms
<1>5. ASSUME Inv, NEW b, NEW c, NEW op,
             AutoConfirms(claim(b, c, op, {}), data, FALSE)
      PROVE  AmountAgrees(data.bank[c], data.batches[b])
  <2>. DEFINE h == claim(b, c, op, {})
  <2>1. Typed(data)
    BY <1>5 DEF DatedInv, RunInv, Readable
  <2>2. Verify(h, data).passed /\ ConfidenceOf(Verify(h, data), FALSE) >= Confidence.auto_confirm
    BY <1>5 DEF AutoConfirms
  <2>3. /\ b \in DOMAIN data.batches /\ c \in DOMAIN data.bank
        /\ Verify(h, data) = Passed(residual(b, c))
    BY <2>1, <2>2, ClaimVerified
  <2>4. Magnitude(residual(b, c)) =< RoundingTolerance
    <3>1. residual(b, c) \in Int
      BY <1>3, <2>1, <2>3
    <3>. HIDE DEF residual, h
    <3>. QED  BY <2>2, <2>3, <3>1, StaleConfidence
  <2>. QED  BY <1>3, <2>1, <2>3, <2>4
<1>6. ASSUME Inv, NEW b, NEW c, NEW op,
             AutoConfirms(claim(b, c, op, {0}), data, TRUE)
      PROVE  residual(b, c) = 0
  <2>1. Typed(data)
    BY <1>6 DEF DatedInv, RunInv, Readable
  <2>2. Verify(claim(b, c, op, {0}), data).passed
    BY <1>6 DEF AutoConfirms
  <2>3. {0} \subseteq {residual(b, c)}
    BY <2>1, <2>2, ClaimVerified
  <2>. QED  BY <2>3
<1>7. Inv => StaleClaimsAgree
  <2>1. ASSUME Inv, NEW b \in Settled
        PROVE  /\ Typed(data) /\ b \in DOMAIN data.batches /\ links[b].credit \in DOMAIN data.bank
               /\ AmountAgrees(data.bank[links[b].credit], data.batches[b])
    BY <2>1 DEF DatedInv, RunInv, Readable, EvidenceInv, LinkFallsDue, Settled, Delivered,
                AmountsAgree, CreditOf
  <2>2. ASSUME Inv, NEW b \in Settled, NEW claimed \in {{}, {residual(b, links[b].credit)}}
        PROVE  AutoConfirms(claim(b, links[b].credit, "==", claimed), data, FALSE)
    <3>1. claimed \subseteq {residual(b, links[b].credit)}
      BY <2>2
    <3>. HIDE DEF claim, residual
    <3>. QED  BY <1>4, <2>1, <2>2, <3>1
  <2>. QED  BY <1>5, <1>6, <2>2 DEF StaleClaimsAgree
<1>. HIDE DEF Inv
<1>. QED  BY <1>1, <1>2, <1>7, PTL DEF PipelineSpec

-----------------------------------------------------------------------------
(* What is delivered by a day: the rows that have come by then, as written. *)
LedgerCome(day) ==
    {i \in DOMAIN rows.ledger : ArrivalDay("ledger", i, rows.ledger[i].date) =< day}
PaymentsCome(day) ==
    {i \in DOMAIN rows.payments : ArrivalDay("payments", i, rows.payments[i].capturedAt) =< day}
BatchesCome(day) ==
    {i \in DOMAIN rows.batches : ArrivalDay("batches", i, rows.batches[i].settled) =< day}
LinesCome(day) ==
    {i \in DOMAIN rows.lines : ArrivalDay("lines", i, rows.lines[i].settled) =< day}
CreditsCome(day) ==
    {c \in DOMAIN rows.bank : ArrivalDay("bank", c, rows.bank[c].valueDate) =< day}
CreditIdsCome(day) == {CreditId(c) : c \in CreditsCome(day)}

LEMMA DeliveredRows ==
  ASSUME NEW day
  PROVE  /\ DeliveredBy(day).ledger = [i \in LedgerCome(day) |-> rows.ledger[i]]
         /\ DeliveredBy(day).payments = [i \in PaymentsCome(day) |-> rows.payments[i]]
         /\ DeliveredBy(day).batches = [i \in BatchesCome(day) |-> rows.batches[i]]
         /\ DeliveredBy(day).lines = [i \in LinesCome(day) |-> rows.lines[i]]
         /\ DeliveredBy(day).bank = [c \in CreditIdsCome(day) |-> WrittenBank[c]]
BY DEF DeliveredBy, FilesOf, Chosen, LedgerCome, PaymentsCome, BatchesCome, LinesCome,
       CreditsCome, CreditIdsCome

(* The days on which rows come are numbers. *)
LEMMA ArrivalIsNumber ==
  ASSUME GeneratorInv, NEW table, NEW i, NEW date \in Int
  PROVE  ArrivalDay(table, i, date) \in Int
<1>1. WindowStart \in Int /\ BaseDate \in Int
  BY ConfigAssumption, CalendarWalkTerminates DEF ValidConfig, ValidCalendar, BaseDate
<1>2. <<table, i>> \in DOMAIN lags => lags[<<table, i>>] \in 1 .. 2
  BY DEF GeneratorInv, Late
<1>. QED  BY <1>1, <1>2 DEF ArrivalDay

LEMMA RowsComeOnDays ==
  ASSUME GeneratorInv
  PROVE  /\ \A i \in DOMAIN rows.ledger :
               ArrivalDay("ledger", i, rows.ledger[i].date) \in Int
         /\ \A i \in DOMAIN rows.payments :
               ArrivalDay("payments", i, rows.payments[i].capturedAt) \in Int
         /\ \A i \in DOMAIN rows.batches :
               ArrivalDay("batches", i, rows.batches[i].settled) \in Int
         /\ \A i \in DOMAIN rows.lines : ArrivalDay("lines", i, rows.lines[i].settled) \in Int
         /\ \A c \in DOMAIN rows.bank : ArrivalDay("bank", c, rows.bank[c].valueDate) \in Int
<1>1. rows \in RowTables
  BY DEF GeneratorInv
<1>2. /\ \A i \in DOMAIN rows.ledger : rows.ledger[i].date \in Int
      /\ \A i \in DOMAIN rows.payments : rows.payments[i].capturedAt \in Int
      /\ \A i \in DOMAIN rows.batches : rows.batches[i].settled \in Int
      /\ \A i \in DOMAIN rows.lines : rows.lines[i].settled \in Int
      /\ \A c \in DOMAIN rows.bank : rows.bank[c].valueDate \in Int
  <2>1. /\ \A i \in DOMAIN rows.ledger : rows.ledger[i] \in LedgerEntry
        /\ \A i \in DOMAIN rows.payments : rows.payments[i] \in PaymentRow
        /\ \A i \in DOMAIN rows.batches : rows.batches[i] \in BatchRow
        /\ \A i \in DOMAIN rows.lines : rows.lines[i] \in LineRow
        /\ \A c \in DOMAIN rows.bank : rows.bank[c] \in BankRow
    BY <1>1, TablesHoldRows
  <2>. QED  BY <2>1 DEF LedgerEntry, PaymentRow, BatchRow, LineRow, BankRow
<1>. QED  BY <1>2, ArrivalIsNumber

(* What has come by a day has come by every later day. *)
LEMMA NothingIsTakenBack ==
  ASSUME GeneratorInv, NEW day \in Int, NEW later \in Int, day =< later
  PROVE  /\ LedgerCome(day) \subseteq LedgerCome(later)
         /\ PaymentsCome(day) \subseteq PaymentsCome(later)
         /\ BatchesCome(day) \subseteq BatchesCome(later)
         /\ LinesCome(day) \subseteq LinesCome(later)
         /\ CreditsCome(day) \subseteq CreditsCome(later)
<1>1. \A n \in Int : n =< day => n =< later
  OBVIOUS
<1>. QED  BY <1>1, RowsComeOnDays
          DEF LedgerCome, PaymentsCome, BatchesCome, LinesCome, CreditsCome

LEMMA DeliveryStands ==
  ASSUME UNCHANGED generatorVars, NEW day
  PROVE  DeliveredBy(day)' = DeliveredBy(day)
<1>1. UNCHANGED <<call, rows, lags, texts>>
  BY DEF generatorVars
<1>2. WrittenBank' = WrittenBank
  BY <1>1 DEF WrittenBank, WrittenAmount, CreditId
<1>. QED  BY <1>1, <1>2 DEF DeliveredBy, FilesOf, Chosen, ArrivalDay, CreditId

-----------------------------------------------------------------------------
(* What a report says of the data the engine was called on. *)
Shows(report, d) ==
    /\ DOMAIN report.cases = DOMAIN d.payments
    /\ report.links \in [BatchIds -> LinkOutcomes]
    /\ \A b \in BatchIds : report.links[b] # Undecided <=> b \in DOMAIN d.batches
    /\ report.orphans = Unaccounted(d)

LEMMA ReportShows ==
  ASSUME EngineInv, EvidenceInv, PoolIsAccounted, AmountsAgree, Reported, pass = "DONE"
  PROVE  Shows(Report, data)
<1>1. Report.orphans = Unaccounted(data)
  BY OrphansAreUnaccounted DEF Report, Reported
<1>2. DOMAIN Report.cases = DOMAIN data.payments
  BY DEF Report, Reported
<1>3. Report.links = links /\ links \in [BatchIds -> LinkOutcomes]
  BY DEF Report, EngineInv, EngineTypeOK
<1>4. \A b \in BatchIds : links[b] # Undecided <=> b \in DOMAIN data.batches
  BY DEF Reported, Delivered
<1>. QED  BY <1>1, <1>2, <1>3, <1>4 DEF Shows

(* Of data sets each of which is part of the next. *)
PartOf(d, e) ==
    /\ DOMAIN d.payments \subseteq DOMAIN e.payments
    /\ DOMAIN d.batches \subseteq DOMAIN e.batches
    /\ \A b \in DOMAIN d.batches : d.batches[b] = e.batches[b]
    /\ DOMAIN d.bank \subseteq DOMAIN e.bank
    /\ \A c \in DOMAIN d.bank : d.bank[c] = e.bank[c]

LEMMA DeliveriesGrow ==
  ASSUME GeneratorInv, NEW day \in Int, NEW later \in Int, day =< later
  PROVE  PartOf(DeliveredBy(day), DeliveredBy(later))
<1>1. /\ PaymentsCome(day) \subseteq PaymentsCome(later)
      /\ BatchesCome(day) \subseteq BatchesCome(later)
      /\ CreditIdsCome(day) \subseteq CreditIdsCome(later)
  BY NothingIsTakenBack DEF CreditIdsCome
<1>2. ASSUME NEW x \in Int
      PROVE  /\ DOMAIN DeliveredBy(x).payments = PaymentsCome(x)
             /\ DOMAIN DeliveredBy(x).batches = BatchesCome(x)
             /\ DOMAIN DeliveredBy(x).bank = CreditIdsCome(x)
             /\ \A b \in BatchesCome(x) : DeliveredBy(x).batches[b] = rows.batches[b]
             /\ \A c \in CreditIdsCome(x) : DeliveredBy(x).bank[c] = WrittenBank[c]
  <2>. DEFINE d == DeliveredBy(x)
  <2>1. /\ d.payments = [i \in PaymentsCome(x) |-> rows.payments[i]]
        /\ d.batches = [i \in BatchesCome(x) |-> rows.batches[i]]
        /\ d.bank = [c \in CreditIdsCome(x) |-> WrittenBank[c]]
    BY DeliveredRows
  <2>. HIDE DEF d
  <2>2. DOMAIN d.payments = PaymentsCome(x)
    BY <2>1
  <2>3. DOMAIN d.batches = BatchesCome(x) /\ \A b \in BatchesCome(x) : d.batches[b] = rows.batches[b]
    BY <2>1
  <2>4. DOMAIN d.bank = CreditIdsCome(x) /\ \A c \in CreditIdsCome(x) : d.bank[c] = WrittenBank[c]
    BY <2>1
  <2>. QED  BY <2>2, <2>3, <2>4 DEF d
<1>3. /\ \A b \in BatchesCome(day) : b \in BatchesCome(later)
      /\ \A c \in CreditIdsCome(day) :
            c \in CreditIdsCome(later)
  BY <1>1
<1>. QED  BY <1>1, <1>2, <1>3 DEF PartOf

(* An orphan that something later accounts for stays accounted for.        *)
LEMMA OrphansDoNotReturn ==
  ASSUME NEW d, NEW e, NEW f, PartOf(d, e), PartOf(e, f)
  PROVE  Unaccounted(d) \cap Unaccounted(f) \subseteq Unaccounted(e)
<1>. SUFFICES ASSUME NEW c \in Unaccounted(d), c \in Unaccounted(f)
              PROVE  c \in Unaccounted(e)
  OBVIOUS
<1>1. c \in DOMAIN e.bank /\ e.bank[c] = f.bank[c] /\ f.bank[c].direction = "CREDIT"
  BY DEF PartOf, Unaccounted
<1>2. \A b \in DOMAIN e.batches : b \in DOMAIN f.batches /\ e.batches[b] = f.batches[b]
  BY DEF PartOf
<1>. QED  BY <1>1, <1>2 DEF Unaccounted

-----------------------------------------------------------------------------
(* A step of the engine does not change what it was called on, and after   *)
(* the last pass it takes none.                                            *)
LEMMA EngineEnds ==
  ASSUME EngineNext
  PROVE  /\ data' = data /\ pass \notin {"DONE", "FAILED"}
         /\ pass' = "DONE" => pass = "ROWS"
<1>1. FindDuplicates \/ ClassifyCases \/ DeriveProfiles \/ Raise \/ CategoriseOpen
        \/ AssembleRows \/ NothingLeftOpen
        => /\ data' = data /\ pass \notin {"DONE", "FAILED"}
           /\ pass' = "DONE" => pass = "ROWS"
  BY DEF FindDuplicates, ClassifyCases, DeriveProfiles, Raise, CategoriseOpen, AssembleRows,
         NothingLeftOpen
<1>2. LinkExact \/ LinkNear \/ ResolveCredit
        => data' = data /\ pass \in {"P2", "P2B", "P8"} /\ pass' # "DONE"
  BY DEF LinkExact, LinkNear, ResolveCredit, Taken
<1>3. Skip("P2", "P2B", {}) \/ Skip("P2B", "P8", remaining) \/ Skip("P8", "OPEN", {})
        => data' = data /\ pass \in {"P2", "P2B", "P8"} /\ pass' # "DONE"
  BY DEF Skip
<1>. QED  BY <1>1, <1>2, <1>3 DEF EngineNext

(* What was reported is what each of the days run so far showed.           *)
IsSequence(s) == \E R : s \in Seq(R)

LEMMA SequencesGrow ==
  ASSUME NEW s, IsSequence(s), NEW x
  PROVE  /\ Len(s) \in Nat /\ DOMAIN s = 1 .. Len(s)
         /\ IsSequence(Append(s, x)) /\ Len(Append(s, x)) = Len(s) + 1
         /\ DOMAIN Append(s, x) = 1 .. Len(s) + 1
         /\ \A n \in 1 .. Len(s) : Append(s, x)[n] = s[n]
         /\ Append(s, x)[Len(s) + 1] = x
<1>1. PICK R : s \in Seq(R)
  BY DEF IsSequence
<1>2. s \in Seq(R \union {x}) /\ x \in R \union {x}
  BY <1>1
<1>3. Len(s) \in Nat /\ DOMAIN s = 1 .. Len(s)
  BY <1>1, LenProperties
<1>4. /\ Append(s, x) \in Seq(R \union {x}) /\ Len(Append(s, x)) = Len(s) + 1
      /\ \A n \in 1 .. Len(s) : Append(s, x)[n] = s[n]
      /\ Append(s, x)[Len(s) + 1] = x
  BY <1>2, AppendProperties
<1>5. DOMAIN Append(s, x) = 1 .. Len(s) + 1
  BY <1>4, LenProperties
<1>. QED  BY <1>3, <1>4, <1>5 DEF IsSequence

DaysRun == Len(history)

HistoryInv ==
    /\ IsSequence(history)
    /\ \A n \in DOMAIN history : history[n].links \in [BatchIds -> LinkOutcomes]
    /\ stage # "IDLE" => given = {}
    /\ stage = "IDLE" => /\ DaysRun =< 1
                         /\ pass # "DONE" => DaysRun = 0
                         /\ given # {} => DaysRun = 0 /\ pass = "DONE"
    /\ stage \notin {"IDLE", "WRITTEN"} => DaysRun = 0 /\ pass = "DONE" /\ data = NoData
    /\ stage = "WRITTEN" =>
          /\ DaysRun =< Len(RunDays)
          /\ \A n \in DOMAIN history : Shows(history[n], DeliveredBy(RunDays[n]))
          /\ pass = "DONE" /\ DaysRun = 0 => data = NoData
          /\ pass \notin {"DONE", "FAILED"} => DaysRun < Len(RunDays)
          /\ \A n \in DOMAIN RunDays :
                \/ pass = "DONE" /\ n = DaysRun
                \/ pass \notin {"DONE", "FAILED"} /\ n = DaysRun + 1
                => data = DeliveredBy(RunDays[n])

(* All that holds of the pipeline, where the cycles are short and P8 links *)
(* nothing whose amounts do not agree.                                     *)
DaysInv ==
    DatedInv /\ AmountsAgree /\ Reported /\ GeneratorInv /\ Checked /\ HistoryInv

LEMMA NewRunIsReported == Begun' => Reported'
<1>1. Begun => Reported
  BY BegunIsReported
<1>. QED  BY <1>1, PTL

LEMMA ReportedStepKeeps ==
  ASSUME RunInv, Reported, GeneratedIdsFit, [PipelineNext]_pipelineVars
  PROVE  Reported'
<1>1. CASE [EngineNext]_engineVars
  BY <1>1, StaysReported DEF RunInv, PipelineInv
<1>2. CASE Begun'
  BY <1>2, NewRunIsReported
<1>3. CASE Unread
  <2>1. pass' = "FAILED" /\ UNCHANGED <<data, links, cases, rowVariances>>
    BY <1>3 DEF Unread
  <2>. QED  BY <2>1 DEF Reported, Delivered
<1>. QED  BY <1>1, <1>2, <1>3, PipelineStepCases DEF RunInv

LEMMA CheckedStepKeeps ==
  ASSUME Checked, [PipelineNext]_pipelineVars
  PROVE  Checked'
<1>1. CASE Generate
  BY <1>1, WritingIsChecked DEF Generate
<1>2. CASE ~Generate
  <2>1. UNCHANGED <<stage, rows, notes>>
    BY <1>2 DEF PipelineNext, RunFiles, RunDay, EngineStep, pipelineVars, generatorVars
  <2>. QED  BY <2>1, CheckStands DEF Checked
<1>. QED  BY <1>1, <1>2

LEMMA GeneratorStepKeeps ==
  ASSUME CyclesAreShort, GeneratorInv, [PipelineNext]_pipelineVars
  PROVE  GeneratorInv'
<1>1. CASE Generate
  BY <1>1, GeneratorKeeps DEF Generate
<1>2. CASE ~Generate
  <2>1. UNCHANGED <<call, stage, rows, notes, lags, texts>>
    BY <1>2 DEF PipelineNext, RunFiles, RunDay, EngineStep, pipelineVars, generatorVars
  <2>. QED  BY <2>1 DEF GeneratorInv, Rendered, Late
<1>. QED  BY <1>1, <1>2

LEMMA DaysStart ==
  ASSUME PipelineInit
  PROVE  DaysInv
<1>1. GeneratorInv /\ stage \in {"IDLE", "BUILD"}
  <2>1. CASE GeneratorInit
    BY <2>1, GeneratorStarts DEF GeneratorInit
  <2>2. CASE ~GeneratorInit
    BY <2>2, GeneratorStarts DEF PipelineInit
  <2>. QED  BY <2>1, <2>2 DEF GeneratorInit
<1>2. Checked
  BY <1>1 DEF Checked
<1>3. Reported
  BY PipelineHasBegun, BegunIsReported
<1>4. HistoryInv
  <2>1. /\ history = <<>> /\ pass = "DONE" /\ data = NoData
        /\ stage # "IDLE" => given = {}
    BY DEF PipelineInit, EngineAtRest, Fresh, GeneratorInit
  <2>2. IsSequence(history) /\ DaysRun = 0 /\ DOMAIN history = {}
    <3>1. history \in Seq({})
      BY <2>1
    <3>. QED  BY <2>1, <3>1 DEF IsSequence, DaysRun
  <2>. QED  BY <1>1, <2>1, <2>2 DEF HistoryInv
<1>. QED  BY <1>1, <1>2, <1>3, <1>4, LinksStart DEF DaysInv

(* The batches the engine is called on have UTRs of their own: those of a  *)
(* file, and those the generator writes and a day delivers.                *)
LEMMA DeliveredUtrsDiffer ==
  ASSUME UtrsDiffer, GeneratorInv, GeneratedIdsFit, NEW day,
         NEW b \in DOMAIN DeliveredBy(day).batches, NEW o \in DOMAIN DeliveredBy(day).batches,
         b # o
  PROVE  DeliveredBy(day).batches[b].utr # DeliveredBy(day).batches[o].utr
<1>1. DOMAIN rows.batches \subseteq BatchIds
  BY DEF GeneratedIdsFit, Fits
<1>2. BatchesCome(day) \subseteq DOMAIN rows.batches
  BY DEF BatchesCome
<1>3. DeliveredBy(day).batches = [i \in BatchesCome(day) |-> rows.batches[i]]
  BY DeliveredRows
<1>4. \A i \in DOMAIN rows.batches : rows.batches[i].utr = UtrOf[i]
  BY DEF GeneratorInv, Wired
<1>. QED  BY <1>1, <1>2, <1>3, <1>4 DEF UtrsDiffer

LEMMA NamesStayDifferent ==
  ASSUME UtrsDiffer, PipelineInv, GeneratorInv, GeneratedIdsFit, NamesDiffer,
         [PipelineNext]_pipelineVars
  PROVE  NamesDiffer'
<1>1. ASSUME UNCHANGED data
      PROVE  NamesDiffer'
  BY <1>1 DEF NamesDiffer, Delivered
<1>2. ASSUME NEW files, NEW day, RunOn(files, day),
             \A b, o \in DOMAIN files.batches :
                b # o => files.batches[b].utr # files.batches[o].utr
      PROVE  NamesDiffer'
  <2>1. data' = files \/ UNCHANGED data
    BY <1>2 DEF RunOn, Call, Fresh
  <2>. QED  BY <1>1, <1>2, <2>1 DEF NamesDiffer, Delivered
<1>3. CASE RunFiles
  <2>1. PICK file \in given : RunOn(file.data, file.asOf)
    BY <1>3 DEF RunFiles
  <2>2. file \in Inputs
    BY DEF PipelineInv
  <2>. QED  BY <1>2, <2>1, <2>2 DEF UtrsDiffer
<1>4. CASE RunDay
  <2>1. PICK day : RunOn(DeliveredBy(day), AsOf(day))
    BY <1>4 DEF RunDay
  <2>. QED  BY <1>2, <2>1, DeliveredUtrsDiffer
<1>5. CASE EngineStep
  BY <1>1, <1>5, EngineEnds DEF EngineStep
<1>6. CASE Generate \/ UNCHANGED pipelineVars
  BY <1>1, <1>6 DEF Generate, pipelineVars, engineVars
<1>. QED  BY <1>3, <1>4, <1>5, <1>6 DEF PipelineNext

(* Every confirmed link rests on the evidence its pass asks for, whatever  *)
(* was claimed before it, as long as no score of P8 suffices without the   *)
(* amount and no two UTRs are alike or nearly so: the amounts agree, and a *)
(* batch the credit names in full has a credit of its own or is not yet    *)
(* due.                                                                    *)
THEOREM LinksRestOnEvidence ==
  ASSUME CyclesAreShort, PrefixesAreCompared, AmountDecides, UtrsApart, UtrsDiffer
  PROVE  PipelineSpec /\ []GeneratedIdsFit => []LinkRestsOnEvidence
<1>. DEFINE Inv == DatedInv /\ AmountsAgree /\ NamesAreServed /\ GeneratorInv /\ NamesDiffer
<1>1. PipelineInit => Inv
  <2>1. ASSUME PipelineInit
        PROVE  NamesDiffer
    <3>1. data = NoData
      BY <2>1 DEF PipelineInit, EngineAtRest, Fresh
    <3>. QED  BY <3>1 DEF NamesDiffer, Delivered, NoData
  <2>. QED  BY <2>1, LinksStart, DaysStart DEF DaysInv
<1>2. Inv /\ GeneratedIdsFit /\ [PipelineNext]_pipelineVars => Inv'
  <2>1. ASSUME Inv, GeneratedIdsFit, [PipelineNext]_pipelineVars
        PROVE  NamesDiffer' /\ GeneratorInv'
    BY <2>1, NamesStayDifferent, GeneratorStepKeeps DEF DatedInv, RunInv
  <2>. QED  BY <2>1, DatedStepKeeps, AmountsStepKeeps, NamesStepKeeps
<1>3. Inv => LinkRestsOnEvidence
  BY NamesServedRest DEF DatedInv, RunInv, PipelineInv
<1>. QED  BY <1>1, <1>2, <1>3, PTL DEF PipelineSpec

LEMMA RunDaysAreDays ==
  /\ Len(RunDays) \in Nat /\ DOMAIN RunDays = 1 .. Len(RunDays)
  /\ \A n \in 1 .. Len(RunDays) : RunDays[n] \in Int
  /\ \A m, n \in 1 .. Len(RunDays) : m < n => RunDays[m] < RunDays[n]
<1>1. RunDays \in Seq(Nat \ {0})
  BY RunDaysAssumption
<1>2. Len(RunDays) \in Nat /\ DOMAIN RunDays = 1 .. Len(RunDays)
  BY <1>1, LenProperties
<1>3. \A n \in 1 .. Len(RunDays) : RunDays[n] \in Nat \ {0}
  BY <1>1, ElementOfSeq
<1>. QED  BY <1>2, <1>3, RunDaysAssumption

(* The history is not touched, and neither is what the days show.          *)
LEMMA UntouchedHistory ==
  ASSUME HistoryInv, UNCHANGED <<history, generatorVars>>
  PROVE  /\ IsSequence(history)' /\ DaysRun' = DaysRun
         /\ stage = "WRITTEN" =>
              \A n \in DOMAIN history' : Shows(history'[n], DeliveredBy(RunDays[n])')
<1>1. IsSequence(history') /\ DaysRun' = DaysRun
  BY DEF HistoryInv, DaysRun
<1>2. \A n : DeliveredBy(RunDays[n])' = DeliveredBy(RunDays[n])
  BY DeliveryStands
<1>. QED  BY <1>1, <1>2 DEF HistoryInv

LEMMA HistoryStepKeeps ==
  ASSUME HistoryInv, [PipelineNext]_pipelineVars,
         pass' = "DONE" => Shows(Report', data')
  PROVE  HistoryInv'
<1>1. CASE UNCHANGED pipelineVars
  <2>1. UNCHANGED <<history, generatorVars, given, pass, data, stage>>
    BY <1>1 DEF pipelineVars, generatorVars, engineVars
  <2>2. \A n : DeliveredBy(RunDays[n])' = DeliveredBy(RunDays[n])
    BY <2>1, DeliveryStands
  <2>. QED  BY <2>1, <2>2, UntouchedHistory DEF HistoryInv, DaysRun
<1>2. CASE Generate
  <2>1. /\ UNCHANGED <<history, given, pass, data>>
        /\ stage \notin {"IDLE", "WRITTEN"}
    BY <1>2, GeneratorEnds DEF Generate, engineVars
  <2>2. /\ IsSequence(history') /\ given' = {} /\ DaysRun' = 0 /\ DaysRun' = DaysRun
        /\ pass' = "DONE" /\ data' = NoData
    BY <2>1 DEF HistoryInv, DaysRun
  <2>3. DOMAIN history' = {} /\ DaysRun' =< Len(RunDays)
    BY <2>2, SequencesGrow, RunDaysAreDays DEF DaysRun
  <2>. QED  BY <2>2, <2>3 DEF HistoryInv
<1>3. CASE RunFiles
  <2>1. given # {} /\ given' = {} /\ UNCHANGED <<history, generatorVars, stage>>
    BY <1>3 DEF RunFiles, generatorVars
  <2>2. stage = "IDLE" /\ stage' = "IDLE" /\ DaysRun = 0 /\ DaysRun' = 0
    BY <2>1 DEF HistoryInv, DaysRun
  <2>3. IsSequence(history')
    BY <2>1 DEF HistoryInv
  <2>. QED  BY <2>1, <2>2, <2>3 DEF HistoryInv
<1>4. CASE RunDay
  <2>. DEFINE day == RunDays[DaysRun + 1]
  <2>1. /\ stage = "WRITTEN" /\ stage' = "WRITTEN" /\ DaysRun < Len(RunDays)
        /\ RunOn(DeliveredBy(day), AsOf(day)) /\ UNCHANGED <<history, generatorVars, given>>
    BY <1>4 DEF RunDay, generatorVars, DaysRun
  <2>2. \/ pass' = "FAILED"
        \/ pass' = "P7" /\ data' = DeliveredBy(day)
    BY <2>1 DEF RunOn, Call, Fresh
  <2>3. \A n : DeliveredBy(RunDays[n])' = DeliveredBy(RunDays[n])
    BY <2>1, DeliveryStands
  <2>4. DaysRun' = DaysRun /\ IsSequence(history') /\ given' = {} /\ DaysRun' =< Len(RunDays)
    BY <2>1 DEF HistoryInv, DaysRun
  <2>5. \A n \in DOMAIN history' : Shows(history'[n], DeliveredBy(RunDays[n])')
    BY <2>1, UntouchedHistory
  <2>6. ASSUME NEW n \in DOMAIN RunDays, pass' = "P7", n = DaysRun' + 1
        PROVE  data' = DeliveredBy(RunDays[n])'
    BY <2>1, <2>2, <2>3, <2>4, <2>6
  <2>. QED  BY <2>1, <2>2, <2>4, <2>5, <2>6 DEF HistoryInv
<1>5. CASE EngineStep
  <2>1. /\ EngineNext /\ UNCHANGED <<generatorVars, given, stage>>
        /\ history' = IF pass' = "DONE" THEN Append(history, Report') ELSE history
    BY <1>5 DEF EngineStep, generatorVars
  <2>2. data' = data /\ pass \notin {"DONE", "FAILED"}
    BY <2>1, EngineEnds
  <2>3. /\ IsSequence(history) /\ DaysRun \in Nat /\ DOMAIN history = 1 .. DaysRun
        /\ stage \in {"IDLE", "WRITTEN"}
    BY <2>2, SequencesGrow DEF HistoryInv, DaysRun
  <2>4. \A n : DeliveredBy(RunDays[n])' = DeliveredBy(RunDays[n])
    BY <2>1, DeliveryStands
  <2>5. \A n \in DOMAIN history' : history'[n].links \in [BatchIds -> LinkOutcomes]
    <3>1. CASE pass' = "DONE"
      <4>1. /\ DOMAIN history' = 1 .. DaysRun + 1
            /\ \A n \in 1 .. DaysRun : history'[n] = history[n]
            /\ history'[DaysRun + 1] = Report'
        BY <2>1, <2>3, <3>1, SequencesGrow DEF DaysRun
      <4>2. Report'.links \in [BatchIds -> LinkOutcomes]
        BY <3>1 DEF Shows
      <4>. QED  BY <2>3, <4>1, <4>2 DEF HistoryInv
    <3>2. CASE pass' # "DONE"
      BY <2>1, <3>2 DEF HistoryInv
    <3>. QED  BY <3>1, <3>2
  <2>6. CASE stage = "IDLE"
    <3>1. DaysRun = 0 /\ given = {} /\ given' = {} /\ stage' = "IDLE"
      BY <2>1, <2>2, <2>6 DEF HistoryInv
    <3>2. /\ IsSequence(history') /\ DaysRun' =< 1
          /\ pass' # "DONE" => DaysRun' = 0
      <4>1. CASE pass' = "DONE"
        <5>1. /\ IsSequence(Append(history, Report'))
              /\ Len(Append(history, Report')) = Len(history) + 1
          BY <2>3, SequencesGrow
        <5>. QED  BY <2>1, <3>1, <4>1, <5>1 DEF DaysRun
      <4>2. CASE pass' # "DONE"
        BY <2>1, <2>3, <3>1, <4>2 DEF DaysRun
      <4>. QED  BY <4>1, <4>2
    <3>. QED  BY <2>5, <3>1, <3>2 DEF HistoryInv
  <2>7. CASE stage = "WRITTEN"
    <3>1. /\ stage' = "WRITTEN" /\ given' = {} /\ DaysRun < Len(RunDays)
          /\ \A n \in DOMAIN RunDays : n = DaysRun + 1 => data = DeliveredBy(RunDays[n])
          /\ \A n \in 1 .. DaysRun : Shows(history[n], DeliveredBy(RunDays[n]))
      BY <2>1, <2>2, <2>3, <2>7 DEF HistoryInv
    <3>2. CASE pass' # "DONE"
      <4>1. history' = history /\ DaysRun' = DaysRun
        BY <2>1, <3>2 DEF DaysRun
      <4>2. DaysRun' =< Len(RunDays)
        BY <2>3, <3>1, <4>1, RunDaysAreDays
      <4>. QED  BY <2>2, <2>3, <2>4, <2>5, <3>1, <3>2, <4>1, <4>2 DEF HistoryInv
    <3>3. CASE pass' = "DONE"
      <4>1. history' = Append(history, Report')
        BY <2>1, <3>3
      <4>2. /\ IsSequence(history') /\ DaysRun' = DaysRun + 1
            /\ DOMAIN history' = 1 .. DaysRun + 1
            /\ \A n \in 1 .. DaysRun : history'[n] = history[n]
            /\ history'[DaysRun + 1] = Report'
        BY <2>3, <4>1, SequencesGrow DEF DaysRun
      <4>3. Shows(Report', DeliveredBy(RunDays[DaysRun + 1]))
        <5>1. DaysRun + 1 \in DOMAIN RunDays
          BY <2>3, <3>1, RunDaysAreDays
        <5>. QED  BY <2>2, <3>1, <3>3, <5>1
      <4>4. \A n \in DOMAIN history' : Shows(history'[n], DeliveredBy(RunDays[n])')
        <5>1. ASSUME NEW n \in 1 .. DaysRun + 1
              PROVE  Shows(history'[n], DeliveredBy(RunDays[n]))
          <6>1. CASE n \in 1 .. DaysRun
            BY <3>1, <4>2, <6>1
          <6>2. CASE n = DaysRun + 1
            BY <4>2, <4>3, <6>2
          <6>. QED  BY <2>3, <6>1, <6>2
        <5>. QED  BY <2>4, <4>2, <5>1
      <4>5. DaysRun' =< Len(RunDays) /\ DaysRun' # 0
        BY <2>3, <3>1, <4>2, RunDaysAreDays
      <4>6. ASSUME NEW n \in DOMAIN RunDays, n = DaysRun'
            PROVE  data' = DeliveredBy(RunDays[n])'
        BY <2>2, <2>4, <3>1, <4>2, <4>6
      <4>. QED  BY <2>5, <3>1, <3>3, <4>2, <4>4, <4>5, <4>6 DEF HistoryInv
    <3>. QED  BY <3>2, <3>3
  <2>. QED  BY <2>3, <2>6, <2>7
<1>. QED  BY <1>1, <1>2, <1>3, <1>4, <1>5 DEF PipelineNext

ReportIsShown == pass = "DONE" => Shows(Report, data)

LEMMA NewReportShows ==
  EngineInv' /\ EvidenceInv' /\ PoolIsAccounted' /\ AmountsAgree' /\ Reported'
    => ReportIsShown'
<1>1. EngineInv /\ EvidenceInv /\ PoolIsAccounted /\ AmountsAgree /\ Reported
        => ReportIsShown
  BY ReportShows DEF ReportIsShown
<1>. QED  BY <1>1, PTL

LEMMA DaysStepKeeps ==
  ASSUME CyclesAreShort, AmountDecides,
         DaysInv, GeneratedIdsFit, [PipelineNext]_pipelineVars
  PROVE  DaysInv'
<1>1. DatedInv' /\ AmountsAgree'
  BY DatedStepKeeps, AmountsStepKeeps DEF DaysInv
<1>2. Reported' /\ Checked' /\ GeneratorInv'
  BY ReportedStepKeeps, CheckedStepKeeps, GeneratorStepKeeps DEF DaysInv, DatedInv
<1>3. HistoryInv'
  <2>1. pass' = "DONE" => Shows(Report', data')
    BY <1>1, <1>2, NewReportShows DEF DatedInv, RunInv, PipelineInv, ReportIsShown
  <2>. QED  BY <2>1, HistoryStepKeeps DEF DaysInv
<1>. QED  BY <1>1, <1>2, <1>3 DEF DaysInv

(* What the days show of a data set that is only added to.                 *)
LEMMA HistoryStays ==
  ASSUME DaysInv
  PROVE  HistoriesStay
<1>1. /\ DaysRun \in Nat /\ DOMAIN history = 1 .. DaysRun
      /\ DaysRun =< 1 \/ stage = "WRITTEN"
  BY SequencesGrow DEF DaysInv, HistoryInv, DaysRun
<1>2. CASE DaysRun =< 1
  <2>1. \A m, n \in DOMAIN history : ~(m < n)
    BY <1>1, <1>2
  <2>. QED  BY <2>1 DEF HistoriesStay
<1>3. CASE stage = "WRITTEN"
  <2>1. /\ DaysRun =< Len(RunDays)
        /\ \A n \in 1 .. DaysRun : Shows(history[n], DeliveredBy(RunDays[n]))
    BY <1>1, <1>3 DEF DaysInv, HistoryInv
  <2>2. ASSUME NEW m \in 1 .. DaysRun, NEW n \in 1 .. DaysRun, m < n
        PROVE  PartOf(DeliveredBy(RunDays[m]), DeliveredBy(RunDays[n]))
    <3>1. RunDays[m] \in Int /\ RunDays[n] \in Int /\ RunDays[m] =< RunDays[n]
      BY <1>1, <2>1, <2>2, RunDaysAreDays
    <3>. QED  BY <3>1, DeliveriesGrow DEF DaysInv
  <2>3. ASSUME NEW m \in 1 .. DaysRun, NEW n \in 1 .. DaysRun, m < n
        PROVE  /\ DOMAIN history[m].cases \subseteq DOMAIN history[n].cases
               /\ \A b \in BatchIds :
                    history[m].links[b] # Undecided => history[n].links[b] # Undecided
    BY <2>1, <2>2, <2>3 DEF Shows, PartOf
  <2>4. ASSUME NEW m \in 1 .. DaysRun, NEW n \in 1 .. DaysRun, NEW k \in 1 .. DaysRun,
               m < n, n < k
        PROVE  history[m].orphans \intersect history[k].orphans \subseteq history[n].orphans
    <3>1. /\ history[m].orphans = Unaccounted(DeliveredBy(RunDays[m]))
          /\ history[n].orphans = Unaccounted(DeliveredBy(RunDays[n]))
          /\ history[k].orphans = Unaccounted(DeliveredBy(RunDays[k]))
      BY <2>1 DEF Shows
    <3>2. /\ PartOf(DeliveredBy(RunDays[m]), DeliveredBy(RunDays[n]))
          /\ PartOf(DeliveredBy(RunDays[n]), DeliveredBy(RunDays[k]))
      BY <2>2, <2>4
    <3>. QED  BY <3>1, <3>2, OrphansDoNotReturn
  <2>. QED  BY <1>1, <2>3, <2>4 DEF HistoriesStay
<1>. QED  BY <1>1, <1>2, <1>3

(* A run of a later day reports every case and every link that the run of  *)
(* an earlier day did, and no orphan comes, goes and comes back: on        *)
(* whatever the generator writes, for any days and any files.              *)
THEOREM HistoriesOnlyGrow ==
  ASSUME CyclesAreShort, AmountDecides
  PROVE  PipelineSpec /\ []GeneratedIdsFit => []HistoriesStay
<1>1. PipelineInit => DaysInv
  BY DaysStart
<1>2. DaysInv /\ GeneratedIdsFit /\ [PipelineNext]_pipelineVars => DaysInv'
  BY DaysStepKeeps
<1>3. DaysInv => HistoriesStay
  BY HistoryStays
<1>. QED  BY <1>1, <1>2, <1>3, PTL DEF PipelineSpec

(* Type correctness of the whole pipeline. *)
THEOREM PipelineIsTyped ==
  ASSUME CyclesAreShort, AmountDecides
  PROVE  PipelineSpec /\ []GeneratedIdsFit => []PipelineTypeOK
<1>1. PipelineInit => DaysInv
  BY DaysStart
<1>2. DaysInv /\ GeneratedIdsFit /\ [PipelineNext]_pipelineVars => DaysInv'
  BY DaysStepKeeps
<1>3. DaysInv /\ GeneratedIdsFit => PipelineTypeOK
  <2>1. DaysInv => EngineTypeOK /\ GeneratorTypeOK
    BY GeneratorIsTyped DEF DaysInv, DatedInv, RunInv, PipelineInv, EngineInv
  <2>2. DaysInv => /\ DaysRun =< Len(RunDays) + 1
                   /\ \A n \in DOMAIN history : history[n].links \in [BatchIds -> LinkOutcomes]
    <3>1. DaysInv => DaysRun \in Nat /\ (DaysRun =< 1 \/ DaysRun =< Len(RunDays))
      BY SequencesGrow DEF DaysInv, HistoryInv, DaysRun
    <3>. QED  BY <3>1, RunDaysAreDays DEF DaysInv, HistoryInv
  <2>. QED  BY <2>1, <2>2 DEF PipelineTypeOK, DaysRun
<1>. QED  BY <1>1, <1>2, <1>3, PTL DEF PipelineSpec

-----------------------------------------------------------------------------
(* What the last run of the engine was called on: nothing, or what has     *)
(* come by some day.                                                       *)
LEMMA DataIsDelivered ==
  ASSUME DaysInv, stage = "WRITTEN", pass = "DONE"
  PROVE  \/ data = NoData /\ history = <<>>
         \/ \E day \in Int : data = DeliveredBy(day)
<1>1. /\ IsSequence(history) /\ DaysRun =< Len(RunDays)
      /\ DaysRun = 0 => data = NoData
      /\ \A n \in DOMAIN RunDays : n = DaysRun => data = DeliveredBy(RunDays[n])
  BY DEF DaysInv, HistoryInv
<1>2. DaysRun \in Nat
  BY <1>1, SequencesGrow DEF DaysRun
<1>3. CASE DaysRun = 0
  <2>1. PICK R : history \in Seq(R)
    BY <1>1 DEF IsSequence
  <2>2. history = <<>>
    BY <1>3, <2>1, EmptySeq DEF DaysRun
  <2>. QED  BY <1>1, <1>3, <2>2
<1>4. CASE DaysRun # 0
  <2>1. DaysRun \in DOMAIN RunDays /\ RunDays[DaysRun] \in Int
    BY <1>1, <1>2, <1>4, RunDaysAreDays
  <2>. QED  BY <1>1, <2>1
<1>. QED  BY <1>3, <1>4

(* The rows of the ledger that repeat another, and the orders they repeat. *)
LEMMA RepeatedRows ==
  ASSUME GeneratorInv
  PROVE  LET ledger == rows.ledger
             second == ConfirmedDuplicates(ledger)
             orders == {ledger[r].order : r \in {s \in DOMAIN ledger : \E o \in DOMAIN ledger :
                           o # s /\ ledger[o].order = ledger[s].order}}
         IN  Cardinality(second) = Cardinality(orders)
<1>. DEFINE ledger == rows.ledger
            second == ConfirmedDuplicates(ledger)
            orders == {ledger[r].order : r \in {s \in DOMAIN ledger : \E o \in DOMAIN ledger :
                          o # s /\ ledger[o].order = ledger[s].order}}
            order == [r \in second |-> ledger[r].order]
<1>1. /\ Len(ledger) \in Nat /\ DOMAIN ledger = 1 .. Len(ledger)
      /\ \A i, j \in DOMAIN ledger : ledger[i].order = ledger[j].order => ledger[i] = ledger[j]
      /\ \A i, j, k \in DOMAIN ledger :
            i < j /\ j < k /\ ledger[i].order = ledger[j].order => ledger[j].order # ledger[k].order
  BY TablesHoldRows DEF GeneratorInv, TwiceAtMost
<1>. HIDE DEF ledger
<1>2. /\ second \subseteq DOMAIN ledger
      /\ \A r \in second : \E o \in DOMAIN ledger : o < r /\ ledger[o] = ledger[r]
      /\ \A r \in DOMAIN ledger : \A o \in DOMAIN ledger :
            o < r /\ ledger[o] = ledger[r] => r \in second
  BY DEF ConfirmedDuplicates
<1>. HIDE DEF second
<1>3. IsFiniteSet(second)
  <2>1. IsFiniteSet(1 .. Len(ledger))
    BY <1>1, FS_Interval
  <2>. QED  BY <1>1, <1>2, <2>1, FS_Subset
<1>4. order \in Injection(second, orders)
  <2>1. order \in [second -> orders]
    <3>1. ASSUME NEW r \in second
          PROVE  ledger[r].order \in orders
      <4>1. PICK o \in DOMAIN ledger : o < r /\ ledger[o] = ledger[r]
        BY <1>2
      <4>2. r \in DOMAIN ledger /\ o # r /\ ledger[o].order = ledger[r].order
        BY <1>1, <1>2, <4>1
      <4>. QED  BY <4>2
    <3>. QED  BY <3>1
  <2>2. ASSUME NEW r \in second, NEW s \in second, ledger[r].order = ledger[s].order, r < s
        PROVE  FALSE
    <3>1. PICK o \in DOMAIN ledger : o < r /\ ledger[o] = ledger[r]
      BY <1>2
    <3>. QED  BY <1>1, <1>2, <2>2, <3>1
  <2>3. \A r, s \in second : order[r] = order[s] => r = s
    <3>1. \A r \in second : r \in Nat
      BY <1>1, <1>2
    <3>. QED  BY <2>2, <3>1
  <2>. QED  BY <2>1, <2>3 DEF Injection, IsInjective
<1>5. order \in Surjection(second, orders)
  <2>1. ASSUME NEW v \in orders
        PROVE  \E r \in second : order[r] = v
    <3>1. PICK s \in DOMAIN ledger : /\ v = ledger[s].order
                                     /\ \E o \in DOMAIN ledger :
                                          o # s /\ ledger[o].order = ledger[s].order
      OBVIOUS
    <3>2. PICK o \in DOMAIN ledger : o # s /\ ledger[o].order = ledger[s].order
      BY <3>1
    <3>3. ledger[o] = ledger[s] /\ ledger[s] = ledger[o]
      BY <1>1, <3>2
    <3>4. CASE o < s
      BY <1>2, <3>1, <3>3, <3>4
    <3>5. CASE s < o
      BY <1>2, <3>1, <3>2, <3>3, <3>5
    <3>. QED  BY <1>1, <3>2, <3>4, <3>5
  <2>2. order \in [second -> orders]
    BY <1>4 DEF Injection
  <2>. QED  BY <2>1, <2>2 DEF Surjection
<1>6. Cardinality(orders) = Cardinality(second)
  BY <1>3, <1>4, <1>5, FS_Surjection
<1>. QED  BY <1>6 DEF second, ledger

(* The rows a run reports as repeated are of orders that were copied.      *)
LEMMA RepeatedAreCopied ==
  ASSUME GeneratorInv, Checked, stage = "WRITTEN", NEW day
  PROVE  {rows.ledger[r].order : r \in ConfirmedDuplicates(DeliveredBy(day).ledger)}
            \subseteq TargetsOf("duplicate_ledger_rows", "DUPLICATE_CONFIRMED")
<1>. DEFINE come == DeliveredBy(day).ledger
<1>1. come = [i \in LedgerCome(day) |-> rows.ledger[i]] /\ LedgerCome(day) \subseteq DOMAIN rows.ledger
  BY DeliveredRows DEF LedgerCome
<1>. HIDE DEF come
<1>2. ASSUME NEW r \in ConfirmedDuplicates(come)
      PROVE  r \in DOMAIN rows.ledger /\ \E o \in DOMAIN rows.ledger :
                 o # r /\ rows.ledger[o].order = rows.ledger[r].order
  <2>1. PICK o \in DOMAIN come : r \in DOMAIN come /\ o < r /\ come[o] = come[r]
    BY DEF ConfirmedDuplicates
  <2>2. r \in DOMAIN rows.ledger /\ o \in DOMAIN rows.ledger /\ rows.ledger[o] = rows.ledger[r]
    BY <1>1, <2>1
  <2>3. r \in Nat /\ o \in Nat
    BY <2>2, TablesHoldRows DEF GeneratorInv
  <2>4. o # r
    BY <2>1, <2>3
  <2>. QED  BY <2>2, <2>4
<1>3. {rows.ledger[r].order : r \in {s \in DOMAIN rows.ledger : \E o \in DOMAIN rows.ledger :
           o # s /\ rows.ledger[o].order = rows.ledger[s].order}}
         = TargetsOf("duplicate_ledger_rows", "DUPLICATE_CONFIRMED")
  BY DEF Checked, NoiseIsAccountedFor
<1>. QED  BY <1>2, <1>3 DEF come

(* Once every line has come, so has every row of the ledger.               *)
LEMMA LedgerIsWhole ==
  ASSUME GeneratorInv, NEW day \in Int, DOMAIN DeliveredBy(day).lines = DOMAIN rows.lines
  PROVE  DeliveredBy(day).ledger = rows.ledger
<1>1. /\ rows \in RowTables /\ Wired(rows) /\ Late(rows, lags)
      /\ WindowStart \in Int /\ BaseDate \in Int
  BY ConfigAssumption, CalendarWalkTerminates DEF GeneratorInv, ValidConfig, ValidCalendar, BaseDate
<1>2. /\ DOMAIN rows.ledger = 1 .. Len(rows.ledger) /\ Len(rows.ledger) \in Nat
      /\ \A i \in DOMAIN rows.ledger : rows.ledger[i].date \in Int
      /\ \A l \in DOMAIN rows.lines : rows.lines[l].settled \in Int
  <2>1. /\ \A i \in DOMAIN rows.ledger : rows.ledger[i] \in LedgerEntry
        /\ \A l \in DOMAIN rows.lines : rows.lines[l] \in LineRow
    BY <1>1, TablesHoldRows
  <2>2. DOMAIN rows.ledger = 1 .. Len(rows.ledger) /\ Len(rows.ledger) \in Nat
    BY <1>1, TablesHoldRows
  <2>. QED  BY <2>1, <2>2 DEF LedgerEntry, LineRow
<1>3. LinesCome(day) = DOMAIN rows.lines
  <2>. DEFINE come == DeliveredBy(day).lines
  <2>1. come = [l \in LinesCome(day) |-> rows.lines[l]]
    BY DeliveredRows
  <2>. HIDE DEF come
  <2>2. DOMAIN come = LinesCome(day)
    BY <2>1
  <2>. QED  BY <2>2 DEF come
<1>4. ASSUME NEW i \in DOMAIN rows.ledger
      PROVE  i \in LedgerCome(day)
  <2>1. PICK l \in DOMAIN rows.lines : rows.ledger[i].date =< rows.lines[l].settled
    BY <1>1 DEF Wired
  <2>2. ArrivalDay("lines", l, rows.lines[l].settled) =< day
    BY <1>3 DEF LinesCome
  <2>3. ArrivalDay("lines", l, rows.lines[l].settled) >= rows.lines[l].settled - BaseDate + 1
    <3>1. <<"lines", l>> \in DOMAIN lags => lags[<<"lines", l>>] \in 1 .. 2
      BY <1>1 DEF Late
    <3>. QED  BY <1>1, <1>2, <3>1 DEF ArrivalDay
  <2>4. ArrivalDay("ledger", i, rows.ledger[i].date) = rows.ledger[i].date - BaseDate + 1
    <3>1. <<"ledger", i>> \notin DOMAIN lags
      BY <1>1 DEF Late
    <3>. QED  BY <1>1, <1>2, <3>1 DEF ArrivalDay
  <2>5. ArrivalDay("lines", l, rows.lines[l].settled) \in Int
    BY RowsComeOnDays
  <2>6. ArrivalDay("ledger", i, rows.ledger[i].date) =< day
    BY <1>1, <1>2, <2>1, <2>2, <2>3, <2>4, <2>5
  <2>. QED  BY <2>6 DEF LedgerCome
<1>5. LedgerCome(day) = DOMAIN rows.ledger
  BY <1>4 DEF LedgerCome
<1>6. rows.ledger = [i \in DOMAIN rows.ledger |-> rows.ledger[i]]
  <2>1. rows.ledger \in Seq(LedgerEntry)
    BY <1>1 DEF RowTables
  <2>. QED  BY <2>1
<1>. QED  BY <1>5, <1>6, DeliveredRows

(* The credit of a batch is written as it is, but for its amount.          *)
LEMMA CreditIsWritten ==
  ASSUME GeneratorInv, GeneratedIdsFit, stage = "WRITTEN", NEW k \in DOMAIN rows.bank
  PROVE  /\ WrittenBank[CreditId(k)] = [rows.bank[k] EXCEPT !.amount = WrittenAmount(k)]
         /\ WrittenBank[CreditId(k)].amount = WrittenAmount(k)
<1>1. call \in Calls /\ DOMAIN rows.bank \subseteq DOMAIN call.creditIds
  BY DEF GeneratorInv, GeneratedIdsFit
<1>2. \A c \in DOMAIN rows.bank : CreditId(c) = CreditId(k) => c = k
  BY <1>1, CallsAssumption DEF CreditId
<1>3. (CHOOSE c \in DOMAIN rows.bank : CreditId(c) = CreditId(k)) = k
  BY <1>2
<1>4. WrittenBank[CreditId(k)] = [rows.bank[k] EXCEPT !.amount = WrittenAmount(k)]
  BY <1>3 DEF WrittenBank
<1>5. rows.bank[k] \in BankRow
  BY TablesHoldRows DEF GeneratorInv
<1>. QED  BY <1>4, <1>5 DEF BankRow

(* The amount a batch's credit is written with is off by less than a rupee. *)
LEMMA WrittenIsNear ==
  ASSUME GeneratorInv, Checked, stage = "WRITTEN", NEW k \in Banked
  PROVE  /\ WrittenAmount(k) \in Int /\ rows.batches[k].net \in Int
         /\ Magnitude(WrittenAmount(k) - rows.batches[k].net) =< 99
         /\ WrittenAmount(k) # rows.batches[k].net <=> (Residual(k) # 0 /\ k \notin DOMAIN texts)
<1>1. k \in DOMAIN rows.batches /\ k \in DOMAIN rows.bank
  BY DEF Banked
<1>2. rows.batches[k].net \in Int /\ rows.bank[k].amount \in Int
  <2>1. rows.batches[k] \in BatchRow /\ rows.bank[k] \in BankRow
    BY <1>1, TablesHoldRows DEF GeneratorInv
  <2>. QED  BY <2>1 DEF BatchRow, BankRow
<1>3. rows.bank[k].amount - rows.batches[k].net = Residual(k) /\ Magnitude(Residual(k)) < 100
  BY DEF Checked, CreditsFollowBatches
<1>4. CASE k \in DOMAIN texts
  <2>1. WrittenAmount(k) = rows.batches[k].net
    BY <1>4 DEF GeneratorInv, Rendered, WrittenAmount
  <2>. QED  BY <1>2, <1>4, <2>1 DEF Magnitude
<1>5. CASE k \notin DOMAIN texts
  <2>1. WrittenAmount(k) = rows.bank[k].amount
    BY <1>5 DEF WrittenAmount
  <2>2. Residual(k) \in Int
    BY <1>2, <1>3
  <2>. HIDE DEF Residual
  <2>. QED  BY <1>2, <1>3, <1>5, <2>1, <2>2 DEF Magnitude
<1>. QED  BY <1>4, <1>5

(* A batch comes before the credit that pays it out, or with it.           *)
LEMMA BatchesComeFirst ==
  ASSUME CyclesAreShort, GeneratorInv, Checked, stage = "WRITTEN", NEW day \in Int,
         NEW k \in Banked, k \in CreditsCome(day)
  PROVE  k \in BatchesCome(day)
<1>1. /\ rows \in RowTables /\ Wired(rows) /\ Late(rows, lags)
      /\ WindowStart \in Int /\ BaseDate \in Int
  BY ConfigAssumption, CalendarWalkTerminates DEF GeneratorInv, ValidConfig, ValidCalendar, BaseDate
<1>2. k \in DOMAIN rows.batches /\ k \in DOMAIN rows.bank
  BY DEF Banked
<1>3. rows.batches[k].settled \in Int
  <2>1. rows.batches[k] \in BatchRow
    BY <1>1, <1>2, TablesHoldRows
  <2>. QED  BY <2>1 DEF BatchRow
<1>4. PICK owner : owner = (CHOOSE o \in Owners(k) : TRUE)
  OBVIOUS
<1>5. owner \in Profiles
  <2>1. Owners(k) # {}
    <3>1. Cardinality(Owners(k)) = 1
      BY DEF Checked, OneOwnerEach
    <3>. QED  BY <3>1, FS_EmptySet
  <2>2. PICK l \in DOMAIN rows.lines : owner = rows.chains[rows.lines[l].payment].profile
    BY <1>4, <2>1 DEF Owners
  <2>3. rows.lines[l].payment \in DOMAIN rows.chains
    BY <1>1, TablesHoldRows DEF Wired
  <2>4. rows.chains[rows.lines[l].payment] \in ChainRow
    BY <1>1, <2>3, TablesHoldRows
  <2>. QED  BY <2>2, <2>4 DEF ChainRow
<1>6. rows.bank[k].valueDate = BankValueDue(rows.batches[k].settled, owner)
  BY <1>4 DEF Checked, CreditsFallDue, OneOwnerEach
<1>7. SettlementCycle[owner] \in 0 .. 4
  BY <1>5, ConfigAssumption DEF ValidConfig, ValidCalendar, CyclesAreShort
<1>8. rows.bank[k].valueDate \in Int /\ rows.batches[k].settled =< rows.bank[k].valueDate
  BY <1>3, <1>6, <1>7, ConfigAssumption, SettlementWalkTerminates DEF BankValueDue, ValidConfig
<1>9. ArrivalDay("batches", k, rows.batches[k].settled) = rows.batches[k].settled - BaseDate + 1
  <2>1. <<"batches", k>> \notin DOMAIN lags
    BY <1>1 DEF Late
  <2>. QED  BY <1>1, <1>3, <2>1 DEF ArrivalDay
<1>10. ArrivalDay("bank", k, rows.bank[k].valueDate) >= rows.bank[k].valueDate - BaseDate + 1
  <2>1. <<"bank", k>> \in DOMAIN lags => lags[<<"bank", k>>] \in 1 .. 2
    BY <1>1 DEF Late
  <2>. QED  BY <1>1, <1>8, <2>1 DEF ArrivalDay
<1>11. /\ ArrivalDay("bank", k, rows.bank[k].valueDate) =< day
       /\ ArrivalDay("bank", k, rows.bank[k].valueDate) \in Int
  BY RowsComeOnDays DEF CreditsCome
<1>12. ArrivalDay("batches", k, rows.batches[k].settled) =< day
  BY <1>1, <1>3, <1>8, <1>9, <1>10, <1>11
<1>. QED  BY <1>2, <1>12 DEF BatchesCome

(* What of the delivered data a credit and its batch are.                  *)
LEMMA DeliveredPair ==
  ASSUME GeneratorInv, GeneratedIdsFit, stage = "WRITTEN", NEW day \in Int,
         NEW k \in Banked, k \in BatchesCome(day), CreditId(k) \in DOMAIN DeliveredBy(day).bank
  PROVE  /\ k \in DOMAIN DeliveredBy(day).batches
         /\ DeliveredBy(day).batches[k] = rows.batches[k]
         /\ DeliveredBy(day).bank[CreditId(k)].amount = WrittenAmount(k)
<1>. DEFINE d == DeliveredBy(day)
<1>1. /\ d.batches = [b \in BatchesCome(day) |-> rows.batches[b]]
      /\ d.bank = [c \in CreditIdsCome(day) |-> WrittenBank[c]]
  BY DeliveredRows
<1>2. CreditId(k) \in DOMAIN d.bank
  OBVIOUS
<1>. HIDE DEF d
<1>3. k \in DOMAIN d.batches /\ d.batches[k] = rows.batches[k]
  BY <1>1
<1>4. d.bank[CreditId(k)] = WrittenBank[CreditId(k)]
  BY <1>1, <1>2
<1>5. WrittenBank[CreditId(k)].amount = WrittenAmount(k)
  BY CreditIsWritten DEF Banked
<1>. QED  BY <1>3, <1>4, <1>5 DEF d

(* The credits nothing delivered accounts for are those nothing stands     *)
(* behind.                                                                 *)
LEMMA OrphansAreOrphans ==
  ASSUME CyclesAreShort, RoundingsAreTolerated, GeneratorInv, GeneratedIdsFit, Checked,
         stage = "WRITTEN", NEW day \in Int
  PROVE  Unaccounted(DeliveredBy(day)) \subseteq {CreditId(c) : c \in OrphanNotes}
<1>1. ASSUME NEW id \in Unaccounted(DeliveredBy(day))
      PROVE  \E k \in DOMAIN rows.bank : /\ id = CreditId(k) /\ k \in CreditsCome(day)
                                         /\ id \in DOMAIN DeliveredBy(day).bank
  <2>1. id \in DOMAIN DeliveredBy(day).bank
    BY DEF Unaccounted
  <2>2. DOMAIN DeliveredBy(day).bank = CreditIdsCome(day)
    <3>. DEFINE d == DeliveredBy(day)
    <3>1. d.bank = [c \in CreditIdsCome(day) |-> WrittenBank[c]]
      BY DeliveredRows
    <3>. HIDE DEF d
    <3>2. DOMAIN d.bank = CreditIdsCome(day)
      BY <3>1
    <3>. QED  BY <3>2 DEF d
  <2>. QED  BY <2>1, <2>2 DEF CreditIdsCome, CreditsCome
<1>2. ASSUME NEW id \in Unaccounted(DeliveredBy(day)), NEW k \in Banked, id = CreditId(k),
             k \in CreditsCome(day), id \in DOMAIN DeliveredBy(day).bank
      PROVE  FALSE
  <2>1. k \in BatchesCome(day)
    BY <1>2, BatchesComeFirst
  <2>2. /\ k \in DOMAIN DeliveredBy(day).batches
        /\ DeliveredBy(day).batches[k] = rows.batches[k]
        /\ DeliveredBy(day).bank[id].amount = WrittenAmount(k)
    BY <1>2, <2>1, DeliveredPair
  <2>3. Magnitude(WrittenAmount(k) - rows.batches[k].net) =< RoundingTolerance
    <3>1. RoundingTolerance \in Int
      BY ConfigAssumption DEF ValidConfig, ValidTolerance
    <3>2. Magnitude(WrittenAmount(k) - rows.batches[k].net) \in Int
      BY WrittenIsNear DEF Magnitude
    <3>. QED  BY <3>1, <3>2, WrittenIsNear DEF RoundingsAreTolerated
  <2>4. AmountAgrees(DeliveredBy(day).bank[id], DeliveredBy(day).batches[k])
    BY <2>2, <2>3 DEF AmountAgrees
  <2>. QED  BY <2>2, <2>4 DEF Unaccounted
<1>3. ASSUME NEW k \in DOMAIN rows.bank, k \notin Banked
      PROVE  k \in OrphanNotes
  BY <1>3 DEF Banked, Checked, NoiseIsAccountedFor
<1>. QED  BY <1>1, <1>2, <1>3

LEMMA RowsAreTrue ==
  ASSUME CyclesAreShort, RoundingsAreTolerated, DaysInv, GeneratedIdsFit
  PROVE  RowVariancesAreTrue
<1>. SUFFICES ASSUME stage = "WRITTEN", pass = "DONE"
              PROVE  RowVariancesAreTrue
  BY DEF RowVariancesAreTrue
<1>1. GeneratorInv /\ Checked
  BY DEF DaysInv
<1>2. /\ rowVariances.duplicates = ConfirmedDuplicates(data.ledger)
      /\ rowVariances.orphans = Unaccounted(data)
  BY OrphansAreUnaccounted DEF DaysInv, DatedInv, RunInv, PipelineInv, Reported
<1>3. CASE data = NoData /\ history = <<>>
  <2>1. rowVariances.duplicates = {} /\ rowVariances.orphans = {}
    BY <1>2, <1>3 DEF NoData, ConfirmedDuplicates, Unaccounted
  <2>. QED  BY <1>3, <2>1 DEF RowVariancesAreTrue, Complete
<1>4. ASSUME NEW day \in Int, data = DeliveredBy(day)
      PROVE  RowVariancesAreTrue
  <2>1. {rows.ledger[r].order : r \in rowVariances.duplicates}
           \subseteq TargetsOf("duplicate_ledger_rows", "DUPLICATE_CONFIRMED")
    BY <1>1, <1>2, <1>4, RepeatedAreCopied
  <2>2. rowVariances.orphans \subseteq {CreditId(c) : c \in OrphanNotes}
    BY <1>1, <1>2, <1>4, OrphansAreOrphans
  <2>3. ASSUME Complete
        PROVE  Cardinality(rowVariances.duplicates)
                 = Cardinality(TargetsOf("duplicate_ledger_rows", "DUPLICATE_CONFIRMED"))
    <3>1. data.ledger = rows.ledger
      BY <1>1, <1>4, <2>3, LedgerIsWhole DEF Complete
    <3>2. {rows.ledger[r].order : r \in {s \in DOMAIN rows.ledger : \E o \in DOMAIN rows.ledger :
                o # s /\ rows.ledger[o].order = rows.ledger[s].order}}
             = TargetsOf("duplicate_ledger_rows", "DUPLICATE_CONFIRMED")
      BY <1>1 DEF Checked, NoiseIsAccountedFor
    <3>. QED  BY <1>1, <1>2, <3>1, <3>2, RepeatedRows
  <2>. QED  BY <2>1, <2>2, <2>3 DEF RowVariancesAreTrue
<1>. QED  BY <1>3, <1>4, DataIsDelivered

(* On every day the rows reported as repeated are of orders the generator  *)
(* copied, all of them once everything has come, and the credits reported  *)
(* as orphans are those it made with nothing behind them: for any data set *)
(* it writes, any days and any noise, as long as no credit is off by more  *)
(* than the engine tolerates.                                              *)
THEOREM RowVariancesStayTrue ==
  ASSUME CyclesAreShort, AmountDecides, RoundingsAreTolerated
  PROVE  PipelineSpec /\ []GeneratedIdsFit => []RowVariancesAreTrue
<1>1. PipelineInit => DaysInv
  BY DaysStart
<1>2. DaysInv /\ GeneratedIdsFit /\ [PipelineNext]_pipelineVars => DaysInv'
  BY DaysStepKeeps
<1>3. DaysInv /\ GeneratedIdsFit => RowVariancesAreTrue
  BY RowsAreTrue
<1>. QED  BY <1>1, <1>2, <1>3, PTL DEF PipelineSpec

-----------------------------------------------------------------------------
LEMMA RoundingsStepKeeps ==
  ASSUME DatedInv, RoundingsAreNamed, GeneratedIdsFit, [PipelineNext]_pipelineVars
  PROVE  RoundingsAreNamed'
<1>1. CASE [EngineNext]_engineVars
  BY <1>1, RoundingsStayNamed DEF DatedInv, RunInv, PipelineInv
<1>2. CASE Begun'
  BY <1>2, NewRunHasNoLinks
<1>3. CASE Unread
  <2>1. UNCHANGED <<data, links>>
    BY <1>3 DEF Unread
  <2>. QED  BY <2>1 DEF RoundingsAreNamed, Settled, Delivered, RoundingCategory
<1>. QED  BY <1>1, <1>2, <1>3, PipelineStepCases DEF DatedInv, RunInv

LEMMA ResidualsFound ==
  ASSUME DaysInv, RoundingsAreNamed, GeneratedIdsFit
  PROVE  ResidualsAreFound
<1>. SUFFICES ASSUME Complete, NEW b \in Settled, links[b].credit = CreditId(b)
              PROVE  links[b].category = "ROUNDING_DIFFERENCE"
                       <=> (Residual(b) # 0 /\ b \notin DOMAIN texts)
  BY Zenon DEF ResidualsAreFound
<1>1. /\ stage = "WRITTEN" /\ pass = "DONE" /\ history # <<>>
      /\ GeneratorInv /\ Checked
  BY DEF Complete, DaysInv
<1>2. PICK day \in Int : data = DeliveredBy(day)
  BY <1>1, DataIsDelivered
<1>3. DOMAIN data.batches = BatchesCome(day) /\ DOMAIN data.bank = CreditIdsCome(day)
  <2>. DEFINE d == DeliveredBy(day)
  <2>1. /\ d.batches = [i \in BatchesCome(day) |-> rows.batches[i]]
        /\ d.bank = [c \in CreditIdsCome(day) |-> WrittenBank[c]]
    BY DeliveredRows
  <2>. HIDE DEF d
  <2>2. DOMAIN d.batches = BatchesCome(day) /\ DOMAIN d.bank = CreditIdsCome(day)
    BY <2>1
  <2>. QED  BY <1>2, <2>2 DEF d
<1>4. b \in DOMAIN data.batches /\ CreditId(b) \in DOMAIN data.bank
  BY DEF DaysInv, DatedInv, RunInv, EvidenceInv, LinkFallsDue, Settled, Delivered
<1>5. b \in Banked /\ b \in BatchesCome(day)
  <2>1. b \in DOMAIN rows.batches /\ b \in BatchesCome(day)
    BY <1>3, <1>4 DEF BatchesCome
  <2>2. PICK c \in DOMAIN rows.bank : CreditId(c) = CreditId(b)
    BY <1>3, <1>4 DEF CreditIdsCome, CreditsCome
  <2>3. b \in DOMAIN call.creditIds /\ c \in DOMAIN call.creditIds /\ call \in Calls
    BY <1>1, <2>1 DEF GeneratedIdsFit, GeneratorInv
  <2>4. c = b
    BY <2>2, <2>3, CallsAssumption DEF CreditId
  <2>. QED  BY <2>1, <2>4 DEF Banked
<1>6. /\ data.batches[b] = rows.batches[b]
      /\ data.bank[CreditId(b)].amount = WrittenAmount(b)
  BY <1>1, <1>2, <1>4, <1>5, DeliveredPair
<1>7. links[b].category = RoundingCategory(b, CreditId(b))
  BY DEF RoundingsAreNamed
<1>8. links[b].category = "ROUNDING_DIFFERENCE" <=> WrittenAmount(b) # rows.batches[b].net
  BY <1>6, <1>7 DEF RoundingCategory, NoCategory
<1>. QED  BY <1>1, <1>5, <1>8, WrittenIsNear

(* Once everything has come, the batches reported as off by a rounding are *)
(* those whose own credit the generator made a few paise off, and whose    *)
(* amount is not written as it was before.                                 *)
THEOREM ResidualsStayFound ==
  ASSUME CyclesAreShort, AmountDecides
  PROVE  PipelineSpec /\ []GeneratedIdsFit => []ResidualsAreFound
<1>. DEFINE Inv == DaysInv /\ RoundingsAreNamed
<1>1. PipelineInit => Inv
  BY DaysStart, LinksStart
<1>2. Inv /\ GeneratedIdsFit /\ [PipelineNext]_pipelineVars => Inv'
  BY DaysStepKeeps, RoundingsStepKeeps DEF DaysInv
<1>3. Inv /\ GeneratedIdsFit => ResidualsAreFound
  BY ResidualsFound
<1>. HIDE DEF Inv
<1>. QED  BY <1>1, <1>2, <1>3, PTL DEF PipelineSpec

-----------------------------------------------------------------------------
LEMMA NewRunHasRights == Begun' => RightsInv'
<1>1. Begun => RightsInv
  BY BegunHasRights
<1>. QED  BY <1>1, PTL

LEMMA RightsStepKeeps ==
  ASSUME AmountDecides, NamesDiffer, DatedInv, RightsInv, GeneratedIdsFit,
         [PipelineNext]_pipelineVars
  PROVE  RightsInv'
<1>1. CASE [EngineNext]_engineVars
  BY <1>1, RightsStayServed DEF DatedInv, RunInv, PipelineInv, Readable
<1>2. CASE Begun'
  BY <1>2, NewRunHasRights
<1>3. CASE Unread
  <2>1. pass' = "FAILED" /\ UNCHANGED <<data, due, links>>
    BY <1>3 DEF Unread
  <2>2. Settled' = Settled /\ Undecideds' = Undecideds
    BY <2>1 DEF Settled, Undecideds, Delivered
  <2>3. \A o, c : Rightful(o, c)' <=> Rightful(o, c)
    BY <2>1 DEF Rightful, DueDate, BatchProfiles, ProfileOf
  <2>4. DueDatesStand'
    BY <2>1 DEF DueDatesStand
  <2>5. RightsAreServed'
    BY <2>1, <2>2, <2>3 DEF RightsAreServed, RightsInv
  <2>6. NoneExchanged'
    BY <2>1, <2>2, <2>3 DEF NoneExchanged, RightsInv
  <2>. QED  BY <2>4, <2>5, <2>6 DEF RightsInv
<1>. QED  BY <1>1, <1>2, <1>3, PipelineStepCases DEF DatedInv, RunInv

LEMMA PipelineStaysMarked ==
  ASSUME GeneratorInv, Marked(rows), [PipelineNext]_pipelineVars
  PROVE  Marked(rows')
<1>1. CASE Generate
  BY <1>1, MarkedStepKeeps DEF Generate
<1>2. CASE ~Generate
  <2>1. rows' = rows
    BY <1>2 DEF PipelineNext, RunFiles, RunDay, EngineStep, pipelineVars, generatorVars
  <2>. QED  BY <2>1
<1>. QED  BY <1>1, <1>2

LEMMA NothingIsMarked ==
  ASSUME PipelineInit
  PROVE  Marked(rows)
<1>1. rows = NoData
  BY DEF PipelineInit, GeneratorInit
<1>2. DOMAIN rows.payments = {} /\ DOMAIN rows.ledger = {} /\ DOMAIN rows.bank = {}
  BY <1>1 DEF NoData
<1>. QED  BY <1>2 DEF Marked

(* Once everything has come, so have all payments, with all their lines.   *)
LEMMA PaymentsAreWhole ==
  ASSUME GeneratorInv, Marked(rows), NEW day \in Int, data = DeliveredBy(day),
         DOMAIN data.lines = DOMAIN rows.lines
  PROVE  /\ data.ledger = rows.ledger
         /\ DOMAIN data.payments = DOMAIN rows.payments
         /\ \A p \in DOMAIN rows.payments :
               data.payments[p] = rows.payments[p] /\ data.payments[p].order = p
         /\ \A l \in DOMAIN rows.lines : data.lines[l] = rows.lines[l]
<1>1. Late(rows, lags)
  BY DEF GeneratorInv
<1>2. /\ data.payments = [p \in PaymentsCome(day) |-> rows.payments[p]]
      /\ data.lines = [l \in LinesCome(day) |-> rows.lines[l]]
      /\ data.ledger = [i \in LedgerCome(day) |-> rows.ledger[i]]
      /\ PaymentsCome(day) \subseteq DOMAIN rows.payments
  BY DeliveredRows DEF PaymentsCome
<1>3. data.ledger = rows.ledger
  BY LedgerIsWhole
<1>4. \A l \in DOMAIN rows.lines : data.lines[l] = rows.lines[l]
  BY <1>2
<1>5. ASSUME NEW p \in DOMAIN rows.payments
      PROVE  p \in PaymentsCome(day) /\ rows.payments[p].order = p
  <2>1. PICK i \in DOMAIN rows.ledger : rows.ledger[i].order = p
    BY DEF Marked
  <2>2. rows.ledger[i].date = rows.payments[p].capturedAt /\ rows.payments[p].order = p
    BY <2>1 DEF Marked
  <2>3. i \in DOMAIN data.ledger
    BY <1>3
  <2>4. i \in LedgerCome(day)
    BY <1>2, <2>3
  <2>5. <<"ledger", i>> \notin DOMAIN lags /\ <<"payments", p>> \notin DOMAIN lags
    BY <1>1 DEF Late
  <2>6. ArrivalDay("payments", p, rows.payments[p].capturedAt)
           = ArrivalDay("ledger", i, rows.ledger[i].date)
    BY <2>2, <2>5 DEF ArrivalDay
  <2>. QED  BY <2>2, <2>4, <2>6 DEF LedgerCome, PaymentsCome
<1>6. PaymentsCome(day) = DOMAIN rows.payments
  BY <1>2, <1>5
<1>7. data.payments = [p \in DOMAIN rows.payments |-> rows.payments[p]]
  BY <1>2, <1>6
<1>8. /\ DOMAIN data.payments = DOMAIN rows.payments
      /\ \A p \in DOMAIN rows.payments : data.payments[p] = rows.payments[p]
  BY <1>7
<1>. QED  BY <1>3, <1>4, <1>5, <1>8

(* Once everything has come, so have all payments, and with the ledger      *)
(* every batch's profile is known.                                          *)
LEMMA ProfilesAreKnown ==
  ASSUME GeneratorInv, Marked(rows), NEW day \in Int, data = DeliveredBy(day),
         DOMAIN data.lines = DOMAIN rows.lines, NEW b
  PROVE  BatchProfiles(b) = Owners(b)
<1>1. /\ rows \in RowTables /\ Wired(rows) /\ Late(rows, lags)
      /\ WindowStart \in Int /\ BaseDate \in Int
  BY ConfigAssumption, CalendarWalkTerminates DEF GeneratorInv, ValidConfig, ValidCalendar, BaseDate
<1>2. /\ data.payments = [p \in PaymentsCome(day) |-> rows.payments[p]]
      /\ data.lines = [l \in LinesCome(day) |-> rows.lines[l]]
      /\ data.ledger = [i \in LedgerCome(day) |-> rows.ledger[i]]
  BY DeliveredRows
<1>3. data.ledger = rows.ledger
  BY LedgerIsWhole
<1>4. \A l \in DOMAIN data.lines : data.lines[l] = rows.lines[l]
  BY <1>2
<1>5. ASSUME NEW p \in DOMAIN rows.payments
      PROVE  p \in DOMAIN data.payments /\ data.payments[p].order = p
  BY PaymentsAreWhole
<1>6. ASSUME NEW p \in DOMAIN rows.payments
      PROVE  ProfileOf(data, p) = rows.chains[p].profile
  <2>. DEFINE named == {r \in DOMAIN rows.ledger : rows.ledger[r].order = p}
  <2>1. PICK i \in DOMAIN rows.ledger : rows.ledger[i].order = p
    BY DEF Marked
  <2>2. DOMAIN rows.ledger = 1 .. Len(rows.ledger) /\ Len(rows.ledger) \in Nat
    BY <1>1, TablesHoldRows
  <2>3. named \in SUBSET Nat /\ IsFiniteSet(named) /\ named # {}
    <3>1. 1 \in Int /\ Len(rows.ledger) \in Int
      BY <2>2
    <3>2. IsFiniteSet(1 .. Len(rows.ledger))
      BY <3>1, FS_Interval
    <3>3. named \in SUBSET (1 .. Len(rows.ledger))
      BY <2>2
    <3>4. IsFiniteSet(named)
      BY <3>2, <3>3, FS_Subset
    <3>5. named # {}
      BY <2>1
    <3>6. named \in SUBSET Nat
      BY <2>2
    <3>. QED  BY <3>4, <3>5, <3>6
  <2>4. Last(named) \in named
    BY <2>3, LastIsGreatest
  <2>5. ProfileOf(data, p) = CustomerProfile[rows.ledger[Last(named)].customer]
    BY <1>3, <2>3 DEF ProfileOf
  <2>. QED  BY <2>4, <2>5 DEF Marked
<1>7. ASSUME NEW l \in DOMAIN rows.lines
      PROVE  /\ rows.lines[l].payment \in DOMAIN data.payments
             /\ ProfileOf(data, data.payments[rows.lines[l].payment].order)
                  = rows.chains[rows.lines[l].payment].profile
  BY <1>1, <1>5, <1>6 DEF Wired
<1>8. {k \in DOMAIN data.lines : data.lines[k].batch = b
                                    /\ data.lines[k].payment \in DOMAIN data.payments}
        = {k \in DOMAIN rows.lines : rows.lines[k].batch = b}
  BY <1>4, <1>7
<1>9. \A l \in {k \in DOMAIN rows.lines : rows.lines[k].batch = b} :
         ProfileOf(data, data.payments[data.lines[l].payment].order)
            = rows.chains[rows.lines[l].payment].profile
  BY <1>4, <1>7
<1>10. BatchProfiles(b) = {ProfileOf(data, data.payments[data.lines[l].payment].order) :
                              l \in {k \in DOMAIN rows.lines : rows.lines[k].batch = b}}
  BY <1>8 DEF BatchProfiles
<1>. QED  BY <1>9, <1>10 DEF Owners

(* What was generated as a batch's credit is the batch's by rights.         *)
LEMMA OwnIsRightful ==
  ASSUME CyclesAreShort, RoundingsAreTolerated, GeneratorInv, GeneratedIdsFit, Checked,
         Marked(rows), stage = "WRITTEN", NEW day \in Int, data = DeliveredBy(day),
         DOMAIN data.lines = DOMAIN rows.lines,
         NEW o \in Banked, o \in Delivered, CreditId(o) \in DOMAIN data.bank
  PROVE  Rightful(o, CreditId(o))
<1>1. o \in DOMAIN rows.bank /\ o \in DOMAIN rows.batches /\ rows.bank[o] \in BankRow
  BY TablesHoldRows DEF GeneratorInv, Banked
<1>2. /\ data.batches = [b \in BatchesCome(day) |-> rows.batches[b]]
      /\ data.bank = [c \in CreditIdsCome(day) |-> WrittenBank[c]]
  BY DeliveredRows
<1>3. o \in BatchesCome(day) /\ data.batches[o] = rows.batches[o]
  BY <1>2 DEF Delivered
<1>4. /\ data.bank[CreditId(o)].valueDate = rows.bank[o].valueDate
      /\ data.bank[CreditId(o)].token = rows.bank[o].token
      /\ data.bank[CreditId(o)].amount = WrittenAmount(o)
  <2>1. data.bank[CreditId(o)] = WrittenBank[CreditId(o)]
    BY <1>2
  <2>2. /\ WrittenBank[CreditId(o)] = [rows.bank[o] EXCEPT !.amount = WrittenAmount(o)]
        /\ WrittenBank[CreditId(o)].amount = WrittenAmount(o)
    BY <1>1, CreditIsWritten
  <2>. QED  BY <1>1, <2>1, <2>2 DEF BankRow
<1>5. DueDate(o) = rows.bank[o].valueDate
  <2>1. BatchProfiles(o) = Owners(o)
    BY ProfilesAreKnown
  <2>2. Cardinality(Owners(o)) = 1
    BY DEF Checked, OneOwnerEach
  <2>3. Owners(o) # {}
    BY <2>2, FS_EmptySet
  <2>4. rows.bank[o].valueDate
          = BankValueDue(rows.batches[o].settled, CHOOSE x \in Owners(o) : TRUE)
    BY <2>2 DEF Checked, CreditsFallDue
  <2>. QED  BY <1>3, <2>1, <2>3, <2>4 DEF DueDate
<1>6. AmountAgrees(data.bank[CreditId(o)], data.batches[o])
  <2>1. Magnitude(WrittenAmount(o) - rows.batches[o].net) =< RoundingTolerance
    <3>1. RoundingTolerance \in Int
      BY ConfigAssumption DEF ValidConfig, ValidTolerance
    <3>2. Magnitude(WrittenAmount(o) - rows.batches[o].net) \in Int
      BY WrittenIsNear DEF Magnitude
    <3>. QED  BY <3>1, <3>2, WrittenIsNear DEF RoundingsAreTolerated
  <2>. QED  BY <1>3, <1>4, <2>1 DEF AmountAgrees
<1>7. OwnToken(rows.bank[o].token, rows.batches[o].utr)
  BY <1>1 DEF Marked
<1>. QED  BY <1>3, <1>4, <1>5, <1>6, <1>7 DEF Rightful, OwnToken

(* So rights, which no claim passes over, are what LinksAreTrue says.       *)
LEMMA RightsMakeLinksTrue ==
  ASSUME CyclesAreShort, RoundingsAreTolerated, DaysInv, RightsInv, Marked(rows), GeneratedIdsFit
  PROVE  LinksAreTrue
<1>. SUFFICES ASSUME Complete
              PROVE  /\ \A b \in Settled :
                           \/ \E o \in OrphanNotes : links[b].credit = CreditId(o)
                           \/ \E o \in Delivered : /\ links[b].credit = CreditId(o)
                                                   /\ o \in Settled \/ links[o] = Waiting
                     /\ \A group \in (SUBSET Settled) \ {{}} :
                           \E b \in group : \A o \in group \ {b} : links[b].credit # CreditId(o)
  BY Zenon DEF LinksAreTrue
<1>1. /\ stage = "WRITTEN" /\ pass = "DONE" /\ history # <<>>
      /\ GeneratorInv /\ Checked /\ DOMAIN data.lines = DOMAIN rows.lines
  BY DEF Complete, DaysInv
<1>2. PICK day \in Int : data = DeliveredBy(day)
  BY <1>1, DataIsDelivered
<1>3. DOMAIN data.batches = BatchesCome(day) /\ DOMAIN data.bank = CreditIdsCome(day)
  <2>1. /\ data.batches = [i \in BatchesCome(day) |-> rows.batches[i]]
        /\ data.bank = [c \in CreditIdsCome(day) |-> WrittenBank[c]]
    BY <1>2, DeliveredRows
  <2>. QED  BY <2>1
<1>4. \A c, o \in DOMAIN rows.batches \union DOMAIN rows.bank : CreditId(c) = CreditId(o) => c = o
  <2>1. /\ call \in Calls
        /\ DOMAIN rows.batches \union DOMAIN rows.bank \subseteq DOMAIN call.creditIds
    BY <1>1 DEF GeneratedIdsFit, GeneratorInv
  <2>2. ASSUME NEW c \in DOMAIN rows.batches \union DOMAIN rows.bank,
               NEW o \in DOMAIN rows.batches \union DOMAIN rows.bank, CreditId(c) = CreditId(o)
        PROVE  c = o
    BY <2>1, <2>2, CallsAssumption DEF CreditId
  <2>. QED  BY <2>2
<1>5. ASSUME NEW b \in Settled
      PROVE  links[b].credit \in DOMAIN data.bank
  BY DEF DaysInv, DatedInv, RunInv, EvidenceInv, LinkFallsDue
<1>6. ASSUME NEW o \in DOMAIN rows.batches, CreditId(o) \in DOMAIN data.bank
      PROVE  o \in Banked /\ o \in CreditsCome(day)
  <2>1. PICK c \in CreditsCome(day) : CreditId(c) = CreditId(o)
    BY <1>3, <1>6 DEF CreditIdsCome
  <2>2. c \in DOMAIN rows.bank
    BY DEF CreditsCome
  <2>3. c = o
    BY <1>4, <2>1, <2>2
  <2>. QED  BY <2>1, <2>2, <2>3 DEF Banked
<1>7. ASSUME NEW o \in Banked, o \in Delivered, CreditId(o) \in DOMAIN data.bank
      PROVE  Rightful(o, CreditId(o))
  BY <1>1, <1>2, <1>7, OwnIsRightful
<1>8. ASSUME NEW b \in Settled
      PROVE  \/ \E o \in OrphanNotes : links[b].credit = CreditId(o)
             \/ \E o \in Delivered : /\ links[b].credit = CreditId(o)
                                     /\ o \in Settled \/ links[o] = Waiting
  <2>1. PICK o \in CreditsCome(day) : links[b].credit = CreditId(o)
    BY <1>3, <1>5 DEF CreditIdsCome
  <2>2. o \in DOMAIN rows.bank
    BY DEF CreditsCome
  <2>3. CASE o \notin DOMAIN rows.batches
    <3>1. o \in OrphanNotes
      BY <1>1, <2>2, <2>3 DEF Checked, NoiseIsAccountedFor
    <3>. QED  BY <2>1, <3>1
  <2>4. CASE o \in DOMAIN rows.batches
    <3>1. o \in Banked /\ CreditId(o) \in DOMAIN data.bank
      BY <1>5, <2>1, <2>2, <2>4 DEF Banked
    <3>2. o \in Delivered
      BY <1>1, <1>3, <3>1, BatchesComeFirst DEF Delivered
    <3>3. Rightful(o, links[b].credit)
      BY <1>7, <2>1, <3>1, <3>2
    <3>4. o \notin Undecideds
      BY <3>3 DEF RightsInv, RightsAreServed
    <3>5. links[o] \in LinkOutcomes
      BY <3>2 DEF DaysInv, DatedInv, RunInv, PipelineInv, EngineInv, EngineTypeOK, Fits, Delivered
    <3>6. links[o].status \in {"CONFIRMED", "PENDING_EVIDENCE"}
      BY <3>2, <3>4, <3>5, OutcomeStatus DEF Undecideds
    <3>7. links[o].status = "PENDING_EVIDENCE" => links[o] = Waiting
      BY <3>5 DEF LinkOutcomes, Undecided, Waiting, LinkedTo, LeftOpen
    <3>. QED  BY <2>1, <3>2, <3>6, <3>7 DEF Settled
  <2>. QED  BY <2>3, <2>4
<1>9. ASSUME NEW group \in (SUBSET Settled) \ {{}}
      PROVE  \E b \in group : \A o \in group \ {b} : links[b].credit # CreditId(o)
  <2>1. PICK b \in group : \A o \in group \ {b} : ~Rightful(o, links[b].credit)
    BY DEF RightsInv, NoneExchanged
  <2>2. ASSUME NEW o \in group \ {b}, links[b].credit = CreditId(o)
        PROVE  FALSE
    <3>1. o \in Delivered /\ o \in DOMAIN rows.batches /\ CreditId(o) \in DOMAIN data.bank
      BY <1>3, <1>5, <2>2 DEF Settled, Delivered, BatchesCome
    <3>2. Rightful(o, CreditId(o))
      BY <1>6, <1>7, <3>1
    <3>. QED  BY <2>1, <2>2, <3>2
  <2>. QED  BY <2>2
<1>. QED  BY <1>8, <1>9

(* When everything has come, a batch that is settled has its own credit, or *)
(* one nothing stands behind, or that of a batch which has another or       *)
(* waits; and none have changed credits among themselves: for any data set  *)
(* the generator writes, any days and any noise, where P8 links nothing     *)
(* whose amounts do not agree, no two UTRs are the same, and the engine     *)
(* tolerates what the generator rounds.                                     *)
THEOREM LinksStayTrue ==
  ASSUME CyclesAreShort, AmountDecides, UtrsDiffer, RoundingsAreTolerated
  PROVE  PipelineSpec /\ []GeneratedIdsFit => []LinksAreTrue
<1>. DEFINE Inv == DaysInv /\ RightsInv /\ NamesDiffer /\ Marked(rows)
<1>1. PipelineInit => Inv
  <2>1. ASSUME PipelineInit
        PROVE  NamesDiffer
    <3>1. data = NoData
      BY <2>1 DEF PipelineInit, EngineAtRest, Fresh
    <3>. QED  BY <3>1 DEF NamesDiffer, Delivered, NoData
  <2>2. PipelineInit => RightsInv
    BY PipelineHasBegun, BegunHasRights
  <2>. QED  BY <2>1, <2>2, DaysStart, NothingIsMarked
<1>2. Inv /\ GeneratedIdsFit /\ [PipelineNext]_pipelineVars => Inv'
  <2>1. ASSUME Inv, GeneratedIdsFit, [PipelineNext]_pipelineVars
        PROVE  NamesDiffer' /\ RightsInv' /\ Marked(rows)'
    BY <2>1, NamesStayDifferent, RightsStepKeeps, PipelineStaysMarked DEF DaysInv, DatedInv, RunInv
  <2>. QED  BY <2>1, DaysStepKeeps
<1>3. Inv /\ GeneratedIdsFit => LinksAreTrue
  BY RightsMakeLinksTrue
<1>. HIDE DEF Inv
<1>. QED  BY <1>1, <1>2, <1>3, PTL DEF PipelineSpec

-----------------------------------------------------------------------------
LEMMA PipelineStaysTold ==
  ASSUME GeneratorInv, NotesInv, [PipelineNext]_pipelineVars
  PROVE  NotesInv'
<1>1. CASE Generate
  BY <1>1, NotesStepKeeps DEF Generate
<1>2. CASE ~Generate
  <2>1. rows' = rows /\ notes' = notes /\ stage' = stage
    BY <1>2 DEF PipelineNext, RunFiles, RunDay, EngineStep, pipelineVars, generatorVars
  <2>. QED  BY <2>1 DEF NotesInv
<1>. QED  BY <1>1, <1>2

LEMMA NothingHasBeenTold ==
  ASSUME PipelineInit
  PROVE  NotesInv
<1>1. rows = NoData /\ notes = {}
  BY DEF PipelineInit, GeneratorInit
<1>. QED  BY <1>1, NothingIsTold DEF NotesInv

(* The days of the runs, and what the notes say of the rows they run on.   *)
NotedInv == DaysInv /\ Marked(rows) /\ NotesInv

LEMMA NotedStart ==
  ASSUME PipelineInit
  PROVE  NotedInv
BY DaysStart, NothingIsMarked, NothingHasBeenTold DEF NotedInv

LEMMA NotedStepKeeps ==
  ASSUME CyclesAreShort, AmountDecides,
         NotedInv, GeneratedIdsFit, [PipelineNext]_pipelineVars
  PROVE  NotedInv'
<1>1. Marked(rows)' /\ NotesInv'
  BY PipelineStaysMarked, PipelineStaysTold DEF NotedInv, DaysInv
<1>. QED  BY <1>1, DaysStepKeeps DEF NotedInv

LEMMA LinesAreAllThere ==
  ASSUME NEW d, NEW r, DOMAIN d.lines = DOMAIN r.lines,
         \A l \in DOMAIN r.lines : d.lines[l] = r.lines[l], NEW p
  PROVE  SettlementLines(d, p) = SettlementLines(r, p) /\ PaymentLines(d, p) = PaymentLines(r, p)
BY DEF SettlementLines, PaymentLines

(* Of two alike a run on everything takes the one that settled on less for *)
(* the copy: the copy was not refunded, and unless it was split has but    *)
(* one line; the other has one at least.                                   *)
LEMMA CopiesSettleLeast ==
  ASSUME GeneratorInv, Checked, NotesInv, Marked(rows), stage = "WRITTEN",
         NEW day \in Int, data = DeliveredBy(day), DOMAIN data.lines = DOMAIN rows.lines,
         NEW k \in Copies(notes), k \notin TargetsOf("split_settlement", "SPLIT_SETTLEMENT"),
         NEW c \in DOMAIN rows.payments
  PROVE  ~SettledLess(data, c, k)
<1>1. /\ DOMAIN data.payments = DOMAIN rows.payments
      /\ \A p \in DOMAIN rows.payments : data.payments[p].order = p
      /\ \A l \in DOMAIN rows.lines : data.lines[l] = rows.lines[l]
  BY PaymentsAreWhole
<1>2. \A p : /\ SettlementLines(data, p) = SettlementLines(rows, p)
             /\ PaymentLines(data, p) = PaymentLines(rows, p)
  BY <1>1, LinesAreAllThere
<1>3. /\ Whole(rows) /\ k \in DOMAIN rows.payments
      /\ \A l \in DOMAIN rows.lines : rows.lines[l].payment = k => rows.lines[l].type = "PAYMENT"
  BY DEF NotesInv, Told, CopiesMatch
<1>4. ASSUME NEW p \in DOMAIN rows.payments
      PROVE  /\ ChainLength(data, p) = Cardinality(SettlementLines(rows, p))
             /\ IsFiniteSet(SettlementLines(rows, p)) /\ SettlementLines(rows, p) # {}
  <2>1. {q \in DOMAIN data.payments : data.payments[q].order = p} = {p}
    BY <1>1
  <2>2. UNION {SettlementLines(data, q) :
                 q \in {o \in DOMAIN data.payments : data.payments[o].order = p}}
          = SettlementLines(rows, p)
    BY <1>2, <2>1
  <2>3. ChainLength(data, p) = Cardinality(SettlementLines(rows, p))
    BY <2>2 DEF ChainLength
  <2>4. DOMAIN rows.lines = 1 .. Len(rows.lines) /\ Len(rows.lines) \in Nat
    BY TablesHoldRows DEF GeneratorInv
  <2>5. SettlementLines(rows, p) \subseteq 1 .. Len(rows.lines)
    BY <2>4 DEF SettlementLines
  <2>6. IsFiniteSet(SettlementLines(rows, p))
    <3>1. IsFiniteSet(1 .. Len(rows.lines))
      BY <2>4, FS_Interval
    <3>. QED  BY <2>5, <3>1, FS_Subset
  <2>7. PICK a, b \in DOMAIN rows.lines : SettlesOn(rows, p, a, b)
    BY <1>3 DEF Whole
  <2>8. a \in SettlementLines(rows, p)
    BY <2>7 DEF SettlesOn, PaymentLines
  <2>. QED  BY <2>3, <2>6, <2>8
<1>5. PaymentLines(rows, k) = SettlementLines(rows, k)
  BY <1>3 DEF PaymentLines, SettlementLines
<1>6. ~(Cardinality(PaymentLines(rows, k)) >= 2)
  BY <1>3 DEF Checked, NoiseIsAccountedFor
<1>7. Cardinality(SettlementLines(rows, c)) \in Nat \ {0}
  BY <1>4, FS_CardinalityType, FS_EmptySet
<1>8. Cardinality(SettlementLines(rows, k)) \in Nat
  BY <1>3, <1>4, FS_CardinalityType
<1>9. ~(ChainLength(data, c) < ChainLength(data, k))
  BY <1>3, <1>4, <1>5, <1>6, <1>7, <1>8
<1>. QED  BY <1>9 DEF SettledLess

LEMMA NominatedAreCopies ==
  ASSUME NotedInv
  PROVE  CopiesAreNamed
<1>. SUFFICES ASSUME Complete, NEW h \in Nominations(data), AutoConfirms(h, data, TRUE),
                     NEW k \in Copies(notes), k \in {h.evidence[1].id, h.evidence[2].id},
                     {h.evidence[1].id, h.evidence[2].id}
                        \cap TargetsOf("split_settlement", "SPLIT_SETTLEMENT") = {}
              PROVE  h.candidate \in Copies(notes)
  <2>1. TargetsOf("duplicate_ledger_rows", "DUPLICATE_CANDIDATE") = Copies(notes)
    BY DEF TargetsOf, Copies, Among
  <2>. QED  BY <2>1 DEF CopiesAreNamed
<1>1. /\ stage = "WRITTEN" /\ pass = "DONE" /\ history # <<>>
      /\ GeneratorInv /\ Checked /\ DOMAIN data.lines = DOMAIN rows.lines
  BY DEF Complete, DaysInv, NotedInv
<1>2. PICK day \in Int : data = DeliveredBy(day)
  BY <1>1, DataIsDelivered DEF NotedInv
<1>3. Verify(h, data).passed
  BY DEF AutoConfirms
<1>4. /\ h.candidate \in {h.evidence[1].id, h.evidence[2].id}
      /\ \A other \in {h.evidence[1].id, h.evidence[2].id} \ {h.candidate} :
            SettledLess(data, h.candidate, other)
      /\ \E r, s \in DOMAIN data.ledger :
            data.ledger[r].order = h.evidence[1].id /\ data.ledger[s].order = h.evidence[2].id
  BY <1>3, NominationVerified
<1>5. data.ledger = rows.ledger
  BY <1>1, <1>2, PaymentsAreWhole DEF NotedInv
<1>6. h.candidate \in DOMAIN rows.payments
  BY <1>4, <1>5 DEF Marked, NotedInv
<1>7. k \notin TargetsOf("split_settlement", "SPLIT_SETTLEMENT")
  OBVIOUS
<1>8. ~SettledLess(data, h.candidate, k)
  BY <1>1, <1>2, <1>6, <1>7, CopiesSettleLeast DEF NotedInv
<1>. QED  BY <1>4, <1>8

(* The model never names the wrong order of two: on complete data, for any *)
(* data set the generator writes, any noise and any days, a duplicate that *)
(* the verifier confirms of a copy is the copy, unless one was split.      *)
THEOREM CopiesStayNamed ==
  ASSUME CyclesAreShort, AmountDecides
  PROVE  PipelineSpec /\ []GeneratedIdsFit => []CopiesAreNamed
<1>1. PipelineInit => NotedInv
  BY NotedStart
<1>2. NotedInv /\ GeneratedIdsFit /\ [PipelineNext]_pipelineVars => NotedInv'
  BY NotedStepKeeps
<1>3. NotedInv => CopiesAreNamed
  BY NominatedAreCopies
<1>. QED  BY <1>1, <1>2, <1>3, PTL DEF PipelineSpec

-----------------------------------------------------------------------------
(* Once everything has come, what is known of a payment's case.            *)
LEMMA WholePaymentsAgree ==
  ASSUME GeneratorInv, Marked(rows), Whole(rows), Typed(data), NEW day \in Int,
         data = DeliveredBy(day), DOMAIN data.lines = DOMAIN rows.lines,
         NEW p \in DOMAIN rows.payments
  PROVE  LET facts == CaseFacts(data, p)
         IN  /\ facts.payment = rows.payments[p]
             /\ facts.payment.authorized \in Int /\ facts.payment.captured \in Int
             /\ facts.payment.capturedAt \in Int
             /\ facts.payment.captured =< facts.payment.authorized
             /\ facts.settledGross = facts.payment.captured /\ facts.hasLines
             /\ facts.settledDates = {rows.lines[l].settled : l \in PaymentLines(rows, p)}
             /\ facts.settledDates # {}
<1>1. /\ DOMAIN data.payments = DOMAIN rows.payments /\ data.payments[p] = rows.payments[p]
      /\ \A l \in DOMAIN rows.lines : data.lines[l] = rows.lines[l]
  BY PaymentsAreWhole
<1>2. /\ SettlementLines(data, p) = SettlementLines(rows, p)
      /\ PaymentLines(data, p) = PaymentLines(rows, p)
  BY <1>1, LinesAreAllThere
<1>3. /\ CaseFacts(data, p).payment = data.payments[p]
      /\ data.payments[p].authorized \in Int /\ data.payments[p].captured \in Int
      /\ data.payments[p].capturedAt \in Int
      /\ CaseFacts(data, p).settledGross = SettledGross(data, p)
      /\ CaseFacts(data, p).settledDates = SettledDates(data, p)
  BY <1>1, FactsAreAmounts
<1>4. CaseFacts(data, p).hasLines = (SettlementLines(data, p) # {})
  BY DEF CaseFacts
<1>5. PICK k \in DOMAIN rows.lines, l \in DOMAIN rows.lines : SettlesOn(rows, p, k, l)
  BY DEF Whole
<1>6. /\ PaymentLines(rows, p) = {k, l}
      /\ rows.lines[k].gross \in Nat /\ rows.lines[l].gross \in Nat
      /\ rows.payments[p].captured = IF k = l THEN rows.lines[k].gross
                                     ELSE rows.lines[k].gross + rows.lines[l].gross
      /\ rows.payments[p].captured =< rows.payments[p].authorized
  BY <1>5 DEF SettlesOn, Whole
<1>7. SettledGross(data, p) = rows.payments[p].captured
  <2>1. data.lines[k] = rows.lines[k] /\ data.lines[l] = rows.lines[l]
    BY <1>1
  <2>2. data.lines[k]["gross"] \in Int /\ data.lines[l]["gross"] \in Int
    BY <1>6, <2>1
  <2>3. SumOf(data.lines, {k, l}, "gross")
          = IF k = l THEN data.lines[k]["gross"] ELSE data.lines[k]["gross"] + data.lines[l]["gross"]
    BY <2>2, SumOfTwo
  <2>4. SettledGross(data, p) = SumOf(data.lines, {k, l}, "gross")
    BY <1>2, <1>6 DEF SettledGross
  <2>. QED  BY <1>6, <2>1, <2>3, <2>4
<1>8. SettledDates(data, p) = {rows.lines[x].settled : x \in PaymentLines(rows, p)}
  BY <1>1, <1>2 DEF SettledDates, PaymentLines, SettlementLines
<1>9. k \in PaymentLines(rows, p) /\ k \in SettlementLines(rows, p)
  <2>1. k \in PaymentLines(rows, p)
    BY <1>6
  <2>. QED  BY <2>1 DEF PaymentLines
<1>. DEFINE facts == CaseFacts(data, p)
<1>. HIDE DEF facts
<1>10. /\ facts.payment = rows.payments[p] /\ facts.settledGross = rows.payments[p].captured
       /\ facts.settledDates = {rows.lines[x].settled : x \in PaymentLines(rows, p)}
  BY <1>1, <1>3, <1>7, <1>8 DEF facts
<1>11. facts.hasLines
  BY <1>2, <1>4, <1>9 DEF facts
<1>12. facts.settledDates # {}
  BY <1>9, <1>10
<1>13. /\ facts.payment.authorized \in Int /\ facts.payment.captured \in Int
       /\ facts.payment.capturedAt \in Int
  BY <1>1, <1>3, <1>10
<1>14. facts.payment.captured =< facts.payment.authorized
  BY <1>6, <1>10
<1>. QED  BY <1>10, <1>11, <1>12, <1>13, <1>14 DEF facts

(* It is about timing exactly if the payment was deferred.                 *)
LEMMA DeferredIsTiming ==
  ASSUME GeneratorInv, Marked(rows), Whole(rows), Timely(rows, notes), Typed(data),
         NEW day \in Int, data = DeliveredBy(day), DOMAIN data.lines = DOMAIN rows.lines,
         NEW p \in DOMAIN rows.payments
  PROVE  TimingComponent(CaseFacts(data, p)) # {} <=> p \in Deferred(notes)
<1>. DEFINE facts == CaseFacts(data, p)
<1>1. /\ facts.payment = rows.payments[p] /\ facts.payment.capturedAt \in Int
      /\ facts.settledDates = {rows.lines[l].settled : l \in PaymentLines(rows, p)}
      /\ facts.settledDates # {}
  BY WholePaymentsAgree
<1>2. /\ PaymentLines(rows, p) \subseteq DOMAIN rows.lines
      /\ \A l \in DOMAIN rows.lines : IsWorkingDay(rows.lines[l].settled)
  BY DEF PaymentLines, SettlementLines, GeneratorInv, Wired, Timely
<1>3. PICK k \in DOMAIN rows.lines, l \in DOMAIN rows.lines : SettlesOn(rows, p, k, l)
  BY DEF Whole
<1>4. PaymentLines(rows, p) = {k, l}
  BY <1>3 DEF SettlesOn
<1>5. rows.lines[k].settled \in Int /\ rows.lines[l].settled \in Int
  BY TablesHoldRows DEF GeneratorInv, LineRow
<1>. HIDE DEF facts
<1>6. facts.settledDates = {rows.lines[k].settled, rows.lines[l].settled}
  BY <1>1, <1>4
<1>7. facts.settledDates \in SUBSET Int
  BY <1>5, <1>6
<1>8. \E end \in Int : \A s \in facts.settledDates : s =< end
  <2>1. CASE rows.lines[k].settled =< rows.lines[l].settled
    BY <1>5, <1>6, <2>1
  <2>2. CASE rows.lines[l].settled =< rows.lines[k].settled
    BY <1>5, <1>6, <2>2
  <2>. QED  BY <1>5, <2>1, <2>2
<1>9. PICK end \in Int : \A s \in facts.settledDates : s =< end
  BY <1>8
<1>10. NextWorkingDay(facts.payment.capturedAt) = DueOn(rows, p)
  BY <1>1 DEF DueOn
<1>11. /\ \A x \in PaymentLines(rows, p) : DueOn(rows, p) =< rows.lines[x].settled
       /\ p \in Deferred(notes)
            <=> \E x \in PaymentLines(rows, p) : rows.lines[x].settled # DueOn(rows, p)
  BY DEF Timely
<1>12. \A s \in facts.settledDates :
          NextWorkingDay(facts.payment.capturedAt) =< s /\ IsWorkingDay(s)
  BY <1>1, <1>2, <1>10, <1>11
<1>13. TimingComponent(facts) # {} <=> \E s \in facts.settledDates : s # DueOn(rows, p)
  BY <1>1, <1>7, <1>9, <1>10, <1>12, LateIsTiming
<1>14. TimingComponent(facts) # {} <=> p \in Deferred(notes)
  BY <1>1, <1>11, <1>13
<1>. QED  BY <1>14 DEF facts

(* The candidates of a whole ledger are the payments that are repeated.    *)
LEMMA CandidatesAreRepeated ==
  ASSUME GeneratorInv, Checked, Marked(rows), stage = "WRITTEN", NEW p \in DOMAIN rows.payments
  PROVE  p \in CandidateOrders(rows.ledger) <=> p \in Repeated
<1>. DEFINE ledger == rows.ledger
            copied == TargetsOf("duplicate_ledger_rows", "DUPLICATE_CONFIRMED")
            uncopied == {r \in DOMAIN ledger : ledger[r].order \notin ConfirmedOrders(ledger)}
            Same(r, s) == /\ ledger[s].order # ledger[r].order
                          /\ ledger[s].customer = ledger[r].customer
                          /\ ledger[s].gross = ledger[r].gross
<1>1. ConfirmedOrders(ledger) = copied
  <2>1. /\ DOMAIN ledger \subseteq Nat
        /\ \A i, j \in DOMAIN ledger : ledger[i].order = ledger[j].order => ledger[i] = ledger[j]
    BY TablesHoldRows DEF GeneratorInv, TwiceAtMost
  <2>2. copied = {ledger[r].order : r \in {s \in DOMAIN ledger : \E o \in DOMAIN ledger :
                     o # s /\ ledger[o].order = ledger[s].order}}
    BY DEF Checked, NoiseIsAccountedFor
  <2>. HIDE DEF ledger
  <2>3. ASSUME NEW r \in ConfirmedDuplicates(ledger)
        PROVE  ledger[r].order \in copied
    <3>1. PICK o \in DOMAIN ledger : r \in DOMAIN ledger /\ o < r /\ ledger[o] = ledger[r]
      BY DEF ConfirmedDuplicates
    <3>2. o # r
      BY <2>1, <3>1
    <3>. QED  BY <2>2, <3>1, <3>2
  <2>4. ASSUME NEW s \in DOMAIN ledger, NEW o \in DOMAIN ledger, o # s,
               ledger[o].order = ledger[s].order
        PROVE  ledger[s].order \in ConfirmedOrders(ledger)
    <3>1. ledger[o] = ledger[s] /\ ledger[s] = ledger[o]
      BY <2>1, <2>4
    <3>2. o < s \/ s < o
      BY <2>1, <2>4
    <3>3. s \in ConfirmedDuplicates(ledger) \/ o \in ConfirmedDuplicates(ledger)
      BY <3>1, <3>2 DEF ConfirmedDuplicates
    <3>. QED  BY <2>4, <3>3 DEF ConfirmedOrders
  <2>5. ASSUME NEW x \in copied
        PROVE  x \in ConfirmedOrders(ledger)
    BY <2>2, <2>4
  <2>6. ASSUME NEW x \in ConfirmedOrders(ledger)
        PROVE  x \in copied
    BY <2>3 DEF ConfirmedOrders
  <2>. HIDE DEF copied
  <2>. QED  BY <2>5, <2>6
<1>2. p \in CandidateOrders(ledger)
        <=> \E r \in uncopied : ledger[r].order = p /\ \E s \in uncopied : Same(r, s)
  BY DEF CandidateOrders
<1>3. \A r \in DOMAIN ledger : ledger[r].order \in DOMAIN rows.payments
  BY DEF Marked
<1>4. \A r \in DOMAIN ledger : r \in uncopied <=> ledger[r].order \notin copied
  BY <1>1
<1>. DEFINE alike(r, o) == /\ o.order # r.order
                           /\ o.customer = r.customer /\ o.gross = r.gross
            rowsOf(orders) == {ledger[r] : r \in {i \in DOMAIN ledger : ledger[i].order \in orders}}
<1>5. p \in Repeated
        <=> /\ p \notin copied
            /\ \E r \in rowsOf({p}), o \in rowsOf(DOMAIN rows.payments \ copied) : alike(r, o)
  BY DEF Repeated
<1>6. p \in Repeated
        <=> /\ p \notin copied
            /\ \E r \in DOMAIN ledger : ledger[r].order = p
                  /\ \E s \in DOMAIN ledger :
                        ledger[s].order \in DOMAIN rows.payments \ copied /\ Same(r, s)
  BY <1>5
<1>. HIDE DEF ledger, copied
<1>. QED  BY <1>2, <1>3, <1>4, <1>6 DEF ledger

(* So is every payment that was made again, in the ledger.                 *)
LEMMA CopiesAreRepeated ==
  ASSUME CopiesMatch(rows, notes), Marked(rows), NEW p \in Copies(notes)
  PROVE  p \in Repeated
<1>. DEFINE ledger == rows.ledger
            copied == TargetsOf("duplicate_ledger_rows", "DUPLICATE_CONFIRMED")
<1>1. copied = RowsCopied(notes)
  BY DEF TargetsOf, RowsCopied, Among
<1>2. p \in DOMAIN rows.payments \ copied
  BY <1>1 DEF CopiesMatch
<1>3. PICK q \in DOMAIN rows.payments \ copied : q # p /\ Like(rows, p, q)
  BY <1>1 DEF CopiesMatch
<1>4. PICK i \in DOMAIN ledger, j \in DOMAIN ledger :
        /\ ledger[i].order = p /\ ledger[j].order = q
        /\ ledger[i].customer = ledger[j].customer /\ ledger[i].gross = ledger[j].gross
  BY <1>3 DEF Like
<1>5. /\ ledger[i] \in {ledger[r] : r \in {x \in DOMAIN ledger : ledger[x].order \in {p}}}
      /\ ledger[j] \in {ledger[r] : r \in {x \in DOMAIN ledger :
                            ledger[x].order \in DOMAIN rows.payments \ copied}}
  BY <1>3, <1>4
<1>. HIDE DEF copied
<1>. QED  BY <1>2, <1>3, <1>4, <1>5 DEF Repeated, copied

(* The category the truth keeps of a case: the first in the precedence of  *)
(* those noted.                                                            *)
LEMMA DominantIsFirst ==
  ASSUME NEW annotations, NEW k \in DOMAIN CategoryPrecedence,
         \E a \in annotations : a.category = CategoryPrecedence[k],
         \A a \in annotations : \E j \in DOMAIN CategoryPrecedence :
            a.category = CategoryPrecedence[j] /\ k =< j
  PROVE  DominantCategory(annotations) = CategoryPrecedence[k]
<1>. DEFINE present == {a.category : a \in annotations}
            ranks == {j \in DOMAIN CategoryPrecedence : CategoryPrecedence[j] \in present}
<1>1. DOMAIN CategoryPrecedence = 1 .. 10
  BY DEF CategoryPrecedence
<1>2. k \in ranks /\ ranks \in SUBSET Nat
  BY <1>1
<1>3. ASSUME NEW j \in ranks
      PROVE  k =< j
  <2>1. PICK a \in annotations : a.category = CategoryPrecedence[j]
    OBVIOUS
  <2>2. PICK i \in DOMAIN CategoryPrecedence : a.category = CategoryPrecedence[i] /\ k =< i
    BY <2>1
  <2>3. i = j
    BY <1>1, <2>1, <2>2 DEF CategoryPrecedence
  <2>. QED  BY <2>2, <2>3
<1>4. First(ranks) \in ranks /\ First(ranks) =< k
  <2>. HIDE DEF ranks
  <2>. QED  BY <1>2, LeastNumber DEF First
<1>5. First(ranks) = k
  <2>. HIDE DEF ranks
  <2>. QED  BY <1>2, <1>3, <1>4
<1>6. DominantCategory(annotations)
        = IF ranks = {} THEN NoCategory ELSE CategoryPrecedence[First(ranks)]
  BY DEF DominantCategory
<1>. HIDE DEF ranks
<1>. QED  BY <1>2, <1>5, <1>6

(* The truth of a case that was not copied: a split whatever else it is,   *)
(* short before late.                                                      *)
Splits == TargetsOf("split_settlement", "SPLIT_SETTLEMENT")
Shorts == TargetsOf("partial_captures", "PARTIAL_CAPTURE")
Delays == TargetsOf("delayed_settlement", "T_PLUS_N_TIMING")

LEMMA TruthIsKnown ==
  ASSUME Told(rows, notes), NEW p, p \notin Copies(notes)
  PROVE  TruthCase(p).category =
            IF p \in Splits THEN "SPLIT_SETTLEMENT"
            ELSE IF p \in Shorts THEN "PARTIAL_CAPTURE"
            ELSE IF p \in Delays THEN "T_PLUS_N_TIMING" ELSE NoCategory
<1>. DEFINE noted == Noted("case", p)
            Has(noise, category) ==
                \E a \in notes : a.target = p /\ a.noise = noise /\ a.category = category
<1>1. ASSUME NEW a \in notes,
             a.noise \in {"partial_captures", "delayed_settlement", "split_settlement"}
      PROVE  a.kind = "case"
  BY <1>1 DEF Told, Known, TokenNoise
<1>2. ~Has("duplicate_ledger_rows", "DUPLICATE_CANDIDATE")
  BY DEF Copies, Among
<1>3. ASSUME NEW a \in noted
      PROVE  \/ a.category = "PARTIAL_CAPTURE" /\ Has("partial_captures", "PARTIAL_CAPTURE")
             \/ a.category = "T_PLUS_N_TIMING" /\ Has("delayed_settlement", "T_PLUS_N_TIMING")
             \/ a.category = "SPLIT_SETTLEMENT" /\ Has("split_settlement", "SPLIT_SETTLEMENT")
  <2>1. a \in notes /\ a.kind = "case" /\ a.target = p
    BY DEF Noted
  <2>2. <<a.noise, a.category>> \in CaseNotes
    BY <2>1 DEF Told, Known
  <2>. QED  BY <1>2, <2>1, <2>2 DEF CaseNotes
<1>4. ASSUME NEW noise \in {"partial_captures", "delayed_settlement", "split_settlement"},
             NEW category, Has(noise, category)
      PROVE  \E a \in noted : a.category = category
  BY <1>1, <1>4 DEF Noted
<1>5. /\ p \in Splits <=> Has("split_settlement", "SPLIT_SETTLEMENT")
      /\ p \in Shorts <=> Has("partial_captures", "PARTIAL_CAPTURE")
      /\ p \in Delays <=> Has("delayed_settlement", "T_PLUS_N_TIMING")
  BY DEF Splits, Shorts, Delays, TargetsOf
<1>6. /\ p \in Splits => \E a \in noted : a.category = "SPLIT_SETTLEMENT"
      /\ p \in Shorts => \E a \in noted : a.category = "PARTIAL_CAPTURE"
      /\ p \in Delays => \E a \in noted : a.category = "T_PLUS_N_TIMING"
  <2>. HIDE DEF Has, noted
  <2>. QED  BY <1>4, <1>5
<1>7. ASSUME NEW a \in noted
      PROVE  \/ a.category = "PARTIAL_CAPTURE" /\ p \in Shorts
             \/ a.category = "T_PLUS_N_TIMING" /\ p \in Delays
             \/ a.category = "SPLIT_SETTLEMENT" /\ p \in Splits
  <2>. HIDE DEF Has, noted
  <2>. QED  BY <1>3, <1>5
<1>8. TruthCase(p).category = DominantCategory(noted)
  BY DEF TruthCase
<1>9. /\ 3 \in DOMAIN CategoryPrecedence /\ CategoryPrecedence[3] = "SPLIT_SETTLEMENT"
      /\ 8 \in DOMAIN CategoryPrecedence /\ CategoryPrecedence[8] = "PARTIAL_CAPTURE"
      /\ 9 \in DOMAIN CategoryPrecedence /\ CategoryPrecedence[9] = "T_PLUS_N_TIMING"
  BY DEF CategoryPrecedence
<1>. HIDE DEF Has, noted
<1>10. CASE p \in Splits
  <2>1. \A a \in noted : \E j \in DOMAIN CategoryPrecedence :
            a.category = CategoryPrecedence[j] /\ 3 =< j
    BY <1>7, <1>9
  <2>2. DominantCategory(noted) = CategoryPrecedence[3]
    BY <1>6, <1>9, <1>10, <2>1, DominantIsFirst
  <2>. QED  BY <1>8, <1>9, <1>10, <2>2
<1>11. CASE p \notin Splits /\ p \in Shorts
  <2>1. \A a \in noted : \E j \in DOMAIN CategoryPrecedence :
            a.category = CategoryPrecedence[j] /\ 8 =< j
    BY <1>7, <1>9, <1>11
  <2>2. DominantCategory(noted) = CategoryPrecedence[8]
    BY <1>6, <1>9, <1>11, <2>1, DominantIsFirst
  <2>. QED  BY <1>8, <1>9, <1>11, <2>2
<1>12. CASE p \notin Splits /\ p \notin Shorts /\ p \in Delays
  <2>1. \A a \in noted : \E j \in DOMAIN CategoryPrecedence :
            a.category = CategoryPrecedence[j] /\ 9 =< j
    BY <1>7, <1>9, <1>12
  <2>2. DominantCategory(noted) = CategoryPrecedence[9]
    BY <1>6, <1>9, <1>12, <2>1, DominantIsFirst
  <2>. QED  BY <1>8, <1>9, <1>12, <2>2
<1>13. CASE p \notin Splits /\ p \notin Shorts /\ p \notin Delays
  <2>1. noted = {}
    BY <1>7, <1>13
  <2>2. DominantCategory({}) = NoCategory
    BY DEF DominantCategory
  <2>. QED  BY <1>8, <1>13, <2>1, <2>2
<1>. QED  BY <1>10, <1>11, <1>12, <1>13

(* What the engine makes of a case: open if it may be a duplicate, and     *)
(* else confirmed as short, as late, or as neither.                        *)
LEMMA ClassifiedAsNoted ==
  ASSUME NotedInv, Complete, NEW p \in DOMAIN cases
  PROVE  /\ (cases[p].status = "OPEN") <=> (p \in Repeated)
         /\ p \notin Repeated =>
              /\ cases[p].status = "CONFIRMED"
              /\ cases[p].category = IF p \in Shorts THEN "PARTIAL_CAPTURE"
                                     ELSE IF p \in Splits \union Delays THEN "T_PLUS_N_TIMING"
                                     ELSE NoCategory
         /\ p \in Shorts <=> rows.payments[p].captured < rows.payments[p].authorized
<1>1. /\ stage = "WRITTEN" /\ pass = "DONE" /\ history # <<>>
      /\ GeneratorInv /\ Checked /\ DOMAIN data.lines = DOMAIN rows.lines
      /\ Typed(data) /\ CasesAreClassified /\ Told(rows, notes)
  BY DEF Complete, DaysInv, DatedInv, RunInv, Readable, NotesInv, NotedInv
<1>2. Whole(rows) /\ Timely(rows, notes)
  BY <1>1 DEF Told
<1>3. PICK day \in Int : data = DeliveredBy(day)
  BY <1>1, DataIsDelivered DEF NotedInv
<1>. DEFINE facts == CaseFacts(data, p)
            isCandidate == data.payments[p].order \in CandidateOrders(data.ledger)
<1>4. p \in DOMAIN data.payments /\ cases[p] = ClassifyCase(facts, isCandidate)
  BY <1>1 DEF CasesAreClassified
<1>5. /\ p \in DOMAIN rows.payments /\ data.payments[p].order = p /\ data.ledger = rows.ledger
  BY <1>1, <1>3, <1>4, PaymentsAreWhole DEF NotedInv
<1>6. isCandidate <=> p \in Repeated
  BY <1>1, <1>5, CandidatesAreRepeated DEF NotedInv
<1>7. /\ facts.payment = rows.payments[p]
      /\ facts.payment.authorized \in Int /\ facts.payment.captured \in Int
      /\ facts.payment.captured =< facts.payment.authorized
      /\ facts.settledGross = facts.payment.captured /\ facts.hasLines
  BY <1>1, <1>2, <1>3, <1>5, WholePaymentsAgree DEF NotedInv
<1>8. TimingComponent(facts) # {} <=> p \in Deferred(notes)
  BY <1>1, <1>2, <1>3, <1>5, DeferredIsTiming DEF NotedInv
<1>9. Deferred(notes) = Splits \union Delays
  BY DEF Deferred, Splits, Delays, TargetsOf, Among
<1>10. facts.payment.captured < facts.payment.authorized <=> p \in Shorts
  BY <1>1, <1>5, <1>7 DEF Checked, NoiseIsAccountedFor, Shorts
<1>11. isCandidate \in BOOLEAN
  OBVIOUS
<1>. HIDE DEF facts, isCandidate
<1>12. /\ (ClassifyCase(facts, isCandidate).status = "OPEN") <=> isCandidate
       /\ ~isCandidate => /\ ClassifyCase(facts, isCandidate).status = "CONFIRMED"
                          /\ ClassifyCase(facts, isCandidate).category = Called(facts)
  BY <1>7, <1>11, ExplainedVerdict
<1>13. Called(facts) = IF p \in Shorts THEN "PARTIAL_CAPTURE"
                       ELSE IF p \in Splits \union Delays THEN "T_PLUS_N_TIMING" ELSE NoCategory
  BY <1>8, <1>9, <1>10 DEF Called
<1>. QED  BY <1>4, <1>6, <1>7, <1>10, <1>12, <1>13

(* So the engine and the truth disagree on the splits, and only there.     *)
LEMMA SplitsAreMistaken ==
  ASSUME NotedInv
  PROVE  FalseMatchesAreSplits
<1>. SUFFICES ASSUME Complete
              PROVE  /\ \A p \in DOMAIN cases : (cases[p].status = "OPEN") <=> (p \in Repeated)
                     /\ FalseMatches = {p \in DOMAIN cases :
                            /\ cases[p].status = "CONFIRMED"
                            /\ TruthCase(p).category = "SPLIT_SETTLEMENT"}
                     /\ \A p \in FalseMatches : cases[p].category =
                            IF rows.payments[p].captured < rows.payments[p].authorized
                            THEN "PARTIAL_CAPTURE" ELSE "T_PLUS_N_TIMING"
  BY DEF FalseMatchesAreSplits
<1>1. Told(rows, notes) /\ Marked(rows) /\ CopiesMatch(rows, notes)
  BY DEF NotedInv, NotesInv, Told
<1>2. ASSUME NEW p \in DOMAIN cases
      PROVE  /\ (cases[p].status = "OPEN") <=> (p \in Repeated)
             /\ cases[p].status = "CONFIRMED" =>
                  /\ TruthCase(p).category = "SPLIT_SETTLEMENT" <=> p \in Splits
                  /\ cases[p].category # TruthCase(p).category <=> p \in Splits
                  /\ p \in Splits => cases[p].category =
                        IF rows.payments[p].captured < rows.payments[p].authorized
                        THEN "PARTIAL_CAPTURE" ELSE "T_PLUS_N_TIMING"
  <2>1. (cases[p].status = "OPEN") <=> (p \in Repeated)
    BY ClassifiedAsNoted
  <2>2. ASSUME cases[p].status = "CONFIRMED"
        PROVE  /\ TruthCase(p).category = "SPLIT_SETTLEMENT" <=> p \in Splits
               /\ cases[p].category # TruthCase(p).category <=> p \in Splits
               /\ p \in Splits => cases[p].category =
                     IF rows.payments[p].captured < rows.payments[p].authorized
                     THEN "PARTIAL_CAPTURE" ELSE "T_PLUS_N_TIMING"
    <3>1. p \notin Repeated
      BY <2>1, <2>2
    <3>2. p \notin Copies(notes)
      BY <1>1, <3>1, CopiesAreRepeated
    <3>3. TruthCase(p).category =
            IF p \in Splits THEN "SPLIT_SETTLEMENT"
            ELSE IF p \in Shorts THEN "PARTIAL_CAPTURE"
            ELSE IF p \in Delays THEN "T_PLUS_N_TIMING" ELSE NoCategory
      BY <1>1, <3>2, TruthIsKnown
    <3>4. /\ cases[p].category = IF p \in Shorts THEN "PARTIAL_CAPTURE"
                                 ELSE IF p \in Splits \union Delays THEN "T_PLUS_N_TIMING"
                                 ELSE NoCategory
          /\ p \in Shorts <=> rows.payments[p].captured < rows.payments[p].authorized
      BY <3>1, ClassifiedAsNoted
    <3>. QED  BY <3>3, <3>4 DEF NoCategory
  <2>. QED  BY <2>1, <2>2
<1>3. FalseMatches = {p \in DOMAIN cases : /\ cases[p].status = "CONFIRMED"
                                           /\ TruthCase(p).category = "SPLIT_SETTLEMENT"}
  BY <1>2 DEF FalseMatches
<1>4. ASSUME NEW p \in FalseMatches
      PROVE  cases[p].category = IF rows.payments[p].captured < rows.payments[p].authorized
                                 THEN "PARTIAL_CAPTURE" ELSE "T_PLUS_N_TIMING"
  BY <1>2, <1>4 DEF FalseMatches
<1>. QED  BY <1>2, <1>3, <1>4

(* When everything has come, for any data set the generator writes,        *)
(* whatever the days, the noise and the tolerances: a case is open exactly *)
(* if it may be a duplicate, and the false matches population_a counts are *)
(* the confirmed split settlements, each under the category of the nearest *)
(* rule _classify_case has, which is never the truth's.                    *)
THEOREM FalseMatchesStaySplits ==
  ASSUME CyclesAreShort, AmountDecides
  PROVE  PipelineSpec /\ []GeneratedIdsFit => []FalseMatchesAreSplits
<1>1. PipelineInit => NotedInv
  BY NotedStart
<1>2. NotedInv /\ GeneratedIdsFit /\ [PipelineNext]_pipelineVars => NotedInv'
  BY NotedStepKeeps
<1>3. NotedInv => FalseMatchesAreSplits
  BY SplitsAreMistaken
<1>. QED  BY <1>1, <1>2, <1>3, PTL DEF PipelineSpec

-----------------------------------------------------------------------------
LEMMA NewRunServesOwn == Begun' => NamingInv'
<1>1. Begun => NamingInv
  BY BegunServesOwn
<1>. QED  BY <1>1, PTL

LEMMA NamingStepKeeps ==
  ASSUME NamesDiffer, DatedInv, NamingInv, GeneratedIdsFit, [PipelineNext]_pipelineVars
  PROVE  NamingInv'
<1>1. CASE [EngineNext]_engineVars
  BY <1>1, OwnStaysServed DEF DatedInv, RunInv, PipelineInv, Readable
<1>2. CASE Begun'
  BY <1>2, NewRunServesOwn
<1>3. CASE Unread
  <2>1. pass' = "FAILED"
    BY <1>3 DEF Unread
  <2>2. \A b : YetToCome(b)'
    BY <2>1 DEF YetToCome
  <2>3. Delivered' = Delivered /\ UNCHANGED <<data, links, remaining>>
    BY <1>3 DEF Unread, Delivered
  <2>4. OwnIsServed'
    BY <2>2, <2>3 DEF OwnIsServed, NamingInv
  <2>. QED  BY <2>1, <2>4 DEF NamingInv
<1>. QED  BY <1>1, <1>2, <1>3, PipelineStepCases DEF DatedInv, RunInv

LEMMA PipelineStaysNameless ==
  ASSUME GeneratorInv, NamelessInv, [PipelineNext]_pipelineVars
  PROVE  NamelessInv'
<1>1. CASE Generate
  BY <1>1, NamelessStepKeeps DEF Generate
<1>2. CASE ~Generate
  <2>1. rows' = rows /\ stage' = stage
    BY <1>2 DEF PipelineNext, RunFiles, RunDay, EngineStep, pipelineVars, generatorVars
  <2>. QED  BY <2>1 DEF NamelessInv
<1>. QED  BY <1>1, <1>2

(* What a report says of the data the engine was called on: every case is  *)
(* the verdict on it, a link is to a credit of the amount, and a batch has *)
(* the credit that alone names it in full.                                 *)
CaseAt(d, p) == ClassifyCase(CaseFacts(d, p), d.payments[p].order \in CandidateOrders(d.ledger))

LinkSays(link, d, b) ==
    link.credit # NoCredit =>
        /\ b \in DOMAIN d.batches /\ link.credit \in DOMAIN d.bank
        /\ d.bank[link.credit].direction = "CREDIT"
        /\ AmountAgrees(d.bank[link.credit], d.batches[b])

Says(report, d) ==
    /\ Typed(d) /\ DOMAIN report.cases = DOMAIN d.payments
    /\ \A p \in DOMAIN d.payments : report.cases[p] = CaseAt(d, p)
    /\ \A b \in BatchIds : LinkSays(report.links[b], d, b)
    /\ \A b \in DOMAIN d.batches, c \in CreditIds :
          NamesOnly(d, c, b) => report.links[b].credit = c

LEMMA ReportSays ==
  ASSUME RunInv, AmountsAgree, Reported, NamingInv, pass = "DONE"
  PROVE  Says(Report, data)
<1>1. Report.cases = cases /\ Report.links = links
  BY DEF Report
<1>2. DOMAIN cases = DOMAIN data.payments
  BY DEF Reported
<1>3. \A p \in DOMAIN data.payments : cases[p] = CaseAt(data, p)
  <2>1. CASE cases = <<>>
    BY <1>2, <2>1
  <2>2. CASE cases # <<>>
    BY <2>2 DEF RunInv, CasesAreClassified, CaseAt
  <2>. QED  BY <2>1, <2>2
<1>4. ASSUME NEW b \in BatchIds
      PROVE  LinkSays(links[b], data, b)
  <2>1. links[b] \in LinkOutcomes
    BY DEF RunInv, PipelineInv, EngineInv, EngineTypeOK
  <2>2. links[b].credit # NoCredit => links[b].status = "CONFIRMED" /\ links[b] # Undecided
    BY <2>1, OutcomeStatus
  <2>3. links[b] # Undecided => b \in Delivered
    BY DEF Reported
  <2>4. links[b].credit # NoCredit => b \in Settled
    BY <2>2, <2>3 DEF Settled
  <2>. QED  BY <2>3, <2>4 DEF LinkSays, Settled, Delivered, RunInv, EvidenceInv, LinkFallsDue,
                              AmountsAgree, CreditOf
<1>5. ASSUME NEW b \in DOMAIN data.batches, NEW c \in CreditIds, NamesOnly(data, c, b)
      PROVE  links[b].credit = c
  <2>1. ~YetToCome(b)
    BY DEF YetToCome, Early
  <2>. QED  BY <1>5, <2>1 DEF NamingInv, OwnIsServed, Delivered
<1>6. Typed(data)
  BY DEF RunInv, Readable
<1>. QED  BY <1>1, <1>2, <1>3, <1>4, <1>5, <1>6 DEF Says

ReportIsSaid == pass = "DONE" => Says(Report, data)

LEMMA NewReportSays ==
  RunInv' /\ AmountsAgree' /\ Reported' /\ NamingInv' => ReportIsSaid'
<1>1. RunInv /\ AmountsAgree /\ Reported /\ NamingInv => ReportIsSaid
  BY ReportSays DEF ReportIsSaid
<1>. QED  BY <1>1, PTL

(* On the generator's files every run so far said so of its day.           *)
SaidInv ==
    stage = "WRITTEN" => \A n \in DOMAIN history : Says(history[n], DeliveredBy(RunDays[n]))

LEMMA SaidStepKeeps ==
  ASSUME HistoryInv, SaidInv, [PipelineNext]_pipelineVars,
         pass' = "DONE" => Says(Report', data')
  PROVE  SaidInv'
<1>1. ASSUME UNCHANGED <<history, generatorVars>>
      PROVE  SaidInv'
  <2>1. history' = history /\ stage' = stage
    BY <1>1 DEF generatorVars
  <2>2. \A n : DeliveredBy(RunDays[n])' = DeliveredBy(RunDays[n])
    BY <1>1, DeliveryStands
  <2>. QED  BY <2>1, <2>2 DEF SaidInv
<1>2. CASE RunFiles \/ RunDay \/ UNCHANGED pipelineVars
  BY <1>1, <1>2 DEF RunFiles, RunDay, pipelineVars
<1>3. CASE Generate
  <2>1. /\ UNCHANGED history
        /\ stage \notin {"IDLE", "WRITTEN"}
    BY <1>3, GeneratorEnds DEF Generate
  <2>2. IsSequence(history) /\ DaysRun = 0
    BY <2>1 DEF HistoryInv
  <2>3. DOMAIN history' = {}
    BY <2>1, <2>2, SequencesGrow DEF DaysRun
  <2>. QED  BY <2>3 DEF SaidInv
<1>4. CASE EngineStep
  <2>1. /\ EngineNext /\ UNCHANGED <<generatorVars, stage>>
        /\ history' = IF pass' = "DONE" THEN Append(history, Report') ELSE history
    BY <1>4 DEF EngineStep, generatorVars
  <2>2. CASE pass' # "DONE" \/ stage # "WRITTEN"
    BY <1>1, <2>1, <2>2 DEF SaidInv
  <2>3. CASE pass' = "DONE" /\ stage = "WRITTEN"
    <3>1. data' = data /\ pass \notin {"DONE", "FAILED"}
      BY <2>1, EngineEnds
    <3>2. /\ IsSequence(history) /\ DaysRun \in Nat /\ DOMAIN history = 1 .. DaysRun
          /\ DaysRun < Len(RunDays)
          /\ \A n \in DOMAIN RunDays : n = DaysRun + 1 => data = DeliveredBy(RunDays[n])
      BY <2>3, <3>1, SequencesGrow DEF HistoryInv, DaysRun
    <3>3. /\ DOMAIN history' = 1 .. DaysRun + 1
          /\ \A n \in 1 .. DaysRun : history'[n] = history[n]
          /\ history'[DaysRun + 1] = Report'
      BY <2>1, <2>3, <3>2, SequencesGrow DEF DaysRun
    <3>4. Says(Report', DeliveredBy(RunDays[DaysRun + 1]))
      <4>1. DaysRun + 1 \in DOMAIN RunDays
        BY <3>2, RunDaysAreDays
      <4>. QED  BY <2>3, <3>1, <3>2, <4>1
    <3>5. \A n : DeliveredBy(RunDays[n])' = DeliveredBy(RunDays[n])
      BY <2>1, DeliveryStands
    <3>6. ASSUME NEW n \in 1 .. DaysRun + 1
          PROVE  Says(history'[n], DeliveredBy(RunDays[n]))
      <4>1. CASE n \in 1 .. DaysRun
        BY <2>3, <3>2, <3>3, <4>1 DEF SaidInv
      <4>2. CASE n = DaysRun + 1
        BY <3>3, <3>4, <4>2
      <4>. QED  BY <3>2, <4>1, <4>2
    <3>. QED  BY <3>3, <3>5, <3>6 DEF SaidInv
  <2>. QED  BY <2>2, <2>3
<1>. QED  BY <1>2, <1>3, <1>4 DEF PipelineNext

-----------------------------------------------------------------------------
LEMMA OnlyWritten ==
  ASSUME NEW day, NEW p \in DOMAIN DeliveredBy(day).payments
  PROVE  p \in DOMAIN rows.payments /\ DeliveredBy(day).payments[p] = rows.payments[p]
<1>. DEFINE come == DeliveredBy(day).payments
<1>1. come = [i \in PaymentsCome(day) |-> rows.payments[i]] /\ p \in DOMAIN come
  BY DeliveredRows
<1>. HIDE DEF come
<1>2. p \in DOMAIN rows.payments /\ come[p] = rows.payments[p]
  BY <1>1 DEF PaymentsCome
<1>. QED  BY <1>2 DEF come

(* Of the lines a payment settles on some have come, later more, and then  *)
(* no more is settled than was captured.                                   *)
LEMMA LinesOfDay ==
  ASSUME GeneratorInv, Marked(rows), Whole(rows), NEW day \in Int, Typed(DeliveredBy(day)),
         NEW p \in DOMAIN DeliveredBy(day).payments,
         NEW k, NEW l, SettlesOn(rows, p, k, l)
  PROVE  /\ p \in DOMAIN rows.payments
         /\ DeliveredBy(day).payments[p] = rows.payments[p]
         /\ CaseFacts(DeliveredBy(day), p).payment = rows.payments[p]
         /\ CaseFacts(DeliveredBy(day), p).hasLines <=> SettlementLines(rows, p) \cap LinesCome(day) # {}
         /\ CaseFacts(DeliveredBy(day), p).settledGross
              = Present(k, LinesCome(day), rows.lines[k].gross)
                  + (IF k = l THEN 0 ELSE Present(l, LinesCome(day), rows.lines[l].gross))
<1>. DEFINE d == DeliveredBy(day)
<1>1. /\ d.payments = [i \in PaymentsCome(day) |-> rows.payments[i]]
      /\ d.lines = [i \in LinesCome(day) |-> rows.lines[i]]
      /\ PaymentsCome(day) \subseteq DOMAIN rows.payments
      /\ LinesCome(day) \subseteq DOMAIN rows.lines
  BY DeliveredRows DEF PaymentsCome, LinesCome
<1>2. Typed(d) /\ p \in DOMAIN d.payments
  OBVIOUS
<1>. HIDE DEF d
<1>3. p \in DOMAIN rows.payments /\ d.payments[p] = rows.payments[p]
  BY <1>1, <1>2
<1>4. DOMAIN d.lines = LinesCome(day) /\ \A i \in LinesCome(day) : d.lines[i] = rows.lines[i]
  BY <1>1
<1>5. /\ SettlementLines(d, p) = SettlementLines(rows, p) \cap LinesCome(day)
      /\ PaymentLines(d, p) = PaymentLines(rows, p) \cap LinesCome(day)
  BY <1>1, <1>4 DEF SettlementLines, PaymentLines
<1>6. CaseFacts(d, p).hasLines = (SettlementLines(d, p) # {})
  BY DEF CaseFacts
<1>7. /\ CaseFacts(d, p).payment = d.payments[p]
      /\ CaseFacts(d, p).settledGross = SettledGross(d, p)
  BY <1>2, FactsAreAmounts
<1>8. /\ PaymentLines(rows, p) = {k, l}
      /\ rows.lines[k].gross \in Nat /\ rows.lines[l].gross \in Nat
  BY DEF SettlesOn
<1>. DEFINE ids == PaymentLines(d, p)
<1>9. ids = {k, l} \cap LinesCome(day)
  BY <1>5, <1>8
<1>. HIDE DEF ids
<1>10. /\ ids \subseteq {k, l}
       /\ \A i \in ids : d.lines[i]["gross"] = rows.lines[i].gross
       /\ \A i \in ids : d.lines[i]["gross"] \in Int
  BY <1>4, <1>8, <1>9
<1>11. /\ k # l => SumOf(d.lines, ids, "gross")
                      = Present(k, ids, d.lines[k]["gross"]) + Present(l, ids, d.lines[l]["gross"])
       /\ k = l => SumOf(d.lines, ids, "gross") = Present(k, ids, d.lines[k]["gross"])
  <2>. DEFINE table == d.lines
  <2>1. \A i \in ids : table[i]["gross"] \in Int
    BY <1>10
  <2>2. ids \ {k, l} = {}
    BY <1>10
  <2>. HIDE DEF table
  <2>3. ASSUME k # l
        PROVE  SumOf(table, ids, "gross")
                 = Present(k, ids, table[k]["gross"]) + Present(l, ids, table[l]["gross"])
    <3>1. ids \subseteq {k, l}
      BY <2>2
    <3>. QED  BY <2>1, <2>3, <3>1, SumOfPair
  <2>4. ASSUME k = l
        PROVE  SumOf(table, ids, "gross") = Present(k, ids, table[k]["gross"])
    <3>1. ids \subseteq {k}
      BY <2>2, <2>4
    <3>. QED  BY <2>1, <3>1, SumOfAtMostOne
  <2>. QED  BY <2>3, <2>4 DEF table
<1>12. /\ Present(k, ids, d.lines[k]["gross"]) = Present(k, LinesCome(day), rows.lines[k].gross)
       /\ Present(l, ids, d.lines[l]["gross"]) = Present(l, LinesCome(day), rows.lines[l].gross)
  BY <1>9, <1>10 DEF Present
<1>13. SettledGross(d, p)
         = Present(k, LinesCome(day), rows.lines[k].gross)
             + (IF k = l THEN 0 ELSE Present(l, LinesCome(day), rows.lines[l].gross))
  <2>1. SettledGross(d, p) = SumOf(d.lines, ids, "gross")
    BY DEF SettledGross, ids
  <2>2. Present(k, LinesCome(day), rows.lines[k].gross) \in Int
    BY <1>8 DEF Present
  <2>. QED  BY <1>11, <1>12, <2>1, <2>2
<1>. QED  BY <1>3, <1>5, <1>6, <1>7, <1>13 DEF d

LEMMA MoreIsSettled ==
  ASSUME GeneratorInv, Marked(rows), Whole(rows), NEW day \in Int, NEW later \in Int, day =< later,
         Typed(DeliveredBy(day)), Typed(DeliveredBy(later)),
         NEW p \in DOMAIN DeliveredBy(day).payments
  PROVE  LET facts == CaseFacts(DeliveredBy(day), p)
             more == CaseFacts(DeliveredBy(later), p)
         IN  /\ facts.payment = rows.payments[p] /\ more.payment = rows.payments[p]
             /\ rows.payments[p].authorized \in Int /\ rows.payments[p].captured \in Int
             /\ rows.payments[p].captured =< rows.payments[p].authorized
             /\ facts.settledGross \in Int /\ more.settledGross \in Int
             /\ facts.settledGross =< more.settledGross
             /\ more.settledGross =< rows.payments[p].captured
             /\ facts.hasLines => more.hasLines
<1>. DEFINE facts == CaseFacts(DeliveredBy(day), p)
            more == CaseFacts(DeliveredBy(later), p)
<1>1. p \in DOMAIN DeliveredBy(later).payments
  BY DeliveriesGrow DEF PartOf
<1>2. p \in DOMAIN rows.payments
  BY OnlyWritten
<1>3. PICK k \in DOMAIN rows.lines, l \in DOMAIN rows.lines : SettlesOn(rows, p, k, l)
  BY <1>2 DEF Whole
<1>. DEFINE first == rows.lines[k].gross
            second == rows.lines[l].gross
<1>4. LinesCome(day) \subseteq LinesCome(later)
  BY NothingIsTakenBack
<1>5. /\ facts.payment = rows.payments[p]
      /\ DeliveredBy(day).payments[p] = rows.payments[p]
      /\ facts.hasLines <=> SettlementLines(rows, p) \cap LinesCome(day) # {}
      /\ facts.settledGross = Present(k, LinesCome(day), first)
                                + (IF k = l THEN 0 ELSE Present(l, LinesCome(day), second))
  BY <1>3, LinesOfDay
<1>6. /\ more.payment = rows.payments[p]
      /\ more.hasLines <=> SettlementLines(rows, p) \cap LinesCome(later) # {}
      /\ more.settledGross = Present(k, LinesCome(later), first)
                               + (IF k = l THEN 0 ELSE Present(l, LinesCome(later), second))
  BY <1>1, <1>3, LinesOfDay
<1>7. /\ first \in Nat /\ second \in Nat
      /\ rows.payments[p].captured = IF k = l THEN first ELSE first + second
      /\ rows.payments[p].captured =< rows.payments[p].authorized
  BY <1>2, <1>3 DEF SettlesOn, Whole
<1>8. rows.payments[p].authorized \in Int /\ rows.payments[p].captured \in Int
  BY <1>5, FactsAreAmounts
<1>9. facts.hasLines => more.hasLines
  BY <1>4, <1>5, <1>6
<1>. HIDE DEF facts, more, first, second
<1>10. /\ Present(k, LinesCome(day), first) \in Nat /\ Present(l, LinesCome(day), second) \in Nat
       /\ Present(k, LinesCome(later), first) \in Nat /\ Present(l, LinesCome(later), second) \in Nat
       /\ Present(k, LinesCome(day), first) =< Present(k, LinesCome(later), first)
       /\ Present(l, LinesCome(day), second) =< Present(l, LinesCome(later), second)
       /\ Present(k, LinesCome(later), first) =< first
       /\ Present(l, LinesCome(later), second) =< second
  BY <1>4, <1>7 DEF Present
<1>11. /\ facts.settledGross \in Int /\ more.settledGross \in Int
       /\ facts.settledGross =< more.settledGross
       /\ more.settledGross =< rows.payments[p].captured
  <2>1. CASE k = l
    BY <1>5, <1>6, <1>7, <1>10, <2>1
  <2>2. CASE k # l
    BY <1>5, <1>6, <1>7, <1>10, <2>2
  <2>. QED  BY <2>1, <2>2
<1>12. rows.payments[p].captured =< rows.payments[p].authorized
  BY <1>7
<1>. QED  BY <1>5, <1>6, <1>8, <1>9, <1>11, <1>12 DEF facts, more

(* A row of the ledger comes with its copy: what looks like a duplicate of *)
(* what has come is one of the whole ledger.                               *)
LEMMA CandidatesStay ==
  ASSUME GeneratorInv, NEW day \in Int
  PROVE  CandidateOrders(DeliveredBy(day).ledger) \subseteq CandidateOrders(rows.ledger)
<1>. DEFINE ledger == rows.ledger
            come == DeliveredBy(day).ledger
            Sole(rs) == {r \in DOMAIN rs : rs[r].order \notin ConfirmedOrders(rs)}
<1>1. /\ come = [i \in LedgerCome(day) |-> ledger[i]] /\ LedgerCome(day) \subseteq DOMAIN ledger
  BY DeliveredRows DEF LedgerCome
<1>2. \A i, j \in DOMAIN ledger : ledger[i].order = ledger[j].order => ledger[i] = ledger[j]
  BY DEF GeneratorInv, TwiceAtMost
<1>3. \A i : <<"ledger", i>> \notin DOMAIN lags
  BY DEF GeneratorInv, Late
<1>4. ASSUME NEW i \in LedgerCome(day), NEW j \in DOMAIN ledger, ledger[j] = ledger[i]
      PROVE  j \in LedgerCome(day)
  BY <1>3, <1>4 DEF LedgerCome, ArrivalDay
<1>. HIDE DEF ledger, come
<1>5. DOMAIN come = LedgerCome(day) /\ \A i \in LedgerCome(day) : come[i] = ledger[i]
  BY <1>1
<1>6. ASSUME NEW r \in DOMAIN come, come[r].order \in ConfirmedOrders(ledger)
      PROVE  come[r].order \in ConfirmedOrders(come)
  <2>1. PICK i \in ConfirmedDuplicates(ledger) : come[r].order = ledger[i].order
    BY <1>6 DEF ConfirmedOrders
  <2>2. i \in DOMAIN ledger /\ \E o \in DOMAIN ledger : o < i /\ ledger[o] = ledger[i]
    BY DEF ConfirmedDuplicates
  <2>3. PICK o \in DOMAIN ledger : o < i /\ ledger[o] = ledger[i]
    BY <2>2
  <2>4. r \in LedgerCome(day) /\ r \in DOMAIN ledger /\ come[r] = ledger[r]
    BY <1>1, <1>5
  <2>5. ledger[i] = ledger[r] /\ ledger[o] = ledger[r]
    BY <1>2, <2>1, <2>2, <2>3, <2>4
  <2>6. i \in DOMAIN come /\ o \in DOMAIN come /\ come[i] = ledger[i] /\ come[o] = ledger[o]
    BY <1>4, <1>5, <2>2, <2>3, <2>4, <2>5
  <2>7. i \in ConfirmedDuplicates(come)
    BY <2>3, <2>6 DEF ConfirmedDuplicates
  <2>. QED  BY <2>4, <2>5, <2>6, <2>7 DEF ConfirmedOrders
<1>7. ASSUME NEW r \in Sole(come)
      PROVE  r \in Sole(ledger) /\ come[r] = ledger[r]
  BY <1>1, <1>5, <1>6
<1>8. CandidateOrders(come) = {come[r].order : r \in {s \in Sole(come) : \E o \in Sole(come) :
          /\ come[o].order # come[s].order /\ come[o].customer = come[s].customer
          /\ come[o].gross = come[s].gross}}
  BY DEF CandidateOrders
<1>9. CandidateOrders(ledger) = {ledger[r].order : r \in {s \in Sole(ledger) :
          \E o \in Sole(ledger) :
             /\ ledger[o].order # ledger[s].order /\ ledger[o].customer = ledger[s].customer
             /\ ledger[o].gross = ledger[s].gross}}
  BY DEF CandidateOrders
<1>. HIDE DEF Sole
<1>10. CandidateOrders(come) \subseteq CandidateOrders(ledger)
  <2>. SUFFICES ASSUME NEW x \in CandidateOrders(come)
                PROVE  x \in CandidateOrders(ledger)
    OBVIOUS
  <2>1. PICK r \in Sole(come), o \in Sole(come) :
          /\ x = come[r].order
          /\ come[o].order # come[r].order /\ come[o].customer = come[r].customer
          /\ come[o].gross = come[r].gross
    BY <1>8
  <2>2. /\ r \in Sole(ledger) /\ o \in Sole(ledger)
        /\ come[r] = ledger[r] /\ come[o] = ledger[o]
    BY <1>7
  <2>. QED  BY <1>9, <2>1, <2>2
<1>. QED  BY <1>10 DEF come, ledger

(* A case that one day confirms a later one does, unless its order is one  *)
(* of several alike.                                                       *)
LEMMA ConfirmationKept ==
  ASSUME GeneratorInv, Checked, Marked(rows), Whole(rows), stage = "WRITTEN",
         NEW day \in Int, NEW later \in Int, day =< later,
         Typed(DeliveredBy(day)), Typed(DeliveredBy(later)),
         NEW p \in DOMAIN DeliveredBy(day).payments,
         CaseAt(DeliveredBy(day), p).status = "CONFIRMED"
  PROVE  CaseAt(DeliveredBy(later), p).status = "CONFIRMED" \/ p \in Repeated
<1>. DEFINE d == DeliveredBy(day)
            e == DeliveredBy(later)
            facts == CaseFacts(d, p)
            more == CaseFacts(e, p)
            before == d.payments[p].order \in CandidateOrders(d.ledger)
            after == e.payments[p].order \in CandidateOrders(e.ledger)
<1>1. /\ facts.payment = rows.payments[p] /\ more.payment = rows.payments[p]
      /\ rows.payments[p].authorized \in Int /\ rows.payments[p].captured \in Int
      /\ rows.payments[p].captured =< rows.payments[p].authorized
      /\ facts.settledGross \in Int /\ more.settledGross \in Int
      /\ facts.settledGross =< more.settledGross
      /\ more.settledGross =< rows.payments[p].captured
      /\ facts.hasLines => more.hasLines
  BY MoreIsSettled
<1>2. p \in DOMAIN rows.payments /\ e.payments[p] = rows.payments[p]
  <2>1. p \in DOMAIN e.payments
    BY DeliveriesGrow DEF PartOf
  <2>2. more.payment = e.payments[p]
    BY <2>1, FactsAreAmounts
  <2>3. p \in DOMAIN rows.payments
    BY OnlyWritten
  <2>. QED  BY <1>1, <2>2, <2>3
<1>3. after => p \in Repeated
  <2>1. e.payments[p].order = p
    BY <1>2 DEF Marked
  <2>2. CandidateOrders(e.ledger) \subseteq CandidateOrders(rows.ledger)
    BY CandidatesStay
  <2>3. p \in CandidateOrders(rows.ledger) <=> p \in Repeated
    BY <1>2, CandidatesAreRepeated
  <2>. QED  BY <2>1, <2>2, <2>3
<1>4. ClassifyCase(facts, before).status = "CONFIRMED"
  BY DEF CaseAt
<1>5. before \in BOOLEAN /\ after \in BOOLEAN
  OBVIOUS
<1>6. CaseAt(e, p) = ClassifyCase(more, after)
  BY DEF CaseAt
<1>. HIDE DEF d, e, facts, more, before, after
<1>7. facts.hasLines /\ WithinTolerance(facts)
  BY <1>1, <1>4, <1>5, ConfirmedMeansSettled
<1>8. WithinTolerance(more)
  <2>1. RoundingTolerance \in Int
    BY ConfigAssumption DEF ValidConfig, ValidTolerance
  <2>. QED  BY <1>1, <1>7, <2>1 DEF WithinTolerance, Magnitude
<1>9. ~after => ClassifyCase(more, after).status = "CONFIRMED"
  BY <1>1, <1>5, <1>7, <1>8, ConfirmedMeansSettled
<1>. QED  BY <1>3, <1>6, <1>9 DEF e

(* Of the generator's credits only a batch's own names it in full.         *)
LEMMA CreditsNameTheirOwn ==
  ASSUME UtrsDiffer, GeneratorInv, Marked(rows), NamelessInv, GeneratedIdsFit, stage = "WRITTEN",
         NEW day, Typed(DeliveredBy(day)), NEW b \in DOMAIN DeliveredBy(day).batches,
         NEW c \in DOMAIN DeliveredBy(day).bank,
         CarriesUtr(DeliveredBy(day).bank[c].token, DeliveredBy(day).batches[b].utr)
  PROVE  c = CreditId(b)
<1>. DEFINE d == DeliveredBy(day)
<1>1. /\ d.batches = [i \in BatchesCome(day) |-> rows.batches[i]]
      /\ d.bank = [i \in CreditIdsCome(day) |-> WrittenBank[i]]
      /\ BatchesCome(day) \subseteq DOMAIN rows.batches
      /\ CreditsCome(day) \subseteq DOMAIN rows.bank
  BY DeliveredRows DEF BatchesCome, CreditsCome
<1>2. /\ d.bank[c].token \in Tokens /\ d.batches[b].utr \in Utrs
      /\ CarriesUtr(d.bank[c].token, d.batches[b].utr)
  BY DEF Typed
<1>3. b \in DOMAIN d.batches /\ c \in DOMAIN d.bank
  OBVIOUS
<1>. HIDE DEF d
<1>4. /\ b \in DOMAIN rows.batches /\ d.batches[b] = rows.batches[b]
      /\ c \in CreditIdsCome(day) /\ d.bank[c] = WrittenBank[c]
  BY <1>1, <1>3
<1>5. PICK k \in DOMAIN rows.bank : c = CreditId(k)
  BY <1>1, <1>4 DEF CreditIdsCome
<1>6. d.bank[c].token = rows.bank[k].token
  <2>1. WrittenBank[c] = [rows.bank[k] EXCEPT !.amount = WrittenAmount(k)]
    BY <1>5, CreditIsWritten
  <2>2. rows.bank[k] \in BankRow
    BY TablesHoldRows DEF GeneratorInv
  <2>. QED  BY <1>4, <2>1, <2>2 DEF BankRow
<1>7. rows.bank[k].token.kind = "PREFIX" /\ rows.bank[k].token.of = rows.batches[b].utr
  BY <1>2, <1>4, <1>6, CarriedUtr
<1>8. rows.bank[k].token # NoToken
  BY <1>7 DEF NoToken
<1>9. k \in DOMAIN rows.batches
  BY <1>8 DEF NamelessInv, Withholding
<1>10. rows.batches[k].utr = rows.batches[b].utr
  BY <1>7, <1>8, <1>9 DEF Marked, OwnToken
<1>11. \A i \in DOMAIN rows.batches : rows.batches[i].utr = UtrOf[i] /\ i \in BatchIds
  BY DEF GeneratorInv, Wired, GeneratedIdsFit, Fits
<1>12. k = b
  BY <1>4, <1>9, <1>10, <1>11 DEF UtrsDiffer
<1>. QED  BY <1>5, <1>12

LEMMA NameKept ==
  ASSUME UtrsDiffer, GeneratorInv, Marked(rows), NamelessInv, GeneratedIdsFit, stage = "WRITTEN",
         NEW day \in Int, NEW later \in Int, day =< later,
         NEW report, Says(report, DeliveredBy(day)),
         NEW other, Says(other, DeliveredBy(later)),
         NEW b \in BatchIds, report.links[b].credit # NoCredit,
         CarriesUtr(WrittenBank[report.links[b].credit].token, rows.batches[b].utr)
  PROVE  other.links[b].credit = report.links[b].credit
<1>. DEFINE d == DeliveredBy(day)
            e == DeliveredBy(later)
            c == report.links[b].credit
<1>1. /\ b \in DOMAIN d.batches /\ c \in DOMAIN d.bank
      /\ d.bank[c].direction = "CREDIT" /\ AmountAgrees(d.bank[c], d.batches[b])
  BY DEF Says, LinkSays
<1>2. PartOf(d, e)
  BY DeliveriesGrow
<1>3. /\ d.batches = [i \in BatchesCome(day) |-> rows.batches[i]]
      /\ d.bank = [i \in CreditIdsCome(day) |-> WrittenBank[i]]
  BY DeliveredRows
<1>4. Typed(e)
  BY DEF Says
<1>5. \A k \in DOMAIN e.bank : b \in DOMAIN e.batches /\ CarriesUtr(e.bank[k].token, e.batches[b].utr)
                                 => k = CreditId(b)
  BY <1>4, CreditsNameTheirOwn
<1>6. DOMAIN e.bank \subseteq CreditIds
  BY DeliveredFits DEF Fits
<1>7. \A k \in CreditIds : b \in DOMAIN e.batches /\ NamesOnly(e, k, b) => other.links[b].credit = k
  BY DEF Says
<1>8. CarriesUtr(WrittenBank[c].token, rows.batches[b].utr)
  OBVIOUS
<1>. HIDE DEF d, e, c
<1>9. d.batches[b] = rows.batches[b] /\ d.bank[c] = WrittenBank[c]
  BY <1>1, <1>3
<1>10. /\ b \in DOMAIN e.batches /\ c \in DOMAIN e.bank
       /\ e.batches[b] = d.batches[b] /\ e.bank[c] = d.bank[c]
  BY <1>1, <1>2 DEF PartOf
<1>11. NamesOnly(e, c, b)
  BY <1>1, <1>5, <1>8, <1>9, <1>10 DEF NamesOnly
<1>12. other.links[b].credit = c
  BY <1>6, <1>7, <1>10, <1>11
<1>. QED  BY <1>12 DEF c

(* What the days confirm of a data set that is only added to.              *)
ConfirmedInv == NotedInv /\ NamesDiffer /\ NamingInv /\ NamelessInv /\ SaidInv

LEMMA ConfirmedStart ==
  ASSUME PipelineInit
  PROVE  ConfirmedInv
<1>1. data = NoData /\ history = <<>> /\ stage \in {"IDLE", "BUILD"}
  BY DEF PipelineInit, EngineAtRest, Fresh, GeneratorInit
<1>2. NamesDiffer
  BY <1>1 DEF NamesDiffer, Delivered, NoData
<1>3. NamingInv
  BY PipelineHasBegun, BegunServesOwn
<1>4. NamelessInv /\ SaidInv
  BY <1>1 DEF NamelessInv, Withholding, SaidInv
<1>. QED  BY <1>2, <1>3, <1>4, NotedStart DEF ConfirmedInv

LEMMA ConfirmedStepKeeps ==
  ASSUME CyclesAreShort, AmountDecides, UtrsDiffer,
         ConfirmedInv, GeneratedIdsFit, [PipelineNext]_pipelineVars
  PROVE  ConfirmedInv'
<1>1. NotedInv'
  BY NotedStepKeeps DEF ConfirmedInv
<1>2. NamesDiffer'
  BY NamesStayDifferent DEF ConfirmedInv, NotedInv, DaysInv, DatedInv, RunInv
<1>3. NamingInv'
  BY NamingStepKeeps DEF ConfirmedInv, NotedInv, DaysInv
<1>4. NamelessInv'
  BY PipelineStaysNameless DEF ConfirmedInv, NotedInv, DaysInv
<1>5. SaidInv'
  <2>1. RunInv' /\ AmountsAgree' /\ Reported'
    BY <1>1 DEF NotedInv, DaysInv, DatedInv
  <2>2. pass' = "DONE" => Says(Report', data')
    BY <1>3, <2>1, NewReportSays DEF ReportIsSaid
  <2>. QED  BY <2>2, SaidStepKeeps DEF ConfirmedInv, NotedInv, DaysInv
<1>. QED  BY <1>1, <1>2, <1>3, <1>4, <1>5 DEF ConfirmedInv

LEMMA ConfirmedStand ==
  ASSUME UtrsDiffer, ConfirmedInv, GeneratedIdsFit
  PROVE  ConfirmationsStand
<1>. SUFFICES ASSUME stage = "WRITTEN", NEW m \in DOMAIN history, NEW n \in DOMAIN history, m < n
              PROVE  /\ \A p \in DOMAIN history[m].cases :
                           history[m].cases[p].status = "CONFIRMED"
                             => history[n].cases[p].status = "CONFIRMED" \/ p \in Repeated
                     /\ \A b \in BatchIds :
                           LET credit == history[m].links[b].credit
                           IN  credit # NoCredit
                                 /\ CarriesUtr(WrittenBank[credit].token, rows.batches[b].utr)
                                 => history[n].links[b].credit = credit
  BY DEF ConfirmationsStand
<1>1. /\ GeneratorInv /\ Checked /\ Marked(rows) /\ Whole(rows) /\ NamelessInv /\ HistoryInv
  BY DEF ConfirmedInv, NotedInv, DaysInv, NotesInv, Told
<1>2. /\ Says(history[m], DeliveredBy(RunDays[m])) /\ Says(history[n], DeliveredBy(RunDays[n]))
  BY DEF ConfirmedInv, SaidInv
<1>3. RunDays[m] \in Int /\ RunDays[n] \in Int /\ RunDays[m] =< RunDays[n]
  <2>1. IsSequence(history) /\ DaysRun =< Len(RunDays)
    BY <1>1 DEF HistoryInv
  <2>2. DaysRun \in Nat /\ DOMAIN history = 1 .. DaysRun
    BY <2>1, SequencesGrow DEF DaysRun
  <2>3. m \in 1 .. Len(RunDays) /\ n \in 1 .. Len(RunDays)
    BY <2>1, <2>2, RunDaysAreDays
  <2>. QED  BY <2>3, RunDaysAreDays
<1>. DEFINE day == RunDays[m]
            later == RunDays[n]
<1>4. day \in Int /\ later \in Int /\ day =< later
  BY <1>3
<1>5. Says(history[m], DeliveredBy(day)) /\ Says(history[n], DeliveredBy(later))
  BY <1>2
<1>. HIDE DEF day, later
<1>6. ASSUME NEW p \in DOMAIN history[m].cases, history[m].cases[p].status = "CONFIRMED"
      PROVE  history[n].cases[p].status = "CONFIRMED" \/ p \in Repeated
  <2>1. /\ p \in DOMAIN DeliveredBy(day).payments
        /\ history[m].cases[p] = CaseAt(DeliveredBy(day), p)
        /\ Typed(DeliveredBy(day)) /\ Typed(DeliveredBy(later))
    BY <1>5 DEF Says
  <2>2. p \in DOMAIN DeliveredBy(later).payments
    BY <1>1, <1>4, <2>1, DeliveriesGrow DEF PartOf
  <2>3. history[n].cases[p] = CaseAt(DeliveredBy(later), p)
    BY <1>5, <2>2 DEF Says
  <2>4. CaseAt(DeliveredBy(day), p).status = "CONFIRMED"
    BY <1>6, <2>1
  <2>5. CaseAt(DeliveredBy(later), p).status = "CONFIRMED" \/ p \in Repeated
    BY <1>1, <1>4, <2>1, <2>4, ConfirmationKept
  <2>. QED  BY <2>3, <2>5
<1>7. ASSUME NEW b \in BatchIds, history[m].links[b].credit # NoCredit,
             CarriesUtr(WrittenBank[history[m].links[b].credit].token, rows.batches[b].utr)
      PROVE  history[n].links[b].credit = history[m].links[b].credit
  BY <1>1, <1>4, <1>5, <1>7, NameKept
<1>. QED  BY <1>6, <1>7

(* The engine takes nothing back that the store would not: on whatever the *)
(* generator writes, over any days, a case once confirmed is confirmed by  *)
(* every later run unless orders like it have come, and a batch keeps the  *)
(* credit that names it in full, where P8 links nothing whose amounts do   *)
(* not agree and no two UTRs are the same.                                 *)
THEOREM ConfirmationsStay ==
  ASSUME CyclesAreShort, AmountDecides, UtrsDiffer
  PROVE  PipelineSpec /\ []GeneratedIdsFit => []ConfirmationsStand
<1>1. PipelineInit => ConfirmedInv
  BY ConfirmedStart
<1>2. ConfirmedInv /\ GeneratedIdsFit /\ [PipelineNext]_pipelineVars => ConfirmedInv'
  BY ConfirmedStepKeeps
<1>3. ConfirmedInv /\ GeneratedIdsFit => ConfirmationsStand
  BY ConfirmedStand
<1>. QED  BY <1>1, <1>2, <1>3, PTL DEF PipelineSpec

=============================================================================
