------------------------------ MODULE FuzzyUtr ------------------------------
(***************************************************************************)
(* P8: which open batch a bank credit with a damaged narration belongs to. *)
(*                                                                         *)
(* Of a narration only what is left of the batch's UTR is kept: nothing, a *)
(* prefix of it (the whole UTR when sixteen characters are kept), or the   *)
(* UTR garbled at some position, the characters before it intact.  Of two  *)
(* UTRs only the number of leading characters they share is kept; what     *)
(* follows is taken to differ in every place.                              *)
(***************************************************************************)
EXTENDS Pricing, FiniteSets

CONSTANTS
    Utrs,   \* the UTRs of batches
    Stem    \* how many leading characters two of them share

UtrLength == 16

ASSUME StemAssumption ==
    /\ Stem \in [Utrs -> [Utrs -> 0 .. UtrLength]]
    /\ \A u, v \in Utrs : (Stem[u][v] = UtrLength) <=> (u = v)

NoToken == [kind |-> "NONE", of |-> "NONE", kept |-> 0]

PrefixTokens == [kind : {"PREFIX"}, of : Utrs, kept : 1 .. UtrLength]
GarbledTokens == [kind : {"GARBLED"}, of : Utrs, kept : 0 .. UtrLength - 2]

Tokens == PrefixTokens \union GarbledTokens \union {NoToken}

(* _common_prefix_length of the token and a UTR. *)
Shared(token, utr) ==
    IF token = NoToken THEN 0
    ELSE IF Stem[token.of][utr] < token.kept THEN Stem[token.of][utr] ELSE token.kept

TokenLength(token) == IF token.kind = "GARBLED" THEN UtrLength ELSE token.kept

(* The Levenshtein distance of the token to as much of a UTR.  Exchanging  *)
(* two characters puts a garbled UTR at distance two from itself.          *)
EditDistance(token, utr) ==
    IF token.kind = "GARBLED" /\ token.of = utr THEN 2
    ELSE TokenLength(token) - Shared(token, utr)

(* normalize_utr(batch.utr) in normalize_utr(row.narration) *)
CarriesUtr(token, utr) == token.kind = "PREFIX" /\ Shared(token, utr) = UtrLength

(* Deviation: the bound of the configuration is too high. *)
UtrCandidateMinLenRaised == 9

(* UTR_CANDIDATE_MIN_LEN: shorter tokens are no candidates. *)
UtrCandidateMinLen == 6

(* extract_utr_candidates: only the UTR token can share anything.          *)
IsCandidate(token) ==
    token # NoToken /\ TokenLength(token) \in UtrCandidateMinLen .. UtrLength

(* _best_fragment finds one. *)
HasFragment(token, utrs) ==
    /\ IsCandidate(token)
    /\ \E utr \in utrs : Shared(token, utr) >= Fuzzy.fragment_min_chars

-----------------------------------------------------------------------------
(* Decimal.quantize of a ratio: halves to even. *)
RoundHalfEven(num, den) ==
    LET down == num \div den
        rest == num % den
    IN  IF 2 * rest < den \/ (2 * rest = den /\ down % 2 = 0) THEN down ELSE down + 1

(* _amount_agrees *)
AmountAgrees(credit, batch) == Magnitude(credit.amount - batch.net) =< RoundingTolerance

Agreement(credit, batch) == IF AmountAgrees(credit, batch) THEN 1 ELSE 0

(* _score_path_a *)
ScorePathA(credit, batch) ==
    LET token == credit.token
        len == TokenLength(token)
    IN  RoundHalfEven(Fuzzy.weight_prefix * Shared(token, batch.utr)
                        + Fuzzy.weight_edit * (len - EditDistance(token, batch.utr)), len)
          + Fuzzy.weight_amount * Agreement(credit, batch)

(* _score_path_b.  _date_proximity falls linearly to zero over the window; *)
(* the code rounds it before weighing it and rounds the result again,      *)
(* which for the configured weight and window comes to rounding once.      *)
DateProximityScore(gap) ==
    RoundHalfEven(Fuzzy.weight_date_no_utr * (Fuzzy.date_window_days - Magnitude(gap)),
                  Fuzzy.date_window_days)

ScorePathB(credit, batch, gap) ==
    Fuzzy.weight_amount_no_utr * Agreement(credit, batch) + DateProximityScore(gap)

(* Deviation: a credit outside the window is scored like any other. *)
ScoreUngated(credit, batch, due, fragment) ==
    IF fragment THEN ScorePathA(credit, batch)
    ELSE ScorePathB(credit, batch,
            IF Magnitude(credit.valueDate - due) > Fuzzy.date_window_days
            THEN Fuzzy.date_window_days ELSE credit.valueDate - due)

(* A candidate's score in resolve.  The gap is in calendar days; a credit  *)
(* outside the window scores zero whatever else agrees.                    *)
Score(credit, batch, due, fragment) ==
    LET gap == credit.valueDate - due
    IN  IF Magnitude(gap) =< Fuzzy.date_window_days
        THEN IF fragment THEN ScorePathA(credit, batch) ELSE ScorePathB(credit, batch, gap)
        ELSE 0

Threshold(fragment) ==
    IF fragment THEN Fuzzy.accept_score ELSE Fuzzy.accept_score_no_utr

(* The scores of the candidates, all on one path. *)
Path(credit, candidates) ==
    HasFragment(credit.token, {candidates[b].utr : b \in DOMAIN candidates})
Scores(credit, candidates, due) ==
    [b \in DOMAIN candidates |->
        Score(credit, candidates[b], due[b], Path(credit, candidates))]

(* Deviation: the best candidate wins however close the next one is. *)
ResolveWithoutMargin(credit, candidates, due) ==
    LET score == Scores(credit, candidates, due)
        first == {b \in DOMAIN score : \A o \in DOMAIN score :
                     score[o] < score[b] \/ (score[o] = score[b] /\ b =< o)}
    IN  {b \in first : score[b] > 0 /\ score[b] >= Threshold(Path(credit, candidates))}

(* resolve: the batch accepted for a credit, if one is: the best of the    *)
(* candidates, if it reaches its path's threshold and leads every other by *)
(* the required margin; an exact tie is never broken.  The code sorts its  *)
(* refusals into AMBIGUOUS and ABSTAINED, which the engine treats alike.   *)
Resolve(credit, candidates, due) ==
    LET score == Scores(credit, candidates, due)
    IN  {b \in DOMAIN candidates :
            /\ score[b] > 0
            /\ score[b] >= Threshold(Path(credit, candidates))
            /\ score[b] >= Fuzzy.min_separation
            /\ \A o \in DOMAIN candidates \ {b} :
                  score[o] < score[b] /\ score[b] - score[o] >= Fuzzy.min_separation}

-----------------------------------------------------------------------------
(* What the weights and thresholds of thresholds.yaml come to; the loader  *)
(* does not ask for it.  Without the amount no score is accepted.          *)
AmountDecides ==
    /\ Fuzzy.weight_prefix >= 0 /\ Fuzzy.weight_edit >= 0 /\ Fuzzy.weight_date_no_utr >= 0
    /\ Fuzzy.weight_prefix + Fuzzy.weight_edit < Fuzzy.accept_score
    /\ Fuzzy.weight_date_no_utr < Fuzzy.accept_score_no_utr

(* With the amount, a narration is accepted for a UTR that agrees with     *)
(* thirteen sixteenths of what is left of its own, and for no other.       *)
MostOfTheUtr ==
    LET utrWeight == Fuzzy.weight_prefix + Fuzzy.weight_edit
        missing == Fuzzy.accept_score - Fuzzy.weight_amount
    IN  /\ Fuzzy.weight_prefix >= 0 /\ Fuzzy.weight_amount >= 0 /\ utrWeight > 128
        /\ 16 * missing >= 13 * utrWeight
        /\ 8 * missing > 6 * Fuzzy.weight_prefix + 7 * Fuzzy.weight_edit + 4

(* No UTR is so like another that a credit naming the one in full is       *)
(* accepted for the other: they are sixteen characters of a hash.          *)
UtrsApart ==
    \A u, v \in Utrs :
        u # v => RoundHalfEven((Fuzzy.weight_prefix + Fuzzy.weight_edit) * Stem[u][v], UtrLength)
                   + Fuzzy.weight_amount < Fuzzy.accept_score

=============================================================================
