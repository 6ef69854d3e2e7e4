--------------------------- MODULE HypothesisLoop ---------------------------
(***************************************************************************)
(* One question put to the model (resolve_exception of settlesense/ai/     *)
(* loop.py): the prompt is sent, the client retries what fails             *)
(* (retry_until_unavailable), generate asks again for a reply that has no  *)
(* valid hypothesis in it, and the hypotheses of a valid reply are         *)
(* verified in the order the model ranked them.                            *)
(*                                                                         *)
(* Left out: the prompt; what a hypothesis says beside the row it          *)
(* nominates; the verifier and the score, of which there is the result.    *)
(***************************************************************************)
EXTENDS Naturals, FiniteSetsExt

CONSTANTS
    Questions,       \* sets of exceptions one prompt may be about
    Nominees,        \* what a hypothesis may nominate
    MaxHypotheses,   \* hypotheses read of one reply
    MaxRetries,      \* replies asked for again
    MaxAttempts,     \* attempts of the client at one reply
    NoQuestion       \* no question under way

VARIABLE asking      \* the question under way

(* The client over the network, the one over recordings, and the one that  *)
(* is always down.                                                         *)
Clients == {"REAL", "REPLAY", "OUTAGE"}

(* verify refuses; it passes below the threshold; it passes.               *)
Checks == {"REJECTED", "BELOW_THRESHOLD", "VERIFIED"}

Hypothesis == [nominee : Nominees, check : Checks]

Replies == UNION {[1..n -> Hypothesis] : n \in 1..MaxHypotheses}

(* calls: attempts made so far, for all replies. *)
Asking == [question : Questions, client : Clients,
           replies : 0..MaxRetries, failures : 0..(MaxAttempts - 1), calls : Nat]

Verdicts == Nominees \union {"ABSTAIN", "UNAVAILABLE"}

ASSUME LoopAssumption ==
    /\ MaxHypotheses \in Nat /\ MaxRetries \in Nat /\ MaxAttempts \in Nat \ {0}
    /\ NoQuestion \notin Asking
    /\ "ABSTAIN" \notin Nominees /\ "UNAVAILABLE" \notin Nominees

(* The first hypothesis that is not rejected decides, and one under the    *)
(* threshold decides to abstain: none after it is tried.                   *)
Decide(reply) ==
    LET standing == {i \in DOMAIN reply : reply[i].check # "REJECTED"}
    IN  IF standing = {} \/ reply[Min(standing)].check = "BELOW_THRESHOLD"
        THEN "ABSTAIN"
        ELSE reply[Min(standing)].nominee

Ask(question, client) ==
    /\ asking = NoQuestion
    /\ asking' = [question |-> question, client |-> client,
                  replies |-> 0, failures |-> 0, calls |-> 0]

(* retry_until_unavailable: one of the exceptions of RETRYABLE, a timeout, *)
(* an error of the connection or bad JSON.  Any other ends the process.    *)
CallFails ==
    /\ asking # NoQuestion
    /\ asking.client = "REAL"
    /\ asking.failures + 1 < MaxAttempts
    /\ asking' = [asking EXCEPT !.failures = @ + 1, !.calls = @ + 1]

(* Deviation: a reply without a hypothesis is asked for again for ever. *)
BadReplyUncounted ==
    /\ asking # NoQuestion
    /\ asking.client # "OUTAGE"
    /\ asking' = [asking EXCEPT !.failures = 0, !.calls = @ + 1]

(* Deviation: one reply too many is asked for. *)
BadReplyOnceMore ==
    /\ asking # NoQuestion
    /\ asking.client # "OUTAGE"
    /\ asking.replies =< MaxRetries
    /\ asking' = [asking EXCEPT !.replies = @ + 1, !.failures = 0, !.calls = @ + 1]

(* generate: a reply with no valid hypothesis; the client starts afresh. *)
BadReply ==
    /\ asking # NoQuestion
    /\ asking.client # "OUTAGE"
    /\ asking.replies < MaxRetries
    /\ asking' = [asking EXCEPT !.replies = @ + 1, !.failures = 0, !.calls = @ + 1]

(* What the model has answered by now, if anything.  A recording is the    *)
(* same at every reading, so a bad one is bad every time, and a missing    *)
(* one is missing the first time.                                          *)
Answers(verdict) ==
    \/ asking.client = "OUTAGE" /\ verdict = "UNAVAILABLE"
    \/ /\ asking.client = "REAL"
       /\ asking.failures + 1 = MaxAttempts
       /\ verdict = "UNAVAILABLE"
    \/ /\ asking.client # "OUTAGE"
       /\ asking.replies = MaxRetries
       /\ verdict = "ABSTAIN"
    \/ /\ asking.client = "REPLAY"
       /\ asking.replies = 0
       /\ verdict = "ABSTAIN"
    \/ /\ asking.client # "OUTAGE"
       /\ asking.client = "REPLAY" => asking.replies = 0
       /\ \E reply \in Replies : verdict = Decide(reply)

Resolve(verdict) ==
    /\ asking # NoQuestion
    /\ Answers(verdict)
    /\ asking' = NoQuestion

(* The retries of generate and of the client nest: however they fall, one  *)
(* question costs at most their product, so another attempt is only made   *)
(* below it.                                                               *)
CallsBounded ==
    asking # NoQuestion => asking.calls < (MaxRetries + 1) * MaxAttempts

=============================================================================
