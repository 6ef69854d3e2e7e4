------------------------------ MODULE Pricing ------------------------------
(***************************************************************************)
(* Fees, tax and the attribution of a variance, in paise.  Rounding is to  *)
(* the paisa, halves away from zero, where the code quantises.             *)
(***************************************************************************)
EXTENDS Calendar, FiniteSetsExt

(* money(amount * rate) for a rate in basis points and an amount >= 0. *)
TimesRate(amount, rate) == (2 * amount * rate + BasisPoint) \div (2 * BasisPoint)

(* compute_fee *)
Fee(gross, method, profile) == TimesRate(gross, MdrRate[profile][method])

(* compute_gst: on the rounded fee. *)
Gst(fee) == TimesRate(fee, GstRate)

(* expected_net; refunds may make it negative. *)
ExpectedNet(gross, fee, tax, refunds) == gross - fee - tax - refunds

NoCategory == "NONE"

(* What explains a variance of a case.  Deductions are part of             *)
(* expected_net on every case and are never among them.                    *)
CaseCategories ==
    {"PARTIAL_CAPTURE", "T_PLUS_N_TIMING", "DUPLICATE_CANDIDATE",
     "ROUNDING_DIFFERENCE", "UNEXPLAINED"}

(* The money each component, by category, accounts for. *)
Component(category, amount) == [category |-> category, amount |-> amount]

(* explain_variance: what the components leave of a variance. *)
Unexplained(total, components) ==
    total - MapThenSumSet(LAMBDA c : c.amount, components)

(* _ZERO_AMOUNT_PRECEDENCE *)
ZeroAmountPrecedence == <<"T_PLUS_N_TIMING", "ROUNDING_DIFFERENCE", "DUPLICATE_CANDIDATE">>

(* _headline_category: the component that moves the most money, a rounding *)
(* difference winning a tie against a partial capture by name; with no     *)
(* money moved, by precedence.                                             *)
Headline(components) ==
    LET moving == {c \in components : c.amount # 0}
        present(k) == \E c \in components : c.category = ZeroAmountPrecedence[k]
        largest == {c \in moving :
                       \A o \in moving : Magnitude(o.amount) =< Magnitude(c.amount)}
        rounding == {c \in largest : c.category = "ROUNDING_DIFFERENCE"}
    IN  IF components = {} THEN NoCategory
        ELSE IF moving # {}
             THEN (CHOOSE c \in largest : rounding = {} \/ c \in rounding).category
             ELSE ZeroAmountPrecedence[CHOOSE k \in 1 .. 3 :
                      present(k) /\ \A j \in 1 .. k - 1 : ~present(j)]

=============================================================================
