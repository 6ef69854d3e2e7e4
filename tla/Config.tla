------------------------------- MODULE Config -------------------------------
(***************************************************************************)
(* The three configuration files, as what their loaders accept: the rate   *)
(* table, the working-day calendar and the thresholds.  Every module that  *)
(* matches or generates extends this one, so what it says holds for every  *)
(* configuration load_config returns.                                      *)
(*                                                                         *)
(* Dates are day numbers with day 0 a Monday, so that a day's weekday is   *)
(* day % 7, as date.weekday() numbers it.  Rates are in basis points.      *)
(* Scores, weights and thresholds are in units of score_quantum, of which  *)
(* Unit make one.  Money is in paise.                                      *)
(***************************************************************************)
EXTENDS Integers

CONSTANTS
    Profiles,         \* merchant profiles
    Methods,          \* payment methods
    MdrRate,          \* rate_for: profile, method -> basis points
    GstRate,          \* gst_rate, in basis points
    WeeklyOffs,       \* weekly_offs: 0 = Monday .. 6 = Sunday
    Holidays,         \* holidays
    WindowStart,      \* simulation_window
    WindowEnd,
    SettlementCycle,  \* settlement_cycles: profile -> T+N in working days
    Fuzzy,            \* fuzzy_utr: the matcher's weights and thresholds
    RoundingTolerance \* tolerance.rounding_rupees, in paise

Unit == 1000000   \* one, in units of score_quantum
BasisPoint == 10000

UnitInterval == 0 .. Unit

(* load_mdr_rates: every profile prices every method, at a rate in [0, 1]. *)
ValidMdrRates ==
    /\ Profiles # {} /\ Methods # {}
    /\ MdrRate \in [Profiles -> [Methods -> 0 .. BasisPoint]]
    /\ GstRate \in 0 .. BasisPoint

(* load_calendar: some weekday is worked, holidays fall inside the         *)
(* simulation window, and the window inside the one year every date of the *)
(* repository belongs to.                                                  *)
ValidCalendar ==
    /\ WeeklyOffs \subseteq 0 .. 6 /\ WeeklyOffs # 0 .. 6
    /\ WindowStart \in Int /\ WindowEnd \in Int
    /\ WindowStart =< WindowEnd /\ WindowEnd - WindowStart < 365
    /\ Holidays \subseteq WindowStart .. WindowEnd
    /\ SettlementCycle \in [Profiles -> Nat \ {0}]

FuzzyFields ==
    {"weight_prefix", "weight_edit", "weight_amount", "accept_score",
     "min_separation", "weight_amount_no_utr", "weight_date_no_utr",
     "accept_score_no_utr", "date_window_days", "fragment_min_chars"}

(* load_thresholds, its fuzzy_utr section: each path's weights sum to one, *)
(* and the path that scores without a UTR has the higher bar.              *)
ValidFuzzy ==
    /\ Fuzzy \in [FuzzyFields -> Int]
    /\ Fuzzy.weight_prefix + Fuzzy.weight_edit + Fuzzy.weight_amount = Unit
    /\ Fuzzy.weight_amount_no_utr + Fuzzy.weight_date_no_utr = Unit
    /\ Fuzzy.accept_score_no_utr > Fuzzy.accept_score
    /\ Fuzzy.date_window_days > 0 /\ Fuzzy.fragment_min_chars > 0
    /\ Fuzzy.accept_score \in UnitInterval
    /\ Fuzzy.min_separation \in UnitInterval

(* load_thresholds, its tolerance section. *)
ValidTolerance == RoundingTolerance \in Nat \ {0}

(* load_config, which also requires the profiles of the rate table to be   *)
(* those of the calendar; here both are functions of Profiles.             *)
ValidConfig ==
    /\ ValidMdrRates
    /\ ValidCalendar
    /\ ValidFuzzy
    /\ ValidTolerance

ASSUME ConfigAssumption == ValidConfig

=============================================================================
