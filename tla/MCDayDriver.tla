----------------------------- MODULE MCDayDriver -----------------------------
(* A small instance of DayDriver: three days, so that one can be skipped   *)
(* and caught up with; two contents, each delivered again on a later day.  *)
(* The driver is the only caller of the store.                             *)
EXTENDS DayDriver

CONSTANTS h1, h2

MCDays == {1, 2, 3}
MCCallers == {}
MCExceptions == Cases \union Links \union Orphans
MCDelivery == <<<<h1, h2>>, <<h2>>, <<h1>>>>

=============================================================================
