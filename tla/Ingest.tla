------------------------------- MODULE Ingest -------------------------------
(***************************************************************************)
(* What load_dataset accepts of the files delivered: every row becomes a   *)
(* typed record, every date lies inside the simulation window, and a       *)
(* settlement line names a refund if and only if it is one.  Anything else *)
(* raises IngestError, and the day is not run.  Tables are as CaseRules    *)
(* describes them; the text of the files, and what parse_amount and        *)
(* parse_date make of it, are left out.                                    *)
(***************************************************************************)
EXTENDS CaseRules

InWindow(day) == WindowStart =< day /\ day =< WindowEnd

(* _settlement_line *)
WholeLine(line) ==
    /\ line.type \in {"PAYMENT", "REFUND"}
    /\ (line.type = "REFUND") <=> (line.refund # 0)
    /\ InWindow(line.settled)

(* load_dataset; merge_days refuses to merge no days at all. *)
Readable(d) ==
    /\ Typed(d)
    /\ \A i \in DOMAIN d.ledger : InWindow(d.ledger[i].date)
    /\ \A p \in DOMAIN d.payments :
          d.payments[p].method \in Methods /\ InWindow(d.payments[p].capturedAt)
    /\ \A r \in DOMAIN d.refunds : InWindow(d.refunds[r].created)
    /\ \A l \in DOMAIN d.lines : WholeLine(d.lines[l])
    /\ \A b \in DOMAIN d.batches : InWindow(d.batches[b].settled)
    /\ \A c \in DOMAIN d.bank :
          d.bank[c].direction \in {"CREDIT", "DEBIT"} /\ InWindow(d.bank[c].valueDate)

(* as_of_for_arrival_day; a day past the window raises StoreError. *)
AsOf(arrivalDay) == WindowStart + arrivalDay - 1
DayInWindow(arrivalDay) == arrivalDay >= 1 /\ AsOf(arrivalDay) =< WindowEnd

=============================================================================
