-------------------------- MODULE StoreRefinement --------------------------
(***************************************************************************)
(* ExceptionStore implements AuditedLifecycle.  The abstract trail is the  *)
(* audit table with the pending status change already written at its end:  *)
(* a reader cannot tell the two commits of _transition from one, except    *)
(* for the entry a crash between them loses.                               *)
(***************************************************************************)
EXTENDS ExceptionStore

(* What a trail entry keeps of an audit entry. *)
Brief(entry) == [exception |-> entry.exception, from |-> entry.from,
                 to |-> entry.to, actor |-> entry.actor]

WrittenTrail == [i \in 1..Len(audit) |-> Brief(audit[i])]

abstractTrail ==
    IF unaudited = NoCall THEN WrittenTrail ELSE Append(WrittenTrail, Brief(unaudited))

Abstract == INSTANCE AuditedLifecycle
    WITH status <- [e \in Exceptions |-> StatusOf(e)],
         trail  <- abstractTrail,
         fresh  <- unaudited # NoCall

(* Every behaviour of the store, with its separate commits and its         *)
(* crashes, is a behaviour of the audited lifecycle: moves are legal, each *)
(* is on the trail in the order made, and a crash costs the newest entry   *)
(* at most.                                                                *)
ImplementsAuditedLifecycle == Abstract!Spec

=============================================================================
