------------------------------ MODULE MCDrive ------------------------------
(***************************************************************************)
(* Drive on two axes, for TLC.                                             *)
(*                                                                         *)
(* The guard only compares times with the clock and only assigns times     *)
(* counted from it, and a time that has passed stays passed.  States are   *)
(* therefore told apart by how far ahead each time lies, with everything   *)
(* past counted as 0: a finite number, so the clock's bound is never       *)
(* reached and the run covers behaviours of any length.  The history       *)
(* variable decides nothing and is left out.                               *)
(***************************************************************************)
EXTENDS Drive

Ahead(t) == IF t > now THEN t - now ELSE 0

RelayView(r) ==
  <<r.target, r.actual, r.last,
    IF r.actual = Off THEN 0 ELSE Ahead(r.onUntil),
    Ahead(r.offUntil), Ahead(r.reverseUntil)>>

RelativeTime ==
  <<[a \in Axis |-> RelayView(guard.relay[a])],
    guard.lease # NoLease, Ahead(guard.lease)>>
=============================================================================
