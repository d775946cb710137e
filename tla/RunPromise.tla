----------------------------- MODULE RunPromise -----------------------------
(***************************************************************************)
(* What an armed pass is promised to be, whatever publishes, measures or   *)
(* interrupts it (docs/TRACKING.md and lifecycle.rs): it is armed by       *)
(* itself, runs at most once, follows one plan that is frozen when it      *)
(* begins, loses its route for at most Limit at a time with the end of     *)
(* that time known from its beginning, and comes back to the route only    *)
(* within it.  Every end leads to Manual mode, from where only arming      *)
(* leads back.                                                             *)
(***************************************************************************)
EXTENDS Naturals

CONSTANT Limit

VARIABLES
  stage,  \* "manual", "armed", "running" or "recovering"
  plan,   \* {} or {the plan frozen}
  due,    \* {} or {when the time of the episode ends}
  clock

vars == <<stage, plan, due, clock>>

\* Whoever begins to watch may find a pass under way.
Init ==
  /\ stage \in {"manual", "armed", "running", "recovering"}
  /\ plan = {} <=> stage \in {"manual", "armed"}
  /\ due = {} <=> stage # "recovering"
  /\ clock \in Nat

Arm == stage = "manual" /\ stage' = "armed" /\ UNCHANGED <<plan, due, clock>>

\* An episode may be found late, but has no more time for that.
Episode == /\ stage' = "recovering"
           /\ \E t \in 0 .. clock + Limit : due' = {t}

\* A pass that is armed when its preparation is due is frozen with that.
Freeze ==
  /\ stage \in {"manual", "armed"}
  /\ plan' # {}
  /\ (stage' = "running" /\ due' = {}) \/ Episode
  /\ clock' = clock

Lose == stage = "running" /\ Episode /\ UNCHANGED <<plan, clock>>

Rejoin ==
  /\ stage = "recovering" /\ stage' = "running"
  /\ \E t \in due : clock < t
  /\ due' = {}
  /\ UNCHANGED <<plan, clock>>

End ==
  /\ stage # "manual" /\ stage' = "manual"
  /\ plan' = {} /\ due' = {} /\ clock' = clock

Pass == clock' > clock /\ UNCHANGED <<stage, plan, due>>

Next == Arm \/ Freeze \/ Lose \/ Rejoin \/ End \/ Pass

Spec == Init /\ [][Next]_vars
=============================================================================
