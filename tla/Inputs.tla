------------------------------- MODULE Inputs -------------------------------
(***************************************************************************)
(* What a plan is made from, and for how long it stays true: the selected  *)
(* event and its association with a later forecast (tracking/event.rs),    *)
(* the frozen clock with its error bound (tracking/clock.rs) and the       *)
(* captured inputs of one planning job (tracking/inputs.rs), all under     *)
(* crates/ezal-core/src.                                                   *)
(*                                                                         *)
(* Uptime and UTC count the same unit; an anchor is a record               *)
(*   rev    : its synchronization revision                                 *)
(*   at     : the uptime at which the sample arrived                       *)
(*   offset : UTC minus uptime, as that sample has it                      *)
(* and UtcClock is the set holding the anchor.  Every sample has the same  *)
(* uncertainty.  Times lie inside the supported range, so the arithmetic   *)
(* failures are left out, as are the checks of compile-time settings.      *)
(***************************************************************************)
EXTENDS Naturals

CONSTANTS
  EventShift,     \* MAX_EVENT_SHIFT_S
  Allowance,      \* the timing share of the pointing allowance, as a time
  Uncertainty,    \* TimeSample::uncertainty_ms
  DriftEvery,     \* the clock drifts by at most 1 in this many units
  MaxSampleAge    \* TimingPolicy::max_sample_age_ms

ASSUME ClockPolicyIsValid ==
  /\ EventShift \in Nat
  /\ Allowance \in Nat
  /\ Uncertainty \in 0 .. Allowance
  /\ DriftEvery \in Nat \ {0}
  /\ MaxSampleAge \in Nat \ {0}

Earlier(a, b) == IF a < b THEN a ELSE b
Apart(a, b) == IF a < b THEN b - a ELSE a - b

-----------------------------------------------------------------------------

\* event.rs reconcile_event, the rows that match: the same satellite, an
\* overlap, and a bounded drift from the original window.
Matches(original, event) ==
  /\ event.sat = original.sat
  /\ Apart(event.aos, original.aos) <= EventShift
  /\ Apart(event.los, original.los) <= EventShift
  /\ event.aos < original.los
  /\ event.los > original.aos

\* reconcile_event: none and several are errors; it never substitutes a row.
Matching(original, forecast) == {e \in forecast : Matches(original, e)}
EventProblem(matching) == IF matching = {} THEN "Missing" ELSE "Ambiguous"
Associated(matching) == \A a, b \in matching : a = b

-----------------------------------------------------------------------------

\* clock.rs execution_window.
Window(anchor, event) ==
  [aos |-> event.aos - anchor.offset, los |-> event.los - anchor.offset]

\* ExecutionClock::error_ms, in parts of 1/DriftEvery, and its refusals.
Aged(anchor, t) == anchor.at <= t /\ t - anchor.at < MaxSampleAge
ErrorAt(anchor, t) == Uncertainty * DriftEvery + (t - anchor.at)
Fits(anchor, t) == Aged(anchor, t) /\ ErrorAt(anchor, t) <= Allowance * DriftEvery

\* ExecutionClock::admission_deadline_ms: the first instant at which the
\* sample's age alone uses up the allowance.
AdmissionDeadline(anchor) ==
  anchor.at + Earlier((Allowance - Uncertainty) * DriftEvery + 1, MaxSampleAge)

\* ExecutionClock::validate, the correction since the clock was frozen
\* together with what may still be wrong by the end.
CorrectionFits(frozen, latest, through) ==
  /\ Aged(latest, through)
  /\ Apart(frozen.offset, latest.offset) * DriftEvery + ErrorAt(latest, through)
       <= Allowance * DriftEvery

\* ExecutionClock::validate.
ClockHolds(frozen, through, clock, now) ==
  /\ Aged(frozen, now) /\ now <= through
  /\ Fits(frozen, through)
  /\ \E latest \in clock :
       /\ latest.rev >= frozen.rev /\ latest.at >= frozen.at
       /\ Aged(latest, now)
       /\ CorrectionFits(frozen, latest, through)

-----------------------------------------------------------------------------

\* ExecutionInputs: what one job captured.  The orbit is known by its
\* publication and by how long its elements can be propagated.
InputsOf(ticket, source, anchor) ==
  [ticket |-> ticket, orbit |-> source.rev, until |-> source.until, anchor |-> anchor,
   window |-> Window(anchor, ticket.pass)]

\* ExecutionInputs::freeze_before_ms.
InputsDeadline(i) == Earlier(AdmissionDeadline(i.anchor), i.window.los)

\* ExecutionInputs::validate_orbit: the elements outlast the pass and the
\* timing allowance.  They were received before they were captured.
OrbitHolds(i) == i.until >= i.window.los + i.anchor.offset + Allowance

\* ExecutionInputs::validate_preview.
PreviewHolds(i, clock, now) ==
  /\ clock = {i.anchor}
  /\ now < InputsDeadline(i)
  /\ Aged(i.anchor, now)
  /\ OrbitHolds(i)

\* ExecutionInputs::validate_execution.
ExecutionHolds(i, clock, now) ==
  ClockHolds(i.anchor, i.window.los, clock, now) /\ OrbitHolds(i)

\* ExecutionInputs::capture.
Captures(i, source, clock, now) ==
  /\ i.ticket.pass.sat = source.sat
  /\ i.ticket.revs.orbit = source.rev
  /\ i.ticket.revs.clock = i.anchor.rev
  /\ i.window.los >= now
  /\ Fits(i.anchor, now)
  /\ PreviewHolds(i, clock, now)
=============================================================================
