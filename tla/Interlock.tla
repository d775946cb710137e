----------------------------- MODULE Interlock -----------------------------
(***************************************************************************)
(* Feedback and endpoint checks at the output boundary: FeedbackInterlock  *)
(* of crates/ezal-core/src/interlock.rs.                                   *)
(*                                                                         *)
(* A position matters here only through the sample age from which travel   *)
(* in each direction is refused (AxisLimits::refusal_age_ms: the room left *)
(* to the endpoint band, less the coast, at the fastest speed), so that    *)
(* age is what a sample carries, and whether the position lies within the  *)
(* calibrated limits at all.  A sample with `usable` FALSE stands for every *)
(* reason there is no such position: no calibration, a read fault, or a    *)
(* reading outside the limits.                                             *)
(***************************************************************************)
EXTENDS Relay

CONSTANT FeedbackMaxAge   \* FEEDBACK_MAX_AGE_MS

ASSUME FeedbackMaxAgeIsNat == FeedbackMaxAge \in Nat

\* Refusal ages of one axis at one place.  Nothing is refused later than the
\* sample expires, so larger ages need not be told apart.
Place == [Direction -> 0 .. FeedbackMaxAge + 1]

NoFeedback == [usable |-> FALSE, at |-> 0,
               place |-> [a \in Axis |-> [d \in Direction |-> 0]],
               sense |-> [a \in Axis |-> "still"]]

Age(sample, now) == now - sample.at

\* FeedbackInterlock::current / motion_permitted, inclusive at the maximum age.
Current(sample, now) ==
  sample.usable /\ sample.at <= now /\ Age(sample, now) <= FeedbackMaxAge

\* FeedbackInterlock::guard_drive.
GuardFeedback(sample, drive, now) ==
  [a \in Axis |->
    IF drive[a] # Off /\ Current(sample, now) /\ Age(sample, now) < sample.place[a][drive[a]]
      THEN drive[a] ELSE Off]

\* FeedbackInterlock::guard_command: without current feedback any movement is
\* an inhibition; with it, refused directions make it an ordinary release.
GuardCommand(sample, command, now) ==
  IF command.kind = "Inhibit" \/ ~Current(sample, now) THEN Inhibition
  ELSE [command EXCEPT !.drive = GuardFeedback(sample, command.drive, now)]

\* Mutant of FeedbackDeadlines: the expiry is announced, the endpoint is not.
ExpiryDeadline(sample, output, now) ==
  IF IsActive(output) /\ Current(sample, now) THEN {sample.at + FeedbackMaxAge + 1} ELSE {}

\* FeedbackInterlock::deadline_ms for the energised axes.
FeedbackDeadlines(sample, output, now) ==
  IF ~IsActive(output) \/ ~Current(sample, now) THEN {}
  ELSE {sample.at + FeedbackMaxAge + 1}
         \cup {sample.at + sample.place[a][output[a]] : a \in {b \in Axis : output[b] # Off}}
=============================================================================
