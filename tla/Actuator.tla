------------------------------ MODULE Actuator ------------------------------
(***************************************************************************)
(* The safety-ordered output step of crates/ezal-core/src/actuator.rs: one *)
(* coherent snapshot of feedback, network and at most one command turns    *)
(* into an output and the deadlines at which it must be serviced again.    *)
(*                                                                         *)
(* An actuator is a record                                                 *)
(*   guard      : ActuatorGuard (Relay)                                    *)
(*   duty       : DutyMonitor's axes (Duty)                                *)
(*   unrested   : DutyMonitor::startup_rest_required                       *)
(*   motion     : MotionMonitor's axes (Motion)                            *)
(*   faulted    : whether a motion fault is latched                        *)
(*   served     : the instant of the last service, {} before the first;    *)
(*                duty and motion each keep a copy of it                   *)
(*   generation : the network generation the output was last served under  *)
(* The configuration is valid (the ASSUMEs of the modules below) and the   *)
(* clock never runs backwards, so the faults for those are left out.       *)
(***************************************************************************)
EXTENDS Motion, Duty, Network

ActuatorState ==
  [guard : Guard, duty : [Axis -> AxisDuty], unrested : BOOLEAN,
   motion : [Axis -> AxisMonitor], faulted : BOOLEAN,
   served : Instant, generation : Nat]

\* Mutant of NewActuator: a reset board trusts its motors to be rested.
NewActuatorRested ==
  [guard |-> NewGuard, duty |-> RestedDuty, unrested |-> FALSE,
   motion |-> [a \in Axis |-> NewMonitor], faulted |-> FALSE,
   served |-> {}, generation |-> 0]

\* Actuator::new: idle, and its duty history unknown.
NewActuator ==
  [guard |-> NewGuard, duty |-> UnknownDuty, unrested |-> TRUE,
   motion |-> [a \in Axis |-> NewMonitor], faulted |-> FALSE,
   served |-> {}, generation |-> 0]

Output(act) == Actual(act.guard)

Elapsed(act, now) == IF act.served = {} THEN 0 ELSE now - (CHOOSE t \in act.served : TRUE)

\* Duty first, then motion, both for the output that existed until now.
Charge(act, feedback, now) ==
  LET duty == ObserveDuty(act.duty, Output(act), Elapsed(act, now))
      faults == \E a \in Axis :
                  Faults(act.motion[a], Elapsed(act, now), Reading(feedback, a, now))
  IN  [act EXCEPT
        !.duty = duty,
        !.unrested = @ /\ ~AllRested(duty),
        !.motion = IF act.faulted THEN @
                   ELSE [a \in Axis |-> ObserveAxis(@[a], Elapsed(act, now),
                                                    Reading(feedback, a, now))],
        !.faulted = @ \/ faults,
        !.served = {now}]

\* Axes whose present or pending direction feedback or duty no longer allows.
Withdrawn(act, feedback, now) ==
  LET permits(drive) ==
        GuardDuty(act.duty, GuardFeedback(feedback, drive, now), Output(act))
  IN  {a \in Axis : \/ permits(Output(act))[a] # Output(act)[a]
                    \/ permits(Target(act.guard))[a] # Target(act.guard)[a]}

\* Actuator::enforce, after its observation.
Enforce(act, feedback, now) ==
  LET g == InhibitAxes(act.guard, Withdrawn(act, feedback, now), now)
  IN  [act EXCEPT !.guard = IF act.faulted THEN InhibitGuard(g, now) ELSE g]

\* Mutant of Permitted: a fault leaves new commands alone.
PermittedDespiteFault(act, feedback, network, command, now) ==
  LET guarded == GuardCommand(feedback, command, now)
  IN  IF ~Ready(network, now) THEN Inhibition
      ELSE IF guarded.kind = "Inhibit" THEN guarded
      ELSE [guarded EXCEPT !.drive = GuardDuty(act.duty, @, Output(act))]

\* What of a command the present state permits.
Permitted(act, feedback, network, command, now) ==
  LET guarded == GuardCommand(feedback, command, now)
  IN  IF ~Ready(network, now) \/ act.faulted THEN Inhibition
      ELSE IF guarded.kind = "Inhibit" THEN guarded
      ELSE [guarded EXCEPT !.drive = GuardDuty(act.duty, @, Output(act))]

\* An envelope is [command, until]; envelopes holds the pending one, if any.
Obey(act, feedback, network, envelopes, now) ==
  [act EXCEPT !.guard =
    IF envelopes = {} THEN UpdateGuard(@, now)
    ELSE LET e == CHOOSE e \in envelopes : TRUE
         IN  CommandUntil(@, Permitted(act, feedback, network, e.command, now), now, e.until)]

\* Tell the monitors what the step leaves applied.
Applied(act, now) ==
  [act EXCEPT
    !.motion = [a \in Axis |-> MonitorApplied(@[a], Output(act)[a], now)],
    !.duty = DutyApplied(@, Output(act)),
    !.unrested = @ /\ ~IsActive(Output(act))]

\* Actuator::step.
ActuatorStep(act, feedback, network, envelopes, now) ==
  LET enforced == Enforce(Charge(act, feedback, now), feedback, now)
      revoked == Revoke(enforced, network, now)
  IN  Applied(Obey(revoked, feedback, network, envelopes, now), now)

\* The deadlines a step returns the earliest of.
Deadlines(act, feedback, network, now) ==
  GuardDeadlines(act.guard, now)
    \cup FeedbackDeadlines(feedback, Output(act), now)
    \cup (IF act.faulted THEN {}
          ELSE DutyDeadlines(act.duty, Output(act), now)
                 \cup UNION {MonitorDeadlines(act.motion[a], now) : a \in Axis})
    \cup (IF Ready(network, now) THEN NetworkDeadlines(network) ELSE {})

MayOverride(act) ==
  /\ act.unrested
  /\ ~act.faulted
  /\ ~IsActive(Output(act))
  /\ ~IsActive(Target(act.guard))

\* Actuator::override_startup_rest, at an instant already serviced.
OverrideStartupRest(act) ==
  [act EXCEPT !.unrested = FALSE, !.duty = [a \in Axis |-> [@[a] EXCEPT !.used = 0]]]
=============================================================================
