------------------------------ MODULE Runtime ------------------------------
(***************************************************************************)
(* The supervision of a run: TrackingRuntime of tracking/runtime.rs and    *)
(* the deviation monitor of tracking/deviation.rs, with the part of        *)
(* CoordinationState (coordination.rs) that feeds them (crates/ezal-core). *)
(* A device is a record `d`                                                *)
(*   lc       : TrackingLifecycle (Lifecycle)                              *)
(*   bound    : network_generation, {} or {the generation armed under}     *)
(*   exec     : Execution, {} or a record of                               *)
(*     run, aos       : the run's serial and the start of its window       *)
(*     seen           : the last feedback sample observed, {} before       *)
(*     current, above, below : DeviationMonitor's instants, as sets        *)
(*     follower       : FollowingController, {} until the first command    *)
(*     control        : last_control_at_ms                                 *)
(*     since, read    : Readiness                                          *)
(*     rec            : Recovery, {} or the episode in execution           *)
(*   clock    : UtcClock, the set holding its anchor                       *)
(*   gate     : NetworkGate (Network)                                      *)
(*   healthy, sample : FeedbackSnapshot's health and last valid sample     *)
(*   out, applied : the applied Actuator (Recovery) and applied_at_ms      *)
(*   startRev, identity : start_revision and start_identity                *)
(* Telemetry, the retained summary and the deviation metrics are left out. *)
(***************************************************************************)
EXTENDS Recovery, Network

CONSTANT RecoveryEnter   \* REACQUISITION_ENTER_MS

ASSUME RecoveryEnterIsNat == RecoveryEnter \in Nat

The(set) == CHOOSE x \in set : TRUE

Interrupt(d, reason) == [d EXCEPT !.lc = Interrupted(@, reason)]

\* Execution::new.
NewExecution(lc) ==
  [run |-> The(lc.run), aos |-> PassOf(lc).aos, seen |-> {},
   current |-> {}, above |-> {}, below |-> {},
   follower |-> {}, control |-> {}, since |-> {}, read |-> {}, rec |-> {}]

\* Mutant of EpisodeSynced: the route gets a follower without a past.
EpisodeSyncedAfresh(e, lc) ==
  LET over == {r \in e.rec : lc.recovery # {r.episode}}
      left == IF over = {} THEN e ELSE [e EXCEPT !.rec = {}]
  IN  IF left.rec = {} /\ lc.recovery # {}
        THEN [left EXCEPT !.rec = {NewRecovery(r) : r \in lc.recovery}] ELSE left

\* sync_execution, the episode: a follower that rejoined the route keeps its
\* history on it.
EpisodeSynced(e, lc) ==
  LET over == {r \in e.rec : lc.recovery # {r.episode}}
      left == IF over = {} THEN e
              ELSE [e EXCEPT !.rec = {},
                             !.follower = IF lc.phase = "Following"
                                            THEN UNION {r.follower : r \in over} ELSE @]
  IN  IF left.rec = {} /\ lc.recovery # {}
        THEN [left EXCEPT !.rec = {NewRecovery(r) : r \in lc.recovery}] ELSE left

\* TrackingRuntime::sync_execution.
Synced(d) ==
  LET kept == {e \in d.exec : d.lc.run = {e.run}}
      exec == IF kept # {} THEN kept ELSE IF d.lc.run = {} THEN {} ELSE {NewExecution(d.lc)}
  IN  [d EXCEPT !.exec = {EpisodeSynced(e, d.lc) : e \in exec}]

\* Mutant of NetworkKept: whether there is a network now is what counts.
NetworkKeptNow(d, now) == Ready(d.gate, now)

\* check_inputs: permission, and the same one the pass was armed under.
NetworkKept(d, now) == Ready(d.gate, now) /\ d.bound \subseteq {d.gate.generation}

\* check_inputs, the inputs of an accepted or frozen plan.
InputsHold(d, now) ==
  LET p == Theplan(d.lc)
      freezing == d.lc.phase = "Armed" /\ now >= p.prepareAt
  IN  IF d.lc.run # {} THEN ExecutionHolds(p.inputs, d.clock, now)
      ELSE /\ PreviewHolds(p.inputs, d.clock, now)
           /\ freezing => ExecutionHolds(p.inputs, d.clock, now)

\* TrackingRuntime::check_inputs.  From LOS on the policy's own end counts.
Checked(d, now) ==
  IF d.lc.mode = "Tracking" /\ ~NetworkKept(d, now)
    THEN Synced([Interrupt(d, "NetworkUnavailable") EXCEPT !.bound = {}])
  ELSE IF \/ d.lc.plan = {}
          \/ d.lc.run # {} /\ now >= PassOf(d.lc).los
          \/ InputsHold(d, now)
    THEN d
  ELSE IF d.lc.run # {} THEN Synced([Interrupt(d, "Inputs") EXCEPT !.bound = {}])
  ELSE [d EXCEPT !.lc = Invalidated(@)]

\* Execution::missed_deadline.
MissedDeadline(e, phase, now) ==
  IF phase # "Reacquiring" /\ \E t \in e.control : now - t > ControlStep
    THEN {"ExecutionDeadline"}
  ELSE IF \E s \in e.seen : now >= s.at + FeedbackMaxAge THEN {"Feedback"}
  ELSE {}

\* check_recovery_schedule: a missed launch or cadence also stops what may
\* still be queued.
ScheduleChecked(d, now) ==
  LET missed == {r \in UNION {e.rec : e \in d.exec} : Missed(r, now)}
  IN  IF missed = {} \/ d.lc.plan = {} THEN d
      ELSE [d EXCEPT
             !.exec = {[e EXCEPT !.rec = {Held(r, now) : r \in @}] : e \in @},
             !.lc = RecoveryCommanded(Ticked(@, now), The(missed).episode, Stop, now)]

Tick(d, now) == Synced([d EXCEPT !.lc = Ticked(@, now)])

\* service, the run's own deadlines.
DeadlinesKept(d, now) ==
  LET late == UNION {MissedDeadline(e, d.lc.phase, now) : e \in d.exec}
  IN  IF late = {} THEN d ELSE Synced(Interrupt(d, The(late)))

Unbound(d) == IF d.lc.mode = "Manual" THEN [d EXCEPT !.bound = {}] ELSE d

\* TrackingRuntime::service.
Serviced(d, now) ==
  Unbound(ScheduleChecked(DeadlinesKept(Tick(Checked(d, now), now), now), now))

-----------------------------------------------------------------------------
(* Observing a run.                                                        *)

\* observe_tracking: what of the output or the feedback ends the run.
ObservationProblem(d, e, now) ==
  LET older(s) == \E old \in e.seen : s.at < old.at \/ (s.at = old.at /\ s # old)
  IN  IF d.out.fault THEN "Motion"
      ELSE IF ~d.healthy \/ d.sample = {} THEN "Feedback"
      ELSE IF \E s \in d.sample : s.at > now \/ older(s) \/ now >= s.at + FeedbackMaxAge
        THEN "Feedback"
      ELSE "none"

\* Mutant of Monitored: a dwell counts from before its first sample.
MonitoredEarly(e, s) ==
  [e EXCEPT
    !.current = {s.at},
    !.above = IF s.error # "bad" THEN {} ELSE IF @ = {} THEN {s.at - 1} ELSE @,
    !.below = IF s.error # "good" THEN {} ELSE IF @ = {} THEN {s.at - 1} ELSE @]

\* DeviationMonitor::observe for a sample not seen before: a gap breaks both
\* dwells, and between the two thresholds neither runs.
Monitored(e, s) ==
  LET gap == \E t \in e.current : s.at - t > FeedbackMaxAge
      begun(since) == IF since = {} \/ gap THEN {s.at} ELSE since
  IN  [e EXCEPT
        !.current = {s.at},
        !.above = IF s.error = "bad" THEN begun(@) ELSE {},
        !.below = IF s.error = "good" THEN begun(@) ELSE {}]

\* DeviationMonitor::dwell.
Dwelt(e, since, duration) == \E t \in since, last \in e.current : last - t >= duration

\* observe_tracking, once the sample's deviation is known.
DeviationActed(d, e, s, now) ==
  LET next == [d EXCEPT !.exec = {e}]
  IN  IF d.lc.phase = "Following" /\ Dwelt(e, e.above, RecoveryEnter)
        THEN [next EXCEPT !.lc = Begun(Ticked(@, now), {e.run}, now)]
      ELSE IF \E r \in e.rec : Dwelt(e, e.below, RecoveryDwell) /\ HasRejoined(r, s.at)
        THEN [next EXCEPT !.lc = Rejoined(Ticked(@, now), The(e.rec).episode)]
      ELSE next

\* observe_tracking, from the point where the run's own execution is known.
Watched(d, e, now) ==
  LET problem == ObservationProblem(d, e, now)
      s == The(d.sample)
      noted == [e EXCEPT
                 !.seen = {s},
                 !.rec = {[r EXCEPT !.follower = OutputSeen(@, Moving(d.out), now)] : r \in @}]
      compared == /\ e.seen # {s}
                  /\ d.lc.phase \in {"Following", "Reacquiring"}
                  /\ s.at >= e.aos
  IN  IF problem # "none" THEN Synced(Interrupt(d, problem))
      ELSE IF ~compared THEN [d EXCEPT !.exec = {noted}]
      ELSE Synced(DeviationActed(d, Monitored(noted, s), s, now))

WatchedRun(d, now) ==
  IF d.lc.plan = {} \/ d.exec = {} THEN d ELSE Watched(d, The(d.exec), now)

\* observe_tracking for the caller's run, once inputs and policy are checked.
ObservedLive(live, run, now) ==
  IF live.lc.run # run THEN live ELSE WatchedRun(ScheduleChecked(live, now), now)

\* TrackingRuntime::observe_tracking, and its callers' condition that there is a
\* run to observe.
ObservedRun(d, now) ==
  IF d.lc.run = {} THEN d ELSE ObservedLive(Tick(Checked(d, now), now), d.lc.run, now)

\* TrackingRuntime::observe_output.
OutputObserved(d, now) ==
  LET seen(followers) == OutputSeen(followers, Moving(d.out), now)
  IN  [d EXCEPT !.exec =
        {[e EXCEPT !.follower = seen(@),
                   !.rec = {[r EXCEPT !.follower = seen(@)] : r \in @}] : e \in @}]

-----------------------------------------------------------------------------
(* Commanding a run.  `want` is whether the follower's geometry asks for   *)
(* movement.  An envelope notes in `by` what it was made from, for the     *)
(* properties only: the run, the sample, and the launch it carries out.    *)

RunEnvelope(active, until, by) == [command |-> Drive(active), until |-> until, by |-> by]

\* execution_command while reacquiring, and the rest of Recovery::command.
RecoveryTurn(d, e, r, want, now) ==
  LET sample == The(e.seen)
      ready == Ready(d.gate, now)
      start == RestingStart(sample, d.out, d.gate.generation, now)
      next == Commanding(r, start, e.aos, Resting(d.out, now), ready, now)
      followers == OutputSeen(next.follower, Moving(d.out), now)
      moves == \E f \in followers : Asks(f, want, sample.at)
      until == Earlier(now + MovementLease, r.episode.deadline)
      launch == IF next.pending THEN next.intercept ELSE {}
      by == [run |-> d.lc.run, sampled |-> sample.at, launch |-> launch]
      envelope == IF followers = {} THEN Stop ELSE RunEnvelope(moves, until, by)
      commanded == [next EXCEPT
                     !.follower = {FollowerAsked(f, want, sample.at) : f \in followers},
                     !.last = IF followers = {} THEN @ ELSE {now}]
  IN  [d EXCEPT !.exec = {[e EXCEPT !.follower = {}, !.control = {now}, !.rec = {commanded}]},
                !.lc = RecoveryCommanded(Ticked(@, now), r.episode, envelope, now)]

\* Mutant of Acquired: a dish that still coasts counts as prepared.
AcquiredMoving(d, s, now) == s.error = "good"

\* execution_command: measured at rest, after the coast, near the first target.
Acquired(d, s, now) ==
  Resting(d.out, now) /\ s.at >= d.out.turned + Coast /\ s.error = "good"

\* Readiness::observe: the dwell is restarted by a lost acquisition or a gap,
\* and reading a sample again adds nothing.
Readied(e, acquired, at) ==
  LET gap == e.read = {} \/ \E t \in e.read : at - t >= FeedbackMaxAge
      since == IF ~acquired THEN {}
               ELSE IF e.read = {at} THEN e.since
               ELSE IF gap \/ e.since = {} THEN {at} ELSE e.since
  IN  [e EXCEPT !.since = since, !.read = {at}]

ReadyDwelt(before, e, at) ==
  before.read # {at} /\ \E t \in e.since : at - t >= RecoveryDwell

\* execution_command outside an episode.
FollowerTurn(d, e, want, now) ==
  LET s == The(d.sample)
      follower == IF e.follower = {} THEN NewFollower ELSE The(e.follower)
      seen == FollowerSaw(follower, Moving(d.out), now)
      preparing == d.lc.phase \in {"Preparing", "Ready"}
      asked == [e EXCEPT !.follower = {FollowerAsked(seen, want, s.at)}, !.control = {now}]
      next == IF preparing THEN Readied(asked, Acquired(d, s, now), s.at) ELSE asked
      prepared(lc) == IF preparing /\ ReadyDwelt(asked, next, s.at)
                        THEN MadeReady(Ticked(lc, now), d.lc.run) ELSE lc
      by == [run |-> d.lc.run, sampled |-> s.at, launch |-> {}]
  IN  [d EXCEPT !.exec = {next},
                !.lc = TrackingCommanded(Ticked(prepared(@), now), d.lc.run,
                         RunEnvelope(Asks(seen, want, s.at), now + MovementLease, by), now)]

\* execution_command, once the run is known to be observed and on time.
Turn(live, want, now) ==
  LET e == The(live.exec)
      waiting == live.lc.phase = "Reacquiring" /\ (e.rec = {} \/ e.seen = {})
  IN  IF live.lc.run = {} \/ live.lc.plan = {} \/ live.exec = {} THEN live
      ELSE IF waiting
        THEN [live EXCEPT !.exec = {[e EXCEPT !.follower = {}, !.control = {now}]}]
      ELSE IF live.lc.phase = "Reacquiring" THEN RecoveryTurn(live, e, The(e.rec), want, now)
      ELSE FollowerTurn(live, e, want, now)

\* TrackingRuntime::execution_command.  New feedback is observed before the
\* service can find it stale, and again since the service may begin a run.
Executed(d, want, now) ==
  Turn(ObservedRun(Serviced(ObservedRun(d, now), now), now), want, now)

\* TrackingRuntime::take_command, for a device that was just serviced: what is
\* drained, and the device after it.
Drained(live, now) == Taken(Ticked(live.lc, now).box, now)

CommandTaken(live, now) ==
  [live EXCEPT
    !.lc = [Ticked(@, now) EXCEPT !.box = {}],
    !.exec = {[e EXCEPT !.rec = {[r EXCEPT !.pending = FALSE] : r \in @}] : e \in @}]

-----------------------------------------------------------------------------
(* The rest of the runtime's operations.  Requests, refreshes and results  *)
(* find `live`, the device whose inputs the operation has just checked.    *)

\* request, the answered policy: the network generation is noted when the pass
\* is armed, and what was applied is serviced.
RequestDone(live, asked, now) ==
  LET next == [live EXCEPT !.lc = asked.lc]
      armed == asked.lc.mode = "Tracking" /\ live.bound = {}
      bound == IF armed THEN [next EXCEPT !.bound = {live.gate.generation}] ELSE next
  IN  [d |-> IF asked.result.error = "none" THEN Serviced(bound, now) ELSE next,
       result |-> asked.result]

\* TrackingRuntime::request.
RuntimeRequested(live, request, now) ==
  IF request.action = "Arm" /\ ~Ready(live.gate, now)
    THEN [d |-> live, result |-> Answer("Network", 0)]
    ELSE RequestDone(live, Requested(live.lc, request, now), now)

\* TrackingRuntime::refresh.
RuntimeRefreshed(live, forecast, revs, now) ==
  IF Follows(revs, live.lc.revs)
    THEN Serviced([live EXCEPT !.lc = Refreshed(@, forecast, revs)], now)
    ELSE live

\* TrackingRuntime::publish_plan for the job of `inputs`, which found the plan
\* in `found`, or nothing.
PlanPublished(live, inputs, found, now) ==
  IF PlanningTicket(live.lc) # {inputs.ticket} THEN live
  ELSE IF ~PreviewHolds(inputs, live.clock, now) THEN [live EXCEPT !.lc = Invalidated(@)]
  ELSE Serviced([live EXCEPT !.lc = Planned(@, found, now)], now)

\* TrackingRuntime::reject_inputs.
InputsRejected(live, ticket, now) ==
  IF PlanningTicket(live.lc) # {ticket} THEN live
  ELSE Serviced([live EXCEPT !.lc = Invalidated(@)], now)

\* TrackingRuntime::manual_command, for a device that was just serviced.
RuntimeJogged(live, token, e, now) ==
  IF ~Ready(live.gate, now) THEN live
  ELSE [live EXCEPT !.lc = ManuallyCommanded(Ticked(@, now), token, e, now)]

-----------------------------------------------------------------------------
(* CoordinationState.                                                      *)

\* revoke_network_motion.
NetworkRevoked(d, now) ==
  Serviced(IF d.lc.token = {} THEN d ELSE [Serviced(d, now) EXCEPT !.lc = Unowned(@)], now)

\* advance.
Advanced(d, now) ==
  IF Lapsed(d.gate, now)
    THEN NetworkRevoked([d EXCEPT !.gate = Expire(@, now)], now) ELSE d

\* publish_network.
NetworkPublished(d, ready, now) ==
  LET next == [d EXCEPT !.gate = Observe(@, ready, now)]
  IN  IF Lost(d.gate, ready, now) THEN NetworkRevoked(next, now) ELSE next

\* publish_clock.
ClockPublished(d, clock, now) == Serviced([d EXCEPT !.clock = clock], now)

\* Mutant of StartChanged: the preview is left to the next refresh.
StartNoted(d) == [d EXCEPT !.startRev = @ + 1]

\* changed_start and TrackingRuntime::invalidate_start: whatever was planned
\* from the old start is dropped at once.
StartChanged(d) ==
  LET noted == [d EXCEPT !.startRev = @ + 1]
  IN  IF d.lc.run = {} /\ (d.lc.plan # {} \/ PlanningTicket(d.lc) # {})
        THEN [noted EXCEPT !.lc = Invalidated(@)] ELSE noted

\* publish_feedback.
FeedbackPublished(d, healthy, sample, now) ==
  LET poses(samples) == {s.pose : s \in samples}
      changed == healthy # d.healthy \/ poses(sample) # poses(d.sample)
      next == [d EXCEPT !.healthy = healthy, !.sample = sample]
  IN  ObservedRun(IF changed THEN StartChanged(next) ELSE next, now)

\* resting_start, of an output applied at `at`: {} while it moves or coasts.
RestingStarts(d, at) ==
  {RestingStart(s, d.out, d.gate.generation, at) :
     s \in {s \in d.sample : d.healthy /\ s.at <= at /\ Resting(d.out, at)}}

Identity(d, at) ==
  {[pose |-> s.pose, turned |-> s.turned, generation |-> s.generation] : s \in RestingStarts(d, at)}

Identified(d, identity) ==
  IF identity = d.identity THEN d ELSE StartChanged([d EXCEPT !.identity = identity])

\* record_actuator.
Recorded(d, out, now) ==
  LET next == OutputObserved([d EXCEPT !.out = out, !.applied = now], now)
  IN  Identified(next, Identity(next, now))

\* execute_tracking, at an instant whose output was just recorded.
TrackingExecuted(d, want, now) == Executed(Advanced(d, now), want, now)

\* take_actuator_input, before its command is drained.
InputTaken(d, now) == ObservedRun(Advanced(d, now), now)

\* Actuator::step on a rested motor, over the relays alone (Actuator has the
\* rest of it): a fault, stale feedback and any gap in the network stop it.
\* `faulty` is whether a monitor latches a fault in this step.
OutputStep(d, envelopes, faulty, now) ==
  LET current == d.healthy /\ \E s \in d.sample : now <= s.at + FeedbackMaxAge
      able == current /\ ~d.out.fault /\ ~faulty
      kept == IF able THEN d.out ELSE [d.out EXCEPT !.guard = InhibitGuard(@, now)]
      permitted(e) == IF able /\ Ready(d.gate, now) THEN e.command ELSE Inhibition
      obeyed(guard) == IF envelopes = {} THEN UpdateGuard(guard, now)
                       ELSE LET e == The(envelopes)
                            IN  CommandUntil(guard, permitted(e), now, e.until)
      next == [Revoke(kept, d.gate, now) EXCEPT !.guard = obeyed(@), !.fault = @ \/ faulty]
  IN  [next EXCEPT !.turned = IF Moving(d.out) \/ Moving(next) THEN now ELSE @]

\* service_actuator and record_actuator for what was drained.
Applying(d, envelopes, faulty, now) ==
  Recorded(d, OutputStep(d, envelopes, faulty, now), now)

\* The same as the output task calls them, for the device that take_command has
\* serviced.
OutputServiced(live, faulty, now) ==
  Applying(CommandTaken(live, now), Drained(live, now), faulty, now)
=============================================================================
