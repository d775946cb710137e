------------------------------ MODULE Recovery ------------------------------
(***************************************************************************)
(* Finding the way back to the route: the feedback follower of             *)
(* tracking/controller.rs, the resting start every plan and every search   *)
(* begins from, and one episode of tracking/recovery.rs with its           *)
(* incremental search and the intercept it validates (all under            *)
(* crates/ezal-core/src).                                                  *)
(*                                                                         *)
(* A feedback sample is [at, pose, error]: when it was acquired, where the *)
(* dish was (told apart by equality only) and how that compares with the   *)
(* target, "good", "fair" or "bad".  An output is [guard, generation,      *)
(* fault, turned]: the relays, the network generation last served under,   *)
(* whether a fault is latched, and the last instant anything was energised.*)
(* An episode in execution is a record `rec`                               *)
(*   episode   : its token                                                 *)
(*   search    : {} or {[start, launch]}                                   *)
(*   intercept : {} or {[start, launch, join]}                             *)
(*   follower  : {} until the launch                                       *)
(*   retryAt, last, pending : as in the code, `last` for last_command_at_ms *)
(* One axis stands for both, which step alike and inhibit together.        *)
(***************************************************************************)
EXTENDS Lifecycle

CONSTANTS
  Coast,            \* TravelLimits::coast_ms
  FeedbackMaxAge,   \* FEEDBACK_MAX_AGE_MS
  ControlStep,      \* PlanningConfig::step_ms
  PlanningLead,     \* INTERCEPT_PLANNING_LEAD_MS
  InterceptGrid,    \* INTERCEPT_GRID_MS
  InterceptRetry,   \* INTERCEPT_RETRY_MS
  RecoveryDwell     \* REACQUISITION_DWELL_MS

ASSUME RecoveryTimesAreNat ==
  /\ Coast \in Nat /\ FeedbackMaxAge \in Nat /\ ControlStep \in Nat
  /\ PlanningLead \in Nat \ {0} /\ InterceptGrid \in Nat \ {0}
  /\ InterceptRetry \in Nat /\ RecoveryDwell \in Nat

\* deviation.rs MEASURED_RECOVERY_MS.
MeasuredRecovery == RecoveryDwell + FeedbackMaxAge

Moving(out) == IsActive(Actual(out.guard))

\* Actuator::resting_history is Some.
Resting(out, now) ==
  /\ ~Moving(out) /\ ~IsActive(Target(out.guard))
  /\ ~out.fault
  /\ now >= out.turned + Coast

\* RestingStart: its duty history is known by when it was last added to.
RestingStart(sample, out, generation, now) ==
  [at |-> now, sampled |-> sample.at, pose |-> sample.pose, turned |-> out.turned,
   generation |-> generation]

\* Simulation::from_rest: the sample itself was acquired after the coast.
Settled(start) ==
  /\ start.at <= start.sampled + FeedbackMaxAge
  /\ start.sampled >= start.turned + Coast

-----------------------------------------------------------------------------
(* AxisFollower and FollowingController.  Whether geometry asks for        *)
(* movement is the environment's choice, `want`.                           *)

NewFollower == [active |-> FALSE, stopped |-> {}, releasing |-> FALSE]

\* AxisFollower::observe.
FollowerSaw(f, active, now) ==
  IF active = f.active THEN f
  ELSE [active |-> active,
        stopped |-> IF f.active THEN {now} ELSE f.stopped,
        releasing |-> FALSE]

\* AxisFollower::request, its refusals: a release runs its course, and the next
\* correction waits for a sample from after the coast.
MayAsk(f, sampled) ==
  IF f.active THEN ~f.releasing ELSE \A t \in f.stopped : sampled >= t + Coast

\* AxisFollower::request.
Asks(f, want, sampled) == want /\ MayAsk(f, sampled)
FollowerAsked(f, want, sampled) ==
  [f EXCEPT !.releasing = f.active /\ (f.releasing \/ ~Asks(f, want, sampled))]

Drive(active) ==
  [kind |-> "Drive", drive |-> [a \in Axis |-> IF active THEN "up" ELSE Off]]

-----------------------------------------------------------------------------

\* Recovery::new.
NewRecovery(episode) ==
  [episode |-> episode, search |-> {}, intercept |-> {}, follower |-> {},
   retryAt |-> episode.started, last |-> {}, pending |-> FALSE]

\* Recovery::hold.
Held(rec, now) ==
  [rec EXCEPT !.search = {}, !.intercept = {}, !.follower = {}, !.last = {},
              !.pending = FALSE, !.retryAt = now + InterceptRetry]

\* Mutant of Missed: an untaken launch command is not looked for.
MissedUnlaunched(rec, now) ==
  \/ \E s \in rec.search : now >= s.launch
  \/ rec.follower = {} /\ \E i \in rec.intercept : now > i.launch
  \/ \E t \in rec.last : now - t > ControlStep

\* Recovery::service holds: the search or the first step missed its launch, or
\* control its cadence.
Missed(rec, now) ==
  \/ \E s \in rec.search : now >= s.launch
  \/ (rec.follower = {} \/ rec.pending) /\ \E i \in rec.intercept : now > i.launch
  \/ \E t \in rec.last : now - t > ControlStep

\* InterceptSearch::new.
Searches(start, aos, ready) == start.at >= aos /\ ready /\ Settled(start)

\* Joins the search may validate: after the launch, on its grid, and early
\* enough to be measured before the episode ends.
Joins(rec) ==
  {j \in UNION {{s.launch + k * InterceptGrid : k \in 1 .. rec.episode.deadline}
                  : s \in rec.search} :
    j + MeasuredRecovery < rec.episode.deadline}

\* Recovery::step for the step that finishes the search, with the join it
\* validated or {}.
SearchEnded(rec, join, now) ==
  IF join = {} THEN Held(rec, now)
  ELSE [rec EXCEPT
         !.intercept = {[start |-> s.start, launch |-> s.launch, join |-> j] :
                          s \in rec.search, j \in join},
         !.search = {}]

\* Intercept::start_unchanged.  Duty that was not added to and idle time that
\* was not interrupted are one fact here: nothing was energised in between.
StartUnchanged(i, start, ready) ==
  /\ start.at = i.launch
  /\ start.pose = i.start.pose
  /\ start.generation = i.start.generation
  /\ ready
  /\ start.at < start.sampled + FeedbackMaxAge
  /\ start.turned = i.start.turned

\* Recovery::command, starting a search.
SearchBegun(rec, start, aos, resting, ready, now) ==
  IF /\ rec.intercept = {} /\ rec.search = {} /\ now >= rec.retryAt
     /\ resting /\ Searches(start, aos, ready)
    THEN [rec EXCEPT !.search = {[start |-> start, launch |-> now + PlanningLead]}]
    ELSE rec

\* Recovery::command, the launch: at its instant and from its start, or never.
Launched(rec, start, resting, ready, now) ==
  IF rec.follower # {} \/ \A i \in rec.intercept : now < i.launch THEN rec
  ELSE IF resting /\ \A i \in rec.intercept : StartUnchanged(i, start, ready)
    THEN [rec EXCEPT !.follower = {NewFollower}, !.pending = TRUE]
  ELSE Held(rec, now)

\* Recovery::command, giving up an intercept that was not measured in time.
Unproven(rec, now) ==
  IF \E i \in rec.intercept : now >= i.join + MeasuredRecovery THEN Held(rec, now) ELSE rec

\* Recovery::command, all but the follower's own choice.
Commanding(rec, start, aos, resting, ready, now) ==
  Unproven(Launched(SearchBegun(rec, start, aos, resting, ready, now),
                    start, resting, ready, now), now)

\* Recovery::rejoined.
HasRejoined(rec, sampled) ==
  rec.follower # {} /\ \E i \in rec.intercept : sampled >= i.join + RecoveryDwell

\* Recovery::observe_output, as FollowingController::observe_output.
OutputSeen(followers, active, now) == {FollowerSaw(f, active, now) : f \in followers}
=============================================================================
