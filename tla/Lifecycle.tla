----------------------------- MODULE Lifecycle -----------------------------
(***************************************************************************)
(* The single-pass policy of crates/ezal-core/src/tracking/lifecycle.rs:   *)
(* one operator, one selection, one plan, one run and one command box, and *)
(* nothing but transitions between them.  A policy is a record `lc`        *)
(*   token       : the operator grant's token, {} while nobody has one     *)
(*   revision    : what a request must have seen                           *)
(*   serial      : the last identity given to a job, run, episode or event *)
(*   mode, phase : TrackingMode, TrackingPhase                             *)
(*   selection   : {} or {[id, original, current]}                         *)
(*   revs        : the input revisions last published, {} before           *)
(*   timing      : PreparationTiming                                       *)
(*   ticket      : the newest planning job                                 *)
(*   plan        : {} or the accepted [inputs, prepareAt, preparation,     *)
(*                 gap, freezeBefore]                                      *)
(*   status      : PlanStatus, the reason itself for Blocked               *)
(*   run         : {} or the current run's serial                          *)
(*   recovery    : {} or {[serial, started, deadline, cause]}              *)
(*   handled     : planned_recovery_handled                                *)
(*   armedBy     : armed_deadline_ms                                       *)
(*   ended       : the last termination, {} or {[event, run, reason]}      *)
(*   receipt     : the last request and its answer                         *)
(*   box         : CommandMailbox                                          *)
(* A grant is reduced to its token: its expiry is noticed at the instant,  *)
(* because every operation advances the lease first.  The clock does not   *)
(* run backwards and counters do not run out, so `failed` is left out.     *)
(***************************************************************************)
EXTENDS Inputs, Mailbox

CONSTANT RecoveryLimit   \* REACQUISITION_LIMIT_MS

ASSUME RecoveryLimitIsPositive == RecoveryLimit \in Nat \ {0}

\* TrackingLifecycle::new.
Boot ==
  [token |-> {}, revision |-> 0, serial |-> 0, mode |-> "Manual", phase |-> "Idle",
   selection |-> {}, revs |-> {}, timing |-> "Scheduled", ticket |-> {}, plan |-> {},
   status |-> "Unplanned", run |-> {}, recovery |-> {}, handled |-> FALSE,
   armedBy |-> {}, ended |-> {}, receipt |-> {}, box |-> {}]

Bumped(lc) == [lc EXCEPT !.revision = @ + 1]
Numbered(lc) == [lc EXCEPT !.serial = @ + 1]
Inhibited(lc) == [lc EXCEPT !.box = Submitted(@, Stop)]

\* lifecycle.rs terminal_phase.
TerminalPhase(reason) ==
  CASE reason = "LossOfSignal" -> "Complete"
    [] reason \in {"Cancelled", "ManualMode"} -> "Cancelled"
    [] reason = "Replaced" -> "Idle"
    [] OTHER -> "Stopped"

\* Mutant of Stopped: the run survives its end.
StoppedRunning(lc, reason) ==
  Inhibited([lc EXCEPT
    !.ended = {[event |-> {s.id : s \in lc.selection}, run |-> lc.run, reason |-> reason]},
    !.mode = "Manual", !.phase = TerminalPhase(reason),
    !.recovery = {}, !.handled = FALSE, !.armedBy = {},
    !.ticket = {}, !.plan = {}, !.status = "Unplanned", !.timing = "Scheduled"])

\* TrackingLifecycle::stop.
Stopped(lc, reason) ==
  Inhibited([lc EXCEPT
    !.ended = {[event |-> {s.id : s \in lc.selection}, run |-> lc.run, reason |-> reason]},
    !.mode = "Manual", !.phase = TerminalPhase(reason),
    !.run = {}, !.recovery = {}, !.handled = FALSE, !.armedBy = {},
    !.ticket = {}, !.plan = {}, !.status = "Unplanned", !.timing = "Scheduled"])

\* TrackingLifecycle::interrupt.
Interrupted(lc, reason) == Stopped(Bumped(lc), reason)

-----------------------------------------------------------------------------
(* Plans.                                                                  *)

Theplan(lc) == CHOOSE p \in lc.plan : TRUE
PassOf(lc) == Theplan(lc).inputs.window
LateGap(p) == {g \in p.gap : g.late}

\* lifecycle.rs admission_deadline.
PlanDeadline(p) ==
  IF LateGap(p) = {} THEN p.inputs.window.aos
  ELSE (CHOOSE g \in LateGap(p) : TRUE).recoveryAt + 1

\* lifecycle.rs has_preparation_time.
HasPreparationTime(p, now) ==
  IF LateGap(p) = {} THEN now + p.preparation < p.inputs.window.aos
  ELSE \A g \in LateGap(p) : now <= g.recoveryAt

\* lifecycle.rs valid_plan, its times.
ValidPlan(p) ==
  IF LateGap(p) = {} THEN p.prepareAt <= p.inputs.window.aos
  ELSE \A g \in LateGap(p) : p.prepareAt = g.recoveryAt /\ p.preparation = 0

\* TrackingLifecycle::armable.
Armable(lc, now) ==
  /\ lc.status \in {"Supported", "SupportedPartial"}
  /\ \E p \in lc.plan :
       /\ lc.ticket = {p.inputs.ticket}
       /\ now < p.freezeBefore
       /\ HasPreparationTime(p, now)

\* TrackingLifecycle::planning_ticket.
PlanningTicket(lc) == IF lc.status = "Planning" THEN lc.ticket ELSE {}

\* TrackingLifecycle::start_job; the caller has a selected current event and
\* published revisions.
JobStarted(lc) ==
  LET next == Bumped(Numbered(lc))
      event == CHOOSE e \in UNION {s.current : s \in lc.selection} : TRUE
      revs == CHOOSE r \in lc.revs : TRUE
  IN  [next EXCEPT
        !.ticket = {[serial |-> next.serial, pass |-> event, revs |-> revs,
                     timing |-> lc.timing]},
        !.plan = {}, !.status = "Planning"]

\* TrackingLifecycle::invalidate_inputs, for a policy without a run.
Invalidated(lc) == [Bumped(lc) EXCEPT !.plan = {}, !.ticket = {}, !.status = "Inputs"]

-----------------------------------------------------------------------------
(* Requests.                                                               *)

Done(lc) == [lc |-> lc, error |-> "none"]
Refused(lc, error) == [lc |-> lc, error |-> error]

\* Mutant of Selected: the revision of the previous satellite's orbit stays.
SelectedKeepingOrbit(lc, event) ==
  LET next == Bumped(Numbered(lc))
      stopped == Stopped(next, "Replaced")
  IN  [stopped EXCEPT
        !.ended = IF lc.mode = "Tracking" THEN @ ELSE lc.ended,
        !.selection = {[id |-> next.serial, original |-> event, current |-> {event}]}]

\* apply, Select.  Publications belong to a satellite, so only the clock's and
\* the start's revisions are carried over.
Selected(lc, event) ==
  LET next == Bumped(Numbered(lc))
      stopped == Stopped(next, "Replaced")
  IN  [stopped EXCEPT
        !.ended = IF lc.mode = "Tracking" THEN @ ELSE lc.ended,
        !.selection = {[id |-> next.serial, original |-> event, current |-> {event}]},
        !.revs = {[r EXCEPT !.orbit = 0] : r \in @}]

\* apply, Arm.
Armed(lc, now) ==
  IF lc.mode # "Manual" \/ ~Armable(lc, now) THEN Refused(lc, "NotReady")
  ELSE Done(Inhibited([Bumped(lc) EXCEPT
         !.mode = "Tracking", !.phase = "Armed", !.armedBy = {PlanDeadline(Theplan(lc))}]))

\* apply, PrepareNow.
PreparedNow(lc) ==
  IF lc.phase # "Armed" \/ \A s \in lc.selection : s.current = {}
    THEN Refused(lc, "NotReady")
    ELSE Done(JobStarted([lc EXCEPT !.timing = "Immediate"]))

\* Mutant of Applied: the operator's view may be out of date.
AppliedUnseen(lc, request, now) ==
  CASE request.action = "Select" -> Done(Selected(lc, request.event))
    [] request.action = "Arm" -> Armed(lc, now)
    [] request.action = "PrepareNow" -> PreparedNow(lc)
    [] request.action = "Cancel" -> Done(Interrupted(lc, "Cancelled"))
    [] request.action = "Manual" -> Done(Interrupted(lc, "ManualMode"))

\* TrackingLifecycle::apply.
Applied(lc, request, now) ==
  IF request.action \notin {"Cancel", "Manual"} /\ request.expected # lc.revision
    THEN Refused(lc, "StateRevision")
  ELSE CASE request.action = "Select" -> Done(Selected(lc, request.event))
         [] request.action = "Arm" -> Armed(lc, now)
         [] request.action = "PrepareNow" -> PreparedNow(lc)
         [] request.action = "Cancel" -> Done(Interrupted(lc, "Cancelled"))
         [] request.action = "Manual" -> Done(Interrupted(lc, "ManualMode"))

Answer(error, revision) == [error |-> error, revision |-> revision]

\* Receipts of the grant the request names.
Receipts(lc, request) == {r \in lc.receipt : r.request.token = request.token}

\* The refusals that leave no receipt: TrackingLifecycle::request up to apply.
RequestProblem(lc, request) ==
  IF request.token \notin lc.token THEN "Lease"
  ELSE IF \E r \in Receipts(lc, request) :
            r.request # request /\ request.seq <= r.request.seq
    THEN "RequestOrder"
  ELSE "none"

\* Mutant of Repeated: a request that was refused may be tried again.
RepeatedSuccess(lc, request) ==
  {r \in Receipts(lc, request) : r.request = request /\ r.result.error = "none"}

\* The receipt that already answers a request.
Repeated(lc, request) == {r \in Receipts(lc, request) : r.request = request}

\* Refusals leave a receipt too.
Receipted(request, applied) ==
  LET result == Answer(applied.error,
                       IF applied.error = "none" THEN applied.lc.revision ELSE 0)
  IN  [lc |-> [applied.lc EXCEPT !.receipt = {[request |-> request, result |-> result]}],
       result |-> result]

\* TrackingLifecycle::request.  What was applied is answered from its receipt.
Requested(lc, request, now) ==
  LET problem == RequestProblem(lc, request)
      repeated == Repeated(lc, request)
  IN  IF problem # "none" THEN [lc |-> lc, result |-> Answer(problem, 0)]
      ELSE IF repeated # {}
        THEN [lc |-> lc, result |-> (CHOOSE r \in repeated : TRUE).result]
      ELSE Receipted(request, Applied(lc, request, now))

\* TrackingLifecycle::claim: an operator new to Manual finds the dish inhibited.
Claimed(lc, token) ==
  IF lc.mode = "Manual" THEN Inhibited([lc EXCEPT !.token = {token}])
  ELSE [lc EXCEPT !.token = {token}]

\* TrackingLifecycle::release, and the expiry TrackingLifecycle::advance
\* notices: only browser-owned motion ends with its browser.
Unowned(lc) ==
  IF lc.mode = "Manual" THEN Inhibited([lc EXCEPT !.token = {}])
  ELSE [lc EXCEPT !.token = {}]

-----------------------------------------------------------------------------
(* Inputs and plans.                                                       *)

\* PlanRevisions::follows.
Follows(revs, before) ==
  \A b \in before :
    revs.orbit >= b.orbit /\ revs.clock >= b.clock /\ revs.start >= b.start

Associate(lc, events) ==
  [lc EXCEPT !.selection = {[s EXCEPT !.current = events] : s \in @}]

\* refresh, its reconciliation, once the revisions are recorded.
Reconciled(lc, matching, changed) ==
  LET moved == \E s \in lc.selection : s.current # matching
      blocked == EventProblem(matching)
  IN  IF matching # {} /\ Associated(matching)
        THEN IF changed \/ moved \/ lc.ticket = {}
               THEN JobStarted(Associate(lc, matching)) ELSE lc
      ELSE IF lc.status = blocked /\ ~changed THEN lc
      ELSE [Associate(Bumped(lc), {}) EXCEPT !.ticket = {}, !.plan = {}, !.status = blocked]

\* TrackingLifecycle::refresh: older publications are refused, and a run only
\* takes note of newer ones.
Refreshed(lc, forecast, revs) ==
  LET recorded == [lc EXCEPT !.revs = {revs}]
  IN  IF ~Follows(revs, lc.revs) THEN lc
      ELSE IF lc.run # {} \/ lc.selection = {} THEN recorded
      ELSE Reconciled(recorded,
                      UNION {Matching(s.original, forecast) : s \in lc.selection},
                      lc.revs # {revs})

\* Why a planner's result is not accepted: publish_plan.  `found` is {} when
\* planning failed or found no supported route.
PlanProblem(found, now) ==
  IF found = {} THEN "Planning"
  ELSE LET p == CHOOSE p \in found : TRUE
       IN  IF ~ValidPlan(p) THEN "InvalidResult"
           ELSE IF now >= p.freezeBefore THEN "Expired"
           ELSE IF ~HasPreparationTime(p, now) THEN "TooLate"
           ELSE "none"

\* TrackingLifecycle::publish_plan for the newest job.  A blocked result keeps
\* its ticket: the same inputs are not planned again.
Planned(lc, found, now) ==
  LET bounded == {[p EXCEPT !.freezeBefore = Earlier(@, PlanDeadline(p))] : p \in found}
      problem == PlanProblem(bounded, now)
      p == CHOOSE p \in bounded : TRUE
  IN  IF problem # "none" THEN [Bumped(lc) EXCEPT !.status = problem]
      ELSE [Bumped(lc) EXCEPT
             !.plan = bounded,
             !.armedBy = IF lc.phase = "Armed" THEN {PlanDeadline(p)} ELSE @,
             !.status = IF p.gap = {} THEN "Supported" ELSE "SupportedPartial"]

-----------------------------------------------------------------------------
(* Episodes.                                                               *)

\* Mutant of Entered: an episode is given its time from the tick that found it.
EnteredNow(lc, cause, due, now) ==
  LET next == Bumped(Numbered(lc))
  IN  Inhibited([next EXCEPT
        !.recovery = {[serial |-> next.serial, started |-> due, cause |-> cause,
                       deadline |-> Earlier(now + RecoveryLimit, PassOf(lc).los)]},
        !.phase = "Reacquiring"])

\* TrackingLifecycle::enter_reacquisition: the budget runs from the instant the
\* episode was due.
Entered(lc, cause, due, now) ==
  LET next == Bumped(Numbered(lc))
  IN  Inhibited([next EXCEPT
        !.recovery = {[serial |-> next.serial, started |-> due, cause |-> cause,
                       deadline |-> Earlier(due + RecoveryLimit, PassOf(lc).los)]},
        !.phase = "Reacquiring"])

\* tick, a run that was not ready by AOS.
Overtaken(lc, now) ==
  IF lc.phase = "Preparing" /\ now >= PassOf(lc).aos
    THEN Entered(lc, "LatePreparation", PassOf(lc).aos, now) ELSE lc

\* Mutant of GapEntered: a planned gap inside an episode starts another.
GapEnteredAnew(lc, now) ==
  LET due == {g \in Theplan(lc).gap : ~lc.handled /\ now >= g.recoveryAt}
  IN  IF due = {} THEN lc
      ELSE Entered([lc EXCEPT !.handled = TRUE], "PlannedGap",
                   (CHOOSE g \in due : TRUE).recoveryAt, now)

\* tick, the frozen plan's own gap: once, and inside an earlier episode's time.
GapEntered(lc, now) ==
  LET due == {g \in Theplan(lc).gap : ~lc.handled /\ now >= g.recoveryAt}
      noted == [lc EXCEPT !.handled = TRUE]
  IN  IF due = {} THEN lc
      ELSE IF lc.recovery # {} THEN noted
      ELSE Entered(noted, "PlannedGap", (CHOOSE g \in due : TRUE).recoveryAt, now)

\* tick, the end of an episode's time, LOS and AOS.
Concluded(lc, now) ==
  LET spent == {r \in lc.recovery : now >= r.deadline}
      pass == PassOf(lc)
  IN  IF spent # {}
        THEN Interrupted(lc, IF \E r \in spent : r.deadline = pass.los
                               THEN "ReacquisitionLossOfSignal" ELSE "ReacquisitionTimeout")
      ELSE IF now >= pass.los
        THEN Interrupted(lc, IF lc.phase = "Following" THEN "LossOfSignal"
                             ELSE "LatePreparation")
      ELSE IF now >= pass.aos /\ lc.phase = "Ready"
        THEN [Bumped(lc) EXCEPT !.phase = "Following"]
      ELSE lc

\* tick, freezing the plan into a run.  A late acquisition begins as an episode.
Frozen(lc, now) ==
  LET next == Bumped(Numbered(lc))
      run == [next EXCEPT !.run = {next.serial}, !.phase = "Preparing", !.status = "Frozen"]
      late == LateGap(Theplan(lc))
  IN  IF late = {} THEN run
      ELSE Entered([run EXCEPT !.handled = TRUE], "LateAcquisition",
                   (CHOOSE g \in late : TRUE).recoveryAt, now)

\* Mutant of Waiting: a plan that is due is frozen, whoever armed it.
WaitingUnarmed(lc, now) ==
  LET p == Theplan(lc)
  IN  IF now >= p.freezeBefore THEN [Bumped(lc) EXCEPT !.plan = {}, !.status = "Expired"]
      ELSE IF now < p.prepareAt THEN lc
      ELSE IF ~Armable(lc, now) THEN [Bumped(lc) EXCEPT !.plan = {}, !.status = "TooLate"]
      ELSE Frozen(lc, now)

\* tick, an accepted plan that is not frozen yet.
Waiting(lc, now) ==
  LET p == Theplan(lc)
  IN  IF now >= p.freezeBefore THEN [Bumped(lc) EXCEPT !.plan = {}, !.status = "Expired"]
      ELSE IF lc.phase # "Armed" \/ now < p.prepareAt THEN lc
      ELSE IF ~Armable(lc, now) THEN [Bumped(lc) EXCEPT !.plan = {}, !.status = "TooLate"]
      ELSE Frozen(lc, now)

\* TrackingLifecycle::tick.
Ticked(lc, now) ==
  IF lc.phase = "Armed" /\ \E t \in lc.armedBy : now >= t
    THEN Interrupted(lc, "LatePreparation")
  ELSE IF lc.run # {} THEN Concluded(GapEntered(Overtaken(lc, now), now), now)
  ELSE IF lc.plan # {} THEN Waiting(lc, now)
  ELSE lc

-----------------------------------------------------------------------------
(* The executor's calls, for the run or episode they name.  Each of them   *)
(* ticks the policy first: `lc` is the policy after that tick.             *)

\* TrackingLifecycle::preparation_ready.
MadeReady(lc, run) ==
  IF lc.run = run /\ lc.phase = "Preparing" THEN [Bumped(lc) EXCEPT !.phase = "Ready"] ELSE lc

\* TrackingLifecycle::begin_reacquisition.
Begun(lc, run, now) ==
  IF lc.run = run /\ lc.recovery = {} /\ lc.phase = "Following"
    THEN Entered(lc, "Deviation", now, now) ELSE lc

\* TrackingLifecycle::finish_reacquisition.
Rejoined(lc, recovery) ==
  IF lc.recovery # {recovery} THEN lc
  ELSE Inhibited([Bumped(lc) EXCEPT !.phase = "Following", !.recovery = {}])

\* TrackingLifecycle::recovery_command.
RecoveryCommanded(lc, recovery, e, now) ==
  IF lc.recovery = {recovery} /\ FreshCommand(e, now)
    THEN [lc EXCEPT !.box = Submitted(@, e)] ELSE lc

\* TrackingLifecycle::tracking_command.
TrackingCommanded(lc, run, e, now) ==
  IF lc.run = run /\ lc.mode = "Tracking" /\ lc.phase # "Reacquiring" /\ FreshCommand(e, now)
    THEN [lc EXCEPT !.box = Submitted(@, e)] ELSE lc

\* TrackingLifecycle::manual_command: movement by hand outdates a plan.
Outdated(lc, command) ==
  IF command.kind = "Jog" /\ (lc.plan # {} \/ lc.ticket # {})
    THEN [Bumped(lc) EXCEPT !.plan = {}, !.ticket = {}, !.status = "Unplanned"]
    ELSE lc

ManuallyCommanded(lc, token, e, now) ==
  IF lc.mode = "Manual" /\ token \in lc.token /\ FreshCommand(e, now)
    THEN [Outdated(lc, e.command) EXCEPT !.box = Submitted(@, e)] ELSE lc
=============================================================================
