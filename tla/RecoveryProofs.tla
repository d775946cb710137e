--------------------------- MODULE RecoveryProofs ---------------------------
(***************************************************************************)
(* What Tracking promises of an episode, for any timing and any order and  *)
(* lateness of tasks: that its first step is applied as it was computed,   *)
(* and that it ends on the route only on a whole dwell near it.            *)
(*                                                                         *)
(* A launch waits in the mailbox only between the halves of one pass, so   *)
(* each operation either keeps what it was computed for or leaves a stop   *)
(* in its place (LaunchesAt).                                              *)
(*                                                                         *)
(* An execution's dwell begins no earlier than the streak of good samples. *)
(* Each operation of a step keeps that (Minds), with the episode open or   *)
(* proved to be over by what the step has heard (Proved); only one that is *)
(* the last of its step may also set out on a new route (Closes).          *)
(***************************************************************************)
EXTENDS TrackingProofs

(* What may be queued besides a run's own commands.                        *)

\* A box that is left alone, or has nothing but a stop.
Keeps(lc, u) == u.box = lc.box \/ u.box = {Stop}

\* An inhibition leaves nothing but a stop, or the inhibition that was there.
LEMMA StopKeeps ==
  ASSUME NEW box
  PROVE  Submitted(box, Stop) = box \/ Submitted(box, Stop) = {Stop}
  BY DEF Submitted

\* Whatever is changed of a policy but its box.
LEMMA InhibitedKeeps ==
  ASSUME NEW lc, Legible(lc)
  PROVE  Keeps(lc, Inhibited(lc))
<1> DEFINE b == Submitted(lc.box, Stop)
           u == [lc EXCEPT !.box = b]
<1>1. b = lc.box \/ b = {Stop}
  BY StopKeeps
<1>2. Inhibited(lc) = u
  BY DEF Inhibited
<1> HIDE DEF b
<1>3. u.box = b
  BY DEF Legible, Has, PolicyFields
<1> QED BY <1>1, <1>2, <1>3 DEF Keeps

\* New revisions and serials.
LEMMA BumpedKeeps ==
  ASSUME NEW lc, Legible(lc)
  PROVE  /\ Bumped(lc).box = lc.box /\ Numbered(lc).box = lc.box
         /\ Bumped(Numbered(lc)).box = lc.box
<1>1. ASSUME NEW v, Legible(v) PROVE Bumped(v).box = v.box /\ Numbered(v).box = v.box
  BY <1>1 DEF Bumped, Numbered, Legible, Has, PolicyFields
<1>2. Legible(Numbered(lc))
  BY NumberedTells
<1> QED BY <1>1, <1>2

\* A stopped policy (lifecycle.rs stop).
LEMMA StoppedKeeps ==
  ASSUME NEW lc, Legible(lc), NEW reason
  PROVE  Keeps(lc, Stopped(lc, reason))
<1> DEFINE ended == {[event |-> {s.id : s \in lc.selection}, run |-> lc.run, reason |-> reason]}
           phase == TerminalPhase(reason)
           v == [lc EXCEPT
                  !.ended = ended, !.mode = "Manual", !.phase = phase,
                  !.run = {}, !.recovery = {}, !.handled = FALSE, !.armedBy = {},
                  !.ticket = {}, !.plan = {}, !.status = "Unplanned", !.timing = "Scheduled"]
<1>1. Stopped(lc, reason) = Inhibited(v)
  BY DEF Stopped
<1> HIDE DEF ended, phase
<1>2. Has(v, PolicyFields) /\ v.revision = lc.revision /\ v.box = lc.box
  BY Zenon DEF Legible, Has, PolicyFields
<1> HIDE DEF v
<1>3. Legible(v)
  BY <1>2 DEF Legible
<1> QED BY <1>1, <1>2, <1>3, InhibitedKeeps DEF Keeps

\* An interruption leaves no run and nothing but a stop (lifecycle.rs interrupt).
LEMMA InterruptedKeeps ==
  ASSUME NEW lc, Legible(lc), NEW reason
  PROVE  Keeps(lc, Interrupted(lc, reason))
<1> DEFINE v == Bumped(lc)
<1>1. Legible(v) /\ v.box = lc.box
  BY BumpedTells, BumpedKeeps
<1>2. Interrupted(lc, reason) = Stopped(v, reason)
  BY DEF Interrupted
<1> HIDE DEF v
<1> QED BY <1>1, <1>2, StoppedKeeps DEF Keeps

\* A dropped preview (lifecycle.rs invalidate_inputs).
LEMMA InvalidatedKeeps ==
  ASSUME NEW lc, Legible(lc)
  PROVE  Invalidated(lc).box = lc.box
<1> DEFINE v == Bumped(lc)
<1>1. Legible(v) /\ v.box = lc.box
  BY BumpedTells, BumpedKeeps
<1>2. Invalidated(lc) = [v EXCEPT !.plan = {}, !.ticket = {}, !.status = "Inputs"]
  BY DEF Invalidated
<1> HIDE DEF v
<1> QED BY <1>1, <1>2 DEF Legible, Has, PolicyFields

\* A started job (lifecycle.rs start_job).
LEMMA JobStartedKeeps ==
  ASSUME NEW lc, Legible(lc)
  PROVE  JobStarted(lc).box = lc.box
<1> DEFINE v == Bumped(Numbered(lc))
           event == CHOOSE e \in UNION {s.current : s \in lc.selection} : TRUE
           revs == CHOOSE r \in lc.revs : TRUE
           ticket == {[serial |-> v.serial, pass |-> event, revs |-> revs, timing |-> lc.timing]}
<1>1. Legible(v) /\ v.box = lc.box
  BY RenumberedTells, BumpedKeeps
<1>2. JobStarted(lc) = [v EXCEPT !.ticket = ticket, !.plan = {}, !.status = "Planning"]
  BY DEF JobStarted
<1> HIDE DEF v, ticket
<1> QED BY <1>1, <1>2 DEF Legible, Has, PolicyFields

\* A selection (lifecycle.rs apply).
LEMMA SelectedKeeps ==
  ASSUME NEW lc, Legible(lc), NEW event
  PROVE  Keeps(lc, Selected(lc, event))
<1> DEFINE next == Bumped(Numbered(lc))
           v == Stopped(next, "Replaced")
           ended == IF lc.mode = "Tracking" THEN v.ended ELSE lc.ended
           selection == {[id |-> next.serial, original |-> event, current |-> {event}]}
           revs == {[r EXCEPT !.orbit = 0] : r \in v.revs}
<1>1. Legible(next) /\ next.box = lc.box
  BY RenumberedTells, BumpedKeeps
<1>2. Selected(lc, event) = [v EXCEPT !.ended = ended, !.selection = selection, !.revs = revs]
  BY DEF Selected
<1> HIDE DEF next
<1>3. Legible(v) /\ Keeps(lc, v)
  BY <1>1, StoppedTells, StoppedKeeps DEF Keeps
<1> HIDE DEF v, ended, selection, revs
<1>4. [v EXCEPT !.ended = ended, !.selection = selection, !.revs = revs].box = v.box
  BY <1>3 DEF Legible, Has, PolicyFields
<1> QED BY <1>2, <1>3, <1>4 DEF Keeps

\* An armed pass (lifecycle.rs apply).
LEMMA ArmedKeeps ==
  ASSUME NEW lc, Legible(lc), NEW t
  PROVE  Keeps(lc, Armed(lc, t).lc)
<1> DEFINE b == Bumped(lc)
           by == {PlanDeadline(Theplan(lc))}
           u == [b EXCEPT !.mode = "Tracking", !.phase = "Armed", !.armedBy = by]
<1>1. Legible(b) /\ b.box = lc.box
  BY BumpedTells, BumpedKeeps
<1>2. Armed(lc, t).lc \in {lc, Inhibited(u)}
  BY DEF Armed, Done, Refused
<1> HIDE DEF b, by
<1>3. Has(u, PolicyFields) /\ u.revision = b.revision /\ u.box = b.box
  BY <1>1 DEF Legible, Has, PolicyFields
<1> HIDE DEF u
<1>4. Keeps(u, Inhibited(u))
  BY <1>1, <1>3, InhibitedKeeps DEF Legible
<1> QED BY <1>1, <1>2, <1>3, <1>4 DEF Keeps

\* An immediate preparation (lifecycle.rs apply).
LEMMA PreparedNowKeeps ==
  ASSUME NEW lc, Legible(lc)
  PROVE  Keeps(lc, PreparedNow(lc).lc)
<1> DEFINE v == [lc EXCEPT !.timing = "Immediate"]
<1>1. Legible(v) /\ v.box = lc.box
  BY DEF Legible, Has, PolicyFields
<1>2. PreparedNow(lc).lc \in {lc, JobStarted(v)}
  BY DEF PreparedNow, Done, Refused
<1> HIDE DEF v
<1> QED BY <1>1, <1>2, JobStartedKeeps DEF Keeps

\* An answered request (lifecycle.rs request).
LEMMA RequestedKeeps ==
  ASSUME NEW lc, Legible(lc), NEW q, RequestOK(q), NEW t
  PROVE  Keeps(lc, Requested(lc, q, t).lc)
<1> DEFINE done == Applied(lc, q, t)
           result == Answer(done.error, IF done.error = "none" THEN done.lc.revision ELSE 0)
           receipt == {[request |-> q, result |-> result]}
           u == [done.lc EXCEPT !.receipt = receipt]
<1>1. Legible(done.lc)
  BY AppliedTells DEF Tells
<1>2. Keeps(lc, done.lc)
  <2>1. done.lc \in {lc, Selected(lc, q.event), Armed(lc, t).lc, PreparedNow(lc).lc,
                     Interrupted(lc, "Cancelled"), Interrupted(lc, "ManualMode")}
    <3>1. q.action \in {"Select", "Arm", "PrepareNow", "Cancel", "Manual"}
      BY DEF RequestOK
    <3> QED BY <3>1 DEF Applied, Refused, Done
  <2> HIDE DEF done
  <2> QED BY <2>1, SelectedKeeps, ArmedKeeps, PreparedNowKeeps, InterruptedKeeps DEF Keeps
<1>3. Requested(lc, q, t).lc \in {lc, u}
  BY DEF Requested, Receipted
<1> HIDE DEF done, receipt
<1>4. u.box = done.lc.box
  BY <1>1 DEF Legible, Has, PolicyFields
<1> QED BY <1>2, <1>3, <1>4 DEF Keeps

\* An operator who comes or goes (lifecycle.rs claim and release).
LEMMA GrantKeeps ==
  ASSUME NEW lc, Legible(lc)
  PROVE  Keeps(lc, Unowned(lc)) /\ \A token : Keeps(lc, Claimed(lc, token))
<1>1. ASSUME NEW token
      PROVE  LET u == [lc EXCEPT !.token = token] IN Keeps(lc, u) /\ Keeps(lc, Inhibited(u))
  <2> DEFINE u == [lc EXCEPT !.token = token]
  <2>1. Legible(u) /\ u.box = lc.box
    BY DEF Legible, Has, PolicyFields
  <2> HIDE DEF u
  <2>2. Keeps(lc, u) /\ Keeps(lc, Inhibited(u))
    BY <2>1, InhibitedKeeps DEF Keeps
  <2> QED BY <2>2 DEF u
<1> QED BY <1>1 DEF Unowned, Claimed

\* A refresh (lifecycle.rs refresh).
LEMMA RefreshedKeeps ==
  ASSUME NEW lc, Legible(lc), NEW forecast, NEW revs
  PROVE  Refreshed(lc, forecast, revs).box = lc.box
<1> DEFINE noted == [lc EXCEPT !.revs = {revs}]
           matching == UNION {Matching(s.original, forecast) : s \in lc.selection}
           changed == lc.revs # {revs}
           blocked == EventProblem(matching)
<1>1. \/ Refreshed(lc, forecast, revs) = lc \/ Refreshed(lc, forecast, revs) = noted
      \/ Refreshed(lc, forecast, revs) = Reconciled(noted, matching, changed)
  BY DEF Refreshed
<1>2. Legible(noted) /\ noted.box = lc.box
  BY DEF Legible, Has, PolicyFields
<1> HIDE DEF noted, matching, changed, blocked
<1> DEFINE v == Associate(noted, matching)
           w == Associate(Bumped(noted), {})
           x == [w EXCEPT !.ticket = {}, !.plan = {}, !.status = blocked]
<1>3. \/ Reconciled(noted, matching, changed) = noted
      \/ Reconciled(noted, matching, changed) = JobStarted(v)
      \/ Reconciled(noted, matching, changed) = x
  BY DEF Reconciled, blocked
<1>4. ASSUME NEW u, Legible(u), NEW events
      PROVE  Legible(Associate(u, events)) /\ Associate(u, events).box = u.box
  <2> DEFINE selection == {[s EXCEPT !.current = events] : s \in u.selection}
  <2>1. Associate(u, events) = [u EXCEPT !.selection = selection]
    BY DEF Associate
  <2> HIDE DEF selection
  <2> QED BY <1>4, <2>1 DEF Legible, Has, PolicyFields
<1>5. Legible(v) /\ v.box = noted.box
  BY <1>2, <1>4
<1>6. Legible(w) /\ w.box = noted.box
  <2>1. Legible(Bumped(noted)) /\ Bumped(noted).box = noted.box
    BY <1>2, BumpedTells, BumpedKeeps
  <2> QED BY <1>4, <2>1
<1> HIDE DEF v, w
<1>7. JobStarted(v).box = v.box
  BY <1>5, JobStartedKeeps
<1>8. x.box = w.box
  BY <1>6 DEF Legible, Has, PolicyFields
<1> QED BY <1>1, <1>2, <1>3, <1>5, <1>6, <1>7, <1>8

\* A plan (lifecycle.rs publish_plan).
LEMMA PlannedKeeps ==
  ASSUME NEW lc, Legible(lc), NEW found, NEW t
  PROVE  Planned(lc, found, t).box = lc.box
<1> DEFINE bounded == {[p EXCEPT !.freezeBefore = Earlier(@, PlanDeadline(p))] : p \in found}
           problem == PlanProblem(bounded, t)
           p == CHOOSE p \in bounded : TRUE
           v == Bumped(lc)
           by == IF lc.phase = "Armed" THEN {PlanDeadline(p)} ELSE v.armedBy
           status == IF p.gap = {} THEN "Supported" ELSE "SupportedPartial"
           x == [v EXCEPT !.status = problem]
           y == [v EXCEPT !.plan = bounded, !.armedBy = by, !.status = status]
<1>1. Planned(lc, found, t) = x \/ Planned(lc, found, t) = y
  BY DEF Planned
<1>2. Legible(v) /\ v.box = lc.box
  BY BumpedTells, BumpedKeeps
<1> HIDE DEF bounded, problem, p, v, by, status
<1>3. x.box = v.box /\ y.box = v.box
  BY <1>2 DEF Legible, Has, PolicyFields
<1> QED BY <1>1, <1>2, <1>3

\* An episode that begins (lifecycle.rs enter_reacquisition).
LEMMA EnteredKeeps ==
  ASSUME NEW lc, Legible(lc), NEW cause, NEW due, NEW t
  PROVE  Keeps(lc, Entered(lc, cause, due, t))
<1> DEFINE next == Bumped(Numbered(lc))
           recovery == {[serial |-> next.serial, started |-> due, cause |-> cause,
                         deadline |-> Earlier(due + RecoveryLimit, PassOf(lc).los)]}
           v == [next EXCEPT !.recovery = recovery, !.phase = "Reacquiring"]
<1>1. Entered(lc, cause, due, t) = Inhibited(v)
  BY DEF Entered
<1>2. Legible(next) /\ next.box = lc.box
  BY RenumberedTells, BumpedKeeps
<1> HIDE DEF recovery, next
<1>3. Has(v, PolicyFields) /\ v.revision = next.revision /\ v.box = next.box
  BY <1>2 DEF Legible, Has, PolicyFields
<1> HIDE DEF v
<1>4. Keeps(v, Inhibited(v))
  BY <1>2, <1>3, InhibitedKeeps DEF Legible
<1> QED BY <1>1, <1>2, <1>3, <1>4 DEF Keeps

\* A phase, a noted gap and a dropped plan.
LEMMA PhasedKeeps ==
  ASSUME NEW lc, Legible(lc), NEW phase, NEW status
  PROVE  /\ [Bumped(lc) EXCEPT !.phase = phase].box = lc.box
         /\ [Bumped(lc) EXCEPT !.plan = {}, !.status = status].box = lc.box
         /\ LET u == [lc EXCEPT !.handled = TRUE] IN Legible(u) /\ u.box = lc.box
<1> DEFINE v == Bumped(lc)
<1>1. Legible(v) /\ v.box = lc.box
  BY BumpedTells, BumpedKeeps
<1> HIDE DEF v
<1>2. [v EXCEPT !.phase = phase].box = v.box /\ [v EXCEPT !.plan = {}, !.status = status].box = v.box
  BY <1>1 DEF Legible, Has, PolicyFields
<1>3. LET u == [lc EXCEPT !.handled = TRUE] IN Legible(u) /\ u.box = lc.box
  BY DEF Legible, Has, PolicyFields
<1> QED BY <1>1, <1>2, <1>3 DEF v

\* A freeze (lifecycle.rs tick).
LEMMA FrozenKeeps ==
  ASSUME NEW lc, Legible(lc), NEW t
  PROVE  Keeps(lc, Frozen(lc, t))
<1> DEFINE next == Bumped(Numbered(lc))
           run == [next EXCEPT !.run = {next.serial}, !.phase = "Preparing", !.status = "Frozen"]
           late == LateGap(Theplan(lc))
           handled == [run EXCEPT !.handled = TRUE]
           due == (CHOOSE g \in late : TRUE).recoveryAt
<1>1. Frozen(lc, t) = run \/ Frozen(lc, t) = Entered(handled, "LateAcquisition", due, t)
  BY DEF Frozen
<1>2. Legible(next) /\ next.box = lc.box
  BY RenumberedTells, BumpedKeeps
<1> HIDE DEF next, late, due
<1>3. Has(run, PolicyFields) /\ run.revision = next.revision /\ run.box = next.box
  BY <1>2 DEF Legible, Has, PolicyFields
<1> HIDE DEF run
<1>4. Legible(handled) /\ handled.box = run.box
  BY <1>2, <1>3, PhasedKeeps DEF Legible
<1> HIDE DEF handled
<1> QED BY <1>1, <1>2, <1>3, <1>4, EnteredKeeps DEF Keeps

\* The end of an episode or of a pass (lifecycle.rs tick).
LEMMA ConcludedKeeps ==
  ASSUME NEW lc, Legible(lc), NEW t
  PROVE  /\ Keeps(lc, Concluded(lc, t))
         /\ \/ Concluded(lc, t) = lc \/ \E reason : Concluded(lc, t) = Interrupted(lc, reason)
            \/ lc.phase = "Ready"
<1>1. \/ Concluded(lc, t) = lc \/ \E reason : Concluded(lc, t) = Interrupted(lc, reason)
      \/ lc.phase = "Ready" /\ Concluded(lc, t) = [Bumped(lc) EXCEPT !.phase = "Following"]
  <2> DEFINE reason1 == IF \E r \in {r \in lc.recovery : t >= r.deadline} :
                             r.deadline = PassOf(lc).los
                          THEN "ReacquisitionLossOfSignal" ELSE "ReacquisitionTimeout"
             reason2 == IF lc.phase = "Following" THEN "LossOfSignal" ELSE "LatePreparation"
  <2>1. \/ Concluded(lc, t) = lc \/ Concluded(lc, t) = Interrupted(lc, reason1)
        \/ Concluded(lc, t) = Interrupted(lc, reason2)
        \/ lc.phase = "Ready" /\ Concluded(lc, t) = [Bumped(lc) EXCEPT !.phase = "Following"]
    BY DEF Concluded
  <2> HIDE DEF reason1, reason2
  <2> QED BY <2>1
<1>2. Keeps(lc, lc) /\ \A reason : Keeps(lc, Interrupted(lc, reason))
  BY InterruptedKeeps DEF Keeps
<1>3. Keeps(lc, [Bumped(lc) EXCEPT !.phase = "Following"])
  BY PhasedKeeps DEF Keeps
<1> QED BY <1>1, <1>2, <1>3

\* Whatever time does to a policy (lifecycle.rs tick).
LEMMA TickedKeeps ==
  ASSUME NEW lc, Legible(lc), NEW t
  PROVE  Keeps(lc, Ticked(lc, t))
<1> DEFINE v == Overtaken(lc, t)
           w == GapEntered(v, t)
<1>1. \/ Ticked(lc, t) = lc \/ Ticked(lc, t) = Interrupted(lc, "LatePreparation")
      \/ Ticked(lc, t) = Concluded(w, t) \/ Ticked(lc, t) = Waiting(lc, t)
  BY DEF Ticked
<1>2. Legible(v) /\ Keeps(lc, v)
  BY OvertakenTells, EnteredKeeps DEF Tells, Overtaken, Keeps
<1> HIDE DEF v
<1>3. Legible(w) /\ Keeps(v, w)
  <2> DEFINE noted == [v EXCEPT !.handled = TRUE]
  <2>1. w = v \/ w = noted \/ \E due : w = Entered(noted, "PlannedGap", due, t)
    BY DEF GapEntered
  <2>2. Legible(w)
    BY <1>2, GapEnteredTells DEF Tells
  <2>3. Legible(noted) /\ noted.box = v.box
    BY <1>2, PhasedKeeps
  <2> HIDE DEF noted, w
  <2>4. \A due : Keeps(noted, Entered(noted, "PlannedGap", due, t))
    BY <2>3, EnteredKeeps
  <2> QED BY <2>1, <2>2, <2>3, <2>4 DEF Keeps
<1> HIDE DEF w
<1>4. Keeps(w, Concluded(w, t))
  BY <1>3, ConcludedKeeps
<1>5. Keeps(lc, Waiting(lc, t))
  <2>1. \/ Waiting(lc, t) = lc \/ Waiting(lc, t) = Frozen(lc, t)
        \/ \E status : Waiting(lc, t) = [Bumped(lc) EXCEPT !.plan = {}, !.status = status]
    BY Zenon DEF Waiting
  <2>2. ASSUME NEW status, Waiting(lc, t) = [Bumped(lc) EXCEPT !.plan = {}, !.status = status]
        PROVE  Waiting(lc, t).box = lc.box
    <3>1. [Bumped(lc) EXCEPT !.plan = {}, !.status = status].box = lc.box
      BY PhasedKeeps
    <3> QED BY <2>2, <3>1
  <2> QED BY <2>1, <2>2, FrozenKeeps, Zenon DEF Keeps
<1> QED BY <1>1, <1>2, <1>3, <1>4, <1>5, InterruptedKeeps DEF Keeps

\* Readiness, a deviation and its end (lifecycle.rs).
LEMMA RunKeeps ==
  ASSUME NEW lc, Legible(lc), NEW run, NEW recovery, NEW t
  PROVE  /\ MadeReady(lc, run).box = lc.box
         /\ Keeps(lc, Begun(lc, run, t)) /\ Keeps(lc, Rejoined(lc, recovery))
         /\ Keeps(lc, RecoveryCommanded(lc, recovery, Stop, t))
<1>1. MadeReady(lc, run).box = lc.box
  BY PhasedKeeps DEF MadeReady
<1>2. Keeps(lc, Begun(lc, run, t))
  BY EnteredKeeps DEF Begun, Keeps
<1>3. Keeps(lc, Rejoined(lc, recovery))
  <2> DEFINE v == Bumped(lc)
             u == [v EXCEPT !.phase = "Following", !.recovery = {}]
  <2>1. Legible(v) /\ v.box = lc.box
    BY BumpedTells, BumpedKeeps
  <2>2. Rejoined(lc, recovery) = lc \/ Rejoined(lc, recovery) = Inhibited(u)
    BY DEF Rejoined
  <2> HIDE DEF v
  <2>3. Legible(u) /\ u.box = v.box
    BY <2>1 DEF Legible, Has, PolicyFields
  <2> HIDE DEF u
  <2> QED BY <2>1, <2>2, <2>3, InhibitedKeeps DEF Keeps
<1>4. Keeps(lc, RecoveryCommanded(lc, recovery, Stop, t))
  <2> DEFINE b == Submitted(lc.box, Stop)
             u == [lc EXCEPT !.box = b]
  <2>1. RecoveryCommanded(lc, recovery, Stop, t) \in {lc, u}
    BY DEF RecoveryCommanded
  <2>2. b = lc.box \/ b = {Stop}
    BY StopKeeps
  <2> HIDE DEF b
  <2>3. u.box = b
    BY DEF Legible, Has, PolicyFields
  <2> QED BY <2>1, <2>2, <2>3 DEF Keeps
<1> QED BY <1>1, <1>2, <1>3, <1>4

\* A box that is not known to hold an inhibition is inhibited by nothing but a
\* stop (mailbox.rs submit).
LEMMA InhibitedDrops ==
  ASSUME NEW lc, Legible(lc), NEW e, lc.box = {e}, e.command.kind # "Inhibit"
  PROVE  /\ Submitted(lc.box, Stop) = {Stop} /\ Inhibited(lc).box = {Stop}
         /\ \A reason : Interrupted(lc, reason).box = {Stop}
<1>1. ASSUME NEW v, Legible(v), v.box = {e} PROVE Inhibited(v).box = {Stop}
  <2> DEFINE b == Submitted(v.box, Stop)
  <2>1. b = {Stop}
    BY <1>1 DEF Submitted
  <2>2. Inhibited(v) = [v EXCEPT !.box = b]
    BY DEF Inhibited
  <2> HIDE DEF b
  <2> QED BY <1>1, <2>1, <2>2 DEF Legible, Has, PolicyFields
<1>2. ASSUME NEW reason PROVE Interrupted(lc, reason).box = {Stop}
  <2> DEFINE b == Bumped(lc)
             ended == {[event |-> {s.id : s \in b.selection}, run |-> b.run, reason |-> reason]}
             phase == TerminalPhase(reason)
             v == [b EXCEPT
                    !.ended = ended, !.mode = "Manual", !.phase = phase,
                    !.run = {}, !.recovery = {}, !.handled = FALSE, !.armedBy = {},
                    !.ticket = {}, !.plan = {}, !.status = "Unplanned", !.timing = "Scheduled"]
  <2>1. Interrupted(lc, reason) = Inhibited(v)
    BY DEF Interrupted, Stopped
  <2>2. Legible(b) /\ b.box = lc.box
    BY BumpedTells, BumpedKeeps
  <2> HIDE DEF b, ended, phase
  <2>3. Has(v, PolicyFields) /\ v.revision = b.revision /\ v.box = b.box
    BY <2>2, Zenon DEF Legible, Has, PolicyFields
  <2> HIDE DEF v
  <2> QED BY <1>1, <2>1, <2>2, <2>3 DEF Legible
<1> QED BY <1>1, <1>2 DEF Submitted

\* What a command of an episode relies on.
Persists(lc, u) ==
  /\ u.box = lc.box /\ u.recovery = lc.recovery /\ u.phase = lc.phase
  /\ u.run = lc.run /\ u.plan = lc.plan

\* Time ends an episode by a stop, or leaves it as it was (lifecycle.rs tick).
LEMMA TickedPersists ==
  ASSUME NEW lc, Legible(lc), lc.phase = "Reacquiring", lc.run # {}, lc.recovery # {}, NEW t
  PROVE  LET u == Ticked(lc, t)
         IN  Persists(lc, u) \/ \E v, reason : Legible(v) /\ v.box = lc.box /\ u = Interrupted(v, reason)
<1> DEFINE noted == [lc EXCEPT !.handled = TRUE]
           w == GapEntered(lc, t)
<1>1. Ticked(lc, t) = Concluded(w, t)
  BY DEF Ticked, Overtaken
<1>2. w = lc \/ w = noted
  BY DEF GapEntered
<1>3. Legible(noted) /\ Persists(lc, noted)
  BY DEF Legible, Has, PolicyFields, Persists
<1> HIDE DEF noted, w
<1>4. Legible(w) /\ Persists(lc, w)
  BY <1>2, <1>3 DEF Persists
<1>5. Concluded(w, t) = w \/ \E reason : Concluded(w, t) = Interrupted(w, reason)
  BY <1>4, ConcludedKeeps DEF Persists
<1> QED BY <1>1, <1>4, <1>5 DEF Persists

-----------------------------------------------------------------------------
(* A device that does nothing of its own for a launch.                     *)

\* Every recovery that was held back is held back still.
Unlaunched(exec) == \A e \in exec : \A r \in e.rec : ~r.pending
Calms(before, after) == Formed(after) /\ (Unlaunched(before) => Unlaunched(after))

Tames(lc, u) == Tells(lc, u) /\ Keeps(lc, u)
Whole(x) == Clear(x) /\ Formed(x.exec)

\* No command is queued but a stop, and no launch is begun.
Sheds(x, y) == Shows(x, y) /\ Keeps(x.lc, y.lc) /\ Calms(x.exec, y.exec)

\* Two changes are one.
LEMMA TamesTwice ==
  ASSUME NEW lc, Legible(lc), NEW u, Tames(lc, u), NEW v, Tames(u, v)
  PROVE  Tames(lc, v)
<1>1. Tells(lc, v)
  BY TellsTwice DEF Tames
<1>2. Keeps(lc, v)
  BY DEF Tames, Keeps
<1> QED BY <1>1, <1>2 DEF Tames

\* An interruption.
LEMMA InterruptedTames ==
  ASSUME NEW lc, Legible(lc), NEW reason
  PROVE  Tames(lc, Interrupted(lc, reason))
<1>1. Tells(lc, Interrupted(lc, reason))
  BY InterruptedTells
<1>2. Keeps(lc, Interrupted(lc, reason))
  BY InterruptedKeeps
<1> QED BY <1>1, <1>2 DEF Tames

\* A dropped preview.
LEMMA InvalidatedTames ==
  ASSUME NEW lc, Legible(lc)
  PROVE  Tames(lc, Invalidated(lc))
  BY InvalidatedTells, InvalidatedKeeps DEF Tames, Keeps

\* A tick.
LEMMA TickedTames ==
  ASSUME NEW lc, Legible(lc), NEW t
  PROVE  Tames(lc, Ticked(lc, t)) /\ Legible(Ticked(lc, t))
  BY TickedTells, TickedKeeps DEF Tames

\* An answered request.
LEMMA RequestedTames ==
  ASSUME NEW lc, Legible(lc), NEW q, RequestOK(q), NEW t
  PROVE  Tames(lc, Requested(lc, q, t).lc)
<1>1. Tells(lc, Requested(lc, q, t).lc)
  BY RequestedTells
<1>2. Keeps(lc, Requested(lc, q, t).lc)
  BY RequestedKeeps
<1> QED BY <1>1, <1>2 DEF Tames

\* An operator who comes or goes.
LEMMA GrantTames ==
  ASSUME NEW lc, Legible(lc)
  PROVE  Tames(lc, Unowned(lc)) /\ \A token : Tames(lc, Claimed(lc, token))
  BY GrantTells, GrantKeeps DEF Tames

\* A refresh.
LEMMA RefreshedTames ==
  ASSUME NEW lc, Legible(lc), NEW forecast, NEW revs
  PROVE  Tames(lc, Refreshed(lc, forecast, revs))
  BY RefreshedTells, RefreshedKeeps DEF Tames, Keeps

\* A plan.
LEMMA PlannedTames ==
  ASSUME NEW lc, Legible(lc), NEW found, NEW t
  PROVE  Tames(lc, Planned(lc, found, t))
  BY PlannedTells, PlannedKeeps DEF Tames, Keeps

\* Readiness, a deviation and its end, and a stop of an episode.
LEMMA RunTames ==
  ASSUME NEW lc, Legible(lc), NEW run, NEW recovery, NEW t
  PROVE  /\ Tames(lc, MadeReady(lc, run))
         /\ Tames(lc, Begun(lc, run, t)) /\ Tames(lc, Rejoined(lc, recovery))
         /\ Tames(lc, RecoveryCommanded(lc, recovery, Stop, t))
<1>1. MadeReady(lc, run).box = lc.box
  BY RunKeeps
<1>2. /\ Keeps(lc, Begun(lc, run, t)) /\ Keeps(lc, Rejoined(lc, recovery))
      /\ Keeps(lc, RecoveryCommanded(lc, recovery, Stop, t))
  BY RunKeeps
<1>3. /\ Tells(lc, MadeReady(lc, run))
      /\ Tells(lc, Begun(lc, run, t)) /\ Tells(lc, Rejoined(lc, recovery))
      /\ Tells(lc, RecoveryCommanded(lc, recovery, Stop, t))
  BY MadeReadyTells, BegunTells, RejoinedTells, CommandedTells
<1> QED BY <1>1, <1>2, <1>3 DEF Tames, Keeps

\* No change.
LEMMA ShedsStill ==
  ASSUME NEW x, Whole(x)
  PROVE  Sheds(x, x)
  BY ShowsStill DEF Whole, Sheds, Keeps, Calms

\* What is left can lose more.
LEMMA ShedIsWhole ==
  ASSUME NEW x, NEW y, Sheds(x, y)
  PROVE  Whole(y)
  BY ShownIsClear DEF Sheds, Whole, Calms

\* Two changes are one.
LEMMA ShedsTwice ==
  ASSUME NEW x, Whole(x), NEW y, Sheds(x, y), NEW z, Sheds(y, z)
  PROVE  Sheds(x, z)
<1>1. Shows(x, z)
  BY ShowsTwice DEF Whole, Sheds
<1>2. Keeps(x.lc, z.lc) /\ Calms(x.exec, z.exec)
  BY DEF Sheds, Keeps, Calms
<1> QED BY <1>1, <1>2 DEF Sheds

\* A change of the policy, and of the execution.
LEMMA PolicySheds ==
  ASSUME NEW x, Whole(x), NEW u, Tames(x.lc, u)
  PROVE  /\ Sheds(x, [x EXCEPT !.lc = u])
         /\ \A exec : Calms(x.exec, exec) => Sheds(x, [x EXCEPT !.exec = exec, !.lc = u])
<1>1. Has(x, DeviceFields) /\ Calms(x.exec, x.exec)
  BY DEF Whole, Clear, Calms
<1>2. LET y == [x EXCEPT !.lc = u] IN y.lc = u /\ y.exec = x.exec
  BY <1>1 DEF Has, DeviceFields
<1>3. ASSUME NEW exec
      PROVE  LET z == [x EXCEPT !.exec = exec, !.lc = u] IN z.lc = u /\ z.exec = exec
  BY <1>1 DEF Has, DeviceFields
<1>4. Shows(x, [x EXCEPT !.lc = u])
  BY PolicyShows, Zenon DEF Whole, Tames
<1>5. \A exec : Shows(x, [x EXCEPT !.exec = exec, !.lc = u])
  BY PolicyShows, Zenon DEF Whole, Tames
<1>6. Sheds(x, [x EXCEPT !.lc = u])
  BY <1>1, <1>2, <1>4 DEF Sheds, Tames
<1>7. ASSUME NEW exec, Calms(x.exec, exec)
      PROVE  Sheds(x, [x EXCEPT !.exec = exec, !.lc = u])
  BY <1>3, <1>5, <1>7, Zenon DEF Sheds, Tames
<1> QED BY <1>6, <1>7, Zenon

\* A change of the execution.
LEMMA ExecSheds ==
  ASSUME NEW x, Whole(x), NEW exec, Calms(x.exec, exec)
  PROVE  Sheds(x, [x EXCEPT !.exec = exec])
<1> DEFINE y == [x EXCEPT !.exec = exec]
<1>1. Shows(x, y)
  BY OthersShow, Zenon DEF Whole
<1>2. y.lc = x.lc /\ y.exec = exec
  BY DEF Whole, Clear, Has, DeviceFields
<1> QED BY <1>1, <1>2 DEF Sheds, Keeps

\* A change of anything else.
LEMMA OthersShed ==
  ASSUME NEW x, Whole(x), NEW v, NEW w
  PROVE  /\ Sheds(x, [x EXCEPT !.bound = v])
         /\ Sheds(x, [x EXCEPT !.gate = v]) /\ Sheds(x, [x EXCEPT !.clock = v])
         /\ Sheds(x, [x EXCEPT !.startRev = v]) /\ Sheds(x, [x EXCEPT !.identity = v])
         /\ Sheds(x, [x EXCEPT !.healthy = v, !.sample = w])
         /\ Sheds(x, [x EXCEPT !.out = v, !.applied = w])
<1>0. ASSUME NEW y, Shows(x, y), y.lc = x.lc, y.exec = x.exec PROVE Sheds(x, y)
  BY <1>0 DEF Sheds, Keeps, Calms, Whole
<1>1. Has(x, DeviceFields) /\ Clear(x)
  BY DEF Whole, Clear
<1>2. LET y == [x EXCEPT !.bound = v] IN y.exec = x.exec /\ y.lc = x.lc
  BY <1>1 DEF Has, DeviceFields
<1>3. LET y == [x EXCEPT !.clock = v] IN y.exec = x.exec /\ y.lc = x.lc
  BY <1>1 DEF Has, DeviceFields
<1>4. LET y == [x EXCEPT !.gate = v] IN y.exec = x.exec /\ y.lc = x.lc
  BY <1>1 DEF Has, DeviceFields
<1>5. LET y == [x EXCEPT !.startRev = v] IN y.exec = x.exec /\ y.lc = x.lc
  BY <1>1 DEF Has, DeviceFields
<1>6. LET y == [x EXCEPT !.identity = v] IN y.exec = x.exec /\ y.lc = x.lc
  BY <1>1 DEF Has, DeviceFields
<1>7. LET y == [x EXCEPT !.healthy = v, !.sample = w] IN y.exec = x.exec /\ y.lc = x.lc
  BY <1>1 DEF Has, DeviceFields
<1>8. LET y == [x EXCEPT !.out = v, !.applied = w] IN y.exec = x.exec /\ y.lc = x.lc
  BY <1>1 DEF Has, DeviceFields
<1>9. /\ Shows(x, [x EXCEPT !.bound = v])
      /\ Shows(x, [x EXCEPT !.gate = v]) /\ Shows(x, [x EXCEPT !.clock = v])
      /\ Shows(x, [x EXCEPT !.startRev = v]) /\ Shows(x, [x EXCEPT !.identity = v])
      /\ Shows(x, [x EXCEPT !.healthy = v, !.sample = w])
      /\ Shows(x, [x EXCEPT !.out = v, !.applied = w])
  BY <1>1, OthersShow, Zenon
<1> QED BY <1>0, <1>2, <1>3, <1>4, <1>5, <1>6, <1>7, <1>8, <1>9

\* An episode that nothing is held back of.
LEMMA RecoveryFormed ==
  ASSUME NEW r, Has(r, RecoveryFields), NEW f, NEW t, NEW join
  PROVE  /\ Has(Held(r, t), RecoveryFields) /\ ~Held(r, t).pending
         /\ LET u == [r EXCEPT !.follower = f]
            IN  Has(u, RecoveryFields) /\ u.pending = r.pending /\ u.intercept = r.intercept
                /\ u.episode = r.episode
         /\ LET u == [r EXCEPT !.pending = FALSE] IN Has(u, RecoveryFields) /\ ~u.pending
         /\ LET u == SearchEnded(r, join, t)
            IN  Has(u, RecoveryFields) /\ (u.pending => r.pending)
<1>1. /\ Has(Held(r, t), RecoveryFields) /\ ~Held(r, t).pending
  <2> DEFINE at == t + InterceptRetry
             u == [r EXCEPT !.search = {}, !.intercept = {}, !.follower = {}, !.last = {},
                            !.pending = FALSE, !.retryAt = at]
  <2>1. Held(r, t) = u
    BY DEF Held
  <2> HIDE DEF at
  <2>2. Has(u, RecoveryFields) /\ u.pending = FALSE
    BY DEF Has, RecoveryFields
  <2> QED BY <2>1, <2>2
<1>2. LET u == [r EXCEPT !.follower = f]
      IN  Has(u, RecoveryFields) /\ u.pending = r.pending /\ u.intercept = r.intercept
          /\ u.episode = r.episode
  BY DEF Has, RecoveryFields
<1>3. LET u == [r EXCEPT !.pending = FALSE] IN Has(u, RecoveryFields) /\ ~u.pending
  BY DEF Has, RecoveryFields
<1>4. LET u == SearchEnded(r, join, t) IN Has(u, RecoveryFields) /\ (u.pending => r.pending)
  <2> DEFINE i == {[start |-> s.start, launch |-> s.launch, join |-> j] : s \in r.search, j \in join}
             u == [r EXCEPT !.intercept = i, !.search = {}]
  <2>1. SearchEnded(r, join, t) = Held(r, t) \/ SearchEnded(r, join, t) = u
    BY DEF SearchEnded
  <2> HIDE DEF i
  <2>2. Has(u, RecoveryFields) /\ u.pending = r.pending
    BY DEF Has, RecoveryFields
  <2> HIDE DEF u
  <2> QED BY <1>1, <2>1, <2>2
<1> QED BY <1>1, <1>2, <1>3, <1>4

\* A new episode has no launch yet.
LEMMA NewRecoveryIdle ==
  ASSUME NEW r
  PROVE  Has(NewRecovery(r), RecoveryFields) /\ ~NewRecovery(r).pending
  BY DEF NewRecovery, Has, RecoveryFields

\* A mapped execution whose episodes keep their form.
LEMMA ExecutionCalms ==
  ASSUME NEW e, Formed({e}), NEW rec, NEW follower,
         \A r \in rec : Has(r, RecoveryFields),
         Unlaunched({e}) => \A r \in rec : ~r.pending
  PROVE  /\ LET f == [e EXCEPT !.rec = rec]
            IN  Calms({e}, {f}) /\ f.run = e.run /\ f.rec = rec /\ f.seen = e.seen
         /\ LET f == [e EXCEPT !.rec = rec, !.follower = follower]
            IN  Calms({e}, {f}) /\ f.run = e.run /\ f.rec = rec
         /\ LET f == [e EXCEPT !.follower = follower, !.rec = rec]
            IN  Calms({e}, {f}) /\ f.run = e.run /\ f.rec = rec
<1>1. Has(e, ExecutionFields)
  BY DEF Formed
<1>2. ASSUME NEW f, Has(f, ExecutionFields), f.rec = rec PROVE Calms({e}, {f})
  BY <1>2 DEF Calms, Formed, Unlaunched
<1>3. LET f == [e EXCEPT !.rec = rec]
      IN  Has(f, ExecutionFields) /\ f.run = e.run /\ f.rec = rec /\ f.seen = e.seen
  BY <1>1 DEF Has, ExecutionFields
<1>4. LET f == [e EXCEPT !.rec = rec, !.follower = follower]
      IN  Has(f, ExecutionFields) /\ f.run = e.run /\ f.rec = rec
  BY <1>1 DEF Has, ExecutionFields
<1>5. LET f == [e EXCEPT !.follower = follower, !.rec = rec]
      IN  Has(f, ExecutionFields) /\ f.run = e.run /\ f.rec = rec
  BY <1>1 DEF Has, ExecutionFields
<1> QED BY <1>2, <1>3, <1>4, <1>5

\* An execution in step with its episode.
LEMMA EpisodeSyncedCalms ==
  ASSUME NEW e, Formed({e}), NEW lc
  PROVE  Calms({e}, {EpisodeSynced(e, lc)})
<1> DEFINE over == {r \in e.rec : lc.recovery # {r.episode}}
           follower == IF lc.phase = "Following" THEN UNION {r.follower : r \in over} ELSE e.follower
           w == IF over = {} THEN e ELSE [e EXCEPT !.rec = {}, !.follower = follower]
           rec == {NewRecovery(r) : r \in lc.recovery}
           u == [w EXCEPT !.rec = rec]
<1>1. EpisodeSynced(e, lc) \in {w, u}
  BY Zenon DEF EpisodeSynced
<1>2. \A r \in rec : Has(r, RecoveryFields) /\ ~r.pending
  BY NewRecoveryIdle
<1> HIDE DEF over, follower, rec
<1>3. Calms({e}, {w})
  <2>1. Calms({e}, {[e EXCEPT !.rec = {}, !.follower = follower]})
    BY ExecutionCalms, Zenon
  <2> QED BY <2>1 DEF Calms
<1> HIDE DEF w
<1>4. Calms({w}, {u})
  <2>1. Formed({w})
    BY <1>3 DEF Calms
  <2> QED BY <1>2, <2>1, ExecutionCalms, Zenon
<1> HIDE DEF u
<1>5. Calms({e}, {u})
  BY <1>3, <1>4 DEF Calms
<1> QED BY <1>1, <1>3, <1>5

\* What is calm one by one is so together.
LEMMA EachCalms ==
  ASSUME NEW exec, Formed(exec), NEW after,
         \A f \in after : Calms({}, {f}) \/ \E e \in exec : Calms({e}, {f})
  PROVE  Calms(exec, after)
<1>1. \A f \in after : Formed({f})
  BY Zenon DEF Calms
<1>2. Unlaunched(exec) => \A f \in after : Unlaunched({f})
  BY DEF Calms, Unlaunched
<1> QED BY <1>1, <1>2 DEF Calms, Formed, Unlaunched

\* One of many.
LEMMA OneFormed ==
  ASSUME NEW exec, Formed(exec), NEW e \in exec
  PROVE  Formed({e})
  BY DEF Formed

\* An interruption (runtime.rs interrupt).
LEMMA InterruptSheds ==
  ASSUME NEW x, Whole(x), NEW reason
  PROVE  Sheds(x, Interrupt(x, reason))
<1> DEFINE u == Interrupted(x.lc, reason)
<1>1. Tames(x.lc, u)
  BY InterruptedTames DEF Whole, Clear
<1>2. Interrupt(x, reason) = [x EXCEPT !.lc = u]
  BY DEF Interrupt
<1> HIDE DEF u
<1>3. Sheds(x, [x EXCEPT !.lc = u])
  BY <1>1, PolicySheds, Zenon
<1> QED BY <1>2, <1>3

\* An execution that follows its run (runtime.rs sync_execution).
LEMMA SyncedSheds ==
  ASSUME NEW x, Whole(x)
  PROVE  Sheds(x, Synced(x))
<1> DEFINE kept == {e \in x.exec : x.lc.run = {e.run}}
           begun == NewExecution(x.lc)
           exec == IF kept # {} THEN kept ELSE IF x.lc.run = {} THEN {} ELSE {begun}
           v == {EpisodeSynced(e, x.lc) : e \in exec}
<1>1. Synced(x) = [x EXCEPT !.exec = v]
  BY DEF Synced
<1>2. Calms({}, {begun})
  BY DEF NewExecution, Calms, Formed, Unlaunched, Has, ExecutionFields
<1> HIDE DEF begun
<1>3. \A e \in exec : e \in x.exec \/ e = begun
  OBVIOUS
<1>4. ASSUME NEW e \in exec
      PROVE  LET f == EpisodeSynced(e, x.lc)
             IN  Calms({}, {f}) \/ \E g \in x.exec : Calms({g}, {f})
  <2> DEFINE f == EpisodeSynced(e, x.lc)
  <2>1. Formed({e})
    BY <1>2, <1>3, OneFormed DEF Whole, Calms
  <2>2. Calms({e}, {f})
    BY <2>1, EpisodeSyncedCalms
  <2> HIDE DEF f
  <2>3. e = begun => Calms({}, {f})
    BY <1>2, <2>2 DEF Calms, Unlaunched
  <2> QED BY <1>3, <2>2, <2>3 DEF f
<1>5. Calms(x.exec, v)
  <2>1. \A f \in v : Calms({}, {f}) \/ \E e \in x.exec : Calms({e}, {f})
    BY <1>4, Zenon
  <2> HIDE DEF v
  <2> QED BY <2>1, EachCalms DEF Whole
<1> HIDE DEF v
<1> QED BY <1>1, <1>5, ExecSheds

\* The two ways a run is given up.
LEMMA GivenUpSheds ==
  ASSUME NEW x, Whole(x), NEW reason
  PROVE  /\ Sheds(x, Synced(Interrupt(x, reason)))
         /\ Sheds(x, Synced([Interrupt(x, reason) EXCEPT !.bound = {}]))
<1> DEFINE v == Interrupt(x, reason)
           w == [v EXCEPT !.bound = {}]
<1>1. Sheds(x, v)
  BY InterruptSheds
<1> HIDE DEF v
<1>2. Sheds(v, w)
  BY <1>1, ShedIsWhole, OthersShed, Zenon
<1> HIDE DEF w
<1>3. Sheds(x, w) /\ Whole(v) /\ Whole(w)
  BY <1>1, <1>2, ShedIsWhole, ShedsTwice
<1>4. Sheds(x, Synced(v)) /\ Sheds(x, Synced(w))
  BY <1>1, <1>3, SyncedSheds, ShedsTwice
<1> QED BY <1>4 DEF v, w

\* A preview that is dropped.
LEMMA DropSheds ==
  ASSUME NEW x, Whole(x)
  PROVE  Sheds(x, [x EXCEPT !.lc = Invalidated(x.lc)])
<1> DEFINE u == Invalidated(x.lc)
<1>1. Tames(x.lc, u)
  BY InvalidatedTames DEF Whole, Clear
<1> HIDE DEF u
<1> QED BY <1>1, PolicySheds, Zenon DEF u

\* Checked inputs (runtime.rs check_inputs).
LEMMA CheckedSheds ==
  ASSUME NEW x, Whole(x), NEW t
  PROVE  Sheds(x, Checked(x, t))
<1>1. \/ \E reason : Checked(x, t) = Synced([Interrupt(x, reason) EXCEPT !.bound = {}])
      \/ Checked(x, t) = x \/ Checked(x, t) = [x EXCEPT !.lc = Invalidated(x.lc)]
  BY DEF Checked
<1> QED BY <1>1, GivenUpSheds, DropSheds, ShedsStill

\* A tick of the policy.
LEMMA TickSheds ==
  ASSUME NEW x, Whole(x), NEW t
  PROVE  Sheds(x, Tick(x, t))
<1> DEFINE u == Ticked(x.lc, t)
           y == [x EXCEPT !.lc = u]
<1>1. Tames(x.lc, u)
  BY TickedTames DEF Whole, Clear
<1>2. Tick(x, t) = Synced(y)
  BY DEF Tick
<1> HIDE DEF u
<1>3. Sheds(x, y)
  BY <1>1, PolicySheds, Zenon
<1> HIDE DEF y
<1> QED BY <1>2, <1>3, SyncedSheds, ShedIsWhole, ShedsTwice

\* A run's own deadlines (runtime.rs service).
LEMMA DeadlinesKeptSheds ==
  ASSUME NEW x, Whole(x), NEW t
  PROVE  Sheds(x, DeadlinesKept(x, t))
<1>1. \/ DeadlinesKept(x, t) = x
      \/ \E reason : DeadlinesKept(x, t) = Synced(Interrupt(x, reason))
  BY DEF DeadlinesKept
<1> QED BY <1>1, GivenUpSheds, ShedsStill

\* Executions that give up their launches.
HeldBack(exec, t) == {[e EXCEPT !.rec = {Held(r, t) : r \in @}] : e \in exec}

\* They keep their form.
LEMMA HeldCalms ==
  ASSUME NEW exec, Formed(exec), NEW t
  PROVE  Calms(exec, HeldBack(exec, t))
<1> DEFINE rec(e) == {Held(r, t) : r \in e.rec}
           after == {[e EXCEPT !.rec = rec(e)] : e \in exec}
<1>1. ASSUME NEW e \in exec PROVE Calms({e}, {[e EXCEPT !.rec = rec(e)]})
  <2> DEFINE recs == rec(e)
  <2>0. \A r \in e.rec : Has(Held(r, t), RecoveryFields) /\ ~Held(r, t).pending
    BY RecoveryFormed DEF Formed
  <2>1. \A r \in recs : Has(r, RecoveryFields) /\ ~r.pending
    BY <2>0
  <2>2. Formed({e})
    BY OneFormed
  <2> HIDE DEF recs, rec
  <2>3. Calms({e}, {[e EXCEPT !.rec = recs]})
    BY <2>1, <2>2, ExecutionCalms, Zenon
  <2> QED BY <2>3 DEF recs
<1>2. \A f \in after : \E e \in exec : Calms({e}, {f})
  BY <1>1
<1>3. after = HeldBack(exec, t)
  BY DEF HeldBack
<1> HIDE DEF after
<1>4. Calms(exec, after)
  BY <1>2, EachCalms
<1> QED BY <1>3, <1>4

\* An episode's own deadlines (runtime.rs check_recovery_schedule).
LEMMA ScheduleCheckedSheds ==
  ASSUME NEW x, Whole(x), NEW t
  PROVE  Sheds(x, ScheduleChecked(x, t))
<1> DEFINE missed == {r \in UNION {e.rec : e \in x.exec} : Missed(r, t)}
           exec == {[e EXCEPT !.rec = {Held(r, t) : r \in @}] : e \in x.exec}
           v == Ticked(x.lc, t)
           u == RecoveryCommanded(v, The(missed).episode, Stop, t)
<1>1. ScheduleChecked(x, t) = x \/ ScheduleChecked(x, t) = [x EXCEPT !.exec = exec, !.lc = u]
  BY DEF ScheduleChecked
<1>2. Tames(x.lc, v) /\ Legible(v) /\ Legible(x.lc)
  BY TickedTames DEF Whole, Clear
<1>3. Calms(x.exec, exec)
  <2>1. Formed(x.exec)
    BY DEF Whole
  <2>2. exec = HeldBack(x.exec, t)
    BY DEF HeldBack
  <2> HIDE DEF exec
  <2> QED BY <2>1, <2>2, HeldCalms
<1> HIDE DEF v, missed, exec
<1>4. Tames(v, u)
  BY <1>2, RunTames
<1> HIDE DEF u
<1>5. Tames(x.lc, u)
  BY <1>2, <1>4, TamesTwice
<1>6. Sheds(x, [x EXCEPT !.exec = exec, !.lc = u])
  BY <1>3, <1>5, PolicySheds, Zenon
<1> QED BY <1>1, <1>6, ShedsStill

\* A service (runtime.rs service).
LEMMA ServicedSheds ==
  ASSUME NEW x, Whole(x), NEW t
  PROVE  Sheds(x, Serviced(x, t)) /\ Whole(Serviced(x, t))
<1> DEFINE a == Checked(x, t)
           b == Tick(a, t)
           c == DeadlinesKept(b, t)
           v == ScheduleChecked(c, t)
           y == Unbound(v)
<1>0. Serviced(x, t) = y
  BY DEF Serviced
<1>1. Sheds(x, a) /\ Whole(a)
  BY CheckedSheds, ShedIsWhole
<1> HIDE DEF a
<1>2. Sheds(x, b) /\ Whole(b)
  BY <1>1, TickSheds, ShedIsWhole, ShedsTwice
<1> HIDE DEF b
<1>3. Sheds(x, c) /\ Whole(c)
  BY <1>2, DeadlinesKeptSheds, ShedIsWhole, ShedsTwice
<1> HIDE DEF c
<1>4. Sheds(x, v) /\ Whole(v)
  BY <1>3, ScheduleCheckedSheds, ShedIsWhole, ShedsTwice
<1> HIDE DEF v
<1>5. Sheds(v, y)
  BY <1>4, OthersShed, ShedsStill, Zenon DEF Unbound
<1> HIDE DEF y
<1> QED BY <1>0, <1>4, <1>5, ShedsTwice, ShedIsWhole

\* A deviation, or its end (runtime.rs observe_tracking).
LEMMA DeviationActedSheds ==
  ASSUME NEW x, Whole(x), NEW f, Calms(x.exec, {f}), NEW s, NEW t
  PROVE  Sheds(x, DeviationActed(x, f, s, t))
<1> DEFINE next == [x EXCEPT !.exec = {f}]
           v == Ticked(next.lc, t)
           r == The(f.rec).episode
<1>1. \/ DeviationActed(x, f, s, t) = next
      \/ DeviationActed(x, f, s, t) = [next EXCEPT !.lc = Begun(v, {f.run}, t)]
      \/ DeviationActed(x, f, s, t) = [next EXCEPT !.lc = Rejoined(v, r)]
  BY DEF DeviationActed
<1>2. Sheds(x, next) /\ Whole(next)
  BY ExecSheds, ShedIsWhole
<1> HIDE DEF next, r
<1>3. Tames(next.lc, v) /\ Legible(v)
  BY <1>2, TickedTames DEF Whole, Clear
<1> HIDE DEF v
<1> DEFINE begun == Begun(v, {f.run}, t)
           rejoined == Rejoined(v, r)
<1>4. Tames(v, begun) /\ Tames(v, rejoined)
  BY <1>3, RunTames
<1>5. \/ DeviationActed(x, f, s, t) = next
      \/ DeviationActed(x, f, s, t) = [next EXCEPT !.lc = begun]
      \/ DeviationActed(x, f, s, t) = [next EXCEPT !.lc = rejoined]
  BY <1>1
<1> HIDE DEF begun, rejoined
<1>6. Tames(next.lc, begun) /\ Tames(next.lc, rejoined)
  BY <1>2, <1>3, <1>4, TamesTwice DEF Whole, Clear
<1>7. Sheds(next, [next EXCEPT !.lc = begun]) /\ Sheds(next, [next EXCEPT !.lc = rejoined])
  BY <1>2, <1>6, PolicySheds, Zenon
<1> QED BY <1>2, <1>5, <1>7, ShedsTwice

\* Episodes whose output was observed.
SeenBy(recs, active, t) == {[r EXCEPT !.follower = OutputSeen(@, active, t)] : r \in recs}

\* They keep their form and their launch.
LEMMA SeenRecoveries ==
  ASSUME NEW e, Formed({e}), NEW active, NEW t
  PROVE  LET rec == SeenBy(e.rec, active, t)
         IN  /\ \A r \in rec : Has(r, RecoveryFields)
             /\ Unlaunched({e}) => \A r \in rec : ~r.pending
             /\ \A r : e.rec = {r} => \E q : /\ rec = {q} /\ q.pending = r.pending
                                             /\ q.intercept = r.intercept /\ q.episode = r.episode
<1> DEFINE seen(r) == [r EXCEPT !.follower = OutputSeen(@, active, t)]
           rec == {seen(r) : r \in e.rec}
<1>1. ASSUME NEW r \in e.rec
      PROVE  /\ Has(seen(r), RecoveryFields) /\ seen(r).pending = r.pending
             /\ seen(r).intercept = r.intercept /\ seen(r).episode = r.episode
  <2> DEFINE f == OutputSeen(r.follower, active, t)
             u == [r EXCEPT !.follower = f]
  <2>1. Has(r, RecoveryFields)
    BY DEF Formed
  <2>2. seen(r) = u
    OBVIOUS
  <2> HIDE DEF f, seen
  <2>3. Has(u, RecoveryFields) /\ u.pending = r.pending /\ u.intercept = r.intercept
        /\ u.episode = r.episode
    BY <2>1, RecoveryFormed
  <2> QED BY <2>2, <2>3
<1>0. SeenBy(e.rec, active, t) = rec
  BY DEF SeenBy
<1> HIDE DEF seen
<1>2. /\ \A r \in rec : Has(r, RecoveryFields)
      /\ Unlaunched({e}) => \A r \in rec : ~r.pending
      /\ \A r : e.rec = {r} => \E q : /\ rec = {q} /\ q.pending = r.pending
                                      /\ q.intercept = r.intercept /\ q.episode = r.episode
  <2>1. \A r \in rec : Has(r, RecoveryFields)
    BY <1>1
  <2>2. Unlaunched({e}) => \A r \in rec : ~r.pending
    BY <1>1 DEF Unlaunched
  <2>3. ASSUME NEW r, e.rec = {r}
        PROVE  \E q : /\ rec = {q} /\ q.pending = r.pending
                      /\ q.intercept = r.intercept /\ q.episode = r.episode
    <3>1. rec = {seen(r)}
      BY <2>3
    <3> QED BY <1>1, <2>3, <3>1
  <2> QED BY <2>1, <2>2, <2>3
<1> HIDE DEF rec
<1> QED BY <1>0, <1>2

\* A compared sample leaves an episode alone (deviation.rs).
LEMMA MonitoredCalms ==
  ASSUME NEW e, Formed({e}), NEW s
  PROVE  LET m == Monitored(e, s)
         IN  Calms({e}, {m}) /\ m.rec = e.rec /\ m.run = e.run /\ m.seen = e.seen
<1> DEFINE gap == \E t \in e.current : s.at - t > FeedbackMaxAge
           begun(since) == IF since = {} \/ gap THEN {s.at} ELSE since
           current == {s.at}
           above == IF s.error = "bad" THEN begun(e.above) ELSE {}
           below == IF s.error = "good" THEN begun(e.below) ELSE {}
           m == [e EXCEPT !.current = current, !.above = above, !.below = below]
<1>1. Has(e, ExecutionFields)
  BY DEF Formed
<1>2. Monitored(e, s) = m
  BY DEF Monitored
<1> HIDE DEF gap, begun, current, above, below
<1>3. Has(m, ExecutionFields) /\ m.rec = e.rec /\ m.run = e.run /\ m.seen = e.seen
  BY <1>1 DEF Has, ExecutionFields
<1> HIDE DEF m
<1>4. Calms({e}, {m})
  BY <1>3 DEF Calms, Formed, Unlaunched
<1> QED BY <1>2, <1>3, <1>4

\* A noted sample leaves it alone too.
LEMMA NotedCalms ==
  ASSUME NEW e, Formed({e}), NEW rec, NEW s,
         \A r \in rec : Has(r, RecoveryFields),
         Unlaunched({e}) => \A r \in rec : ~r.pending
  PROVE  LET f == [e EXCEPT !.seen = {s}, !.rec = rec]
         IN  Calms({e}, {f}) /\ f.run = e.run /\ f.rec = rec /\ f.seen = {s}
<1> DEFINE f == [e EXCEPT !.seen = {s}, !.rec = rec]
<1>1. Has(f, ExecutionFields) /\ f.run = e.run /\ f.rec = rec /\ f.seen = {s}
  BY DEF Formed, Has, ExecutionFields
<1> HIDE DEF f
<1>2. Calms({e}, {f})
  BY <1>1 DEF Calms, Formed, Unlaunched
<1> QED BY <1>1, <1>2 DEF f

\* An observed run, once its execution is known.
LEMMA WatchedSheds ==
  ASSUME NEW x, Whole(x), NEW e \in x.exec, NEW t
  PROVE  Sheds(x, Watched(x, e, t))
<1> DEFINE s == The(x.sample)
           rec == {[r EXCEPT !.follower = OutputSeen(@, Moving(x.out), t)] : r \in e.rec}
           noted == [e EXCEPT !.seen = {s}, !.rec = rec]
           problem == ObservationProblem(x, e, t)
           m == Monitored(noted, s)
           z == DeviationActed(x, m, s, t)
           exec == {noted}
<1>1. Watched(x, e, t) \in {Synced(Interrupt(x, problem)), [x EXCEPT !.exec = exec], Synced(z)}
  BY DEF Watched
<1>2. Formed({e})
  BY OneFormed DEF Whole
<1>3. /\ \A r \in rec : Has(r, RecoveryFields)
      /\ Unlaunched({e}) => \A r \in rec : ~r.pending
  <2>1. rec = SeenBy(e.rec, Moving(x.out), t)
    BY DEF SeenBy
  <2> HIDE DEF rec
  <2> QED BY <1>2, <2>1, SeenRecoveries
<1> HIDE DEF s, rec, problem
<1>4. Calms({e}, {noted})
  BY <1>2, <1>3, NotedCalms, Zenon
<1> HIDE DEF noted
<1>5. Formed({noted}) /\ Calms(x.exec, exec)
  BY <1>4 DEF Calms, Unlaunched
<1>6. Calms({noted}, {m})
  BY <1>5, MonitoredCalms
<1> HIDE DEF m
<1>7. Calms(x.exec, {m})
  BY <1>5, <1>6 DEF Calms
<1> HIDE DEF exec
<1>8. Sheds(x, z)
  BY <1>7, DeviationActedSheds
<1> HIDE DEF z
<1>9. Sheds(x, Synced(z))
  BY <1>8, SyncedSheds, ShedIsWhole, ShedsTwice
<1>10. Sheds(x, [x EXCEPT !.exec = exec])
  BY <1>5, ExecSheds
<1>11. Sheds(x, Synced(Interrupt(x, problem)))
  BY GivenUpSheds
<1> QED BY <1>1, <1>9, <1>10, <1>11

\* An observed run (runtime.rs observe_tracking).
LEMMA ObservedRunSheds ==
  ASSUME NEW x, Whole(x), NEW t
  PROVE  Sheds(x, ObservedRun(x, t)) /\ Whole(ObservedRun(x, t))
<1> DEFINE a == Checked(x, t)
           live == Tick(a, t)
           v == ScheduleChecked(live, t)
           e == The(v.exec)
<1>1. Sheds(x, a) /\ Whole(a)
  BY CheckedSheds, ShedIsWhole
<1> HIDE DEF a
<1>2. Sheds(x, live) /\ Whole(live)
  BY <1>1, TickSheds, ShedIsWhole, ShedsTwice
<1>3. ObservedRun(x, t) \in {x, live, v} \/ (e \in v.exec /\ ObservedRun(x, t) = Watched(v, e, t))
  BY DEF ObservedRun, ObservedLive, WatchedRun, The, a
<1> HIDE DEF live
<1>4. Sheds(x, v) /\ Whole(v)
  BY <1>2, ScheduleCheckedSheds, ShedIsWhole, ShedsTwice
<1> HIDE DEF v, e
<1>5. e \in v.exec => Sheds(x, Watched(v, e, t))
  BY <1>4, WatchedSheds, ShedsTwice
<1> QED BY <1>2, <1>3, <1>4, <1>5, ShedsStill, ShedIsWhole

\* A lost network (coordination.rs revoke_network_motion).
LEMMA NetworkRevokedSheds ==
  ASSUME NEW x, Whole(x), NEW t
  PROVE  Sheds(x, NetworkRevoked(x, t))
<1> DEFINE a == Serviced(x, t)
           u == Unowned(a.lc)
           b == [a EXCEPT !.lc = u]
           v == IF x.lc.token = {} THEN x ELSE b
<1>0. NetworkRevoked(x, t) = Serviced(v, t)
  BY DEF NetworkRevoked
<1>1. Sheds(x, a) /\ Whole(a)
  BY ServicedSheds
<1> HIDE DEF a
<1>2. Tames(a.lc, u)
  BY <1>1, GrantTames DEF Whole, Clear
<1> HIDE DEF u
<1>3. Sheds(x, b)
  BY <1>1, <1>2, PolicySheds, ShedsTwice, Zenon
<1> HIDE DEF b
<1>4. Sheds(x, v) /\ Whole(v)
  BY <1>3, ShedsStill, ShedIsWhole
<1> HIDE DEF v
<1> QED BY <1>0, <1>4, ServicedSheds, ShedsTwice

\* An expired network (coordination.rs advance).
LEMMA AdvancedSheds ==
  ASSUME NEW x, Whole(x), NEW t
  PROVE  Sheds(x, Advanced(x, t)) /\ Whole(Advanced(x, t))
<1> DEFINE gate == Expire(x.gate, t)
           g == [x EXCEPT !.gate = gate]
<1>1. Advanced(x, t) = x \/ Advanced(x, t) = NetworkRevoked(g, t)
  BY DEF Advanced
<1> HIDE DEF gate
<1>2. Sheds(x, g) /\ Whole(g)
  BY OthersShed, ShedIsWhole, Zenon
<1> HIDE DEF g
<1>3. Sheds(x, NetworkRevoked(g, t))
  BY <1>2, NetworkRevokedSheds, ShedsTwice
<1> QED BY <1>1, <1>3, ShedsStill, ShedIsWhole

\* An observed output (runtime.rs observe_output).
LEMMA OutputObservedSheds ==
  ASSUME NEW x, Whole(x), NEW t
  PROVE  Sheds(x, OutputObserved(x, t))
<1> DEFINE seen(followers) == OutputSeen(followers, Moving(x.out), t)
           rec(e) == {[r EXCEPT !.follower = seen(@)] : r \in e.rec}
           next(e) == [e EXCEPT !.follower = seen(@), !.rec = {[r EXCEPT !.follower = seen(@)] : r \in @}]
           exec == {next(e) : e \in x.exec}
<1>1. OutputObserved(x, t) = [x EXCEPT !.exec = exec]
  BY DEF OutputObserved
<1>2. ASSUME NEW e \in x.exec PROVE Calms({e}, {next(e)})
  <2> DEFINE follower == seen(e.follower)
             recs == rec(e)
             f == [e EXCEPT !.follower = follower, !.rec = recs]
  <2>1. next(e) = f
    OBVIOUS
  <2>2. Formed({e})
    BY OneFormed DEF Whole
  <2>3. /\ \A r \in recs : Has(r, RecoveryFields)
        /\ Unlaunched({e}) => \A r \in recs : ~r.pending
    <3>1. recs = SeenBy(e.rec, Moving(x.out), t)
      BY DEF SeenBy
    <3> HIDE DEF recs
    <3> QED BY <2>2, <3>1, SeenRecoveries
  <2> HIDE DEF follower, recs, next
  <2>4. Calms({e}, {f})
    BY <2>2, <2>3, ExecutionCalms, Zenon
  <2> QED BY <2>1, <2>4
<1> HIDE DEF next
<1>3. Calms(x.exec, exec)
  <2>1. \A f \in exec : \E e \in x.exec : Calms({e}, {f})
    BY <1>2
  <2> HIDE DEF exec
  <2> QED BY <2>1, EachCalms DEF Whole
<1> HIDE DEF exec
<1> QED BY <1>1, <1>3, ExecSheds

\* A start that has changed (runtime.rs invalidate_start).
LEMMA StartChangedSheds ==
  ASSUME NEW x, Whole(x)
  PROVE  Sheds(x, StartChanged(x))
<1> DEFINE n == x.startRev + 1
           noted == [x EXCEPT !.startRev = n]
           y == [noted EXCEPT !.lc = Invalidated(noted.lc)]
<1>1. StartChanged(x) = noted \/ StartChanged(x) = y
  BY DEF StartChanged
<1> HIDE DEF n
<1>2. Sheds(x, noted) /\ Whole(noted)
  BY OthersShed, ShedIsWhole, Zenon
<1> HIDE DEF noted
<1>3. Sheds(noted, y)
  BY <1>2, DropSheds
<1> HIDE DEF y
<1> QED BY <1>1, <1>2, <1>3, ShedsTwice

\* A recorded output (coordination.rs record_actuator).
LEMMA RecordedSheds ==
  ASSUME NEW x, Whole(x), NEW out, NEW t
  PROVE  Sheds(x, Recorded(x, out, t))
<1> DEFINE w == [x EXCEPT !.out = out, !.applied = t]
           next == OutputObserved(w, t)
           identity == Identity(next, t)
           noted == [next EXCEPT !.identity = identity]
           y == StartChanged(noted)
<1>1. Recorded(x, out, t) = next \/ Recorded(x, out, t) = y
  BY DEF Recorded, Identified
<1>2. Sheds(x, w) /\ Whole(w)
  BY OthersShed, ShedIsWhole, Zenon
<1> HIDE DEF w
<1>3. Sheds(x, next) /\ Whole(next)
  BY <1>2, OutputObservedSheds, ShedsTwice, ShedIsWhole
<1> HIDE DEF next, identity
<1>4. Sheds(next, noted) /\ Whole(noted)
  BY <1>3, OthersShed, ShedIsWhole, Zenon
<1> HIDE DEF noted
<1>5. Sheds(noted, y)
  BY <1>4, StartChangedSheds
<1> HIDE DEF y
<1>6. Sheds(x, y)
  BY <1>3, <1>4, <1>5, ShedsTwice
<1> QED BY <1>1, <1>3, <1>6

\* An answered request.
LEMMA RequestDoneSheds ==
  ASSUME NEW x, Whole(x), NEW a, Tames(x.lc, a.lc), NEW t
  PROVE  Sheds(x, RequestDone(x, a, t).d)
<1> DEFINE u == a.lc
           next == [x EXCEPT !.lc = u]
           bound == {x.gate.generation}
           b == [next EXCEPT !.bound = bound]
           d1 == RequestDone(x, a, t).d
<1>1. d1 \in {next, Serviced(next, t), Serviced(b, t)}
  BY DEF RequestDone
<1> HIDE DEF u, d1, bound
<1>2. Tames(x.lc, u)
  BY DEF u
<1>3. Sheds(x, next) /\ Whole(next)
  BY <1>2, PolicySheds, ShedIsWhole, Zenon
<1> HIDE DEF next
<1>4. Sheds(next, b) /\ Whole(b)
  BY <1>3, OthersShed, ShedIsWhole, Zenon
<1> HIDE DEF b
<1>5. Sheds(x, b)
  BY <1>3, <1>4, ShedsTwice
<1>6. Sheds(x, Serviced(next, t)) /\ Sheds(x, Serviced(b, t))
  BY <1>3, <1>4, <1>5, ServicedSheds, ShedsTwice
<1> QED BY <1>1, <1>3, <1>6 DEF d1

\* A request (runtime.rs request).
LEMMA RuntimeRequestedSheds ==
  ASSUME NEW x, Whole(x), NEW q, RequestOK(q), NEW t
  PROVE  Sheds(x, RuntimeRequested(x, q, t).d)
<1> DEFINE a == Requested(x.lc, q, t)
           done == RequestDone(x, a, t).d
<1>1. RuntimeRequested(x, q, t).d \in {x, done}
  BY DEF RuntimeRequested
<1>2. Tames(x.lc, a.lc)
  BY RequestedTames DEF Whole, Clear
<1> HIDE DEF a
<1>3. Sheds(x, done)
  BY <1>2, RequestDoneSheds
<1> QED BY <1>1, <1>3, ShedsStill

\* A new policy that is serviced.
LEMMA PolicyServicedSheds ==
  ASSUME NEW x, Whole(x), NEW u, Tames(x.lc, u), NEW t
  PROVE  Sheds(x, Serviced([x EXCEPT !.lc = u], t))
<1> DEFINE y == [x EXCEPT !.lc = u]
<1>1. Sheds(x, y) /\ Whole(y)
  BY PolicySheds, ShedIsWhole, Zenon
<1> HIDE DEF y
<1>2. Sheds(x, Serviced(y, t))
  BY <1>1, ServicedSheds, ShedsTwice
<1> QED BY <1>2 DEF y

\* A refresh (runtime.rs refresh).
LEMMA RuntimeRefreshedSheds ==
  ASSUME NEW x, Whole(x), NEW forecast, NEW revs, NEW t
  PROVE  Sheds(x, RuntimeRefreshed(x, forecast, revs, t))
<1> DEFINE u == Refreshed(x.lc, forecast, revs)
<1>1. RuntimeRefreshed(x, forecast, revs, t) \in {x, Serviced([x EXCEPT !.lc = u], t)}
  BY DEF RuntimeRefreshed
<1>2. Tames(x.lc, u)
  BY RefreshedTames DEF Whole, Clear
<1> HIDE DEF u
<1>3. Sheds(x, Serviced([x EXCEPT !.lc = u], t))
  BY <1>2, PolicyServicedSheds
<1> QED BY <1>1, <1>3, ShedsStill

\* Rejected inputs (runtime.rs reject_inputs).
LEMMA InputsRejectedSheds ==
  ASSUME NEW x, Whole(x), NEW ticket, NEW t
  PROVE  Sheds(x, InputsRejected(x, ticket, t))
<1> DEFINE u == Invalidated(x.lc)
<1>1. InputsRejected(x, ticket, t) \in {x, Serviced([x EXCEPT !.lc = u], t)}
  BY DEF InputsRejected
<1>2. Tames(x.lc, u)
  BY InvalidatedTames DEF Whole, Clear
<1> HIDE DEF u
<1>3. Sheds(x, Serviced([x EXCEPT !.lc = u], t))
  BY <1>2, PolicyServicedSheds
<1> QED BY <1>1, <1>3, ShedsStill

\* A published plan (runtime.rs publish_plan).
LEMMA PlanPublishedSheds ==
  ASSUME NEW x, Whole(x), NEW inputs, NEW found, NEW t
  PROVE  Sheds(x, PlanPublished(x, inputs, found, t))
<1> DEFINE u == Planned(x.lc, found, t)
<1>1. PlanPublished(x, inputs, found, t)
        \in {x, [x EXCEPT !.lc = Invalidated(x.lc)], Serviced([x EXCEPT !.lc = u], t)}
  BY DEF PlanPublished
<1>2. Tames(x.lc, u)
  BY PlannedTames DEF Whole, Clear
<1> HIDE DEF u
<1>3. Sheds(x, Serviced([x EXCEPT !.lc = u], t))
  BY <1>2, PolicyServicedSheds
<1> QED BY <1>1, <1>3, DropSheds, ShedsStill

\* A network report (coordination.rs publish_network).
LEMMA NetworkPublishedSheds ==
  ASSUME NEW x, Whole(x), NEW ready, NEW t
  PROVE  Sheds(x, NetworkPublished(x, ready, t))
<1> DEFINE gate == Observe(x.gate, ready, t)
           y == [x EXCEPT !.gate = gate]
<1>1. NetworkPublished(x, ready, t) \in {y, NetworkRevoked(y, t)}
  BY DEF NetworkPublished
<1> HIDE DEF gate
<1>2. Sheds(x, y) /\ Whole(y)
  BY OthersShed, ShedIsWhole, Zenon
<1> HIDE DEF y
<1>3. Sheds(x, NetworkRevoked(y, t))
  BY <1>2, NetworkRevokedSheds, ShedsTwice
<1> QED BY <1>1, <1>2, <1>3

\* A clock sample (coordination.rs publish_clock).
LEMMA ClockPublishedSheds ==
  ASSUME NEW x, Whole(x), NEW clock, NEW t
  PROVE  Sheds(x, ClockPublished(x, clock, t))
<1> DEFINE y == [x EXCEPT !.clock = clock]
<1>1. Sheds(x, y) /\ Whole(y)
  BY OthersShed, ShedIsWhole, Zenon
<1>2. ClockPublished(x, clock, t) = Serviced(y, t)
  BY DEF ClockPublished
<1> HIDE DEF y
<1> QED BY <1>1, <1>2, ServicedSheds, ShedsTwice

\* A feedback sample (coordination.rs publish_feedback).
LEMMA FeedbackPublishedSheds ==
  ASSUME NEW x, Whole(x), NEW healthy, NEW sample, NEW t
  PROVE  Sheds(x, FeedbackPublished(x, healthy, sample, t))
<1> DEFINE y == [x EXCEPT !.healthy = healthy, !.sample = sample]
           z == StartChanged(y)
<1>1. FeedbackPublished(x, healthy, sample, t) \in {ObservedRun(y, t), ObservedRun(z, t)}
  BY DEF FeedbackPublished
<1>2. Sheds(x, y) /\ Whole(y)
  BY OthersShed, ShedIsWhole, Zenon
<1> HIDE DEF y
<1>3. Sheds(x, z) /\ Whole(z)
  BY <1>2, StartChangedSheds, ShedsTwice, ShedIsWhole
<1> HIDE DEF z
<1>4. Sheds(x, ObservedRun(y, t)) /\ Sheds(x, ObservedRun(z, t))
  BY <1>2, <1>3, ObservedRunSheds, ShedsTwice
<1> QED BY <1>1, <1>4

\* What precedes a refresh and a result.
LEMMA AdvancedCheckedSheds ==
  ASSUME NEW x, Whole(x)
  PROVE  LET y == Checked(Advanced(x, now), now) IN Sheds(x, y) /\ Whole(y)
<1> DEFINE a == Advanced(x, now)
           y == Checked(a, now)
<1>1. Sheds(x, a) /\ Whole(a)
  BY AdvancedSheds
<1> HIDE DEF a
<1>2. Sheds(a, y)
  BY <1>1, CheckedSheds
<1> HIDE DEF y
<1>3. Sheds(x, y) /\ Whole(y)
  BY <1>1, <1>2, ShedsTwice, ShedIsWhole
<1> QED BY <1>3 DEF y, a

\* The worker's refresh (firmware tracking.rs refresh_inputs).
LEMMA InputsRefreshedSheds ==
  ASSUME NEW x, Whole(x), NEW sources
  PROVE  Sheds(x, InputsRefreshed(x, sources))
<1> DEFINE publication == sources[The(x.lc.selection).original.sat]
           live == Advanced(x, now)
           forecast == publication.events
           revs == Revisions(live, publication)
           c == Checked(live, now)
<1>1. InputsRefreshed(x, sources) \in {x, RuntimeRefreshed(c, forecast, revs, now)}
  BY DEF InputsRefreshed, RefreshedFrom
<1>2. Sheds(x, c) /\ Whole(c)
  BY AdvancedCheckedSheds
<1> HIDE DEF c, forecast, revs
<1>3. Sheds(x, RuntimeRefreshed(c, forecast, revs, now))
  BY <1>2, RuntimeRefreshedSheds, ShedsTwice
<1> QED BY <1>1, <1>3, ShedsStill

\* A captured job (firmware tracking.rs start_job).
LEMMA JobTriedSheds ==
  ASSUME NEW x, Whole(x), NEW ticket, NEW jobs
  PROVE  Sheds(x, JobTried(x, ticket, jobs).d)
<1> DEFINE c == Checked(x, now)
           job == The(jobs)
           a == InputsRejected(c, ticket, now)
           b == PlanPublished(c, job.inputs, {}, now)
<1>1. JobTried(x, ticket, jobs).d \in {a, b, x}
  BY DEF JobTried
<1>2. Sheds(x, c) /\ Whole(c)
  BY CheckedSheds, ShedIsWhole
<1> HIDE DEF c, job
<1>3. Sheds(c, a) /\ Sheds(c, b)
  BY <1>2, InputsRejectedSheds, PlanPublishedSheds
<1> HIDE DEF a, b
<1>4. Sheds(x, a) /\ Sheds(x, b)
  BY <1>2, <1>3, ShedsTwice
<1> QED BY <1>1, <1>4, ShedsStill

\* A job (firmware tracking.rs start_job).
LEMMA JobBegunSheds ==
  ASSUME NEW x, Whole(x), NEW ticket
  PROVE  Sheds(x, JobBegun(x, ticket).d)
<1> DEFINE live == Advanced(x, now)
           jobs == UNION {Jobs(x, ticket, a) : a \in x.clock}
           tried == JobTried(live, ticket, jobs)
<1>1. JobBegun(x, ticket).d \in {x, tried.d}
  BY DEF JobBegun
<1> HIDE DEF jobs
<1>2. Sheds(x, live) /\ Whole(live)
  BY AdvancedSheds
<1> HIDE DEF live
<1>3. Sheds(x, tried.d)
  BY <1>2, JobTriedSheds, ShedsTwice
<1> QED BY <1>1, <1>3, ShedsStill

\* The end of a search (runtime.rs step_reacquisition).
LEMMA SearchDoneSheds ==
  ASSUME NEW x, Whole(x), NEW join
  PROVE  Sheds(x, SearchDone(x, join))
<1> DEFINE rec(e) == {SearchEnded(r, join, now) : r \in e.rec}
           next(e) == [e EXCEPT !.rec = {SearchEnded(r, join, now) : r \in @}]
           exec == {next(e) : e \in x.exec}
<1>1. SearchDone(x, join) = [x EXCEPT !.exec = exec]
  BY DEF SearchDone
<1>2. ASSUME NEW e \in x.exec PROVE Calms({e}, {next(e)})
  <2> DEFINE recs == rec(e)
             f == [e EXCEPT !.rec = recs]
  <2>1. next(e) = f
    OBVIOUS
  <2>2. Formed({e})
    BY OneFormed DEF Whole
  <2>3. \A r \in e.rec : LET u == SearchEnded(r, join, now)
                         IN  Has(u, RecoveryFields) /\ (u.pending => r.pending)
    BY <2>2, RecoveryFormed DEF Formed
  <2>4. /\ \A r \in recs : Has(r, RecoveryFields)
        /\ Unlaunched({e}) => \A r \in recs : ~r.pending
    BY <2>3 DEF Unlaunched
  <2> HIDE DEF recs, next
  <2>5. Calms({e}, {f})
    BY <2>2, <2>4, ExecutionCalms, Zenon
  <2> QED BY <2>1, <2>5
<1> HIDE DEF next
<1>3. Calms(x.exec, exec)
  <2>1. \A f \in exec : \E e \in x.exec : Calms({e}, {f})
    BY <1>2
  <2> HIDE DEF exec
  <2> QED BY <2>1, EachCalms DEF Whole
<1> HIDE DEF exec
<1> QED BY <1>1, <1>3, ExecSheds

\* A poll of the worker.
LEMMA PollSheds ==
  ASSUME Whole(d), Poll
  PROVE  Sheds(d, d')
<1>1. PICK refreshed \in {d, InputsRefreshed(d, source)} :
        \E dev \in {Serviced(Advanced(refreshed, now), now)} :
          LET ticket == PlanningTicket(refreshed.lc)
          IN  GoesOn(dev, ticket) \/ FindsJoin(dev, ticket) \/ Plans(dev, ticket)
  BY DEF Poll
<1> DEFINE ticket == PlanningTicket(refreshed.lc)
           live == Advanced(refreshed, now)
           dev == Serviced(live, now)
<1>2. GoesOn(dev, ticket) \/ FindsJoin(dev, ticket) \/ Plans(dev, ticket)
  BY <1>1
<1>3. Sheds(d, refreshed) /\ Whole(refreshed)
  BY <1>1, InputsRefreshedSheds, ShedsStill, ShedIsWhole
<1>4. Sheds(d, live) /\ Whole(live)
  BY <1>3, AdvancedSheds, ShedsTwice
<1> HIDE DEF live, ticket
<1>5. Sheds(d, dev) /\ Whole(dev)
  BY <1>4, ServicedSheds, ShedsTwice
<1> HIDE DEF dev
<1>6. \/ d' = dev \/ d' = JobBegun(dev, The(ticket)).d
      \/ \E join : d' = SearchDone(dev, join)
      \/ \E inputs, found : d' = PlanPublished(Checked(Advanced(dev, now), now), inputs, found, now)
  BY <1>2 DEF GoesOn, FindsJoin, Plans
<1>7. Sheds(dev, JobBegun(dev, The(ticket)).d) /\ \A join : Sheds(dev, SearchDone(dev, join))
  BY <1>5, JobBegunSheds, SearchDoneSheds
<1> DEFINE c == Checked(Advanced(dev, now), now)
<1>8. Sheds(dev, c) /\ Whole(c)
  BY <1>5, AdvancedCheckedSheds
<1> HIDE DEF c
<1>9. \A inputs, found : Sheds(dev, PlanPublished(c, inputs, found, now))
  BY <1>5, <1>8, PlanPublishedSheds, ShedsTwice
<1>10. Sheds(dev, d')
  BY <1>5, <1>6, <1>7, <1>9, ShedsStill DEF c
<1> QED BY <1>5, <1>10, ShedsTwice

\* Whatever else the device hears.
LEMMA EnvironmentSheds ==
  ASSUME Whole(d), Environment
  PROVE  Sheds(d, d')
<1>1. CASE Feedback \/ FeedbackFails
  <2>1. \E healthy, sample : d' = FeedbackPublished(d, healthy, sample, now)
    BY <1>1 DEF Feedback, FeedbackFails
  <2> QED BY <2>1, FeedbackPublishedSheds
<1>2. CASE Network
  <2>1. \E ready : d' = NetworkPublished(d, ready, now)
    BY <1>2 DEF Network
  <2> QED BY <2>1, NetworkPublishedSheds
<1>3. CASE Sync
  <2>1. \E clock : d' = ClockPublished(d, clock, now)
    BY <1>3 DEF Sync
  <2> QED BY <2>1, ClockPublishedSheds
<1>4. CASE Publish
  <2>1. \E sources : d' = InputsRefreshed(d, sources)
    BY <1>4 DEF Publish
  <2> QED BY <2>1, InputsRefreshedSheds
<1>5. CASE Ticks
  BY <1>5, ShedsStill DEF Ticks
<1> QED BY <1>1, <1>2, <1>3, <1>4, <1>5 DEF Environment

-----------------------------------------------------------------------------
(* A device that is about to carry out a launch.                           *)

\* It is, or has been told to stop.
Loaded(x, e, i) == Whole(x) /\ (x.lc.box = {Stop} \/ Launching(x, e, i))

\* A stop that waits is not lost.
LEMMA StopStays ==
  ASSUME NEW x, x.lc.box = {Stop}, NEW y, Sheds(x, y), NEW e, NEW i
  PROVE  y.lc.box = {Stop} /\ Loaded(y, e, i)
<1>1. y.lc.box = {Stop}
  BY DEF Sheds, Keeps
<1>2. Whole(y)
  BY ShedIsWhole
<1> QED BY <1>1, <1>2 DEF Loaded

\* Where a launch waits there is nothing else.
LEMMA LaunchingFacts ==
  ASSUME NEW x, Whole(x), NEW e, NEW i, Launching(x, e, i)
  PROVE  /\ Clear(x) /\ Legible(x.lc) /\ x.lc.box = {e} /\ e.command.kind # "Inhibit"
         /\ x.lc.phase = "Reacquiring" /\ x.lc.run # {} /\ x.lc.recovery # {} /\ x.lc.plan # {}
         /\ \E ex, r : /\ x.exec = {ex} /\ x.lc.run = {ex.run} /\ ex.rec = {r} /\ r.pending
                       /\ i \in r.intercept /\ x.lc.recovery = {r.episode} /\ Formed({ex})
<1>1. PICK ex \in x.exec : x.exec = {ex} /\ Awaited(ex, x.lc, i)
  BY DEF Launching
<1>2. PICK r \in ex.rec : ex.rec = {r} /\ r.pending /\ i \in r.intercept /\ x.lc.recovery = {r.episode}
  BY <1>1 DEF Awaited
<1>3. x.lc.run = {ex.run} /\ Formed({ex})
  BY <1>1 DEF Awaited, Whole
<1> QED BY <1>1, <1>2, <1>3 DEF Launching, Whole, Clear

\* The device of a launch by what it says.
LEMMA LaunchingFrom ==
  ASSUME NEW x, NEW e, NEW i, x.lc.box = {e}, e.command.kind # "Inhibit",
         x.lc.phase = "Reacquiring", x.lc.plan # {},
         NEW ex, x.exec = {ex}, x.lc.run = {ex.run},
         NEW r, ex.rec = {r}, r.pending, i \in r.intercept, x.lc.recovery = {r.episode}
  PROVE  Launching(x, e, i)
<1>1. Awaited(ex, x.lc, i)
  BY DEF Awaited
<1> QED BY <1>1 DEF Launching

\* A launch waits where nothing that it relies on has changed.
LEMMA LaunchingStill ==
  ASSUME NEW x, NEW e, NEW i, Launching(x, e, i),
         NEW y, y.exec = x.exec, Persists(x.lc, y.lc)
  PROVE  Launching(y, e, i)
<1>1. PICK ex \in x.exec : x.exec = {ex} /\ Awaited(ex, x.lc, i)
  BY DEF Launching
<1>2. Awaited(ex, y.lc, i)
  BY <1>1 DEF Awaited, Persists
<1> QED BY <1>1, <1>2 DEF Launching, Persists

\* An interruption takes the launch back.
LEMMA InterruptDrops ==
  ASSUME NEW x, Whole(x), NEW e, NEW i, Launching(x, e, i), NEW reason
  PROVE  Interrupt(x, reason).lc.box = {Stop}
<1> DEFINE u == Interrupted(x.lc, reason)
<1>1. u.box = {Stop}
  BY LaunchingFacts, InhibitedDrops
<1>2. Interrupt(x, reason) = [x EXCEPT !.lc = u]
  BY DEF Interrupt
<1> HIDE DEF u
<1>3. [x EXCEPT !.lc = u].lc = u
  BY DEF Whole, Clear, Has, DeviceFields
<1> QED BY <1>1, <1>2, <1>3

\* So does a run that is given up.
LEMMA GivenUpLoaded ==
  ASSUME NEW x, NEW e, NEW i, Loaded(x, e, i), NEW reason
  PROVE  /\ Loaded(Synced(Interrupt(x, reason)), e, i)
         /\ Loaded(Synced([Interrupt(x, reason) EXCEPT !.bound = {}]), e, i)
<1> DEFINE v == Interrupt(x, reason)
           w == [v EXCEPT !.bound = {}]
<1>1. Whole(x) /\ Sheds(x, v) /\ Whole(v)
  BY InterruptSheds, ShedIsWhole DEF Loaded
<1>2. v.lc.box = {Stop}
  <2>1. CASE x.lc.box = {Stop}
    BY <1>1, <2>1, StopStays
  <2>2. CASE Launching(x, e, i)
    BY <1>1, <2>2, InterruptDrops
  <2> QED BY <2>1, <2>2 DEF Loaded
<1> HIDE DEF v
<1>3. Sheds(v, w) /\ Whole(w)
  BY <1>1, OthersShed, ShedIsWhole, Zenon
<1>4. w.lc.box = {Stop}
  BY <1>2, <1>3, StopStays
<1> HIDE DEF w
<1>5. Loaded(Synced(v), e, i)
  BY <1>1, <1>2, SyncedSheds, StopStays
<1>6. Loaded(Synced(w), e, i)
  BY <1>3, <1>4, SyncedSheds, StopStays
<1> QED BY <1>5, <1>6 DEF v, w

\* The execution of a launch is in step with its episode (runtime.rs
\* sync_execution).
LEMMA SyncedLoaded ==
  ASSUME NEW x, NEW e, NEW i, Loaded(x, e, i)
  PROVE  Loaded(Synced(x), e, i)
<1>1. Whole(x) /\ Sheds(x, Synced(x)) /\ Whole(Synced(x))
  BY SyncedSheds, ShedIsWhole DEF Loaded
<1>2. CASE x.lc.box = {Stop}
  BY <1>1, <1>2, StopStays
<1>3. CASE Launching(x, e, i)
  <2>0. \E ex, r : /\ x.exec = {ex} /\ x.lc.run = {ex.run} /\ ex.rec = {r} /\ r.pending
                      /\ i \in r.intercept /\ x.lc.recovery = {r.episode} /\ Formed({ex})
    BY <1>1, <1>3, LaunchingFacts
  <2>1. PICK ex, r : /\ x.exec = {ex} /\ x.lc.run = {ex.run} /\ ex.rec = {r} /\ r.pending
                     /\ i \in r.intercept /\ x.lc.recovery = {r.episode} /\ Formed({ex})
    BY <2>0
  <2>2. EpisodeSynced(ex, x.lc) = ex
    BY <2>1, Zenon DEF EpisodeSynced
  <2>3. {g \in x.exec : x.lc.run = {g.run}} = {ex}
    BY <2>1
  <2>4. Synced(x) = [x EXCEPT !.exec = {EpisodeSynced(g, x.lc) : g \in {ex}}]
    BY <2>3 DEF Synced
  <2>5. {EpisodeSynced(g, x.lc) : g \in {ex}} = x.exec
    BY <2>1, <2>2
  <2>6. LET y == [x EXCEPT !.exec = x.exec] IN y.exec = x.exec /\ y.lc = x.lc
    BY <1>1 DEF Whole, Clear, Has, DeviceFields
  <2>7. Synced(x) = [x EXCEPT !.exec = x.exec]
    BY <2>4, <2>5
  <2>8. Launching(Synced(x), e, i)
    BY <1>3, <2>6, <2>7, LaunchingStill DEF Persists
  <2> QED BY <1>1, <2>8 DEF Loaded
<1> QED BY <1>2, <1>3 DEF Loaded

\* Checked inputs (runtime.rs check_inputs).
LEMMA CheckedLoaded ==
  ASSUME NEW x, NEW e, NEW i, Loaded(x, e, i), NEW t
  PROVE  Loaded(Checked(x, t), e, i)
<1>1. Whole(x) /\ Sheds(x, Checked(x, t))
  BY CheckedSheds DEF Loaded
<1>2. CASE x.lc.box = {Stop}
  BY <1>1, <1>2, StopStays
<1>3. CASE Launching(x, e, i)
  <2>1. x.lc.run # {}
    BY <1>1, <1>3, LaunchingFacts
  <2>2. \/ \E reason : Checked(x, t) = Synced([Interrupt(x, reason) EXCEPT !.bound = {}])
        \/ Checked(x, t) = x
    BY <2>1 DEF Checked
  <2> QED BY <2>2, GivenUpLoaded
<1> QED BY <1>2, <1>3 DEF Loaded

\* Time goes on for an episode, or ends it by a stop (lifecycle.rs tick).
LEMMA TickedLoaded ==
  ASSUME NEW x, NEW e, NEW i, Loaded(x, e, i), NEW t
  PROVE  LET y == [x EXCEPT !.lc = Ticked(x.lc, t)]
         IN  /\ Loaded(y, e, i) /\ y.lc = Ticked(x.lc, t) /\ y.exec = x.exec
             /\ Launching(x, e, i) => y.lc.box = {Stop} \/ Persists(x.lc, y.lc)
<1> DEFINE u == Ticked(x.lc, t)
           y == [x EXCEPT !.lc = u]
<1>1. Whole(x) /\ Legible(x.lc) /\ Tames(x.lc, u)
  BY TickedTames DEF Loaded, Whole, Clear
<1>2. Launching(x, e, i) => u.box = {Stop} \/ Persists(x.lc, u)
  <2> SUFFICES ASSUME Launching(x, e, i) PROVE u.box = {Stop} \/ Persists(x.lc, u)
    OBVIOUS
  <2>1. /\ x.lc.box = {e} /\ e.command.kind # "Inhibit" /\ x.lc.phase = "Reacquiring"
        /\ x.lc.run # {} /\ x.lc.recovery # {}
    BY <1>1, LaunchingFacts
  <2>2. Persists(x.lc, u) \/ \E v, reason : Legible(v) /\ v.box = x.lc.box /\ u = Interrupted(v, reason)
    BY <1>1, <2>1, TickedPersists
  <2> HIDE DEF u
  <2>3. ASSUME NEW v, NEW reason, Legible(v), v.box = x.lc.box, u = Interrupted(v, reason)
        PROVE  u.box = {Stop}
    BY <2>1, <2>3, InhibitedDrops
  <2> QED BY <2>2, <2>3
<1> HIDE DEF u
<1>3. y.lc = u /\ y.exec = x.exec
  BY <1>1 DEF Whole, Clear, Has, DeviceFields
<1>4. Sheds(x, y) /\ Whole(y)
  BY <1>1, PolicySheds, ShedIsWhole, Zenon
<1> HIDE DEF y
<1>5. Loaded(y, e, i)
  <2>1. CASE x.lc.box = {Stop}
    BY <1>4, <2>1, StopStays
  <2>2. CASE Launching(x, e, i)
    <3>1. y.lc.box = {Stop} \/ Launching(y, e, i)
      BY <1>2, <1>3, <2>2, LaunchingStill
    <3> QED BY <1>4, <3>1 DEF Loaded
  <2> QED BY <2>1, <2>2 DEF Loaded
<1> QED BY <1>2, <1>3, <1>5 DEF y, u

\* A tick of the device.
LEMMA TickLoaded ==
  ASSUME NEW x, NEW e, NEW i, Loaded(x, e, i), NEW t
  PROVE  Loaded(Tick(x, t), e, i)
<1> DEFINE y == [x EXCEPT !.lc = Ticked(x.lc, t)]
<1>1. Loaded(y, e, i)
  BY TickedLoaded
<1>2. Tick(x, t) = Synced(y)
  BY DEF Tick
<1> HIDE DEF y
<1> QED BY <1>1, <1>2, SyncedLoaded

\* A run's own deadlines (runtime.rs service).
LEMMA DeadlinesKeptLoaded ==
  ASSUME NEW x, NEW e, NEW i, Loaded(x, e, i), NEW t
  PROVE  Loaded(DeadlinesKept(x, t), e, i)
<1>1. \/ DeadlinesKept(x, t) = x
      \/ \E reason : DeadlinesKept(x, t) = Synced(Interrupt(x, reason))
  BY DEF DeadlinesKept
<1> QED BY <1>1, GivenUpLoaded

\* A launch whose instant has passed is taken back (runtime.rs
\* check_recovery_schedule).
LEMMA ScheduleCheckedLoaded ==
  ASSUME NEW x, NEW e, NEW i, Loaded(x, e, i), NEW t
  PROVE  LET y == ScheduleChecked(x, t)
         IN  Loaded(y, e, i) /\ (t > i.launch => y.lc.box = {Stop})
<1> DEFINE y == ScheduleChecked(x, t)
<1>1. Whole(x) /\ Sheds(x, y) /\ Whole(y)
  BY ScheduleCheckedSheds, ShedIsWhole DEF Loaded
<1>2. CASE x.lc.box = {Stop}
  <2> HIDE DEF y
  <2>1. y.lc.box = {Stop} /\ Loaded(y, e, i)
    BY <1>1, <1>2, StopStays
  <2> QED BY <2>1 DEF y
<1>3. CASE Launching(x, e, i)
  <2>0. \E ex, r : /\ x.exec = {ex} /\ x.lc.run = {ex.run} /\ ex.rec = {r} /\ r.pending
                      /\ i \in r.intercept /\ x.lc.recovery = {r.episode} /\ Formed({ex})
    BY <1>1, <1>3, LaunchingFacts
  <2>1. PICK ex, r : /\ x.exec = {ex} /\ x.lc.run = {ex.run} /\ ex.rec = {r} /\ r.pending
                     /\ i \in r.intercept /\ x.lc.recovery = {r.episode} /\ Formed({ex})
    BY <2>0
  <2>2. x.lc.plan # {} /\ x.lc.box = {e} /\ e.command.kind # "Inhibit"
    BY <1>1, <1>3, LaunchingFacts
  <2> DEFINE missed == {q \in UNION {g.rec : g \in x.exec} : Missed(q, t)}
             exec == {[g EXCEPT !.rec = {Held(q, t) : q \in @}] : g \in x.exec}
             v == Ticked(x.lc, t)
             u == RecoveryCommanded(v, The(missed).episode, Stop, t)
  <2>3. UNION {g.rec : g \in x.exec} = {r}
    BY <2>1
  <2>4. /\ missed = {} => y = x
        /\ missed # {} => y = [x EXCEPT !.exec = exec, !.lc = u]
    BY <2>2 DEF ScheduleChecked
  <2>5. missed = {} \/ missed = {r}
    BY <2>3
  <2>6. t > i.launch => missed # {}
    BY <2>1, <2>3 DEF Missed
  <2>7. missed = {r} => The(missed) = r
    BY DEF The
  <2> HIDE DEF missed, exec
  <2>8. ASSUME missed = {r} PROVE u.box = {Stop}
    <3>1. u = RecoveryCommanded(v, r.episode, Stop, t)
      BY <2>7, <2>8
    <3>2. Legible(v)
      BY <1>1, TickedTames DEF Whole, Clear
    <3>3. v.box = {Stop} \/ Persists(x.lc, v)
      <4>1. LET z == [x EXCEPT !.lc = v] IN z.lc = v /\ (z.lc.box = {Stop} \/ Persists(x.lc, z.lc))
        BY <1>3, TickedLoaded
      <4> QED BY <4>1
    <3> HIDE DEF v, u
    <3>4. CASE v.box = {Stop}
      <4>1. Keeps(v, RecoveryCommanded(v, r.episode, Stop, t))
        BY <3>2, RunKeeps
      <4> QED BY <3>1, <3>4, <4>1 DEF Keeps
    <3>5. CASE Persists(x.lc, v)
      <4>1. v.recovery = {r.episode} /\ v.box = {e}
        BY <2>1, <2>2, <3>5 DEF Persists
      <4>2. Submitted(v.box, Stop) = {Stop}
        BY <2>2, <3>2, <4>1, InhibitedDrops
      <4>3. FreshCommand(Stop, t)
        BY DEF FreshCommand, Stop, Inhibition
      <4>4. u = [v EXCEPT !.box = {Stop}]
        BY <3>1, <4>1, <4>2, <4>3 DEF RecoveryCommanded
      <4> QED BY <3>2, <4>4 DEF Legible, Has, PolicyFields
    <3> QED BY <3>3, <3>4, <3>5
  <2> HIDE DEF u
  <2>9. missed # {} => y.lc.box = {Stop}
    <3>1. [x EXCEPT !.exec = exec, !.lc = u].lc = u
      BY <1>1 DEF Whole, Clear, Has, DeviceFields
    <3> HIDE DEF y
    <3> QED BY <2>4, <2>5, <2>8, <3>1
  <2>10. missed = {} => Launching(y, e, i)
    BY <1>3, <2>4
  <2> HIDE DEF y
  <2>11. Loaded(y, e, i)
    BY <1>1, <2>9, <2>10 DEF Loaded
  <2>12. t > i.launch => y.lc.box = {Stop}
    BY <2>6, <2>9
  <2> QED BY <2>11, <2>12 DEF y
<1> QED BY <1>2, <1>3 DEF Loaded

\* After a service no launch of an earlier instant waits (runtime.rs service).
LEMMA ServicedLoaded ==
  ASSUME NEW x, NEW e, NEW i, Loaded(x, e, i), NEW t
  PROVE  LET y == Serviced(x, t)
         IN  Loaded(y, e, i) /\ (t > i.launch => y.lc.box = {Stop})
<1> DEFINE a == Checked(x, t)
           b == Tick(a, t)
           c == DeadlinesKept(b, t)
           v == ScheduleChecked(c, t)
           y == Unbound(v)
<1>0. Serviced(x, t) = y
  BY DEF Serviced
<1>1. Loaded(a, e, i)
  BY CheckedLoaded
<1> HIDE DEF a
<1>2. Loaded(b, e, i)
  BY <1>1, TickLoaded
<1> HIDE DEF b
<1>3. Loaded(c, e, i)
  BY <1>2, DeadlinesKeptLoaded
<1> HIDE DEF c
<1>4. Loaded(v, e, i) /\ (t > i.launch => v.lc.box = {Stop})
  BY <1>3, ScheduleCheckedLoaded
<1> HIDE DEF v
<1>5. Whole(v)
  BY <1>4 DEF Loaded
<1>6. Sheds(v, y) /\ Whole(y)
  BY <1>5, OthersShed, ShedsStill, ShedIsWhole, Zenon DEF Unbound
<1>7. y.lc = v.lc /\ y.exec = v.exec
  BY <1>5 DEF Unbound, Whole, Clear, Has, DeviceFields
<1> HIDE DEF y
<1>8. Loaded(y, e, i)
  <2>1. Launching(v, e, i) => Launching(y, e, i)
    BY <1>7, LaunchingStill DEF Persists
  <2> QED BY <1>4, <1>6, <1>7, <2>1 DEF Loaded
<1> QED BY <1>0, <1>4, <1>7, <1>8

\* An operator who leaves (lifecycle.rs release).
LEMMA UnownedLoaded ==
  ASSUME NEW x, NEW e, NEW i, Loaded(x, e, i)
  PROVE  Loaded([x EXCEPT !.lc = Unowned(x.lc)], e, i)
<1> DEFINE u == Unowned(x.lc)
           y == [x EXCEPT !.lc = u]
           v == [x.lc EXCEPT !.token = {}]
<1>1. Whole(x) /\ Legible(x.lc) /\ Tames(x.lc, u)
  BY GrantTames DEF Loaded, Whole, Clear
<1>2. u = v \/ u = Inhibited(v)
  BY DEF Unowned
<1>3. Legible(v) /\ Persists(x.lc, v)
  BY <1>1 DEF Legible, Has, PolicyFields, Persists
<1> HIDE DEF u, v
<1>4. y.lc = u /\ y.exec = x.exec
  BY <1>1 DEF Whole, Clear, Has, DeviceFields
<1>5. Sheds(x, y) /\ Whole(y)
  BY <1>1, PolicySheds, ShedIsWhole, Zenon
<1> HIDE DEF y
<1>6. CASE x.lc.box = {Stop}
  <2>1. Loaded(y, e, i)
    BY <1>5, <1>6, StopStays
  <2> QED BY <2>1 DEF y, u
<1>7. CASE Launching(x, e, i)
  <2>1. v.box = {e} /\ e.command.kind # "Inhibit"
    BY <1>1, <1>3, <1>7, LaunchingFacts DEF Persists
  <2>2. Inhibited(v).box = {Stop}
    BY <1>3, <2>1, InhibitedDrops
  <2>3. u = v => Launching(y, e, i)
    BY <1>3, <1>4, <1>7, LaunchingStill
  <2>4. Loaded(y, e, i)
    BY <1>2, <1>4, <1>5, <2>2, <2>3 DEF Loaded
  <2> QED BY <2>4 DEF y, u
<1> QED BY <1>6, <1>7 DEF Loaded

\* A lost network (coordination.rs revoke_network_motion).
LEMMA NetworkRevokedLoaded ==
  ASSUME NEW x, NEW e, NEW i, Loaded(x, e, i), NEW t
  PROVE  Loaded(NetworkRevoked(x, t), e, i)
<1> DEFINE a == Serviced(x, t)
           b == [a EXCEPT !.lc = Unowned(a.lc)]
           v == IF x.lc.token = {} THEN x ELSE b
<1>0. NetworkRevoked(x, t) = Serviced(v, t)
  BY DEF NetworkRevoked
<1>1. Loaded(a, e, i)
  BY ServicedLoaded
<1> HIDE DEF a
<1>2. Loaded(b, e, i)
  BY <1>1, UnownedLoaded
<1> HIDE DEF b
<1>3. Loaded(v, e, i)
  BY <1>2
<1> HIDE DEF v
<1> QED BY <1>0, <1>3, ServicedLoaded

\* An expired network (coordination.rs advance).
LEMMA AdvancedLoaded ==
  ASSUME NEW x, NEW e, NEW i, Loaded(x, e, i), NEW t
  PROVE  Loaded(Advanced(x, t), e, i)
<1> DEFINE gate == Expire(x.gate, t)
           g == [x EXCEPT !.gate = gate]
<1>1. Advanced(x, t) = x \/ Advanced(x, t) = NetworkRevoked(g, t)
  BY DEF Advanced
<1> HIDE DEF gate
<1>2. Whole(x) /\ Whole(g)
  BY OthersShed, ShedIsWhole, Zenon DEF Loaded
<1>3. g.lc = x.lc /\ g.exec = x.exec
  BY <1>2 DEF Whole, Clear, Has, DeviceFields
<1> HIDE DEF g
<1>4. Loaded(g, e, i)
  <2>1. Launching(x, e, i) => Launching(g, e, i)
    BY <1>3, LaunchingStill DEF Persists
  <2> QED BY <1>2, <1>3, <2>1 DEF Loaded
<1> QED BY <1>1, <1>4, NetworkRevokedLoaded

\* An episode that has looked at a sample still waits, or is over by a stop.
LEMMA DeviationActedLoaded ==
  ASSUME NEW x, Whole(x), NEW e, NEW i, Launching(x, e, i), NEW t, NEW s,
         NEW f, Calms(x.exec, {f}), x.lc.run = {f.run},
         NEW r, f.rec = {r}, r.pending, i \in r.intercept, x.lc.recovery = {r.episode}
  PROVE  /\ Loaded([x EXCEPT !.exec = {f}], e, i)
         /\ Loaded(DeviationActed(x, f, s, t), e, i)
<1> DEFINE exec == {f}
           next == [x EXCEPT !.exec = exec]
           v == Ticked(next.lc, t)
           u == Rejoined(v, r.episode)
           z == [next EXCEPT !.lc = u]
<1>0. /\ x.lc.box = {e} /\ e.command.kind # "Inhibit" /\ x.lc.phase = "Reacquiring"
      /\ x.lc.plan # {}
  BY LaunchingFacts
<1>1. Sheds(x, next) /\ Whole(next)
  BY ExecSheds, ShedIsWhole
<1>2. next.exec = exec /\ next.lc = x.lc
  BY DEF Whole, Clear, Has, DeviceFields
<1>3. DeviationActed(x, f, s, t) = next \/ DeviationActed(x, f, s, t) = z
  <2>1. The(f.rec).episode = r.episode
    BY DEF The
  <2> QED BY <1>0, <2>1 DEF DeviationActed
<1> HIDE DEF next
<1>4. Launching(next, e, i)
  BY <1>0, <1>2, LaunchingFrom
<1>5. Loaded(next, e, i)
  BY <1>1, <1>4 DEF Loaded
<1>6. Legible(v) /\ (v.box = {Stop} \/ Persists(next.lc, v))
  <2>1. Legible(v)
    BY <1>1, TickedTames DEF Whole, Clear
  <2>2. LET y == [next EXCEPT !.lc = v]
        IN  y.lc = v /\ (y.lc.box = {Stop} \/ Persists(next.lc, y.lc))
    BY <1>4, <1>5, TickedLoaded
  <2> QED BY <2>1, <2>2
<1>7. Tames(next.lc, u)
  <2>1. Tames(next.lc, v) /\ Legible(next.lc)
    BY <1>1, TickedTames DEF Whole, Clear
  <2>2. Tames(v, u)
    BY <1>6, RunTames
  <2> QED BY <2>1, <2>2, TamesTwice
<1> HIDE DEF v
<1>8. u.box = {Stop}
  <2>1. CASE v.box = {Stop}
    BY <1>6, <2>1, RunKeeps DEF Keeps
  <2>2. CASE Persists(next.lc, v)
    <3> DEFINE b == Bumped(v)
               w == [b EXCEPT !.phase = "Following", !.recovery = {}]
    <3>1. v.recovery = {r.episode} /\ v.box = {e}
      BY <1>0, <1>2, <2>2 DEF Persists
    <3>2. u = Inhibited(w)
      BY <3>1 DEF Rejoined
    <3>3. Legible(b) /\ b.box = v.box
      BY <1>6, BumpedTells, BumpedKeeps
    <3> HIDE DEF b
    <3>4. Legible(w) /\ w.box = {e}
      BY <3>1, <3>3 DEF Legible, Has, PolicyFields
    <3> HIDE DEF w
    <3> QED BY <1>0, <3>2, <3>4, InhibitedDrops
  <2> QED BY <1>6, <2>1, <2>2
<1> HIDE DEF u
<1>9. Loaded(z, e, i)
  <2>1. z.lc = u
    BY <1>1 DEF Whole, Clear, Has, DeviceFields
  <2>2. Whole(z)
    BY <1>1, <1>7, PolicySheds, ShedIsWhole, Zenon
  <2> QED BY <1>8, <2>1, <2>2 DEF Loaded
<1> QED BY <1>3, <1>5, <1>9 DEF next, exec

\* What an episode is after its output was seen.
SeenOne(r, active, t) == [r EXCEPT !.follower = OutputSeen(@, active, t)]

\* The one episode of an execution waits for the same launch afterwards.
LEMMA SeenEpisode ==
  ASSUME NEW e, Formed({e}), NEW r, e.rec = {r}, NEW active, NEW t
  PROVE  /\ SeenOne(r, active, t).pending = r.pending
         /\ SeenOne(r, active, t).intercept = r.intercept
         /\ SeenOne(r, active, t).episode = r.episode
<1>1. Has(r, RecoveryFields)
  BY DEF Formed
<1> QED BY <1>1 DEF Has, RecoveryFields, SeenOne

\* An observed run, once its execution is known.
LEMMA WatchedLoaded ==
  ASSUME NEW x, NEW e, NEW i, Loaded(x, e, i), NEW ex \in x.exec, NEW t
  PROVE  Loaded(Watched(x, ex, t), e, i)
<1>1. Whole(x) /\ Sheds(x, Watched(x, ex, t))
  BY WatchedSheds DEF Loaded
<1>2. CASE x.lc.box = {Stop}
  BY <1>1, <1>2, StopStays
<1>3. CASE Launching(x, e, i)
  <2> DEFINE s == The(x.sample)
             rec == {[q EXCEPT !.follower = OutputSeen(@, Moving(x.out), t)] : q \in ex.rec}
             noted == [ex EXCEPT !.seen = {s}, !.rec = rec]
             problem == ObservationProblem(x, ex, t)
             m == Monitored(noted, s)
             z == DeviationActed(x, m, s, t)
             exec == {noted}
  <2>1. Watched(x, ex, t) \in {Synced(Interrupt(x, problem)), [x EXCEPT !.exec = exec], Synced(z)}
    BY DEF Watched
  <2>0. \E g, r : /\ x.exec = {g} /\ x.lc.run = {g.run} /\ g.rec = {r} /\ r.pending
                      /\ i \in r.intercept /\ x.lc.recovery = {r.episode} /\ Formed({g})
    BY <1>1, <1>3, LaunchingFacts
  <2>2. PICK r : /\ x.exec = {ex} /\ x.lc.run = {ex.run} /\ ex.rec = {r} /\ r.pending
                 /\ i \in r.intercept /\ x.lc.recovery = {r.episode} /\ Formed({ex})
    <3>1. PICK g, r : /\ x.exec = {g} /\ x.lc.run = {g.run} /\ g.rec = {r} /\ r.pending
                      /\ i \in r.intercept /\ x.lc.recovery = {r.episode} /\ Formed({g})
      BY <2>0
    <3>2. ex = g
      BY <3>1
    <3> QED BY <3>1, <3>2
  <2> DEFINE p == SeenOne(r, Moving(x.out), t)
  <2>3. rec = SeenBy(ex.rec, Moving(x.out), t) /\ rec = {p}
    BY <2>2 DEF SeenBy, SeenOne
  <2> HIDE DEF s, rec, problem
  <2>4. Formed({ex})
    BY <2>2
  <2>41. /\ \A q \in rec : Has(q, RecoveryFields)
         /\ Unlaunched({ex}) => \A q \in rec : ~q.pending
    BY <2>4, <2>3, SeenRecoveries
  <2>5. /\ rec = {p} /\ p.pending /\ i \in p.intercept /\ x.lc.recovery = {p.episode}
    <3> HIDE DEF noted, m, z, exec
    <3>0. ex.rec = {r}
      BY <2>2
    <3>1. /\ p.pending = r.pending /\ p.intercept = r.intercept /\ p.episode = r.episode
      BY <2>4, <3>0, SeenEpisode
    <3> QED BY <2>2, <2>3, <3>1
  <2> HIDE DEF p
  <2>6. Calms({ex}, {noted}) /\ noted.run = ex.run /\ noted.rec = rec
    <3>1. Calms({ex}, {noted})
      <4> HIDE DEF m, z, exec
      <4>1. Formed({ex}) /\ (\A q \in rec : Has(q, RecoveryFields))
        BY <2>4, <2>41
      <4>2. Unlaunched({ex}) => \A q \in rec : ~q.pending
        BY <2>41
      <4> QED BY <4>1, <4>2, NotedCalms, Zenon
    <3>2. noted.run = ex.run /\ noted.rec = rec
      BY <2>4 DEF Formed, Has, ExecutionFields
    <3> QED BY <3>1, <3>2
  <2>7. Formed({noted})
    BY <2>6 DEF Calms
  <2>8. Calms({noted}, {m}) /\ m.rec = rec /\ m.run = ex.run
    BY <2>6, <2>7, MonitoredCalms
  <2>9. Calms(x.exec, {m}) /\ Calms(x.exec, {noted})
    BY <2>2, <2>6, <2>8 DEF Calms
  <2> HIDE DEF m
  <2>10. Loaded(z, e, i)
    BY <1>1, <1>3, <2>2, <2>5, <2>8, <2>9, DeviationActedLoaded
  <2> HIDE DEF z
  <2>11. Loaded(Synced(z), e, i)
    BY <2>10, SyncedLoaded
  <2>12. Loaded([x EXCEPT !.exec = {noted}], e, i)
    BY <1>1, <1>3, <2>2, <2>5, <2>6, <2>9, DeviationActedLoaded
  <2>13. Loaded(Synced(Interrupt(x, problem)), e, i)
    BY GivenUpLoaded
  <2> QED BY <2>1, <2>11, <2>12, <2>13
<1> QED BY <1>2, <1>3 DEF Loaded

\* An observed run (runtime.rs observe_tracking).
LEMMA ObservedRunLoaded ==
  ASSUME NEW x, NEW e, NEW i, Loaded(x, e, i), NEW t
  PROVE  Loaded(ObservedRun(x, t), e, i)
<1> DEFINE a == Checked(x, t)
           live == Tick(a, t)
           v == ScheduleChecked(live, t)
           ex == The(v.exec)
<1>1. Loaded(a, e, i)
  BY CheckedLoaded
<1> HIDE DEF a
<1>2. Loaded(live, e, i)
  BY <1>1, TickLoaded
<1>3. ObservedRun(x, t) \in {x, live, v} \/ (ex \in v.exec /\ ObservedRun(x, t) = Watched(v, ex, t))
  BY DEF ObservedRun, ObservedLive, WatchedRun, The, a
<1> HIDE DEF live
<1>4. Loaded(v, e, i)
  BY <1>2, ScheduleCheckedLoaded
<1> HIDE DEF v, ex
<1>5. ex \in v.exec => Loaded(Watched(v, ex, t), e, i)
  BY <1>4, WatchedLoaded
<1> QED BY <1>2, <1>3, <1>4, <1>5

\* A launch that is sent to the output is sent at its instant.
LEMMA SentOnTime ==
  ASSUME Clear(d), Formed(d.exec), NEW e, NEW i, Launching(d, e, i), e # Stop, e \in Sent,
         now \in Nat, i.launch \in 0 .. now
  PROVE  now = i.launch
<1> DEFINE a == Advanced(d, now)
           b == ObservedRun(a, now)
           y == Serviced(b, now)
           u == Ticked(y.lc, now)
<1>0. Sent = Taken(u.box, now)
  BY DEF Sent, Drained, Taking, InputTaken
<1>1. Loaded(d, e, i)
  BY DEF Loaded, Whole
<1>2. Loaded(a, e, i)
  BY <1>1, AdvancedLoaded
<1> HIDE DEF a
<1>3. Loaded(b, e, i)
  BY <1>2, ObservedRunLoaded
<1> HIDE DEF b
<1>4. Loaded(y, e, i) /\ (now > i.launch => y.lc.box = {Stop})
  BY <1>3, ServicedLoaded
<1> HIDE DEF y
<1>5. Tames(y.lc, u)
  BY <1>4, TickedTames DEF Loaded, Whole, Clear
<1> HIDE DEF u
<1>6. now > i.launch => u.box = {Stop}
  BY <1>4, <1>5 DEF Tames, Keeps
<1>7. u.box = {Stop} => e \notin Sent
  BY <1>0 DEF Taken
<1> QED BY <1>6, <1>7

-----------------------------------------------------------------------------
(* A service of the output, after which no launch waits.                   *)

\* A device in which no launch waits or is begun.
Unloaded(x) == Whole(x) /\ Unlaunched(x.exec) /\ Launches(x.lc.box) = {}

\* What is shed is not a launch.
LEMMA ShedsNoLaunch ==
  ASSUME NEW x, NEW y, Sheds(x, y), Launches(x.lc.box) = {}
  PROVE  Launches(y.lc.box) = {}
  BY DEF Sheds, Keeps, Launches

\* Where no launch waits none begins of itself.
LEMMA UnloadedStays ==
  ASSUME NEW x, Unloaded(x), NEW y, Sheds(x, y)
  PROVE  Unloaded(y)
<1>1. Whole(y) /\ Launches(y.lc.box) = {}
  BY ShedIsWhole, ShedsNoLaunch DEF Unloaded
<1>2. Unlaunched(y.exec)
  BY DEF Sheds, Calms, Unloaded
<1> QED BY <1>1, <1>2 DEF Unloaded

\* The executions after their commands were drained.
Released(exec) == {[e EXCEPT !.rec = {[r EXCEPT !.pending = FALSE] : r \in @}] : e \in exec}

\* None of them has a launch to wait for.
LEMMA ReleasedIsUnlaunched ==
  ASSUME NEW exec, Formed(exec)
  PROVE  Formed(Released(exec)) /\ Unlaunched(Released(exec))
<1> DEFINE rec(e) == {[r EXCEPT !.pending = FALSE] : r \in e.rec}
           next(e) == [e EXCEPT !.rec = rec(e)]
<1>1. Released(exec) = {next(e) : e \in exec}
  BY DEF Released
<1>2. ASSUME NEW e \in exec
      PROVE  /\ Has(next(e), ExecutionFields)
             /\ \A r \in next(e).rec : Has(r, RecoveryFields) /\ ~r.pending
  <2> DEFINE recs == rec(e)
             f == [e EXCEPT !.rec = recs]
  <2>1. \A r \in recs : Has(r, RecoveryFields) /\ ~r.pending
    <3>1. \A r \in e.rec : Has(r, RecoveryFields)
      BY DEF Formed
    <3>2. \A r \in e.rec :
            LET u == [r EXCEPT !.pending = FALSE] IN Has(u, RecoveryFields) /\ ~u.pending
      BY <3>1, RecoveryFormed
    <3> QED BY <3>2
  <2>2. next(e) = f
    OBVIOUS
  <2> HIDE DEF recs, next
  <2>3. Has(f, ExecutionFields) /\ f.rec = recs
    BY DEF Formed, Has, ExecutionFields
  <2> QED BY <2>1, <2>2, <2>3
<1> HIDE DEF next
<1> QED BY <1>1, <1>2 DEF Formed, Unlaunched

\* A drained command (runtime.rs take_command).
LEMMA CommandTakenUnloads ==
  ASSUME NEW x, Whole(x), NEW t
  PROVE  Unloaded(CommandTaken(x, t))
<1> DEFINE exec == Released(x.exec)
           v == Ticked(x.lc, t)
           u == [v EXCEPT !.box = {}]
           y == [x EXCEPT !.lc = u, !.exec = exec]
<1>1. CommandTaken(x, t) = y
  BY DEF CommandTaken, Released
<1>2. Legible(v)
  BY TickedTames DEF Whole, Clear
<1> HIDE DEF v
<1>3. u.box = {}
  BY <1>2 DEF Legible, Has, PolicyFields
<1>4. Formed(exec) /\ Unlaunched(exec)
  BY ReleasedIsUnlaunched DEF Whole
<1> HIDE DEF u, exec
<1>5. y.lc = u /\ y.exec = exec
  BY DEF Whole, Clear, Has, DeviceFields
<1> HIDE DEF y
<1>6. Clear(y)
  BY <1>1, CommandTakenShows DEF Whole
<1>7. Launches(u.box) = {}
  BY <1>3 DEF Launches
<1> QED BY <1>1, <1>4, <1>5, <1>6, <1>7 DEF Unloaded, Whole

\* A service of the output (coordination.rs service_actuator).
LEMMA OutputServicedUnloads ==
  ASSUME NEW x, Whole(x), NEW faulty, NEW t
  PROVE  Unloaded(OutputServiced(x, faulty, t))
<1> DEFINE v == CommandTaken(x, t)
           out == OutputStep(v, Drained(x, t), faulty, t)
<1>1. OutputServiced(x, faulty, t) = Recorded(v, out, t)
  BY DEF OutputServiced, Applying
<1>2. Unloaded(v)
  BY CommandTakenUnloads
<1> HIDE DEF v, out
<1>3. Sheds(v, Recorded(v, out, t))
  BY <1>2, RecordedSheds DEF Unloaded
<1> QED BY <1>1, <1>2, <1>3, UnloadedStays

\* What precedes a drained command (coordination.rs take_actuator_input).
LEMMA TakingIsWhole ==
  ASSUME Whole(d)
  PROVE  Whole(Taking)
<1> DEFINE a == Advanced(d, now)
           b == ObservedRun(a, now)
<1>1. Taking = Serviced(b, now)
  BY DEF Taking, InputTaken
<1>2. Whole(a)
  BY AdvancedSheds
<1> HIDE DEF a
<1>3. Whole(b)
  BY <1>2, ObservedRunSheds
<1> HIDE DEF b
<1> QED BY <1>1, <1>3, ServicedSheds

-----------------------------------------------------------------------------
(* What a launch is commanded from.                                        *)

\* No execution saw another sample than the device has.
Sees(x) == \A e \in x.exec : e.seen = {} \/ e.seen = x.sample

\* A device whose run, if it has one, was just observed.
Observed(x) == x.lc.run = {} \/ (InStep(x) /\ (x.lc.plan = {} \/ Sees(x)))

\* Synchronising keeps what was seen.
LEMMA SyncedSees ==
  ASSUME NEW t \in Nat, NEW x, DeviceOK(x), Sees(x)
  PROVE  Sees(Synced(x)) /\ InStep(Synced(x)) /\ Synced(x).lc = x.lc
<1> DEFINE kept == {e \in x.exec : x.lc.run = {e.run}}
           some == IF kept # {} THEN kept
                   ELSE IF x.lc.run = {} THEN {} ELSE {NewExecution(x.lc)}
           exec == {EpisodeSynced(e, x.lc) : e \in some}
           y == [x EXCEPT !.exec = exec]
<1>1. Synced(x) = y
  BY DEF Synced
<1>2. \A e \in some : Has(e, ExecutionFields) /\ (e.seen = {} \/ e.seen = x.sample)
  <2>1. x.lc.run # {} => Has(NewExecution(x.lc), ExecutionFields)
    BY NewExecutionFacts DEF DeviceOK
  <2>2. NewExecution(x.lc).seen = {}
    BY DEF NewExecution
  <2>3. \A e \in x.exec : Has(e, ExecutionFields) /\ (e.seen = {} \/ e.seen = x.sample)
    BY DEF DeviceOK, ExecutionsOK, Sees
  <2> QED BY <2>1, <2>2, <2>3
<1> HIDE DEF some
<1>3. \A e \in some : LET f == EpisodeSynced(e, x.lc) IN Kin(e, f)
  BY <1>2, EpisodeSyncedFacts
<1>4. \A f \in exec : f.seen = {} \/ f.seen = x.sample
  BY <1>2, <1>3 DEF Kin
<1> HIDE DEF exec
<1>5. y.exec = exec /\ y.sample = x.sample
  BY DEF DeviceOK, Has, DeviceFields
<1> HIDE DEF y
<1>6. /\ InStep(Synced(x))
      /\ \A f \in DeviceFields \ {"exec"} : Synced(x)[f] = x[f]
  BY SyncedFacts
<1>7. Synced(x).lc = x.lc
  BY <1>6 DEF DeviceFields
<1> QED BY <1>1, <1>4, <1>5, <1>6, <1>7 DEF Sees

\* An observed run saw the sample, or is over (runtime.rs observe_tracking).
LEMMA WatchedSees ==
  ASSUME NEW t \in Nat, NEW x, DeviceOK(x), InStep(x), Quiet(x.lc, t), NEW e, x.exec = {e}
  PROVE  Observed(Watched(x, e, t))
<1> DEFINE y == Watched(x, e, t)
           s == The(x.sample)
           rec == {[r EXCEPT !.follower = OutputSeen(@, Moving(x.out), t)] : r \in e.rec}
           noted == [e EXCEPT !.seen = {s}, !.rec = rec]
           compared == /\ e.seen # {s}
                       /\ x.lc.phase \in {"Following", "Reacquiring"}
                       /\ s.at >= e.aos
           problem == ObservationProblem(x, e, t)
<1>1. y = IF problem # "none" THEN Synced(Interrupt(x, problem))
          ELSE IF ~compared THEN [x EXCEPT !.exec = {noted}]
          ELSE Synced(DeviationActed(x, Monitored(noted, s), s, t))
  BY DEF Watched
<1>2. InStep(y)
  BY WatchedFacts
<1>3. CASE problem # "none"
  <2> DEFINE z == Interrupt(x, problem)
  <2>1. y = Synced(z)
    BY <1>1, <1>3
  <2> HIDE DEF y, problem
  <2>2. Leads(x, z, t) /\ z.lc.mode = "Manual"
    BY InterruptFacts
  <2> HIDE DEF z
  <2>3. z.lc.run = {} /\ DeviceOK(z)
    BY <2>2 DEF Leads, DeviceOK, PolicyOK, InPhase
  <2>4. \A f \in DeviceFields \ {"exec"} : Synced(z)[f] = z[f]
    BY <2>3, SyncedFacts
  <2>5. y.lc.run = {}
    BY <2>1, <2>3, <2>4 DEF DeviceFields
  <2> QED BY <2>5 DEF Observed, y
<1>4. CASE problem = "none"
  <2>1. x.sample # {}
    BY <1>4 DEF ObservationProblem
  <2>2. x.sample = {s}
    BY <2>1, TheFacts DEF The, DeviceOK
  <2>3. Has(e, ExecutionFields)
    BY DEF DeviceOK, ExecutionsOK
  <2> HIDE DEF s, rec
  <2>4. Saw(e, noted, {s})
    BY <2>3, NotedSaw, Zenon
  <2> HIDE DEF noted
  <2>5. Saw(e, noted, x.sample) /\ Saw(e, Monitored(noted, s), x.sample)
    BY <2>2, <2>4, MonitoredSaw
  <2>6. CASE ~compared
    <3> DEFINE w == [x EXCEPT !.exec = {noted}]
    <3>1. y = w
      BY <1>1, <1>4, <2>6
    <3> HIDE DEF y
    <3>2. w.exec = {noted} /\ w.sample = x.sample
      BY DEF DeviceOK, Has, DeviceFields
    <3> HIDE DEF w
    <3>3. Sees(y)
      BY <2>5, <3>1, <3>2 DEF Sees, Saw
    <3> QED BY <1>2, <3>3 DEF Observed, y
  <2>7. CASE compared
    <3>1. ~Firm(x, t)
      BY <2>2, <2>7 DEF Firm
    <3> DEFINE m == Monitored(noted, s)
               z == DeviationActed(x, m, s, t)
    <3>2. y = Synced(z)
      BY <1>1, <1>4, <2>7
    <3> HIDE DEF m
    <3>3. Leads(x, z, t)
      BY <2>5, <3>1, DeviationActedFacts DEF m
    <3>4. z.exec = {m} /\ z.sample = x.sample
      <4> DEFINE next == [x EXCEPT !.exec = {m}]
      <4>1. next.exec = {m} /\ next.sample = x.sample /\ Has(next, DeviceFields)
        BY DEF DeviceOK, Has, DeviceFields
      <4>2. \E u : z = [next EXCEPT !.lc = u] \/ z = next
        BY Zenon DEF DeviationActed
      <4> HIDE DEF next, z
      <4>3. ASSUME NEW u PROVE LET w == [next EXCEPT !.lc = u] IN w.exec = {m} /\ w.sample = x.sample
        BY <4>1 DEF Has, DeviceFields
      <4> QED BY <4>1, <4>2, <4>3
    <3> HIDE DEF y, z
    <3>5. Sees(z)
      BY <2>5, <3>4 DEF Sees, Saw, m
    <3>6. Sees(Synced(z)) /\ InStep(Synced(z))
      BY <3>3, <3>5, SyncedSees DEF Leads
    <3> QED BY <3>2, <3>6 DEF Observed, y
  <2> QED BY <2>6, <2>7
<1> QED BY <1>3, <1>4

\* So does any run that was just observed.
LEMMA ObservedRunSees ==
  ASSUME NEW t \in Nat, NEW x, DeviceOK(x)
  PROVE  Observed(ObservedRun(x, t))
<1> DEFINE a == Checked(x, t)
           live == Tick(a, t)
           v == ScheduleChecked(live, t)
           y == ObservedRun(x, t)
<1>1. CASE x.lc.run = {}
  BY <1>1 DEF Observed, ObservedRun
<1>2. CASE x.lc.run # {}
  <2>1. Leads(x, a, t) /\ DeviceOK(a)
    BY CheckedFacts DEF Leads
  <2>2. y = IF live.lc.run # x.lc.run THEN live ELSE WatchedRun(v, t)
    BY <1>2 DEF ObservedRun, ObservedLive
  <2> HIDE DEF a
  <2>3. Leads(a, live, t) /\ InStep(live) /\ Quiet(live.lc, t) /\ DeviceOK(live)
    BY <2>1, TickFacts DEF Leads
  <2> HIDE DEF live
  <2>4. Leads(x, live, t)
    BY <2>1, <2>3, LeadsTwice
  <2>5. live.lc.run # x.lc.run => live.lc.run = {}
    BY <1>2, <2>3, <2>4, Zenon DEF Leads, Goes, DeviceOK, PolicyOK, InPhase
  <2>6. InStep(v) /\ Quiet(v.lc, t) /\ DeviceOK(v)
    BY <2>3, ScheduleCheckedFacts DEF Leads
  <2> HIDE DEF v, y
  <2>7. CASE live.lc.run # x.lc.run
    BY <2>2, <2>5, <2>7 DEF Observed, y
  <2>8. CASE live.lc.run = x.lc.run /\ (v.lc.plan = {} \/ v.exec = {})
    <3>1. y = v
      BY <2>2, <2>8 DEF WatchedRun
    <3> QED BY <2>6, <2>8, <3>1 DEF Observed, Sees, y
  <2>9. CASE live.lc.run = x.lc.run /\ v.lc.plan # {} /\ v.exec # {}
    <3>1. v.exec = {The(v.exec)}
      BY <2>6, <2>9, TheFacts DEF The, DeviceOK, ExecutionsOK
    <3>2. y = Watched(v, The(v.exec), t)
      BY <2>2, <2>9 DEF WatchedRun
    <3>3. Observed(Watched(v, The(v.exec), t))
      BY <2>6, <3>1, WatchedSees
    <3> QED BY <3>2, <3>3 DEF y
  <2> QED BY <2>7, <2>8, <2>9
<1> QED BY <1>1, <1>2

-----------------------------------------------------------------------------
(* A launch is only commanded at its instant, for the dish it was found for. *)

\* An episode whose search begins is the same for a launch.
LEMMA SearchBegunFacts ==
  ASSUME NEW r, Has(r, RecoveryFields), NEW start, NEW aos, NEW resting, NEW ready, NEW t
  PROVE  LET u == SearchBegun(r, start, aos, resting, ready, t)
         IN  /\ Has(u, RecoveryFields) /\ u.pending = r.pending
             /\ u.intercept = r.intercept /\ u.episode = r.episode
<1> DEFINE launch == t + PlanningLead
           search == {[start |-> start, launch |-> launch]}
           v == [r EXCEPT !.search = search]
<1>1. SearchBegun(r, start, aos, resting, ready, t) \in {r, v}
  BY DEF SearchBegun
<1> HIDE DEF search
<1>2. /\ Has(v, RecoveryFields) /\ v.pending = r.pending
      /\ v.intercept = r.intercept /\ v.episode = r.episode
  BY DEF Has, RecoveryFields
<1> HIDE DEF v
<1> QED BY <1>1, <1>2

\* An episode is not launched, or just now and from its start (recovery.rs
\* command).
LEMMA CommandingFacts ==
  ASSUME NEW r, Has(r, RecoveryFields), ~r.pending,
         NEW start, NEW aos, NEW resting, NEW ready, NEW t
  PROVE  LET u == Commanding(r, start, aos, resting, ready, t)
         IN  /\ Has(u, RecoveryFields)
             /\ u.pending => /\ u.episode = r.episode
                             /\ \A i \in u.intercept : StartUnchanged(i, start, ready)
<1> DEFINE b == SearchBegun(r, start, aos, resting, ready, t)
           f == {NewFollower}
           v == [b EXCEPT !.follower = f, !.pending = TRUE]
           l == Launched(b, start, resting, ready, t)
           u == Unproven(l, t)
<1>0. Commanding(r, start, aos, resting, ready, t) = u
  BY DEF Commanding
<1>1. /\ Has(b, RecoveryFields) /\ ~b.pending /\ b.intercept = r.intercept
      /\ b.episode = r.episode
  BY SearchBegunFacts
<1> HIDE DEF b, f
<1>2. /\ Has(v, RecoveryFields) /\ v.intercept = b.intercept /\ v.episode = b.episode
  BY <1>1 DEF Has, RecoveryFields
<1>3. l = b \/ l = Held(b, t) \/ (l = v /\ \A i \in b.intercept : StartUnchanged(i, start, ready))
  BY DEF Launched, f
<1> HIDE DEF v, l
<1>4. Has(Held(b, t), RecoveryFields) /\ ~Held(b, t).pending
  BY <1>1, RecoveryFormed
<1>5. /\ Has(l, RecoveryFields)
      /\ l.pending => /\ l.episode = r.episode
                      /\ \A i \in l.intercept : StartUnchanged(i, start, ready)
  BY <1>1, <1>2, <1>3, <1>4
<1>6. u = l \/ u = Held(l, t)
  BY DEF Unproven
<1>7. Has(Held(l, t), RecoveryFields) /\ ~Held(l, t).pending
  BY <1>5, RecoveryFormed
<1> HIDE DEF u
<1> QED BY <1>0, <1>5, <1>6, <1>7

\* A turn of an episode (recovery.rs command).
LEMMA RecoveryTurnLaunches ==
  ASSUME NEW t \in Nat, NEW x, DeviceOK(x), Quiet(x.lc, t), Unloaded(x),
         x.lc.phase = "Reacquiring", x.lc.plan # {},
         NEW e, x.exec = {e}, x.lc.run = {e.run}, NEW s, e.seen = {s}, x.sample = {s},
         NEW r \in e.rec, NEW want
  PROVE  LaunchesAt(RecoveryTurn(x, e, r, want, t), {t})
<1> DEFINE sample == The(e.seen)
           ready == Ready(x.gate, t)
           start == RestingStart(sample, x.out, x.gate.generation, t)
           next == Commanding(r, start, e.aos, Resting(x.out, t), ready, t)
           followers == OutputSeen(next.follower, Moving(x.out), t)
           moves == \E f \in followers : Asks(f, want, sample.at)
           until == Earlier(t + MovementLease, r.episode.deadline)
           launch == IF next.pending THEN next.intercept ELSE {}
           by == [run |-> x.lc.run, sampled |-> sample.at, launch |-> launch]
           envelope == IF followers = {} THEN Stop ELSE RunEnvelope(moves, until, by)
           asked1 == {FollowerAsked(f, want, sample.at) : f \in followers}
           last == IF followers = {} THEN next.last ELSE {t}
           commanded == [next EXCEPT !.follower = asked1, !.last = last]
           rec == {commanded}
           f == [e EXCEPT !.follower = {}, !.control = {t}, !.rec = rec]
           exec == {f}
           u == RecoveryCommanded(Ticked(x.lc, t), r.episode, envelope, t)
           y == RecoveryTurn(x, e, r, want, t)
<1>1. y = [x EXCEPT !.exec = exec, !.lc = u]
  BY DEF RecoveryTurn
<1>2. Ticked(x.lc, t) = x.lc
  BY QuietTicks DEF DeviceOK
<1> HIDE DEF y
<1>3. sample = s
  BY DEF The
<1>4. start.at = t /\ start.pose = s.pose /\ start.turned = x.out.turned
  BY <1>3 DEF RestingStart
<1>5. Has(r, RecoveryFields) /\ ~r.pending /\ Has(e, ExecutionFields)
  BY DEF Unloaded, Whole, Formed, Unlaunched
<1> HIDE DEF sample, ready, start
<1>6. /\ Has(next, RecoveryFields)
      /\ next.pending => /\ next.episode = r.episode
                         /\ \A i \in next.intercept : StartUnchanged(i, start, ready)
  BY <1>5, CommandingFacts
<1>7. envelope = Stop \/ (envelope.by.launch = launch /\ envelope.command.kind = "Drive")
  BY DEF RunEnvelope, Drive
<1> HIDE DEF next, followers, envelope, asked1, last
<1>8. /\ Has(commanded, RecoveryFields) /\ commanded.pending = next.pending
      /\ commanded.intercept = next.intercept /\ commanded.episode = next.episode
  BY <1>6 DEF Has, RecoveryFields
<1> HIDE DEF commanded
<1>9. Has(f, ExecutionFields) /\ f.run = e.run /\ f.rec = rec
  BY <1>5 DEF Has, ExecutionFields
<1> HIDE DEF f
<1>10. Formed(exec)
  BY <1>8, <1>9 DEF Formed
<1>11. /\ u = x.lc \/ (/\ x.lc.recovery = {r.episode}
                       /\ u = [x.lc EXCEPT !.box = Submitted(x.lc.box, envelope)])
  BY <1>2 DEF RecoveryCommanded
<1> HIDE DEF u
<1>12. /\ u.box = x.lc.box \/ (u.box = {envelope} /\ x.lc.recovery = {r.episode})
       /\ u.phase = x.lc.phase /\ u.plan = x.lc.plan /\ u.run = x.lc.run
       /\ u.recovery = x.lc.recovery
  <2> DEFINE b == Submitted(x.lc.box, envelope)
             v == [x.lc EXCEPT !.box = b]
  <2>1. b = x.lc.box \/ b = {envelope}
    BY DEF Submitted
  <2> HIDE DEF b
  <2>2. /\ v.box = b /\ v.phase = x.lc.phase /\ v.plan = x.lc.plan /\ v.run = x.lc.run
        /\ v.recovery = x.lc.recovery
    BY DEF DeviceOK, PolicyOK, Has, PolicyFields
  <2>3. u = x.lc \/ (x.lc.recovery = {r.episode} /\ u = v)
    BY <1>11 DEF b
  <2> HIDE DEF v
  <2> QED BY <2>1, <2>2, <2>3
<1>13. y.lc = u /\ y.exec = exec /\ y.sample = x.sample /\ y.out = x.out
  BY <1>1 DEF DeviceOK, Has, DeviceFields
<1>14. ASSUME NEW g \in Launches(u.box), NEW i \in g.by.launch
       PROVE  {t} = {i.launch} /\ Launching(y, g, i) /\ InPlace(y, i)
  <2>1. g \in u.box /\ g # Stop /\ g.by.launch # {} /\ g \notin Launches(x.lc.box)
    BY DEF Launches, Unloaded
  <2>2. u.box = {envelope} /\ g = envelope /\ x.lc.recovery = {r.episode}
    BY <1>12, <2>1 DEF Launches
  <2>3. g.by.launch = launch /\ g.command.kind = "Drive"
    BY <1>7, <2>1, <2>2
  <2>4. next.pending /\ i \in next.intercept
    BY <2>1, <2>3
  <2>5. StartUnchanged(i, start, ready) /\ next.episode = r.episode
    BY <1>6, <2>4
  <2>6. t = i.launch /\ s.pose = i.start.pose /\ x.out.turned = i.start.turned
    BY <1>4, <2>5 DEF StartUnchanged
  <2>7. InPlace(y, i)
    BY <1>13, <2>6 DEF InPlace
  <2>8. y.lc.box = {g} /\ g.command.kind # "Inhibit" /\ y.lc.phase = "Reacquiring" /\ y.lc.plan # {}
    BY <1>12, <1>13, <2>2, <2>3
  <2>9. y.exec = {f} /\ y.lc.run = {f.run} /\ y.lc.recovery = {commanded.episode}
    BY <1>8, <1>9, <1>12, <1>13, <2>2, <2>5
  <2>10. f.rec = {commanded} /\ commanded.pending /\ i \in commanded.intercept
    BY <1>8, <1>9, <2>4
  <2>11. Launching(y, g, i)
    BY <2>8, <2>9, <2>10, LaunchingFrom
  <2> QED BY <2>6, <2>7, <2>11
<1> HIDE DEF exec
<1>15. LaunchesAt(y, {t})
  BY <1>10, <1>13, <1>14 DEF LaunchesAt
<1> QED BY <1>15 DEF y

\* Where no launch waits there is none to be late for.
LEMMA NothingToLaunch ==
  ASSUME NEW x, Formed(x.exec), Launches(x.lc.box) = {}, NEW instant
  PROVE  LaunchesAt(x, instant)
  BY DEF LaunchesAt

\* The readiness of a run does not touch its episode.
LEMMA ReadiedFormed ==
  ASSUME NEW e, Formed({e}), NEW acquired, NEW at, NEW f, NEW t
  PROVE  /\ Formed({Readied(e, acquired, at)})
         /\ Formed({[e EXCEPT !.follower = f, !.control = t]})
<1> DEFINE gap == e.read = {} \/ \E r \in e.read : at - r >= FeedbackMaxAge
           since == IF ~acquired THEN {}
                    ELSE IF e.read = {at} THEN e.since
                    ELSE IF gap \/ e.since = {} THEN {at} ELSE e.since
           u == [e EXCEPT !.since = since, !.read = {at}]
           v == [e EXCEPT !.follower = f, !.control = t]
<1>1. Readied(e, acquired, at) = u
  BY DEF Readied
<1> HIDE DEF since
<1>2. Has(u, ExecutionFields) /\ u.rec = e.rec /\ Has(v, ExecutionFields) /\ v.rec = e.rec
  BY DEF Formed, Has, ExecutionFields
<1> HIDE DEF u, v
<1>3. Formed({u}) /\ Formed({v})
  BY <1>2 DEF Formed
<1> QED BY <1>1, <1>3 DEF v

\* A turn of the follower of the route launches nothing (runtime.rs
\* execution_command).
LEMMA FollowerTurnLaunches ==
  ASSUME NEW t \in Nat, NEW x, DeviceOK(x), Quiet(x.lc, t), Unloaded(x), NEW e \in x.exec, NEW want
  PROVE  LaunchesAt(FollowerTurn(x, e, want, t), {t})
<1> DEFINE s == The(x.sample)
           follower == IF e.follower = {} THEN NewFollower ELSE The(e.follower)
           seen == FollowerSaw(follower, Moving(x.out), t)
           preparing == x.lc.phase \in {"Preparing", "Ready"}
           fs == {FollowerAsked(seen, want, s.at)}
           asked1 == [e EXCEPT !.follower = fs, !.control = {t}]
           good == Acquired(x, s, t)
           next == IF preparing THEN Readied(asked1, good, s.at) ELSE asked1
           ready == preparing /\ ReadyDwelt(asked1, next, s.at)
           v == MadeReady(Ticked(x.lc, t), x.lc.run)
           prepared == IF ready THEN v ELSE x.lc
           by == [run |-> x.lc.run, sampled |-> s.at, launch |-> {}]
           envelope == RunEnvelope(Asks(seen, want, s.at), t + MovementLease, by)
           exec == {next}
           w == Ticked(prepared, t)
           u == TrackingCommanded(w, x.lc.run, envelope, t)
           y == FollowerTurn(x, e, want, t)
<1>1. y = [x EXCEPT !.exec = exec, !.lc = u]
  BY DEF FollowerTurn
<1>2. Ticked(x.lc, t) = x.lc
  BY QuietTicks DEF DeviceOK
<1>3. envelope.by.launch = {}
  BY DEF RunEnvelope
<1> HIDE DEF y, envelope, fs, good, s
<1>4. Formed({e})
  BY OneFormed DEF Unloaded, Whole
<1>5. Formed({asked1})
  BY <1>4, ReadiedFormed, Zenon
<1> HIDE DEF asked1
<1>6. Formed({Readied(asked1, good, s.at)})
  BY <1>5, ReadiedFormed, Zenon
<1>7. Formed(exec)
  BY <1>5, <1>6
<1> HIDE DEF exec, next, ready
<1>8. /\ PolicyOK(prepared) /\ Quiet(prepared, t) /\ Legible(prepared)
      /\ prepared.box = x.lc.box
  <2>1. LET m == MadeReady(x.lc, x.lc.run)
        IN  PolicyOK(m) /\ Runs(x.lc, m, t) /\ Quiet(m, t)
    BY MadeReadyFacts DEF DeviceOK
  <2>2. Legible(x.lc)
    BY DEF Unloaded, Whole, Clear
  <2>3. LET m == MadeReady(x.lc, x.lc.run) IN Legible(m) /\ m.box = x.lc.box
    BY <2>2, RunTames, RunKeeps DEF Tames, Tells
  <2> QED BY <1>2, <2>1, <2>2, <2>3 DEF DeviceOK
<1> HIDE DEF v, prepared
<1>9. w = prepared
  BY <1>8, QuietTicks
<1> HIDE DEF w
<1>10. u.box = x.lc.box \/ u.box = {envelope}
  <2> DEFINE b == Submitted(w.box, envelope)
             c == [w EXCEPT !.box = b]
  <2>1. u = w \/ u = c
    BY DEF TrackingCommanded
  <2>2. b = w.box \/ b = {envelope}
    BY DEF Submitted
  <2> HIDE DEF b, u
  <2>3. c.box = b
    BY <1>8, <1>9 DEF Legible, Has, PolicyFields
  <2> HIDE DEF c
  <2> QED BY <1>8, <1>9, <2>1, <2>2, <2>3
<1> HIDE DEF u
<1>11. Launches(u.box) = {}
  <2>1. Launches(x.lc.box) = {}
    BY DEF Unloaded
  <2>2. Launches({envelope}) = {}
    BY <1>3 DEF Launches
  <2> QED BY <1>10, <2>1, <2>2
<1>12. y.lc = u /\ y.exec = exec
  BY <1>1 DEF DeviceOK, Has, DeviceFields
<1>13. LaunchesAt(y, {t})
  BY <1>7, <1>11, <1>12, NothingToLaunch
<1> QED BY <1>13 DEF y

\* A turn of whatever is to be commanded (runtime.rs execution_command).
LEMMA TurnLaunches ==
  ASSUME NEW t \in Nat, NEW x, DeviceOK(x), Quiet(x.lc, t), Unloaded(x), Observed(x), NEW want
  PROVE  LaunchesAt(Turn(x, want, t), {t})
<1> DEFINE e == The(x.exec)
           waiting == x.lc.phase = "Reacquiring" /\ (e.rec = {} \/ e.seen = {})
           y == Turn(x, want, t)
<1>1. y = IF x.lc.run = {} \/ x.lc.plan = {} \/ x.exec = {} THEN x
          ELSE IF waiting
            THEN [x EXCEPT !.exec = {[e EXCEPT !.follower = {}, !.control = {t}]}]
          ELSE IF x.lc.phase = "Reacquiring" THEN RecoveryTurn(x, e, The(e.rec), want, t)
          ELSE FollowerTurn(x, e, want, t)
  BY DEF Turn
<1>2. CASE x.lc.run = {} \/ x.lc.plan = {} \/ x.exec = {}
  BY <1>1, <1>2, NothingToLaunch DEF Unloaded, Whole
<1>3. CASE ~(x.lc.run = {} \/ x.lc.plan = {} \/ x.exec = {})
  <2>1. x.exec = {e} /\ Has(e, ExecutionFields)
    BY <1>3, TheFacts DEF The, DeviceOK, ExecutionsOK
  <2>2. x.lc.run = {e.run} /\ (e.seen = {} \/ e.seen = x.sample)
    BY <1>3, <2>1 DEF Observed, InStep, Sees
  <2> HIDE DEF e
  <2>3. CASE waiting
    <3> DEFINE f == [e EXCEPT !.follower = {}, !.control = {t}]
               exec == {f}
               w == [x EXCEPT !.exec = exec]
    <3>1. y = w
      BY <1>1, <1>3, <2>3
    <3>2. Formed({e})
      BY <2>1 DEF Unloaded, Whole
    <3>3. Formed({f})
      BY <3>2, ReadiedFormed, Zenon
    <3> HIDE DEF f, y
    <3>4. w.exec = exec /\ w.lc = x.lc
      BY DEF DeviceOK, Has, DeviceFields
    <3> HIDE DEF w
    <3>5. LaunchesAt(y, {t})
      BY <3>1, <3>3, <3>4, NothingToLaunch DEF Unloaded
    <3> QED BY <3>5 DEF y
  <2>4. CASE ~waiting /\ x.lc.phase = "Reacquiring"
    <3> DEFINE s == The(e.seen)
               r == The(e.rec)
    <3>1. y = RecoveryTurn(x, e, r, want, t)
      BY <1>1, <1>3, <2>4
    <3>2. r \in e.rec
      BY <2>4 DEF The
    <3>3. s \in x.sample /\ Few(x.sample) /\ e.seen = x.sample
      BY <2>2, <2>4 DEF The, DeviceOK
    <3>4. e.seen = {s} /\ x.sample = {s}
      BY <3>3 DEF Few
    <3> HIDE DEF s, r, y
    <3>5. LaunchesAt(y, {t})
      BY <1>3, <2>1, <2>2, <2>4, <3>1, <3>2, <3>4, RecoveryTurnLaunches
    <3> QED BY <3>5 DEF y
  <2>5. CASE ~waiting /\ x.lc.phase # "Reacquiring"
    <3>1. e \in x.exec
      BY <2>1
    <3>2. LaunchesAt(FollowerTurn(x, e, want, t), {t})
      BY <3>1, FollowerTurnLaunches
    <3> QED BY <1>1, <1>3, <2>5, <3>2
  <2> QED BY <2>3, <2>4, <2>5
<1> QED BY <1>2, <1>3

\* Commanding a run, with the services and observations around it.
LEMMA ExecutedLaunches ==
  ASSUME NEW t \in Nat, NEW x, DeviceOK(x), Unloaded(x), NEW want
  PROVE  LaunchesAt(Executed(x, want, t), {t})
<1> DEFINE a == ObservedRun(x, t)
           b == Serviced(a, t)
           c == ObservedRun(b, t)
<1>0. Executed(x, want, t) = Turn(c, want, t)
  BY DEF Executed
<1>1. DeviceOK(a) /\ Unloaded(a)
  BY ObservedRunFacts, ObservedRunSheds, UnloadedStays DEF Leads, Unloaded
<1> HIDE DEF a
<1>2. DeviceOK(b) /\ Quiet(b.lc, t) /\ Unloaded(b)
  BY <1>1, ServicedFacts, ServicedSheds, UnloadedStays DEF Leads, Served, Unloaded
<1> HIDE DEF b
<1>3. DeviceOK(c) /\ Quiet(c.lc, t) /\ Unloaded(c) /\ Observed(c)
  BY <1>2, ObservedRunFacts, ObservedRunSheds, UnloadedStays, ObservedRunSees DEF Leads, Unloaded
<1> HIDE DEF c
<1> QED BY <1>0, <1>3, TurnLaunches

-----------------------------------------------------------------------------
(* Every launch that waits.                                                *)

\* The halves of a pass: the first may command a launch, the second takes it up.
LEMMA PassLaunches ==
  ASSUME IInv, ViewsOK, LaunchesOK, Pass
  PROVE  LaunchesOK'
<1>1. PICK faulty, want : PassBegins(faulty, want) \/ PassEnds(faulty)
  BY DEF Pass
<1> DEFINE x == OutputServiced(Taking, faulty, now)
           live == Advanced(x, now)
<1>2. now \in Nat /\ SourcesOK(source) /\ Fit(d, source, now)
  BY InvariantFacts
<1>3. Whole(d)
  BY ClearFacts DEF LaunchesOK, LaunchesAt, Whole
<1>4. DeviceOK(x)
  BY <1>2, ServesMoves DEF Fit, Sound
<1>5. Unloaded(x)
  BY <1>3, TakingIsWhole, OutputServicedUnloads
<1>6. CASE PassEnds(faulty)
  <2>1. d' = x
    BY <1>6 DEF PassEnds
  <2> HIDE DEF x
  <2> QED BY <1>5, <2>1, NothingToLaunch DEF LaunchesOK, Unloaded, Whole
<1>7. CASE PassBegins(faulty, want)
  <2>1. d' = Executed(live, want, now) /\ mid' = {now}
    BY <1>7 DEF PassBegins, TrackingExecuted
  <2> HIDE DEF x
  <2>2. DeviceOK(live) /\ Unloaded(live)
    BY <1>2, <1>4, <1>5, AdvancedFacts, AdvancedSheds, UnloadedStays DEF Leads, Unloaded
  <2> HIDE DEF live
  <2>3. LaunchesAt(Executed(live, want, now), {now})
    BY <1>2, <2>2, ExecutedLaunches
  <2> QED BY <2>1, <2>3 DEF LaunchesOK
<1> QED BY <1>1, <1>6, <1>7

\* An operator's press is not a launch (coordination.rs accept_command).
LEMMA OperatorLaunches ==
  ASSUME Whole(d), Launches(d.lc.box) = {}, Take \/ Leave \/ Jog
  PROVE  Formed(d'.exec) /\ Launches(d'.lc.box) = {}
<1> DEFINE a == Advanced(d, now)
           y == Serviced(a, now)
<1>1. Sheds(d, a) /\ Whole(a)
  BY AdvancedSheds
<1>2. CASE Take
  <2> DEFINE u == Claimed(y.lc, left["grants"])
  <2>1. d' = [y EXCEPT !.lc = u]
    BY <1>2 DEF Take
  <2> HIDE DEF a
  <2>2. Sheds(d, y) /\ Whole(y)
    BY <1>1, ServicedSheds, ShedsTwice
  <2> HIDE DEF y
  <2>3. Tames(y.lc, u)
    BY <2>2, GrantTames DEF Whole, Clear
  <2> HIDE DEF u
  <2>4. Sheds(d, d')
    BY <2>1, <2>2, <2>3, PolicySheds, ShedsTwice, Zenon
  <2> QED BY <2>4, ShedsNoLaunch DEF Sheds, Calms
<1>3. CASE Leave
  <2> DEFINE u == Unowned(y.lc)
  <2>1. d' = [y EXCEPT !.lc = u]
    BY <1>3 DEF Leave
  <2> HIDE DEF a
  <2>2. Sheds(d, y) /\ Whole(y)
    BY <1>1, ServicedSheds, ShedsTwice
  <2> HIDE DEF y
  <2>3. Tames(y.lc, u)
    BY <2>2, GrantTames DEF Whole, Clear
  <2> HIDE DEF u
  <2>4. Sheds(d, d')
    BY <2>1, <2>2, <2>3, PolicySheds, ShedsTwice, Zenon
  <2> QED BY <2>4, ShedsNoLaunch DEF Sheds, Calms
<1>4. CASE Jog
  <2>1. PICK token, e : e.by.launch = {} /\ d' = RuntimeJogged(y, token, e, now)
    BY <1>4 DEF Jog
  <2> DEFINE w == Ticked(y.lc, now)
             u == ManuallyCommanded(w, token, e, now)
             z == [y EXCEPT !.lc = u]
  <2>2. d' = y \/ d' = z
    BY <2>1 DEF RuntimeJogged
  <2> HIDE DEF a
  <2>3. Sheds(d, y) /\ Whole(y)
    BY <1>1, ServicedSheds, ShedsTwice
  <2> HIDE DEF y
  <2>4. Launches(y.lc.box) = {}
    BY <2>3, ShedsNoLaunch
  <2>5. Tames(y.lc, w) /\ Legible(w)
    BY <2>3, TickedTames DEF Whole, Clear
  <2> HIDE DEF w
  <2>6. Launches(w.box) = {}
    BY <2>4, <2>5 DEF Tames, Keeps, Launches
  <2>7. Launches(u.box) = {}
    <3> DEFINE o == Outdated(w, e.command)
               b == Submitted(o.box, e)
               v == [o EXCEPT !.box = b]
    <3>1. u = w \/ u = v
      BY DEF ManuallyCommanded
    <3> HIDE DEF u
    <3>2. Has(o, PolicyFields) /\ o.box = w.box
      <4> DEFINE n == Bumped(w)
                 m == [n EXCEPT !.plan = {}, !.ticket = {}, !.status = "Unplanned"]
      <4>1. o = w \/ o = m
        BY DEF Outdated
      <4> HIDE DEF o
      <4>2. Has(n, PolicyFields) /\ n.box = w.box
        BY <2>5, BumpedKeeps, BumpedTells DEF Tells, Legible
      <4> HIDE DEF n
      <4>3. Has(m, PolicyFields) /\ m.box = n.box
        BY <4>2 DEF Has, PolicyFields
      <4> HIDE DEF m
      <4> QED BY <2>5, <4>1, <4>2, <4>3 DEF Legible
    <3>3. b = o.box \/ b = {e}
      BY DEF Submitted
    <3> HIDE DEF o, b
    <3>4. v.box = b
      BY <3>2 DEF Has, PolicyFields
    <3> HIDE DEF v
    <3>5. Launches({e}) = {}
      BY <2>1 DEF Launches
    <3> QED BY <2>6, <3>1, <3>2, <3>3, <3>4, <3>5
  <2> HIDE DEF u
  <2>8. z.lc = u /\ z.exec = y.exec
    BY <2>3 DEF Whole, Clear, Has, DeviceFields
  <2> HIDE DEF z
  <2> QED BY <2>2, <2>3, <2>4, <2>7, <2>8 DEF Whole
<1> QED BY <1>2, <1>3, <1>4

\* A request is not a launch either.
LEMMA DeliverLaunches ==
  ASSUME IInv, Whole(d), Launches(d.lc.box) = {}, Deliver
  PROVE  Formed(d'.exec) /\ Launches(d'.lc.box) = {}
<1> DEFINE m == Head(wire)
           q == m.intent
           live == Advanced(d, now)
           c == Checked(live, now)
           done == RuntimeRequested(c, q, now)
<1>1. wire # <<>> /\ (d' = done.d \/ d' = live)
  BY DEF Deliver, Answered
<1>2. RequestsOK
  BY InvariantFacts
<1>3. m \in Carried(wire) /\ q \in {a.intent : a \in asked}
  BY <1>1, <1>2, TailCarries, WireShrinks DEF RequestsOK
<1>4. RequestOK(q)
  BY <1>2, <1>3 DEF RequestsOK
<1>5. Sheds(d, live) /\ Whole(live)
  BY AdvancedSheds
<1> HIDE DEF live
<1>6. Sheds(d, c) /\ Whole(c)
  BY <1>5, CheckedSheds, ShedsTwice, ShedIsWhole
<1> HIDE DEF c
<1>7. Sheds(c, done.d)
  BY <1>4, <1>6, RuntimeRequestedSheds
<1> HIDE DEF done
<1>8. Sheds(d, d')
  BY <1>1, <1>5, <1>6, <1>7, ShedsTwice
<1> QED BY <1>8, ShedsNoLaunch DEF Sheds, Calms

\* Every step keeps what waits to be launched on time.
LEMMA NextLaunches ==
  ASSUME IInv, ViewsOK, LaunchesOK, Next
  PROVE  LaunchesOK'
<1>1. Whole(d)
  BY ClearFacts DEF LaunchesOK, LaunchesAt, Whole
<1>2. mid = {} => Launches(d.lc.box) = {}
  BY DEF LaunchesOK, LaunchesAt, Launches
<1>3. Formed(d'.exec) /\ Launches(d'.lc.box) = {} => LaunchesOK'
  BY NothingToLaunch DEF LaunchesOK
<1>4. CASE Poll
  <2>1. Sheds(d, d') /\ mid = {}
    BY <1>1, <1>4, PollSheds DEF Poll
  <2> QED BY <1>2, <1>3, <2>1, ShedsNoLaunch DEF Sheds, Calms
<1>5. CASE Pass
  BY <1>5, PassLaunches
<1>6. CASE Environment
  <2>1. CASE Ticks
    <3>1. d' = d /\ mid' = mid
      BY <2>1 DEF Ticks
    <3> QED BY <3>1 DEF LaunchesOK
  <2>2. CASE ~Ticks
    <3>1. Sheds(d, d') /\ mid = {}
      BY <1>1, <1>6, <2>2, EnvironmentSheds
         DEF Environment, Feedback, FeedbackFails, Network, Sync, Publish
    <3> QED BY <1>2, <1>3, <3>1, ShedsNoLaunch DEF Sheds, Calms
  <2> QED BY <2>1, <2>2
<1>7. CASE Take \/ Leave \/ Jog
  <2>1. mid = {}
    BY <1>7 DEF Take, Leave, Jog
  <2> QED BY <1>1, <1>2, <1>3, <1>7, <2>1, OperatorLaunches
<1>8. CASE Deliver
  <2>1. mid = {}
    BY <1>8 DEF Deliver
  <2> QED BY <1>1, <1>2, <1>3, <1>8, <2>1, DeliverLaunches
<1>9. CASE Send \/ Resend
  <2>1. d' = d /\ mid' = mid
    BY <1>9 DEF Send, Resend
  <2> QED BY <2>1 DEF LaunchesOK
<1> QED BY <1>4, <1>5, <1>6, <1>7, <1>8, <1>9 DEF Next, Browser

\* A launch waits in the command mailbox only between the two halves of the
\* output pass that began at its instant, for the dish it was found for and in
\* an episode that would take it back with itself.
THEOREM LaunchInvariant == Spec => []LaunchesOK
<1>1. Init => LaunchesOK
  <2>1. ASSUME Init PROVE Formed(d.exec) /\ Launches(d.lc.box) = {}
    <3>1. PICK b \in Boots : d = b.d
      BY <2>1 DEF Init
    <3> QED BY <3>1, BootsAreReachable
  <2> QED BY <2>1, NothingToLaunch DEF LaunchesOK
<1>2. IInv /\ ViewsOK /\ LaunchesOK /\ [Next]_vars => LaunchesOK'
  <2>1. ASSUME LaunchesOK, UNCHANGED vars PROVE LaunchesOK'
    BY <2>1 DEF vars, LaunchesOK
  <2> QED BY <2>1, NextLaunches
<1> QED BY <1>1, <1>2, Invariance, ViewsAreKept, PTL DEF Spec

\* A recovery's first step is applied at the instant its intercept was computed
\* for and to the dish it was computed for, or never (recovery.rs service and
\* command, drive.rs direction_task).
THEOREM LaunchesAreExact == Spec => LaunchIsExact
<1>1. ASSUME IInv, ViewsOK, LaunchesOK, Next,
             NEW e \in d.lc.box \ {Stop}, NEW i \in e.by.launch, ServesOutput, e \in Sent
      PROVE  /\ now = i.launch
             /\ d.out.turned = i.start.turned
             /\ {i.start.pose} = {s.pose : s \in d.sample}
  <2>1. e \in Launches(d.lc.box)
    BY DEF Launches
  <2>2. mid = {i.launch} /\ Launching(d, e, i) /\ InPlace(d, i) /\ Formed(d.exec)
    BY <1>1, <2>1 DEF LaunchesOK, LaunchesAt
  <2>3. now \in Nat /\ mid \subseteq 0 .. now /\ Clear(d)
    BY <1>1, InvariantFacts, ClearFacts
  <2>4. i.launch \in 0 .. now
    BY <2>2, <2>3
  <2>5. now = i.launch
    BY <1>1, <2>2, <2>3, <2>4, SentOnTime
  <2> QED BY <2>2, <2>5 DEF InPlace
<1>2. ASSUME UNCHANGED vars PROVE ~ServesOutput
  BY <1>2 DEF vars, ServesOutput
<1>3. IInv /\ ViewsOK /\ LaunchesOK /\ [Next]_vars
        => [\A e \in d.lc.box \ {Stop} : \A i \in e.by.launch : (ServesOutput /\ e \in Sent) =>
              /\ now = i.launch
              /\ d.out.turned = i.start.turned
              /\ {i.start.pose} = {s.pose : s \in d.sample}]_vars
  BY <1>1, <1>2
<1> QED BY <1>3, Invariance, ViewsAreKept, LaunchInvariant, PTL DEF Spec, LaunchIsExact

-----------------------------------------------------------------------------
(* An episode that ends on the route (RecoveryIsMeasured).                 *)

\* What a step takes from the state it starts in and what it hears: the
\* feedback (healthy, sample), the streak of good samples with it (streak), the
\* routes back that are being followed (routes), and whether an episode may be
\* over at its end (over).  Of a dish that has proved to be back it may be.
Proved(c) ==
  \A s \in c.sample :
    /\ \E u \in c.streak : s.at >= u + RecoveryDwell
    /\ \A I \in c.routes : \E i \in I : s.at >= i.join + RecoveryDwell
Heard(c, k) ==
  \A s \in c.sample :
    /\ s.at \in Int
    /\ (c.healthy /\ s.error = "good") => k \subseteq c.streak /\ \E u \in c.streak : u <= s.at
Apt(c, k) ==
  /\ Few(c.routes) /\ c.streak \subseteq Int /\ k \subseteq Int
  /\ Heard(c, k) /\ (Proved(c) => c.over)

\* Only what is known of the step can end its episode.
Traced(exec, c) == \A e \in exec : \A r \in e.rec : r.follower # {} => r.intercept \in c.routes
Home(lc, c) == c.over \/ lc.phase \notin {"Ready", "Following"}

\* A device in the middle of a step.
Minded(x, c, k) ==
  /\ DeviceOK(x) /\ Formed(x.exec)
  /\ x.healthy = c.healthy /\ x.sample = c.sample
  /\ DwellsOK(x, k) /\ Traced(x.exec, c) /\ Home(x.lc, c)
Minds(x, c, k) == Minded(x, c, k) /\ InStep(x)

\* A policy that neither ends an episode nor goes back in its run.
Proceeds(lc, u) ==
  /\ u.phase \in {"Ready", "Following"} => lc.phase \in {"Ready", "Following"}
  /\ (u.run # {} /\ lc.run # {}) =>
       u.run = lc.run /\ (u.phase \in {"Preparing", "Ready"} => lc.phase \in {"Preparing", "Ready"})
\* One that ends it in time.
Returns(lc, u, c) == c.over /\ u.run = lc.run /\ u.phase = "Following"

\* An execution that dwells where another did.
Heir(e, f) ==
  /\ Has(f, ExecutionFields) /\ \A r \in f.rec : Has(r, RecoveryFields)
  /\ f.run = e.run /\ f.aos = e.aos /\ f.seen = e.seen /\ f.below = e.below
  /\ Few(e.rec) => Few(f.rec)
  /\ \A r \in f.rec : r.follower # {} => \E q \in e.rec : q.follower # {} /\ q.intercept = r.intercept
Inherits(before, after) == \A f \in after : \E e \in before : Heir(e, f)

\* An execution is its own heir.
LEMMA HeirStill ==
  ASSUME NEW exec, Formed(exec)
  PROVE  Inherits(exec, exec)
  BY DEF Inherits, Heir, Formed

\* What an heir dwells on.
LEMMA HeirFacts ==
  ASSUME NEW e, NEW f, Heir(e, f), NEW k, DwellOK(e, k)
  PROVE  DwellOK(f, k)
  BY DEF Heir, DwellOK

\* A policy with the same core goes on.
LEMMA ResemblesProceeds ==
  ASSUME NEW lc, NEW u, Resembles(lc, u)
  PROVE  Proceeds(lc, u) /\ u.run = lc.run /\ u.phase = lc.phase
  BY DEF Resembles, CoreFields, Proceeds

\* A policy without a run has no episode to end.
LEMMA RunlessProceeds ==
  ASSUME NEW lc, NEW u, PolicyOK(u), u.run = {}
  PROVE  Proceeds(lc, u)
  BY DEF PolicyOK, InPhase, Proceeds

\* A change of the policy and the execution, and of what neither depends on.
LEMMA MindsChange ==
  ASSUME NEW c, NEW k, NEW x, Minds(x, c, k), NEW y, DeviceOK(y),
         y.healthy = x.healthy, y.sample = x.sample,
         Inherits(x.exec, y.exec), Proceeds(x.lc, y.lc) \/ Returns(x.lc, y.lc, c)
  PROVE  Minded(y, c, k) /\ (y.lc.run = x.lc.run => InStep(y))
<1>1. Formed(y.exec)
  BY DEF Inherits, Heir, Formed
<1>2. Traced(y.exec, c)
  BY DEF Inherits, Heir, Traced, Minds, Minded
<1>3. Home(y.lc, c)
  BY DEF Home, Proceeds, Returns, Minds, Minded
<1>4. ASSUME NEW f \in y.exec, y.lc.run = {f.run}
      PROVE  DwellOK(f, k) /\ (f.below # {} => y.lc.phase \notin {"Preparing", "Ready"})
  <2>1. PICK e \in x.exec : Heir(e, f)
    BY DEF Inherits
  <2>2. x.lc.run = {e.run}
    BY DEF Minds, InStep
  <2>3. DwellOK(e, k) /\ (e.below # {} => x.lc.phase \notin {"Preparing", "Ready"})
    BY <2>2 DEF Minds, Minded, DwellsOK
  <2>4. DwellOK(f, k)
    BY <2>1, <2>3, HeirFacts
  <2>5. f.below = e.below /\ x.lc.run # {} /\ y.lc.run # {}
    BY <1>4, <2>1, <2>2 DEF Heir
  <2> QED BY <2>3, <2>4, <2>5 DEF Proceeds, Returns
<1>5. DwellsOK(y, k)
  BY <1>4 DEF DwellsOK
<1>6. y.lc.run = x.lc.run => InStep(y)
  BY DEF InStep, Minds, Inherits, Heir
<1> QED BY <1>1, <1>2, <1>3, <1>5, <1>6 DEF Minds, Minded

\* A change of the policy alone.
LEMMA PolicyMinded ==
  ASSUME NEW c, NEW k, NEW x, Minds(x, c, k), NEW u, PolicyOK(u), Dated(u),
         Proceeds(x.lc, u) \/ Returns(x.lc, u, c)
  PROVE  LET y == [x EXCEPT !.lc = u]
         IN  /\ Minded(y, c, k) /\ (u.run = x.lc.run => InStep(y)) /\ y.lc = u
             /\ \A f \in DeviceFields \ {"lc"} : y[f] = x[f]
<1> DEFINE y == [x EXCEPT !.lc = u]
<1>1. DeviceOK(y) /\ y.lc = u /\ \A f \in DeviceFields \ {"lc"} : y[f] = x[f]
  BY PolicyChanged DEF Minds, Minded
<1> HIDE DEF y
<1>2. y.exec = x.exec /\ y.healthy = x.healthy /\ y.sample = x.sample
  BY <1>1 DEF DeviceFields
<1>3. Inherits(x.exec, y.exec)
  BY <1>2, HeirStill DEF Minds, Minded
<1>4. Minded(y, c, k) /\ (u.run = x.lc.run => InStep(y))
  BY <1>1, <1>2, <1>3, MindsChange
<1> QED BY <1>1, <1>4 DEF y

\* A change of the execution alone.
LEMMA ExecMinds ==
  ASSUME NEW c, NEW k, NEW x, Minds(x, c, k), NEW exec, Few(exec), Inherits(x.exec, exec)
  PROVE  LET y == [x EXCEPT !.exec = exec]
         IN  Minds(y, c, k) /\ y.exec = exec /\ \A f \in DeviceFields \ {"exec"} : y[f] = x[f]
<1> DEFINE y == [x EXCEPT !.exec = exec]
<1>1. Has(y, DeviceFields) /\ y.exec = exec /\ \A f \in DeviceFields \ {"exec"} : y[f] = x[f]
  BY DEF Minds, Minded, DeviceOK, Has, DeviceFields
<1> HIDE DEF y
<1>2. /\ y.bound = x.bound /\ y.lc = x.lc /\ y.clock = x.clock /\ y.gate = x.gate
      /\ y.sample = x.sample /\ y.out = x.out /\ y.applied = x.applied /\ y.startRev = x.startRev
      /\ y.healthy = x.healthy
  BY <1>1 DEF DeviceFields
<1>3. ExecutionsOK(exec)
  BY DEF Inherits, Heir, ExecutionsOK
<1>4. DeviceOK(y)
  BY <1>1, <1>2, <1>3 DEF DeviceOK, Minds, Minded
<1>5. Proceeds(x.lc, y.lc)
  BY <1>2 DEF Proceeds
<1>6. Minds(y, c, k)
  BY <1>1, <1>2, <1>4, <1>5, MindsChange DEF Minds
<1> QED BY <1>1, <1>6 DEF y

\* A change of what a dwell does not depend on.
LEMMA OthersMind ==
  ASSUME NEW c, NEW k, NEW x, Minded(x, c, k), NEW y, DeviceOK(y),
         y.healthy = x.healthy, y.sample = x.sample, y.exec = x.exec, y.lc = x.lc
  PROVE  Minded(y, c, k) /\ (InStep(x) => InStep(y))
  BY DEF Minded, DwellsOK, InStep

\* Without a run there is no dwell.
LEMMA RunlessMinds ==
  ASSUME NEW c, NEW k, NEW x, Minds(x, c, k), x.lc.run = {} \/ x.exec = {}, NEW j
  PROVE  Minds(x, c, j)
<1>1. x.exec = {}
  BY DEF Minds, InStep
<1> QED BY <1>1 DEF Minds, Minded, DwellsOK

\* Episodes that follow no route but the ones followed before.
Retraces(before, after) ==
  /\ \A r \in after : Has(r, RecoveryFields)
  /\ Few(before) => Few(after)
  /\ \A r \in after : r.follower # {} => \E q \in before : q.follower # {} /\ q.intercept = r.intercept

\* An execution with other episodes, followers or deadlines.
LEMMA ExecutionHeir ==
  ASSUME NEW e, Formed({e}), NEW rec, Retraces(e.rec, rec), NEW follower, NEW control
  PROVE  /\ Heir(e, [e EXCEPT !.rec = rec])
         /\ Heir(e, [e EXCEPT !.rec = rec, !.follower = follower])
         /\ Heir(e, [e EXCEPT !.follower = follower, !.rec = rec])
         /\ Heir(e, [e EXCEPT !.follower = follower, !.control = control])
<1>1. Has(e, ExecutionFields) /\ \A r \in e.rec : Has(r, RecoveryFields)
  BY DEF Formed
<1>2. ASSUME NEW f, Has(f, ExecutionFields), f.run = e.run, f.aos = e.aos, f.seen = e.seen,
             f.below = e.below, f.rec = rec \/ f.rec = e.rec
      PROVE  Heir(e, f)
  BY <1>1, <1>2 DEF Heir, Retraces
<1>3. LET f == [e EXCEPT !.rec = rec]
      IN  /\ Has(f, ExecutionFields) /\ f.run = e.run /\ f.aos = e.aos /\ f.seen = e.seen
          /\ f.below = e.below /\ f.rec = rec
  BY <1>1 DEF Has, ExecutionFields
<1>4. LET f == [e EXCEPT !.rec = rec, !.follower = follower]
      IN  /\ Has(f, ExecutionFields) /\ f.run = e.run /\ f.aos = e.aos /\ f.seen = e.seen
          /\ f.below = e.below /\ f.rec = rec
  BY <1>1 DEF Has, ExecutionFields
<1>5. LET f == [e EXCEPT !.follower = follower, !.rec = rec]
      IN  /\ Has(f, ExecutionFields) /\ f.run = e.run /\ f.aos = e.aos /\ f.seen = e.seen
          /\ f.below = e.below /\ f.rec = rec
  BY <1>1 DEF Has, ExecutionFields
<1>6. LET f == [e EXCEPT !.follower = follower, !.control = control]
      IN  /\ Has(f, ExecutionFields) /\ f.run = e.run /\ f.aos = e.aos /\ f.seen = e.seen
          /\ f.below = e.below /\ f.rec = e.rec
  BY <1>1 DEF Has, ExecutionFields
<1> QED BY <1>2, <1>3, <1>4, <1>5, <1>6

\* An heir's heir.
LEMMA HeirTwice ==
  ASSUME NEW e, NEW f, Heir(e, f), NEW g, Heir(f, g)
  PROVE  Heir(e, g)
<1>1. \A r \in g.rec : r.follower # {} => \E q \in e.rec : q.follower # {} /\ q.intercept = r.intercept
  <2> TAKE r \in g.rec
  <2> HAVE r.follower # {}
  <2>1. PICK p \in f.rec : p.follower # {} /\ p.intercept = r.intercept
    BY DEF Heir
  <2> QED BY <2>1 DEF Heir
<1> QED BY <1>1 DEF Heir

\* An execution in step with its episode (runtime.rs sync_execution).
LEMMA EpisodeSyncedHeir ==
  ASSUME NEW e, Formed({e}), NEW lc, Few(lc.recovery)
  PROVE  Heir(e, EpisodeSynced(e, lc))
<1> DEFINE over == {r \in e.rec : lc.recovery # {r.episode}}
           follower == IF lc.phase = "Following" THEN UNION {r.follower : r \in over} ELSE e.follower
           w == IF over = {} THEN e ELSE [e EXCEPT !.rec = {}, !.follower = follower]
           rec == {NewRecovery(r) : r \in lc.recovery}
           u == [w EXCEPT !.rec = rec]
<1>1. EpisodeSynced(e, lc) \in {w, u}
  BY Zenon DEF EpisodeSynced
<1>2. \A r \in rec : Has(r, RecoveryFields) /\ r.follower = {}
  BY DEF NewRecovery, Has, RecoveryFields
<1>3. Few(rec)
  BY DEF Few
<1> HIDE DEF over, follower, rec
<1>4. Heir(e, w)
  <2>1. Retraces(e.rec, {})
    BY DEF Retraces, Few
  <2>2. Heir(e, [e EXCEPT !.rec = {}, !.follower = follower])
    BY <2>1, ExecutionHeir, Zenon
  <2>3. Heir(e, e)
    BY DEF Heir, Formed
  <2> QED BY <2>2, <2>3
<1> HIDE DEF w
<1>5. Heir(w, u)
  <2>1. Formed({w})
    BY <1>4 DEF Formed, Heir
  <2>2. Retraces(w.rec, rec)
    BY <1>2, <1>3 DEF Retraces
  <2> QED BY <2>1, <2>2, ExecutionHeir, Zenon
<1> HIDE DEF u
<1> QED BY <1>1, <1>4, <1>5, HeirTwice

\* An execution that follows its run.
LEMMA SyncedMinds ==
  ASSUME NEW c, NEW k, NEW x, Minded(x, c, k)
  PROVE  Minds(Synced(x), c, k)
<1> DEFINE kept == {e \in x.exec : x.lc.run = {e.run}}
           begun == NewExecution(x.lc)
           exec == IF kept # {} THEN kept ELSE IF x.lc.run = {} THEN {} ELSE {begun}
           v == {EpisodeSynced(e, x.lc) : e \in exec}
           y == Synced(x)
<1>1. DeviceOK(y) /\ InStep(y) /\ \A f \in DeviceFields \ {"exec"} : y[f] = x[f]
  BY SyncedFacts DEF Minded, Leads
<1>2. y.exec = v
  BY DEF Synced, Minded, DeviceOK, Has, DeviceFields
<1> HIDE DEF y
<1>3. /\ y.lc = x.lc /\ y.healthy = x.healthy /\ y.sample = x.sample /\ PolicyOK(x.lc)
      /\ Few(x.lc.recovery)
  BY <1>1 DEF DeviceFields, Minded, DeviceOK, PolicyOK
<1>4. ASSUME NEW e \in exec
      PROVE  /\ Formed({e}) /\ x.lc.run = {e.run}
             /\ DwellOK(e, k) /\ (e.below # {} => x.lc.phase \notin {"Preparing", "Ready"})
             /\ Traced({e}, c)
  <2>1. CASE e \in kept
    BY <2>1 DEF Minded, DwellsOK, Formed, Traced
  <2>2. CASE e = begun /\ x.lc.run # {}
    <3>1. x.lc.run = {begun.run}
      BY <1>3, <2>2, NewExecutionFacts
    <3>2. begun.aos \in Int
      BY <1>3, <2>2, ThePlanFacts DEF NewExecution, PolicyOK
    <3>3. begun.rec = {} /\ begun.seen = {} /\ begun.below = {} /\ Has(begun, ExecutionFields)
      BY DEF NewExecution, Has, ExecutionFields
    <3> HIDE DEF begun
    <3> QED BY <2>2, <3>1, <3>2, <3>3 DEF Formed, DwellOK, Few, Traced
  <2> QED BY <2>1, <2>2
<1> HIDE DEF exec
<1>5. ASSUME NEW e \in exec
      PROVE  LET f == EpisodeSynced(e, x.lc)
             IN  /\ Formed({f}) /\ Traced({f}, c)
                 /\ DwellOK(f, k) /\ (f.below # {} => x.lc.phase \notin {"Preparing", "Ready"})
  <2> DEFINE f == EpisodeSynced(e, x.lc)
  <2>1. Heir(e, f)
    BY <1>3, <1>4, EpisodeSyncedHeir
  <2> HIDE DEF f
  <2>2. DwellOK(f, k)
    BY <1>4, <2>1, HeirFacts
  <2>3. Formed({f}) /\ Traced({f}, c) /\ f.below = e.below
    BY <1>4, <2>1 DEF Heir, Formed, Traced
  <2> QED BY <1>4, <2>2, <2>3 DEF f
<1>6. \A f \in v : /\ Formed({f}) /\ Traced({f}, c)
                   /\ DwellOK(f, k) /\ (f.below # {} => x.lc.phase \notin {"Preparing", "Ready"})
  BY <1>5, Zenon
<1> HIDE DEF v
<1>7. Formed(v) /\ Traced(v, c)
  BY <1>6 DEF Formed, Traced
<1>8. DwellsOK(y, k)
  BY <1>2, <1>3, <1>6 DEF DwellsOK
<1>9. Formed(y.exec) /\ Traced(y.exec, c)
  BY <1>2, <1>7
<1>10. Home(y.lc, c) /\ y.healthy = c.healthy /\ y.sample = c.sample
  BY <1>3 DEF Minded
<1>11. Minded(y, c, k)
  BY <1>1, <1>8, <1>9, <1>10 DEF Minded
<1> QED BY <1>1, <1>11 DEF Minds, y

\* The two ways a run is given up.
LEMMA GivenUpMinds ==
  ASSUME NEW c, NEW k, NEW x, Minds(x, c, k), NEW reason
  PROVE  /\ LET y == Synced(Interrupt(x, reason)) IN Minds(y, c, k) /\ y.lc.run = {}
         /\ Minds(Synced([Interrupt(x, reason) EXCEPT !.bound = {}]), c, k)
<1> DEFINE v == Interrupt(x, reason)
           w == [v EXCEPT !.bound = {}]
<1>1. /\ DeviceOK(v) /\ v.lc.mode = "Manual"
      /\ \A f \in DeviceFields \ {"lc"} : v[f] = x[f]
  <2>1. DeviceOK(x)
    BY DEF Minds, Minded
  <2>2. /\ Leads(x, v, 0) /\ v.lc.mode = "Manual"
        /\ \A f \in DeviceFields \ {"lc"} : v[f] = x[f]
    BY <2>1, InterruptFacts
  <2> HIDE DEF v
  <2> QED BY <2>2 DEF Leads
<1> HIDE DEF v
<1>2. v.exec = x.exec /\ v.healthy = x.healthy /\ v.sample = x.sample
  BY <1>1 DEF DeviceFields
<1>3. PolicyOK(v.lc) /\ v.lc.run = {}
  BY <1>1 DEF DeviceOK, PolicyOK, InPhase
<1>4. Inherits(x.exec, v.exec) /\ Proceeds(x.lc, v.lc)
  BY <1>2, <1>3, HeirStill, RunlessProceeds DEF Minds, Minded
<1>5. Minded(v, c, k)
  BY <1>1, <1>2, <1>4, MindsChange
<1>6. DeviceOK(w) /\ w.lc = v.lc /\ w.exec = v.exec /\ w.healthy = v.healthy /\ w.sample = v.sample
  <2>1. Leads(v, w, 0) /\ \A f \in DeviceFields \ {"bound"} : w[f] = v[f]
    BY <1>1, UnboundLeads
  <2> HIDE DEF w
  <2> QED BY <2>1 DEF Leads, DeviceFields
<1> HIDE DEF w
<1>7. Minded(w, c, k)
  BY <1>5, <1>6, OthersMind
<1>8. Minds(Synced(v), c, k) /\ Minds(Synced(w), c, k)
  BY <1>5, <1>7, SyncedMinds
<1>9. Synced(v).lc = v.lc
  BY <1>1, SyncedFacts DEF DeviceFields
<1> QED BY <1>3, <1>8, <1>9 DEF v, w

\* A preview that is dropped.
LEMMA DropMinds ==
  ASSUME NEW c, NEW k, NEW x, Minds(x, c, k), x.lc.run = {}
  PROVE  Minds([x EXCEPT !.lc = Invalidated(x.lc)], c, k)
<1> DEFINE u == Invalidated(x.lc)
<1>1. PolicyOK(u) /\ u.run = {} /\ Dated(u)
  <2>1. PolicyOK(u) /\ u.run = {}
    BY InvalidatedFacts DEF Minds, Minded, DeviceOK
  <2> HIDE DEF u
  <2>2. u.recovery = {}
    BY <2>1 DEF PolicyOK, InPhase
  <2> QED BY <2>1, <2>2 DEF Dated
<1> HIDE DEF u
<1>2. Proceeds(x.lc, u)
  BY <1>1, RunlessProceeds
<1>3. Minds([x EXCEPT !.lc = u], c, k)
  BY <1>1, <1>2, PolicyMinded DEF Minds
<1> QED BY <1>3 DEF u

\* Checked inputs (runtime.rs check_inputs).
LEMMA CheckedMinds ==
  ASSUME NEW c, NEW k, NEW x, Minds(x, c, k), NEW t
  PROVE  Minds(Checked(x, t), c, k)
<1>1. \/ \E reason : Checked(x, t) = Synced([Interrupt(x, reason) EXCEPT !.bound = {}])
      \/ Checked(x, t) = x
      \/ x.lc.run = {} /\ Checked(x, t) = [x EXCEPT !.lc = Invalidated(x.lc)]
  BY DEF Checked
<1>2. \A reason : Minds(Synced([Interrupt(x, reason) EXCEPT !.bound = {}]), c, k)
  BY GivenUpMinds, Zenon
<1>3. x.lc.run = {} => Minds([x EXCEPT !.lc = Invalidated(x.lc)], c, k)
  BY DropMinds
<1> QED BY <1>1, <1>2, <1>3, Zenon

\* A run that goes on, on its route or back to it.
GoesOnIn(lc, u) == u.run = lc.run /\ u.phase \in {lc.phase, "Reacquiring"}

\* An episode that begins (lifecycle.rs enter_reacquisition).
LEMMA EnteredGoesOn ==
  ASSUME NEW lc, Has(lc, PolicyFields), NEW cause, NEW due, NEW t
  PROVE  LET u == Entered(lc, cause, due, t) IN u.run = lc.run /\ u.phase = "Reacquiring"
<1> DEFINE next == Bumped(Numbered(lc))
           recovery == {[serial |-> next.serial, started |-> due, cause |-> cause,
                         deadline |-> Earlier(due + RecoveryLimit, PassOf(lc).los)]}
           v == [next EXCEPT !.recovery = recovery, !.phase = "Reacquiring"]
           box == Submitted(v.box, Stop)
<1>1. Entered(lc, cause, due, t) = [v EXCEPT !.box = box]
  BY DEF Entered, Inhibited
<1>2. Has(next, PolicyFields) /\ next.run = lc.run
  <2> DEFINE w == Numbered(lc)
  <2>1. Has(w, PolicyFields) /\ w.run = lc.run
    BY DEF Numbered, Has, PolicyFields
  <2>2. next = [w EXCEPT !.revision = @ + 1]
    BY DEF Bumped
  <2> HIDE DEF w, next
  <2> QED BY <2>1, <2>2 DEF Has, PolicyFields
<1> HIDE DEF next, recovery
<1>3. Has(v, PolicyFields) /\ v.run = next.run /\ v.phase = "Reacquiring"
  BY <1>2 DEF Has, PolicyFields
<1> HIDE DEF v, box
<1>4. [v EXCEPT !.box = box].run = v.run /\ [v EXCEPT !.box = box].phase = v.phase
  BY <1>3 DEF Has, PolicyFields
<1> QED BY <1>1, <1>2, <1>3, <1>4

\* A phase, a dropped plan and a noted gap.
LEMMA PhasedGoesOn ==
  ASSUME NEW lc, Has(lc, PolicyFields), NEW phase, NEW status
  PROVE  /\ LET u == [Bumped(lc) EXCEPT !.phase = phase] IN u.run = lc.run /\ u.phase = phase
         /\ LET u == [Bumped(lc) EXCEPT !.plan = {}, !.status = status]
            IN  u.run = lc.run /\ u.phase = lc.phase
         /\ LET u == [lc EXCEPT !.handled = TRUE]
            IN  Has(u, PolicyFields) /\ u.run = lc.run /\ u.phase = lc.phase
<1> DEFINE v == Bumped(lc)
<1>1. Has(v, PolicyFields) /\ v.run = lc.run /\ v.phase = lc.phase
  BY DEF Bumped, Has, PolicyFields
<1> HIDE DEF v
<1>2. LET u == [v EXCEPT !.phase = phase] IN u.run = lc.run /\ u.phase = phase
  BY <1>1 DEF Has, PolicyFields
<1>3. LET u == [v EXCEPT !.plan = {}, !.status = status] IN u.run = lc.run /\ u.phase = lc.phase
  BY <1>1 DEF Has, PolicyFields
<1>4. LET u == [lc EXCEPT !.handled = TRUE]
      IN  Has(u, PolicyFields) /\ u.run = lc.run /\ u.phase = lc.phase
  BY DEF Has, PolicyFields
<1> QED BY <1>2, <1>3, <1>4 DEF v

\* A freeze begins with a preparation or an episode (lifecycle.rs tick).
LEMMA FrozenBegins ==
  ASSUME NEW lc, Has(lc, PolicyFields), NEW t
  PROVE  Frozen(lc, t).phase \in {"Preparing", "Reacquiring"}
<1> DEFINE next == Bumped(Numbered(lc))
           run == [next EXCEPT !.run = {next.serial}, !.phase = "Preparing", !.status = "Frozen"]
           handled == [run EXCEPT !.handled = TRUE]
           due == (CHOOSE g \in LateGap(Theplan(lc)) : TRUE).recoveryAt
<1>1. Frozen(lc, t) = run \/ Frozen(lc, t) = Entered(handled, "LateAcquisition", due, t)
  BY DEF Frozen
<1>2. Has(next, PolicyFields)
  BY DEF Bumped, Numbered, Has, PolicyFields
<1> HIDE DEF next, due
<1>3. Has(run, PolicyFields) /\ run.phase = "Preparing"
  BY <1>2 DEF Has, PolicyFields
<1> HIDE DEF run
<1>4. Has(handled, PolicyFields)
  BY <1>3 DEF Has, PolicyFields
<1> HIDE DEF handled
<1> QED BY <1>1, <1>3, <1>4, EnteredGoesOn

\* What time does to a run (lifecycle.rs tick).
LEMMA RunTicks ==
  ASSUME NEW lc, PolicyOK(lc), lc.run # {}, NEW t \in Nat
  PROVE  Proceeds(lc, Concluded(GapEntered(Overtaken(lc, t), t), t))
<1> DEFINE v == Overtaken(lc, t)
           w == GapEntered(v, t)
           u == Concluded(w, t)
<1>1. PolicyOK(v) /\ ~Late(v, t) /\ v.run = lc.run
  BY OvertakenFacts
<1>2. GoesOnIn(lc, v)
  BY <1>1, EnteredGoesOn DEF Overtaken, GoesOnIn, PolicyOK
<1> HIDE DEF v
<1>3. PolicyOK(w) /\ w.run = v.run
  BY <1>1, GapEnteredFacts
<1>4. GoesOnIn(v, w)
  <2> DEFINE noted == [v EXCEPT !.handled = TRUE]
  <2>1. w = v \/ w = noted \/ \E due : w = Entered(noted, "PlannedGap", due, t)
    BY DEF GapEntered
  <2>2. Has(noted, PolicyFields) /\ noted.run = v.run /\ noted.phase = v.phase
    BY <1>1, PhasedGoesOn DEF PolicyOK
  <2> HIDE DEF noted, w
  <2>3. \A due : LET x == Entered(noted, "PlannedGap", due, t)
                 IN  x.run = noted.run /\ x.phase = "Reacquiring"
    BY <2>2, EnteredGoesOn
  <2> QED BY <2>1, <2>2, <2>3 DEF GoesOnIn
<1> HIDE DEF w
<1>5. GoesOnIn(lc, w)
  BY <1>2, <1>4 DEF GoesOnIn
<1>6. \/ u = w \/ \E reason : u = Interrupted(w, reason)
      \/ w.phase = "Ready" /\ u = [Bumped(w) EXCEPT !.phase = "Following"]
  <2> DEFINE reason1 == IF \E r \in {r \in w.recovery : t >= r.deadline} :
                             r.deadline = PassOf(w).los
                          THEN "ReacquisitionLossOfSignal" ELSE "ReacquisitionTimeout"
             reason2 == IF w.phase = "Following" THEN "LossOfSignal" ELSE "LatePreparation"
  <2>1. \/ u = w \/ u = Interrupted(w, reason1) \/ u = Interrupted(w, reason2)
        \/ w.phase = "Ready" /\ u = [Bumped(w) EXCEPT !.phase = "Following"]
    BY DEF Concluded
  <2> HIDE DEF reason1, reason2, u
  <2> QED BY <2>1
<1> HIDE DEF u
<1>7. ASSUME u = w PROVE Proceeds(lc, u)
  BY <1>5, <1>7 DEF GoesOnIn, Proceeds
<1>8. ASSUME \E reason : u = Interrupted(w, reason) PROVE Proceeds(lc, u)
  BY <1>3, <1>8, InterruptedFacts, RunlessProceeds DEF Ended
<1>9. ASSUME w.phase = "Ready" /\ u = [Bumped(w) EXCEPT !.phase = "Following"] PROVE Proceeds(lc, u)
  <2>1. u.run = w.run /\ u.phase = "Following"
    BY <1>3, <1>9, PhasedGoesOn DEF PolicyOK
  <2> QED BY <1>5, <1>9, <2>1 DEF GoesOnIn, Proceeds
<1>10. Proceeds(lc, u)
  BY <1>6, <1>7, <1>8, <1>9
<1> QED BY <1>10 DEF u, w, v

\* Whatever time does to a policy (lifecycle.rs tick).
LEMMA TickedProceeds ==
  ASSUME NEW lc, PolicyOK(lc), NEW t \in Nat
  PROVE  Proceeds(lc, Ticked(lc, t))
<1> DEFINE u == Ticked(lc, t)
<1>1. \/ u = lc \/ u = Interrupted(lc, "LatePreparation")
      \/ lc.run # {} /\ u = Concluded(GapEntered(Overtaken(lc, t), t), t)
      \/ lc.run = {} /\ u = Waiting(lc, t)
  BY DEF Ticked
<1> HIDE DEF u
<1>2. ASSUME u = lc PROVE Proceeds(lc, u)
  BY <1>2 DEF Proceeds
<1>3. ASSUME u = Interrupted(lc, "LatePreparation") PROVE Proceeds(lc, u)
  BY <1>3, InterruptedFacts, RunlessProceeds DEF Ended
<1>4. ASSUME lc.run # {} /\ u = Concluded(GapEntered(Overtaken(lc, t), t), t) PROVE Proceeds(lc, u)
  BY <1>4, RunTicks
<1>5. ASSUME lc.run = {} /\ u = Waiting(lc, t) PROVE Proceeds(lc, u)
  <2>1. \/ u = lc \/ u = Frozen(lc, t)
        \/ \E status : u = [Bumped(lc) EXCEPT !.plan = {}, !.status = status]
    BY <1>5, Zenon DEF Waiting
  <2>2. Frozen(lc, t).phase \in {"Preparing", "Reacquiring"}
    BY FrozenBegins DEF PolicyOK
  <2>3. ASSUME NEW status, u = [Bumped(lc) EXCEPT !.plan = {}, !.status = status]
        PROVE  u.phase = lc.phase
    BY <2>3, PhasedGoesOn DEF PolicyOK
  <2> QED BY <1>5, <2>1, <2>2, <2>3 DEF Proceeds
<1>6. Proceeds(lc, u)
  BY <1>1, <1>2, <1>3, <1>4, <1>5
<1> QED BY <1>6 DEF u

\* A change of both.
LEMMA BothMind ==
  ASSUME NEW c, NEW k, NEW x, Minds(x, c, k), NEW exec, Few(exec), Inherits(x.exec, exec),
         NEW u, PolicyOK(u), Dated(u), Proceeds(x.lc, u) \/ Returns(x.lc, u, c)
  PROVE  LET y == [x EXCEPT !.exec = exec, !.lc = u]
         IN  /\ Minded(y, c, k) /\ (u.run = x.lc.run => InStep(y))
             /\ y.lc = u /\ y.exec = exec
             /\ \A f \in DeviceFields \ {"exec", "lc"} : y[f] = x[f]
<1> DEFINE z == [x EXCEPT !.exec = exec]
           y == [z EXCEPT !.lc = u]
<1>1. Minds(z, c, k) /\ z.exec = exec /\ \A f \in DeviceFields \ {"exec"} : z[f] = x[f]
  BY ExecMinds
<1>2. [x EXCEPT !.exec = exec, !.lc = u] = y
  OBVIOUS
<1> HIDE DEF z
<1>3. z.lc = x.lc
  BY <1>1 DEF DeviceFields
<1>4. /\ Minded(y, c, k) /\ (u.run = z.lc.run => InStep(y)) /\ y.lc = u
      /\ \A f \in DeviceFields \ {"lc"} : y[f] = z[f]
  <2>1. Proceeds(z.lc, u) \/ Returns(z.lc, u, c)
    BY <1>3
  <2> QED BY <1>1, <2>1, PolicyMinded
<1> HIDE DEF y
<1>5. y.exec = exec /\ \A f \in DeviceFields \ {"exec", "lc"} : y[f] = x[f]
  BY <1>1, <1>4 DEF DeviceFields
<1> QED BY <1>2, <1>3, <1>4, <1>5

\* A tick of the policy.
LEMMA TickMinds ==
  ASSUME NEW c, NEW k, NEW x, Minds(x, c, k), NEW t \in Nat
  PROVE  Minds(Tick(x, t), c, k) /\ Quiet(Tick(x, t).lc, t)
<1> DEFINE u == Ticked(x.lc, t)
           y == [x EXCEPT !.lc = u]
<1>1. PolicyOK(x.lc)
  BY DEF Minds, Minded, DeviceOK
<1>2. PolicyOK(u) /\ Dated(u) /\ Quiet(u, t) /\ Proceeds(x.lc, u)
  BY <1>1, TickedFacts, TickedProceeds, DatedFacts
<1>3. Tick(x, t) = Synced(y)
  BY DEF Tick
<1> HIDE DEF u
<1>4. Minded(y, c, k) /\ y.lc = u
  BY <1>2, PolicyMinded
<1> HIDE DEF y
<1>5. Minds(Synced(y), c, k)
  BY <1>4, SyncedMinds
<1>6. Synced(y).lc = u
  BY <1>4, SyncedFacts DEF DeviceFields, Minded
<1> QED BY <1>2, <1>3, <1>5, <1>6

\* Without a run left the inputs and the time do not matter.
LEMMA EndedMinds ==
  ASSUME NEW c, NEW k, NEW x, Minded(x, c, k), Ended(x.lc), NEW t \in Nat
  PROVE  Minds(Tick(Checked(x, t), t), c, k) /\ Quiet(Tick(Checked(x, t), t).lc, t)
<1>1. DeviceOK(x) /\ PolicyOK(x.lc)
  BY DEF Minded, DeviceOK
<1>2. Checked(x, t) = x
  BY DEF Checked, Ended
<1>3. Ticked(x.lc, t) = x.lc /\ Quiet(x.lc, t)
  BY <1>1 DEF Ticked, Ended, PolicyOK, InPhase, Quiet
<1>4. Tick(x, t) = Synced(x)
  BY <1>1, <1>3, LcUnchanged DEF Tick
<1>5. Synced(x).lc = x.lc
  BY <1>1, SyncedFacts DEF DeviceFields
<1> QED BY <1>2, <1>3, <1>4, <1>5, SyncedMinds

\* A run's own deadlines (runtime.rs service).
LEMMA DeadlinesKeptMinds ==
  ASSUME NEW c, NEW k, NEW x, Minds(x, c, k), NEW t
  PROVE  Minds(DeadlinesKept(x, t), c, k)
<1>1. \/ DeadlinesKept(x, t) = x
      \/ \E reason : DeadlinesKept(x, t) = Synced(Interrupt(x, reason))
  BY DEF DeadlinesKept
<1>2. \A reason : Minds(Synced(Interrupt(x, reason)), c, k)
  BY GivenUpMinds, Zenon
<1> QED BY <1>1, <1>2

\* Executions that give up their launches.
LEMMA HeldInherits ==
  ASSUME NEW exec, Formed(exec), Few(exec), NEW t
  PROVE  Few(HeldBack(exec, t)) /\ Inherits(exec, HeldBack(exec, t))
<1> DEFINE rec(e) == {Held(r, t) : r \in e.rec}
           after == {[e EXCEPT !.rec = rec(e)] : e \in exec}
<1>1. ASSUME NEW e \in exec PROVE Heir(e, [e EXCEPT !.rec = rec(e)])
  <2> DEFINE recs == rec(e)
  <2>1. \A r \in e.rec : Has(r, RecoveryFields)
    BY DEF Formed
  <2>2. \A r \in e.rec : Has(Held(r, t), RecoveryFields)
    BY <2>1, RecoveryFormed
  <2>3. \A r \in e.rec : Held(r, t).follower = {}
    BY <2>1 DEF Held, Has, RecoveryFields
  <2>4. Retraces(e.rec, recs)
    BY <2>2, <2>3 DEF Retraces, Few
  <2>5. Formed({e})
    BY OneFormed
  <2> HIDE DEF recs, rec
  <2>6. Heir(e, [e EXCEPT !.rec = recs])
    BY <2>4, <2>5, ExecutionHeir, Zenon
  <2> QED BY <2>6 DEF recs
<1>2. after = HeldBack(exec, t)
  BY DEF HeldBack
<1>3. Inherits(exec, after)
  BY <1>1 DEF Inherits
<1>4. Few(after)
  BY DEF Few
<1> HIDE DEF after
<1> QED BY <1>2, <1>3, <1>4

\* An episode's own deadlines (runtime.rs check_recovery_schedule).
LEMMA ScheduleCheckedMinds ==
  ASSUME NEW c, NEW k, NEW x, Minds(x, c, k), NEW t \in Nat, Quiet(x.lc, t)
  PROVE  Minds(ScheduleChecked(x, t), c, k)
<1> DEFINE missed == {r \in UNION {e.rec : e \in x.exec} : Missed(r, t)}
           exec == {[e EXCEPT !.rec = {Held(r, t) : r \in @}] : e \in x.exec}
           u == RecoveryCommanded(x.lc, The(missed).episode, Stop, t)
<1>0. DeviceOK(x) /\ PolicyOK(x.lc) /\ Dated(x.lc) /\ Formed(x.exec) /\ Few(x.exec)
  BY DEF Minds, Minded, DeviceOK, ExecutionsOK
<1>1. ScheduleChecked(x, t) = x \/ ScheduleChecked(x, t) = [x EXCEPT !.exec = exec, !.lc = u]
  BY <1>0, QuietTicks DEF ScheduleChecked
<1>2. Few(exec) /\ Inherits(x.exec, exec)
  <2>1. exec = HeldBack(x.exec, t)
    BY DEF HeldBack
  <2> HIDE DEF exec
  <2> QED BY <1>0, <2>1, HeldInherits
<1> HIDE DEF missed, exec
<1>3. PolicyOK(u) /\ Resembles(x.lc, u)
  BY <1>0, RecoveryCommandedFacts, StopIsOK
<1> HIDE DEF u
<1>4. Dated(u) /\ Proceeds(x.lc, u) /\ u.run = x.lc.run
  BY <1>0, <1>3, ResemblesProceeds DEF Dated, Resembles, CoreFields
<1>5. Minds([x EXCEPT !.exec = exec, !.lc = u], c, k)
  BY <1>2, <1>3, <1>4, BothMind, Zenon DEF Minds
<1> QED BY <1>1, <1>5

\* A policy with the same core.
LEMMA ResembledMinds ==
  ASSUME NEW c, NEW k, NEW x, Minds(x, c, k), NEW u, PolicyOK(u), Resembles(x.lc, u)
  PROVE  Minds([x EXCEPT !.lc = u], c, k)
<1>1. Dated(u)
  BY DEF Minds, Minded, DeviceOK, Dated, Resembles, CoreFields
<1> QED BY <1>1, ResemblesProceeds, PolicyMinded DEF Minds

\* A service (runtime.rs service).
LEMMA ServicedMinds ==
  ASSUME NEW c, NEW k, NEW x, Minds(x, c, k) \/ (Minded(x, c, k) /\ Ended(x.lc)), NEW t \in Nat
  PROVE  Minds(Serviced(x, t), c, k) /\ Quiet(Serviced(x, t).lc, t)
<1> DEFINE b == Tick(Checked(x, t), t)
           w == DeadlinesKept(b, t)
           v == ScheduleChecked(w, t)
           y == Unbound(v)
<1>1. Serviced(x, t) = y
  BY DEF Serviced
<1>2. Minds(b, c, k) /\ Quiet(b.lc, t)
  <2>1. CASE Minds(x, c, k)
    BY <2>1, CheckedMinds, TickMinds
  <2>2. CASE Minded(x, c, k) /\ Ended(x.lc)
    BY <2>2, EndedMinds
  <2> QED BY <2>1, <2>2
<1> HIDE DEF b
<1>3. Minds(w, c, k) /\ Quiet(w.lc, t)
  BY <1>2, DeadlinesKeptMinds, DeadlinesKeptFacts DEF Minds, Minded
<1> HIDE DEF w
<1>4. Minds(v, c, k) /\ Quiet(v.lc, t)
  BY <1>3, ScheduleCheckedMinds, ScheduleCheckedFacts DEF Minds, Minded
<1> HIDE DEF v
<1>5. Minds(y, c, k) /\ y.lc = v.lc
  <2>1. CASE v.lc.mode = "Manual"
    <3> DEFINE z == [v EXCEPT !.bound = {}]
    <3>1. y = z
      BY <2>1 DEF Unbound
    <3>2. Leads(v, z, t) /\ \A f \in DeviceFields \ {"bound"} : z[f] = v[f]
      BY <1>4, <2>1, UnboundLeads DEF Minds, Minded
    <3> HIDE DEF z
    <3>3. /\ DeviceOK(z) /\ z.healthy = v.healthy /\ z.sample = v.sample
          /\ z.exec = v.exec /\ z.lc = v.lc
      BY <3>2 DEF Leads, DeviceFields
    <3> QED BY <1>4, <3>1, <3>3, OthersMind DEF Minds
  <2>2. CASE v.lc.mode # "Manual"
    BY <1>4, <2>2 DEF Unbound
  <2> QED BY <2>1, <2>2
<1> QED BY <1>1, <1>4, <1>5

\* An operator who comes or goes (lifecycle.rs claim and release).
LEMMA GrantMinds ==
  ASSUME NEW c, NEW k, NEW x, Minds(x, c, k), NEW token
  PROVE  Minds([x EXCEPT !.lc = Claimed(@, token)], c, k) /\ Minds([x EXCEPT !.lc = Unowned(@)], c, k)
<1> DEFINE v == Claimed(x.lc, token)
           u == Unowned(x.lc)
<1>1. PolicyOK(v) /\ Resembles(x.lc, v) /\ PolicyOK(u) /\ Resembles(x.lc, u)
  BY ClaimedFacts DEF Minds, Minded, DeviceOK
<1> HIDE DEF v, u
<1>2. Minds([x EXCEPT !.lc = v], c, k) /\ Minds([x EXCEPT !.lc = u], c, k)
  BY <1>1, ResembledMinds
<1> QED BY <1>2 DEF v, u

\* A lost network (coordination.rs revoke_network_motion).
LEMMA NetworkRevokedMinds ==
  ASSUME NEW c, NEW k, NEW x, Minds(x, c, k), NEW t \in Nat
  PROVE  Minds(NetworkRevoked(x, t), c, k)
<1> DEFINE w == Serviced(x, t)
           v == [w EXCEPT !.lc = Unowned(@)]
<1>1. NetworkRevoked(x, t) = Serviced(x, t) \/ NetworkRevoked(x, t) = Serviced(v, t)
  BY DEF NetworkRevoked
<1>2. Minds(w, c, k)
  BY ServicedMinds
<1> HIDE DEF w
<1>3. Minds(v, c, k)
  BY <1>2, GrantMinds
<1> HIDE DEF v
<1> QED BY <1>1, <1>3, ServicedMinds

\* Another gate.
LEMMA GateMinds ==
  ASSUME NEW c, NEW k, NEW x, Minds(x, c, k), NEW gate, GateOK(gate)
  PROVE  Minds([x EXCEPT !.gate = gate], c, k)
<1> DEFINE y == [x EXCEPT !.gate = gate]
<1>1. DeviceOK(y) /\ \A f \in DeviceFields \ {"gate"} : y[f] = x[f]
  BY GateChanged DEF Minds, Minded
<1> HIDE DEF y
<1>2. y.healthy = x.healthy /\ y.sample = x.sample /\ y.exec = x.exec /\ y.lc = x.lc
  BY <1>1 DEF DeviceFields
<1>3. Minds(y, c, k)
  BY <1>1, <1>2, OthersMind DEF Minds
<1> QED BY <1>3 DEF y

\* What is found lapsed before an operation (coordination.rs advance).
LEMMA AdvancedMinds ==
  ASSUME NEW c, NEW k, NEW x, Minds(x, c, k), NEW t \in Nat
  PROVE  Minds(Advanced(x, t), c, k)
<1>1. CASE ~Lapsed(x.gate, t)
  BY <1>1 DEF Advanced
<1>2. CASE Lapsed(x.gate, t)
  <2> DEFINE gate == Expire(x.gate, t)
             g == [x EXCEPT !.gate = gate]
  <2>1. Advanced(x, t) = NetworkRevoked(g, t)
    BY <1>2 DEF Advanced
  <2>2. GateOK(gate)
    BY <1>2 DEF Expire, Minds, Minded, DeviceOK, GateOK
  <2> HIDE DEF gate
  <2>3. Minds(g, c, k)
    BY <2>2, GateMinds
  <2> HIDE DEF g
  <2> QED BY <2>1, <2>3, NetworkRevokedMinds
<1> QED BY <1>1, <1>2

\* A network that is reported on (coordination.rs publish_network).
LEMMA NetworkPublishedMinds ==
  ASSUME NEW c, NEW k, NEW x, Minds(x, c, k), NEW ready, NEW t \in Nat
  PROVE  Minds(NetworkPublished(x, ready, t), c, k)
<1> DEFINE gate == Observe(x.gate, ready, t)
           g == [x EXCEPT !.gate = gate]
<1>1. NetworkPublished(x, ready, t) = g \/ NetworkPublished(x, ready, t) = NetworkRevoked(g, t)
  BY DEF NetworkPublished
<1>2. GateOK(gate)
  <2>1. GateOK(x.gate)
    BY DEF Minds, Minded, DeviceOK, GateOK
  <2> QED BY <2>1 DEF Observe, Expire, GateOK
<1> HIDE DEF gate
<1>3. Minds(g, c, k)
  BY <1>2, GateMinds
<1> HIDE DEF g
<1> QED BY <1>1, <1>3, NetworkRevokedMinds

\* A device that differs in what no dwell depends on.
LEMMA KeptMinds ==
  ASSUME NEW c, NEW k, NEW x, Minds(x, c, k), NEW y, DeviceOK(y),
         \A f \in {"healthy", "sample", "exec", "lc"} : y[f] = x[f]
  PROVE  Minds(y, c, k)
  BY OthersMind DEF Minds

\* A start that has changed (runtime.rs invalidate_start).
LEMMA StartChangedMinds ==
  ASSUME NEW c, NEW k, NEW x, Minds(x, c, k)
  PROVE  Minds(StartChanged(x), c, k)
<1> DEFINE n == x.startRev + 1
           noted == [x EXCEPT !.startRev = n]
           y == [noted EXCEPT !.lc = Invalidated(noted.lc)]
<1>1. StartChanged(x) = noted \/ (noted.lc.run = {} /\ StartChanged(x) = y)
  BY DEF StartChanged, Minds, Minded, DeviceOK, Has, DeviceFields
<1>2. n \in Nat
  BY DEF Minds, Minded, DeviceOK
<1> HIDE DEF n
<1>3. /\ Has(noted, DeviceFields) /\ noted.startRev = n
      /\ \A f \in DeviceFields \ {"startRev"} : noted[f] = x[f]
  BY DEF Minds, Minded, DeviceOK, Has, DeviceFields
<1> HIDE DEF noted
<1>4. DeviceOK(noted)
  BY <1>2, <1>3 DEF DeviceOK, DeviceFields, Minds, Minded
<1>5. Minds(noted, c, k)
  BY <1>3, <1>4, KeptMinds DEF DeviceFields
<1>6. noted.lc.run = {} => Minds(y, c, k)
  BY <1>5, DropMinds
<1> HIDE DEF y
<1> QED BY <1>1, <1>5, <1>6

\* A newly identified start (coordination.rs record_actuator).
LEMMA IdentifiedMinds ==
  ASSUME NEW c, NEW k, NEW x, Minds(x, c, k), NEW identity
  PROVE  Minds(Identified(x, identity), c, k)
<1> DEFINE noted == [x EXCEPT !.identity = identity]
<1>1. Identified(x, identity) \in {x, StartChanged(noted)}
  BY DEF Identified
<1>2. /\ Has(noted, DeviceFields)
      /\ \A f \in DeviceFields \ {"identity"} : noted[f] = x[f]
  BY DEF Minds, Minded, DeviceOK, Has, DeviceFields
<1> HIDE DEF noted
<1>3. DeviceOK(noted)
  BY <1>2 DEF DeviceOK, DeviceFields, Minds, Minded
<1>4. Minds(noted, c, k)
  BY <1>2, <1>3, KeptMinds DEF DeviceFields
<1> QED BY <1>1, <1>4, StartChangedMinds

\* Episodes whose output was observed follow the routes they followed.
LEMMA SeenRetraces ==
  ASSUME NEW e, Formed({e}), NEW active, NEW t
  PROVE  Retraces(e.rec, SeenBy(e.rec, active, t))
<1> DEFINE seen(r) == [r EXCEPT !.follower = OutputSeen(@, active, t)]
           rec == {seen(r) : r \in e.rec}
<1>1. ASSUME NEW r \in e.rec
      PROVE  /\ Has(seen(r), RecoveryFields) /\ seen(r).intercept = r.intercept
             /\ seen(r).follower # {} => r.follower # {}
  <2> DEFINE f == OutputSeen(r.follower, active, t)
             u == [r EXCEPT !.follower = f]
  <2>1. Has(r, RecoveryFields)
    BY DEF Formed
  <2>2. seen(r) = u
    OBVIOUS
  <2>3. f # {} => r.follower # {}
    BY DEF OutputSeen
  <2> HIDE DEF f, seen
  <2>4. Has(u, RecoveryFields) /\ u.intercept = r.intercept /\ u.follower = f
    BY <2>1 DEF Has, RecoveryFields
  <2> QED BY <2>2, <2>3, <2>4
<1>2. SeenBy(e.rec, active, t) = rec
  BY DEF SeenBy
<1>3. Few(e.rec) => Few(rec)
  BY DEF Few
<1> HIDE DEF seen
<1>4. \A r \in rec : Has(r, RecoveryFields)
  BY <1>1
<1>5. \A r \in rec : r.follower # {} => \E q \in e.rec : q.follower # {} /\ q.intercept = r.intercept
  BY <1>1
<1> HIDE DEF rec
<1> QED BY <1>2, <1>3, <1>4, <1>5 DEF Retraces

\* An observed output (runtime.rs observe_output).
LEMMA OutputObservedMinds ==
  ASSUME NEW c, NEW k, NEW x, Minds(x, c, k), NEW t
  PROVE  Minds(OutputObserved(x, t), c, k)
<1> DEFINE seen(followers) == OutputSeen(followers, Moving(x.out), t)
           next(e) == [e EXCEPT !.follower = seen(@), !.rec = {[r EXCEPT !.follower = seen(@)] : r \in @}]
           exec == {next(e) : e \in x.exec}
<1>1. OutputObserved(x, t) = [x EXCEPT !.exec = exec]
  BY DEF OutputObserved
<1>2. ASSUME NEW e \in x.exec PROVE Heir(e, next(e))
  <2> DEFINE follower == seen(e.follower)
             recs == {[r EXCEPT !.follower = seen(@)] : r \in e.rec}
             f == [e EXCEPT !.follower = follower, !.rec = recs]
  <2>1. next(e) = f
    OBVIOUS
  <2>2. Formed({e})
    BY OneFormed DEF Minds, Minded
  <2>3. recs = SeenBy(e.rec, Moving(x.out), t)
    BY DEF SeenBy
  <2> HIDE DEF follower, recs, next
  <2>4. Retraces(e.rec, recs)
    BY <2>2, <2>3, SeenRetraces
  <2>5. Heir(e, f)
    BY <2>2, <2>4, ExecutionHeir, Zenon
  <2> QED BY <2>1, <2>5
<1>3. Few(exec)
  BY DEF Few, Minds, Minded, DeviceOK, ExecutionsOK
<1> HIDE DEF next
<1>4. Inherits(x.exec, exec)
  BY <1>2 DEF Inherits
<1> HIDE DEF exec
<1> QED BY <1>1, <1>3, <1>4, ExecMinds

\* A recorded output (coordination.rs record_actuator).
LEMMA RecordedMinds ==
  ASSUME NEW c, NEW k, NEW x, Minds(x, c, k), NEW t \in Nat, Quiet(x.lc, t),
         NEW out, OutputOK(out, t)
  PROVE  Minds(Recorded(x, out, t), c, k)
<1> DEFINE w == [x EXCEPT !.out = out, !.applied = t]
           next == OutputObserved(w, t)
           identity == Identity(next, t)
<1>1. Recorded(x, out, t) = Identified(next, identity)
  BY DEF Recorded
<1>2. DeviceOK(w)
  BY OutputLeads, Zenon DEF Leads, Minds, Minded
<1>3. \A f \in DeviceFields \ {"out", "applied"} : w[f] = x[f]
  BY Zenon DEF Minds, Minded, DeviceOK, Has, DeviceFields
<1> HIDE DEF w
<1>4. Minds(w, c, k)
  BY <1>2, <1>3, KeptMinds DEF DeviceFields
<1>5. Minds(next, c, k)
  BY <1>4, OutputObservedMinds
<1> HIDE DEF next, identity
<1> QED BY <1>1, <1>5, IdentifiedMinds

\* A released episode follows the route that it followed.
LEMMA ReleasedInherits ==
  ASSUME NEW exec, Formed(exec), Few(exec)
  PROVE  Few(Released(exec)) /\ Inherits(exec, Released(exec))
<1> DEFINE free(r) == [r EXCEPT !.pending = FALSE]
           rec(e) == {free(r) : r \in e.rec}
           next(e) == [e EXCEPT !.rec = rec(e)]
           after == {next(e) : e \in exec}
<1>1. Released(exec) = after
  BY DEF Released
<1>2. ASSUME NEW e \in exec PROVE Heir(e, next(e))
  <2> DEFINE recs == rec(e)
             f == [e EXCEPT !.rec = recs]
  <2>1. next(e) = f
    OBVIOUS
  <2>2. Formed({e})
    BY OneFormed
  <2>3. ASSUME NEW r \in e.rec
        PROVE  /\ Has(free(r), RecoveryFields) /\ free(r).intercept = r.intercept
               /\ free(r).follower = r.follower
    <3>1. Has(r, RecoveryFields)
      BY <2>3 DEF Formed
    <3> QED BY <3>1 DEF Has, RecoveryFields
  <2>4. Few(e.rec) => Few(recs)
    BY DEF Few
  <2>5. recs = {free(r) : r \in e.rec}
    OBVIOUS
  <2> HIDE DEF free, recs, next, rec
  <2>6. Retraces(e.rec, recs)
    BY <2>3, <2>4, <2>5 DEF Retraces
  <2>7. Heir(e, f)
    BY <2>2, <2>6, ExecutionHeir, Zenon
  <2> QED BY <2>1, <2>7
<1>3. Few(after)
  BY DEF Few
<1> HIDE DEF next
<1>4. Inherits(exec, after)
  BY <1>2 DEF Inherits
<1> HIDE DEF after
<1> QED BY <1>1, <1>3, <1>4

\* A drained command (runtime.rs take_command).
LEMMA CommandTakenMinds ==
  ASSUME NEW c, NEW k, NEW x, Minds(x, c, k), NEW t \in Nat, Quiet(x.lc, t)
  PROVE  Minds(CommandTaken(x, t), c, k)
<1> DEFINE exec == Released(x.exec)
           u == [x.lc EXCEPT !.box = {}]
<1>1. DeviceOK(x) /\ PolicyOK(x.lc) /\ Dated(x.lc) /\ Formed(x.exec) /\ Few(x.exec)
  BY DEF Minds, Minded, DeviceOK, ExecutionsOK
<1>2. CommandTaken(x, t) = [x EXCEPT !.exec = exec, !.lc = u]
  BY <1>1, QuietTicks DEF CommandTaken, Released
<1>3. PolicyOK(u) /\ Resembles(x.lc, u)
  BY <1>1, EmptiedFacts
<1> HIDE DEF u
<1>4. Dated(u) /\ Proceeds(x.lc, u) /\ u.run = x.lc.run
  BY <1>1, <1>3, ResemblesProceeds DEF Dated, Resembles, CoreFields
<1>5. Few(exec) /\ Inherits(x.exec, exec)
  BY <1>1, ReleasedInherits
<1> HIDE DEF exec
<1>6. Minds([x EXCEPT !.exec = exec, !.lc = u], c, k)
  BY <1>3, <1>4, <1>5, BothMind, Zenon DEF Minds
<1> QED BY <1>2, <1>6

\* A service of the output (coordination.rs service_actuator).
LEMMA OutputServicedMinds ==
  ASSUME NEW c, NEW k, NEW x, Minds(x, c, k), NEW t \in Nat, Quiet(x.lc, t), x.applied <= t,
         NEW faulty
  PROVE  Minds(OutputServiced(x, faulty, t), c, k)
<1> DEFINE v == CommandTaken(x, t)
           envelopes == Drained(x, t)
           out == OutputStep(v, envelopes, faulty, t)
<1>1. OutputServiced(x, faulty, t) = Recorded(v, out, t)
  BY DEF OutputServiced, Applying
<1>2. Leads(x, v, t) /\ Quiet(v.lc, t) /\ DrainOK(envelopes)
  BY CommandTakenFacts DEF Minds, Minded
<1>3. Minds(v, c, k)
  BY CommandTakenMinds
<1> HIDE DEF v, envelopes
<1>4. OutputOK(out, t)
  BY <1>2, OutputStepFacts DEF Leads
<1> HIDE DEF out
<1>5. Minds(Recorded(v, out, t), c, k)
  BY <1>2, <1>3, <1>4, RecordedMinds
<1> QED BY <1>1, <1>5

\* An execution that has observed something.
LEMMA ObservedExecMinds ==
  ASSUME NEW c, NEW k, NEW x, Minds(x, c, k), NEW e, x.exec = {e},
         NEW f, Has(f, ExecutionFields), f.run = e.run, Retraces(e.rec, f.rec),
         NEW j, DwellOK(f, j), f.below # {} => x.lc.phase \notin {"Preparing", "Ready"}
  PROVE  LET y == [x EXCEPT !.exec = {f}]
         IN  Minds(y, c, j) /\ y.exec = {f} /\ \A g \in DeviceFields \ {"exec"} : y[g] = x[g]
<1> DEFINE exec == {f}
           y == [x EXCEPT !.exec = exec]
<1>1. Has(y, DeviceFields) /\ y.exec = exec /\ \A g \in DeviceFields \ {"exec"} : y[g] = x[g]
  BY DEF Minds, Minded, DeviceOK, Has, DeviceFields
<1>2. ExecutionsOK(exec) /\ Formed(exec) /\ Traced(exec, c)
  BY DEF ExecutionsOK, Few, Formed, Retraces, Traced, Minds, Minded
<1> HIDE DEF y
<1>3. /\ y.bound = x.bound /\ y.lc = x.lc /\ y.clock = x.clock /\ y.gate = x.gate
      /\ y.sample = x.sample /\ y.out = x.out /\ y.applied = x.applied /\ y.startRev = x.startRev
      /\ y.healthy = x.healthy
  BY <1>1 DEF DeviceFields
<1>4. DeviceOK(y)
  BY <1>1, <1>2, <1>3 DEF DeviceOK, Minds, Minded
<1>5. DwellsOK(y, j) /\ InStep(y)
  BY <1>1, <1>3 DEF DwellsOK, InStep, Minds
<1>6. Minds(y, c, j)
  BY <1>1, <1>2, <1>3, <1>4, <1>5 DEF Minds, Minded
<1> QED BY <1>1, <1>6 DEF y

\* A deviation, or its end (runtime.rs observe_tracking): an episode ends only
\* on a dish that has proved to be back.
LEMMA DeviationActedMinds ==
  ASSUME NEW c, NEW k, NEW j, Apt(c, j), k = c.streak,
         NEW x, Minds(x, c, k), NEW e, x.exec = {e}, x.lc.run = {e.run},
         NEW s, x.sample = {s}, e.seen = {s}, e.current = {s.at},
         NEW t \in Nat, Quiet(x.lc, t)
  PROVE  Minded(DeviationActed(x, e, s, t), c, k)
<1> DEFINE begun == Begun(x.lc, {e.run}, t)
           rejoined == Rejoined(x.lc, The(e.rec).episode)
           rejoins == \E r \in e.rec : Dwelt(e, e.below, RecoveryDwell) /\ HasRejoined(r, s.at)
<1>1. DeviceOK(x) /\ PolicyOK(x.lc) /\ Dated(x.lc) /\ Has(x, DeviceFields)
  BY DEF Minds, Minded, DeviceOK
<1>2. [x EXCEPT !.exec = {e}] = x
  BY <1>1 DEF Has, DeviceFields
<1>3. \/ DeviationActed(x, e, s, t) = x
      \/ DeviationActed(x, e, s, t) = [x EXCEPT !.lc = begun]
      \/ rejoins /\ DeviationActed(x, e, s, t) = [x EXCEPT !.lc = rejoined]
  BY <1>1, <1>2, QuietTicks DEF DeviationActed
<1>4. PolicyOK(begun) /\ Dated(begun) /\ Proceeds(x.lc, begun)
  <2>1. begun = x.lc \/ (PolicyOK(begun) /\ Quiet(begun, t))
    BY <1>1, BegunFacts
  <2>2. begun = x.lc \/ begun = Entered(x.lc, "Deviation", t, t)
    BY DEF Begun
  <2>3. begun = x.lc \/ (begun.run = x.lc.run /\ begun.phase = "Reacquiring")
    BY <1>1, <2>2, EnteredGoesOn DEF PolicyOK
  <2> HIDE DEF begun
  <2>4. PolicyOK(begun) /\ Dated(begun)
    BY <1>1, <2>1, DatedFacts
  <2> QED BY <2>3, <2>4 DEF Proceeds
<1>5. PolicyOK(rejoined) /\ Dated(rejoined)
      /\ (rejoined = x.lc \/ (rejoined.run = x.lc.run /\ rejoined.phase = "Following"))
  <2>1. rejoined = x.lc \/ /\ PolicyOK(rejoined) /\ SameRun(x.lc, rejoined) /\ Quiet(rejoined, t)
                           /\ rejoined.phase = "Following"
    BY <1>1, RejoinedFacts
  <2> HIDE DEF rejoined
  <2> QED BY <1>1, <2>1, DatedFacts DEF SameRun
<1>6. ASSUME rejoins PROVE c.over
  <2>1. PICK r \in e.rec : Dwelt(e, e.below, RecoveryDwell) /\ HasRejoined(r, s.at)
    BY <1>6
  <2>2. DwellOK(e, k)
    BY DEF Minds, Minded, DwellsOK
  <2>3. PICK b \in e.below : s.at - b >= RecoveryDwell
    BY <2>1 DEF Dwelt
  <2>4. PICK u \in k : u <= b
    BY <2>2, <2>3 DEF DwellOK
  <2>5. s.at \in Int /\ b \in Int /\ u \in Int
    BY <2>2, <2>3, <2>4 DEF DwellOK, Apt
  <2>6. s.at >= u + RecoveryDwell
    BY <2>3, <2>4, <2>5, RecoveryTimesAreNat
  <2>7. r.intercept \in c.routes /\ \E i \in r.intercept : s.at >= i.join + RecoveryDwell
    BY <2>1 DEF HasRejoined, Traced, Minds, Minded
  <2>8. \A I \in c.routes : \E i \in I : s.at >= i.join + RecoveryDwell
    BY <2>7 DEF Apt, Few
  <2>9. c.sample = {s}
    BY DEF Minds, Minded
  <2> QED BY <2>4, <2>6, <2>8, <2>9 DEF Apt, Proved
<1> HIDE DEF begun, rejoined, rejoins
<1>7. Minded([x EXCEPT !.lc = begun], c, k)
  BY <1>4, PolicyMinded
<1>8. rejoins => Minded([x EXCEPT !.lc = rejoined], c, k)
  <2>1. rejoins => Proceeds(x.lc, rejoined) \/ Returns(x.lc, rejoined, c)
    BY <1>5, <1>6 DEF Proceeds, Returns
  <2> QED BY <1>5, <2>1, PolicyMinded
<1> QED BY <1>3, <1>7, <1>8 DEF Minds

\* An observed sample (runtime.rs observe_tracking).
LEMMA WatchedMinds ==
  ASSUME NEW c, NEW k, Apt(c, k), NEW x, Minds(x, c, k), NEW e, x.exec = {e},
         NEW t \in Nat, Quiet(x.lc, t)
  PROVE  Minds(Watched(x, e, t), c, c.streak)
<1> DEFINE problem == ObservationProblem(x, e, t)
           s == The(x.sample)
           rec == SeenBy(e.rec, Moving(x.out), t)
           noted == [e EXCEPT !.seen = {s}, !.rec = rec]
           compared == /\ e.seen # {s}
                       /\ x.lc.phase \in {"Following", "Reacquiring"}
                       /\ s.at >= e.aos
           m == Monitored(noted, s)
           j == c.streak
<1>1. DeviceOK(x) /\ x.lc.run = {e.run} /\ Formed({e}) /\ DwellOK(e, k)
      /\ (e.below # {} => x.lc.phase \notin {"Preparing", "Ready"})
      /\ PolicyOK(x.lc)
  BY DEF Minds, Minded, InStep, DwellsOK, DeviceOK
<1>2. Watched(x, e, t) = IF problem # "none" THEN Synced(Interrupt(x, problem))
                         ELSE IF ~compared THEN [x EXCEPT !.exec = {noted}]
                         ELSE Synced(DeviationActed(x, m, s, t))
  BY DEF Watched, SeenBy
<1>3. ASSUME problem # "none" PROVE Minds(Synced(Interrupt(x, problem)), c, j)
  <2> HIDE DEF problem
  <2> DEFINE y == Synced(Interrupt(x, problem))
  <2>1. Minds(y, c, k) /\ y.lc.run = {}
    BY GivenUpMinds
  <2> HIDE DEF y
  <2>2. Minds(y, c, j)
    BY <2>1, RunlessMinds
  <2> QED BY <2>2 DEF y
<1>4. ASSUME problem = "none"
      PROVE  /\ x.healthy /\ x.sample = {s} /\ s.at \in Int
             /\ \A old \in e.seen : old.at <= s.at /\ (s.at = old.at => s = old)
             /\ s.error = "good" => k \subseteq j /\ \E u \in j : u <= s.at
  <2>1. x.healthy /\ x.sample # {} /\ Few(x.sample)
    BY <1>1, <1>4 DEF ObservationProblem, DeviceOK
  <2>2. s \in x.sample /\ x.sample = {s}
    BY <2>1, TheFacts DEF The
  <2>3. s.at \in Int /\ \A old \in e.seen : old.at \in Int
    BY <1>1, <2>2 DEF Apt, Heard, Minds, Minded, DwellOK
  <2>4. \A old \in e.seen : ~(s.at < old.at \/ (s.at = old.at /\ s # old))
    BY <1>4, <2>1, <2>2 DEF ObservationProblem
  <2>5. s.error = "good" => k \subseteq j /\ \E u \in j : u <= s.at
    BY <2>1, <2>2 DEF Apt, Heard, Minds, Minded
  <2> HIDE DEF s
  <2> QED BY <2>1, <2>2, <2>3, <2>4, <2>5
<1>5. /\ Has(noted, ExecutionFields) /\ noted.run = e.run /\ noted.aos = e.aos
      /\ noted.seen = {s} /\ noted.below = e.below /\ noted.current = e.current /\ noted.rec = rec
  <2> HIDE DEF s, rec
  <2> QED BY <1>1 DEF Formed, Has, ExecutionFields
<1>6. Retraces(e.rec, rec)
  BY <1>1, SeenRetraces
<1>7. Few(rec)
  BY <1>1, <1>6 DEF Retraces, DwellOK
<1> HIDE DEF noted, rec, problem, s
<1>8. ASSUME problem = "none", ~compared PROVE Minds([x EXCEPT !.exec = {noted}], c, j)
  <2>1. e.below # {} => e.seen = {s}
    <3>1. SUFFICES ASSUME e.below # {} PROVE e.seen = {s}
      OBVIOUS
    <3>2. x.lc.phase \in {"Following", "Reacquiring"}
      BY <1>1, <3>1 DEF PolicyOK, InPhase
    <3>3. PICK b \in e.below : b \in Int /\ e.aos <= b
      BY <1>1, <3>1 DEF DwellOK
    <3>4. PICK old \in e.seen : b <= old.at /\ old.at \in Int
      BY <1>1, <3>1, <3>3 DEF DwellOK
    <3>5. s.at >= e.aos
      BY <1>1, <1>4, <1>8, <3>3, <3>4 DEF DwellOK
    <3> QED BY <1>8, <3>2, <3>5
  <2>2. DwellOK(noted, j)
    <3>1. CASE e.below = {}
      BY <1>1, <1>4, <1>5, <1>7, <1>8, <3>1 DEF DwellOK
    <3>2. CASE e.seen = {s}
      BY <1>1, <1>4, <1>5, <1>7, <1>8, <3>2 DEF DwellOK
    <3> QED BY <2>1, <3>1, <3>2
  <2> QED BY <1>1, <1>5, <1>6, <2>2, ObservedExecMinds
<1>9. ASSUME problem = "none", compared PROVE Minds(Synced(DeviationActed(x, m, s, t)), c, j)
  <2>1. /\ Has(m, ExecutionFields) /\ m.run = e.run /\ m.aos = e.aos
        /\ m.seen = {s} /\ m.current = {s.at} /\ m.rec = rec
        /\ m.below \in {{}, {s.at}, e.below} /\ (s.error # "good" => m.below = {})
    <3> DEFINE gap == \E at \in noted.current : s.at - at > FeedbackMaxAge
               begun(since) == IF since = {} \/ gap THEN {s.at} ELSE since
               above == IF s.error = "bad" THEN begun(noted.above) ELSE {}
               below == IF s.error = "good" THEN begun(noted.below) ELSE {}
               current == {s.at}
    <3>1. m = [noted EXCEPT !.current = current, !.above = above, !.below = below]
      BY DEF Monitored
    <3>2. below \in {{}, {s.at}, e.below} /\ (s.error # "good" => below = {})
      BY <1>5
    <3> HIDE DEF gap, above, below, m
    <3>3. /\ Has(m, ExecutionFields) /\ m.run = noted.run /\ m.aos = noted.aos
          /\ m.seen = noted.seen /\ m.current = current /\ m.rec = noted.rec /\ m.below = below
      BY <1>5, <3>1 DEF Has, ExecutionFields
    <3> QED BY <1>5, <3>2, <3>3
  <2> HIDE DEF m
  <2>2. DwellOK(m, j)
    <3>1. CASE m.below = {}
      BY <1>1, <1>4, <1>7, <1>9, <2>1, <3>1 DEF DwellOK
    <3>2. CASE m.below = {s.at} /\ s.error = "good"
      BY <1>1, <1>4, <1>7, <1>9, <2>1, <3>2 DEF DwellOK
    <3>3. CASE m.below = e.below /\ s.error = "good" /\ e.below # {}
      <4>1. \A b \in e.below : b \in Int /\ e.aos <= b /\ \E u \in j : u <= b
        BY <1>1, <1>4, <1>9, <3>3 DEF DwellOK
      <4>2. \A b \in e.below : b <= s.at
        <5> TAKE b \in e.below
        <5>1. PICK old \in e.seen : b <= old.at /\ old.at \in Int
          BY <1>1 DEF DwellOK
        <5> QED BY <1>4, <1>9, <4>1, <5>1
      <4> QED BY <1>1, <1>4, <1>7, <1>9, <2>1, <3>3, <4>1, <4>2 DEF DwellOK
    <3> QED BY <2>1, <3>1, <3>2, <3>3
  <2> DEFINE next == [x EXCEPT !.exec = {m}]
  <2>3. Minds(next, c, j) /\ next.exec = {m} /\ \A g \in DeviceFields \ {"exec"} : next[g] = x[g]
    BY <1>6, <1>9, <2>1, <2>2, ObservedExecMinds
  <2>4. DeviationActed(next, m, s, t) = DeviationActed(x, m, s, t)
    <3>1. [next EXCEPT !.exec = {m}] = next
      BY <1>1 DEF DeviceOK, Has, DeviceFields
    <3>2. next.lc = x.lc
      BY <2>3 DEF DeviceFields
    <3> QED BY <3>1, <3>2 DEF DeviationActed
  <2> HIDE DEF next
  <2>5. next.lc = x.lc /\ next.sample = {s}
    BY <1>4, <1>9, <2>3 DEF DeviceFields
  <2>6. Minded(DeviationActed(next, m, s, t), c, j)
    BY <1>1, <2>1, <2>3, <2>5, DeviationActedMinds
  <2> QED BY <2>4, <2>6, SyncedMinds
<1> HIDE DEF compared, m
<1>10. Minds(Watched(x, e, t), c, j)
  BY <1>2, <1>3, <1>8, <1>9
<1> QED BY <1>10

\* An observed run (runtime.rs observe_tracking): from here on the streak is the
\* one with the sample.
LEMMA ObservedRunMinds ==
  ASSUME NEW c, NEW k, Apt(c, k), NEW x, Minds(x, c, k), NEW t \in Nat
  PROVE  Minds(ObservedRun(x, t), c, c.streak)
<1> DEFINE a == Checked(x, t)
           live == Tick(a, t)
           v == ScheduleChecked(live, t)
           e == The(v.exec)
<1>1. CASE x.lc.run = {}
  BY <1>1, RunlessMinds DEF ObservedRun
<1>2. CASE x.lc.run # {}
  <2>1. Minds(a, c, k) /\ Leads(x, a, t) /\ DeviceOK(a) /\ DeviceOK(x)
    BY CheckedMinds, CheckedFacts DEF Minds, Minded, Leads
  <2>2. ObservedRun(x, t) = IF live.lc.run # x.lc.run THEN live ELSE WatchedRun(v, t)
    BY <1>2 DEF ObservedRun, ObservedLive
  <2> HIDE DEF a
  <2>3. Minds(live, c, k) /\ Quiet(live.lc, t) /\ Leads(a, live, t) /\ DeviceOK(live)
    BY <2>1, TickMinds, TickFacts DEF Leads
  <2> HIDE DEF live
  <2>4. live.lc.run # x.lc.run => live.lc.run = {}
    <3>1. Leads(x, live, t)
      BY <2>1, <2>3, LeadsTwice
    <3>2. live.lc.mode = "Tracking" => live.lc.run = x.lc.run
      BY <1>2, <3>1 DEF Leads, Goes
    <3> QED BY <2>3, <3>2, PhaseFacts DEF DeviceOK
  <2>5. live.lc.run # x.lc.run => Minds(live, c, c.streak)
    BY <2>3, <2>4, RunlessMinds
  <2>6. Minds(v, c, k) /\ Quiet(v.lc, t) /\ DeviceOK(v)
    BY <2>3, ScheduleCheckedMinds, ScheduleCheckedFacts DEF Minds, Minded
  <2> HIDE DEF v
  <2>7. Minds(WatchedRun(v, t), c, c.streak)
    <3>1. CASE v.exec = {}
      BY <2>6, <3>1, RunlessMinds DEF WatchedRun
    <3>2. CASE v.lc.plan = {}
      <4>1. v.lc.run = {}
        BY <2>6, <3>2 DEF DeviceOK, PolicyOK
      <4> QED BY <2>6, <3>2, <4>1, RunlessMinds DEF WatchedRun
    <3>3. CASE v.lc.plan # {} /\ v.exec # {}
      <4>1. v.exec = {e}
        BY <2>6, <3>3, TheFacts DEF The, DeviceOK, ExecutionsOK
      <4> HIDE DEF e
      <4>2. Minds(Watched(v, e, t), c, c.streak)
        BY <2>6, <4>1, WatchedMinds
      <4> QED BY <3>3, <4>2 DEF WatchedRun, e
    <3> QED BY <3>1, <3>2, <3>3
  <2> QED BY <2>2, <2>5, <2>7
<1> QED BY <1>1, <1>2

\* A published sample (coordination.rs publish_feedback), for the device that
\* has just got it.
LEMMA FeedbackPublishedMinds ==
  ASSUME NEW c, NEW k, Apt(c, k), NEW x, DeviceOK(x), Formed(x.exec), DwellsOK(x, k),
         Traced(x.exec, c), Home(x.lc, c), InStep(x), Few(c.sample), NEW t \in Nat
  PROVE  Minds(FeedbackPublished(x, c.healthy, c.sample, t), c, c.streak)
<1> DEFINE healthy == c.healthy
           sample == c.sample
           next == [x EXCEPT !.healthy = healthy, !.sample = sample]
           z == StartChanged(next)
<1>1. FeedbackPublished(x, healthy, sample, t) \in {ObservedRun(next, t), ObservedRun(z, t)}
  BY DEF FeedbackPublished
<1>2. /\ Has(next, DeviceFields) /\ next.sample = sample /\ next.healthy = healthy
      /\ \A f \in DeviceFields \ {"healthy", "sample"} : next[f] = x[f]
  BY Zenon DEF DeviceOK, Has, DeviceFields
<1> HIDE DEF next
<1>3. /\ next.lc = x.lc /\ next.exec = x.exec /\ next.clock = x.clock /\ next.gate = x.gate
      /\ next.out = x.out /\ next.applied = x.applied /\ next.startRev = x.startRev
  BY <1>2 DEF DeviceFields
<1>4. DeviceOK(next)
  BY <1>2, <1>3 DEF DeviceOK
<1>5. Minds(next, c, k)
  BY <1>2, <1>3, <1>4 DEF Minds, Minded, DwellsOK, InStep
<1>6. Minds(z, c, k)
  BY <1>5, StartChangedMinds
<1> HIDE DEF z
<1>7. Minds(ObservedRun(next, t), c, c.streak) /\ Minds(ObservedRun(z, t), c, c.streak)
  BY <1>5, <1>6, ObservedRunMinds
<1> QED BY <1>1, <1>7

\* A clock sample (coordination.rs publish_clock).
LEMMA ClockPublishedMinds ==
  ASSUME NEW c, NEW k, NEW x, Minds(x, c, k), NEW clock, Few(clock), clock \subseteq Anchor,
         NEW t \in Nat
  PROVE  Minds(ClockPublished(x, clock, t), c, k)
<1> DEFINE y == [x EXCEPT !.clock = clock]
<1>1. Has(y, DeviceFields) /\ y.clock = clock /\ \A f \in DeviceFields \ {"clock"} : y[f] = x[f]
  BY DEF Minds, Minded, DeviceOK, Has, DeviceFields
<1>2. ClockPublished(x, clock, t) = Serviced(y, t)
  BY DEF ClockPublished
<1> HIDE DEF y
<1>3. DeviceOK(y)
  BY <1>1 DEF DeviceOK, DeviceFields, Minds, Minded
<1>4. Minds(y, c, k)
  BY <1>1, <1>3, KeptMinds DEF DeviceFields
<1> QED BY <1>2, <1>4, ServicedMinds

\* A new policy for the same run, and its service.
LEMMA PolicyServicedMinds ==
  ASSUME NEW c, NEW k, NEW x, Minds(x, c, k), NEW u, PolicyOK(u), Dated(u),
         Proceeds(x.lc, u), u.run = x.lc.run, NEW t \in Nat
  PROVE  Minds([x EXCEPT !.lc = u], c, k) /\ Minds(Serviced([x EXCEPT !.lc = u], t), c, k)
<1> DEFINE y == [x EXCEPT !.lc = u]
<1>1. Minds(y, c, k)
  BY PolicyMinded DEF Minds
<1> HIDE DEF y
<1>2. Minds(Serviced(y, t), c, k)
  BY <1>1, ServicedMinds
<1> QED BY <1>1, <1>2 DEF y

-----------------------------------------------------------------------------
(* Requests, refreshes and results in an episode.                          *)

\* A request leaves the run as it is, or ends it.
Settles(lc, u) == (u.run = lc.run /\ u.recovery = lc.recovery /\ Proceeds(lc, u)) \/ Ended(u)

\* What is applied of a request (lifecycle.rs apply).
LEMMA AppliedSettles ==
  ASSUME NEW lc, PolicyOK(lc), NEW q, RequestOK(q), NEW t
  PROVE  LET a == Applied(lc, q, t)
         IN  PolicyOK(a.lc) /\ Settles(lc, a.lc) /\ (a.error # "none" => a.lc = lc)
<1> DEFINE a == Applied(lc, q, t)
           selected == Selected(lc, q.event)
           armed == Armed(lc, t)
           prepared == PreparedNow(lc)
           cancelled == Interrupted(lc, "Cancelled")
           manual == Interrupted(lc, "ManualMode")
<1>1. PolicyOK(a.lc) /\ (a.error # "none" => a.lc = lc)
  BY AppliedFacts
<1>2. \/ a.lc = lc \/ (q.action = "Select" /\ a.lc = selected) \/ a.lc = armed.lc
      \/ a.lc = prepared.lc \/ a.lc = cancelled \/ a.lc = manual
  <2> HIDE DEF selected, armed, prepared, cancelled, manual
  <2> QED BY DEF Applied, Done, Refused, RequestOK, selected, armed, prepared, cancelled, manual
<1>3. Settles(lc, lc)
  BY DEF Settles, Proceeds
<1>4. q.action = "Select" => Ended(selected)
  BY SelectedFacts DEF Selects, RequestOK
<1>5. Ended(cancelled) /\ Ended(manual)
  BY InterruptedFacts
<1>6. Settles(lc, armed.lc)
  <2>1. PolicyOK(armed.lc) /\ (armed.lc = lc \/ Arms(lc, armed.lc))
    BY ArmedFacts
  <2> HIDE DEF armed
  <2>2. CASE Arms(lc, armed.lc)
    BY <2>1, <2>2, PhaseFacts, RunlessProceeds DEF Arms, Settles
  <2> QED BY <1>3, <2>1, <2>2
<1>7. Settles(lc, prepared.lc)
  <2>1. PolicyOK(prepared.lc) /\ (prepared.lc.run = {} \/ prepared.lc = lc)
    BY PreparedNowFacts
  <2>2. prepared.lc = lc \/ lc.phase = "Armed"
    BY DEF PreparedNow, Refused
  <2>3. prepared.lc.mode = lc.mode
    BY PreparedNowFacts
  <2> HIDE DEF prepared
  <2>4. CASE lc.phase = "Armed" /\ prepared.lc.run = {}
    <3>1. lc.run = {} /\ lc.recovery = {} /\ prepared.lc.recovery = {}
      BY <2>1, <2>4 DEF PolicyOK, InPhase
    <3> QED BY <2>1, <2>4, <3>1, RunlessProceeds DEF Settles
  <2> QED BY <1>3, <2>1, <2>2, <2>4
<1> HIDE DEF a, selected, armed, prepared, cancelled, manual
<1>8. Settles(lc, a.lc)
  BY <1>2, <1>3, <1>4, <1>5, <1>6, <1>7 DEF Settles
<1> QED BY <1>1, <1>8 DEF a

\* What becomes of a request (lifecycle.rs request).
LEMMA RequestedSettles ==
  ASSUME NEW lc, PolicyOK(lc), NEW q, RequestOK(q), NEW t
  PROVE  LET a == Requested(lc, q, t)
         IN  PolicyOK(a.lc) /\ Settles(lc, a.lc) /\ (a.result.error # "none" => a.lc.run = lc.run)
<1> DEFINE a == Requested(lc, q, t)
           b == Applied(lc, q, t)
           receipt == {[request |-> q, result |-> Answer(b.error, IF b.error = "none" THEN b.lc.revision ELSE 0)]}
           u == [b.lc EXCEPT !.receipt = receipt]
<1>1. PolicyOK(a.lc)
  <2>1. Repeats(lc, a, q) \/ \E v : Applies(lc, v, a, q, t)
    BY RequestedFacts
  <2> QED BY <2>1 DEF Repeats, Applies
<1>2. a.lc = lc \/ (a.lc = u /\ a.result.error = b.error)
  BY DEF Requested, Receipted, Answer
<1>3. PolicyOK(b.lc) /\ Settles(lc, b.lc) /\ (b.error # "none" => b.lc = lc)
  BY AppliedSettles
<1> HIDE DEF a, b, receipt
<1>4. \A f \in PolicyFields \ {"receipt"} : u[f] = b.lc[f]
  BY <1>3 DEF PolicyOK, Has, PolicyFields
<1> HIDE DEF u
<1>5. Settles(lc, u) /\ u.run = b.lc.run
  BY <1>3, <1>4 DEF Settles, Proceeds, Ended, PolicyFields
<1>6. Settles(lc, lc)
  BY DEF Settles, Proceeds
<1> QED BY <1>1, <1>2, <1>3, <1>5, <1>6 DEF a

\* An answered request.
LEMMA RequestDoneMinds ==
  ASSUME NEW c, NEW k, NEW x, Minds(x, c, k), NEW a, PolicyOK(a.lc), Settles(x.lc, a.lc),
         a.result.error # "none" => a.lc.run = x.lc.run, NEW t \in Nat
  PROVE  Minds(RequestDone(x, a, t).d, c, k)
<1> DEFINE u == a.lc
           next == [x EXCEPT !.lc = u]
           bound == {x.gate.generation}
           b == [next EXCEPT !.bound = bound]
           d1 == RequestDone(x, a, t).d
<1>1. \/ d1 = next /\ a.result.error # "none"
      \/ d1 = Serviced(next, t)
      \/ d1 = Serviced(b, t) /\ u.mode = "Tracking"
  BY DEF RequestDone
<1> HIDE DEF d1, bound
<1>2. Dated(u) /\ Proceeds(x.lc, u)
  BY RunlessProceeds DEF Minds, Minded, DeviceOK, Dated, Settles, Ended, PolicyOK, InPhase
<1>3. (Ended(u) \/ u.run = x.lc.run) /\ (a.result.error # "none" => u.run = x.lc.run)
  BY DEF Settles
<1>4. PolicyOK(u)
  OBVIOUS
<1> HIDE DEF u
<1>5. Minded(next, c, k) /\ (u.run = x.lc.run => Minds(next, c, k)) /\ next.lc = u
  BY <1>2, <1>4, PolicyMinded DEF Minds
<1> HIDE DEF next
<1>6. Minds(Serviced(next, t), c, k)
  BY <1>3, <1>5, ServicedMinds
<1>7. u.mode = "Tracking" => Minds(Serviced(b, t), c, k)
  <2>1. SUFFICES ASSUME u.mode = "Tracking" PROVE Minds(Serviced(b, t), c, k)
    OBVIOUS
  <2>2. Minds(next, c, k)
    BY <1>3, <1>5, <2>1 DEF Ended
  <2>3. Has(b, DeviceFields) /\ \A f \in DeviceFields \ {"bound"} : b[f] = next[f]
    BY <2>2 DEF Minds, Minded, DeviceOK, Has, DeviceFields
  <2> HIDE DEF b
  <2>4. DeviceOK(b)
    BY <2>2, <2>3 DEF DeviceOK, DeviceFields, Minds, Minded
  <2>5. Minds(b, c, k)
    BY <2>2, <2>3, <2>4, KeptMinds DEF DeviceFields
  <2> QED BY <2>5, ServicedMinds
<1> QED BY <1>1, <1>3, <1>5, <1>6, <1>7 DEF d1

\* A request (runtime.rs request).
LEMMA RuntimeRequestedMinds ==
  ASSUME NEW c, NEW k, NEW x, Minds(x, c, k), NEW q, RequestOK(q), NEW t \in Nat
  PROVE  Minds(RuntimeRequested(x, q, t).d, c, k)
<1> DEFINE a == Requested(x.lc, q, t)
           done == RequestDone(x, a, t).d
<1>1. RuntimeRequested(x, q, t).d \in {x, done}
  BY DEF RuntimeRequested
<1>2. PolicyOK(a.lc) /\ Settles(x.lc, a.lc) /\ (a.result.error # "none" => a.lc.run = x.lc.run)
  BY RequestedSettles DEF Minds, Minded, DeviceOK
<1> HIDE DEF a
<1>3. Minds(done, c, k)
  BY <1>2, RequestDoneMinds
<1> QED BY <1>1, <1>3

\* A refresh of the policy (lifecycle.rs refresh).
LEMMA RefreshedProceeds ==
  ASSUME NEW lc, PolicyOK(lc), Dated(lc), NEW forecast \in SUBSET Event, NEW revs \in Revision,
         Follows(revs, lc.revs)
  PROVE  LET u == Refreshed(lc, forecast, revs)
         IN  PolicyOK(u) /\ Dated(u) /\ Proceeds(lc, u) /\ u.run = lc.run
<1> DEFINE r == {revs}
           v == [lc EXCEPT !.revs = r]
           matching == UNION {Matching(s.original, forecast) : s \in lc.selection}
           changed == lc.revs # r
           w == Reconciled(v, matching, changed)
           u == Refreshed(lc, forecast, revs)
<1>1. u = v \/ (u = w /\ lc.run = {} /\ lc.selection # {})
  BY DEF Refreshed
<1>2. matching \in SUBSET Event
  BY DEF Matching
<1>3. \A x \in r : x \in Revision
  OBVIOUS
<1>4. PolicyOK(u)
  BY RefreshedFacts
<1> HIDE DEF matching, r, u, changed
<1>5. /\ Has(v, PolicyFields) /\ v.revs = r
      /\ \A f \in PolicyFields \ {"revs"} : v[f] = lc[f]
  BY DEF PolicyOK, Has, PolicyFields
<1> HIDE DEF v
<1>6. PolicyOK(v)
  BY <1>3, <1>5 DEF PolicyOK, InPhase, PolicyFields
<1>7. /\ v.run = lc.run /\ v.selection = lc.selection /\ v.phase = lc.phase
      /\ v.recovery = lc.recovery
  BY <1>5 DEF PolicyFields
<1>8. CASE u = v
  BY <1>4, <1>7, <1>8 DEF Dated, Proceeds, u
<1>9. CASE u = w /\ lc.run = {} /\ lc.selection # {}
  <2>1. w.run = {}
    BY <1>2, <1>6, <1>7, <1>9, ReconciledFacts
  <2> HIDE DEF w
  <2>2. u.recovery = {}
    BY <1>4, <1>9, <2>1 DEF PolicyOK, InPhase
  <2> QED BY <1>4, <1>9, <2>1, <2>2, RunlessProceeds DEF Dated, u
<1> QED BY <1>1, <1>8, <1>9

\* A refresh (runtime.rs refresh).
LEMMA RuntimeRefreshedMinds ==
  ASSUME NEW c, NEW k, NEW x, Minds(x, c, k), NEW forecast \in SUBSET Event,
         NEW revs \in Revision, NEW t \in Nat
  PROVE  Minds(RuntimeRefreshed(x, forecast, revs, t), c, k)
<1> DEFINE u == Refreshed(x.lc, forecast, revs)
<1>1. CASE ~Follows(revs, x.lc.revs)
  BY <1>1 DEF RuntimeRefreshed
<1>2. CASE Follows(revs, x.lc.revs)
  <2>1. PolicyOK(u) /\ Dated(u) /\ Proceeds(x.lc, u) /\ u.run = x.lc.run
    BY <1>2, RefreshedProceeds DEF Minds, Minded, DeviceOK
  <2>2. RuntimeRefreshed(x, forecast, revs, t) = Serviced([x EXCEPT !.lc = u], t)
    BY <1>2 DEF RuntimeRefreshed
  <2> HIDE DEF u
  <2>3. Minds(Serviced([x EXCEPT !.lc = u], t), c, k)
    BY <2>1, PolicyServicedMinds
  <2> QED BY <2>2, <2>3
<1> QED BY <1>1, <1>2

\* A policy without a run may have another plan.
LEMMA RunlessServicedMinds ==
  ASSUME NEW c, NEW k, NEW x, Minds(x, c, k), x.lc.run = {}, NEW u, PolicyOK(u), u.run = {},
         NEW t \in Nat
  PROVE  Minds([x EXCEPT !.lc = u], c, k) /\ Minds(Serviced([x EXCEPT !.lc = u], t), c, k)
<1>1. Dated(u)
  BY DEF Dated, PolicyOK, InPhase
<1> QED BY <1>1, RunlessProceeds, PolicyServicedMinds

\* Rejected inputs (runtime.rs reject_inputs).
LEMMA InputsRejectedMinds ==
  ASSUME NEW c, NEW k, NEW x, Minds(x, c, k), NEW ticket, NEW t \in Nat
  PROVE  Minds(InputsRejected(x, ticket, t), c, k)
<1> DEFINE u == Invalidated(x.lc)
<1>1. CASE PlanningTicket(x.lc) # {ticket}
  BY <1>1 DEF InputsRejected
<1>2. CASE PlanningTicket(x.lc) = {ticket}
  <2>1. x.lc.run = {}
    BY <1>2, PlanningFacts DEF Minds, Minded, DeviceOK
  <2>2. PolicyOK(u) /\ u.run = {}
    BY <2>1, InvalidatedFacts DEF Minds, Minded, DeviceOK
  <2>3. InputsRejected(x, ticket, t) = Serviced([x EXCEPT !.lc = u], t)
    BY <1>2 DEF InputsRejected
  <2> HIDE DEF u
  <2> QED BY <2>1, <2>2, <2>3, RunlessServicedMinds
<1> QED BY <1>1, <1>2

\* A published plan (runtime.rs publish_plan).
LEMMA PlanPublishedMinds ==
  ASSUME NEW c, NEW k, NEW x, Minds(x, c, k), NEW inputs,
         NEW found, Few(found), \A p \in found : PlanOK(p), NEW t \in Nat
  PROVE  Minds(PlanPublished(x, inputs, found, t), c, k)
<1> DEFINE u == Planned(x.lc, found, t)
           v == Invalidated(x.lc)
<1>1. CASE PlanningTicket(x.lc) # {inputs.ticket}
  BY <1>1 DEF PlanPublished
<1>2. CASE PlanningTicket(x.lc) = {inputs.ticket}
  <2>1. x.lc.run = {}
    BY <1>2, PlanningFacts DEF Minds, Minded, DeviceOK
  <2>2. PolicyOK(u) /\ u.run = {}
    BY <2>1, PlannedFacts DEF Minds, Minded, DeviceOK, Replans
  <2>3. PolicyOK(v) /\ v.run = {}
    BY <2>1, InvalidatedFacts DEF Minds, Minded, DeviceOK
  <2>4. PlanPublished(x, inputs, found, t)
          \in {[x EXCEPT !.lc = v], Serviced([x EXCEPT !.lc = u], t)}
    BY <1>2 DEF PlanPublished
  <2> HIDE DEF u, v
  <2>5. Minds([x EXCEPT !.lc = v], c, k) /\ Minds(Serviced([x EXCEPT !.lc = u], t), c, k)
    BY <2>1, <2>2, <2>3, RunlessServicedMinds
  <2> QED BY <2>4, <2>5
<1> QED BY <1>1, <1>2

\* What the worker reports are revisions.
LEMMA RevisionsFacts ==
  ASSUME NEW x, DeviceOK(x), NEW publication, publication.rev \in Nat
  PROVE  Revisions(x, publication) \in Revision
<1>1. x.startRev \in Nat /\ x.clock \subseteq Anchor
  BY DEF DeviceOK
<1>2. x.clock # {} => The(x.clock) \in Anchor
  BY <1>1 DEF The
<1> QED BY <1>1, <1>2 DEF Revisions, Revision, Anchor

\* The worker's refresh (firmware tracking.rs refresh_inputs).
LEMMA InputsRefreshedMinds ==
  ASSUME now \in Nat, NEW s, SourcesOK(s), NEW c, NEW k, NEW x, Minds(x, c, k)
  PROVE  Minds(InputsRefreshed(x, s), c, k)
<1> DEFINE o == The(x.lc.selection).original
           publication == s[o.sat]
           live == Advanced(x, now)
           forecast == publication.events
           revs == Revisions(live, publication)
           a == Checked(live, now)
<1>1. CASE x.lc.selection = {}
  BY <1>1 DEF InputsRefreshed
<1>2. CASE x.lc.selection # {}
  <2>1. InputsRefreshed(x, s) = RuntimeRefreshed(a, forecast, revs, now)
    BY <1>2 DEF InputsRefreshed, RefreshedFrom
  <2>2. o \in Event
    <3>1. The(x.lc.selection) \in x.lc.selection
      BY <1>2 DEF The
    <3>2. The(x.lc.selection) \in Selection
      BY <3>1 DEF Minds, Minded, DeviceOK, PolicyOK
    <3> QED BY <3>2 DEF Selection
  <2>3. publication.rev \in Nat /\ forecast \in SUBSET Event
    BY <2>2 DEF SourcesOK, Sats
  <2> HIDE DEF o, publication
  <2>4. Minds(live, c, k)
    BY AdvancedMinds
  <2> HIDE DEF live
  <2>5. revs \in Revision
    BY <2>3, <2>4, RevisionsFacts DEF Minds, Minded
  <2>6. Minds(a, c, k)
    BY <2>4, CheckedMinds
  <2> HIDE DEF a, revs, forecast
  <2> QED BY <2>1, <2>3, <2>5, <2>6, RuntimeRefreshedMinds
<1> QED BY <1>1, <1>2

\* A job, as far as it gets (firmware tracking.rs start_job).
LEMMA JobBegunMinds ==
  ASSUME now \in Nat, NEW c, NEW k, NEW x, Minds(x, c, k), NEW ticket
  PROVE  Minds(JobBegun(x, ticket).d, c, k)
<1> DEFINE live == Advanced(x, now)
           jobs == UNION {Jobs(x, ticket, a) : a \in x.clock}
           b == Checked(live, now)
           job == The(jobs)
           rejected == InputsRejected(b, ticket, now)
           planned == PlanPublished(b, job.inputs, {}, now)
<1>1. JobBegun(x, ticket).d \in {x, rejected, planned, live}
  BY DEF JobBegun, JobTried
<1> HIDE DEF jobs
<1>2. Minds(live, c, k)
  BY AdvancedMinds
<1> HIDE DEF live
<1>3. Minds(b, c, k)
  BY <1>2, CheckedMinds
<1> HIDE DEF b, job
<1>4. Minds(rejected, c, k)
  BY <1>3, InputsRejectedMinds
<1>5. Minds(planned, c, k)
  <2>1. Few({}) /\ \A p \in {} : PlanOK(p)
    BY DEF Few
  <2> QED BY <1>3, <2>1, PlanPublishedMinds
<1> QED BY <1>1, <1>2, <1>4, <1>5

-----------------------------------------------------------------------------
(* The last operation of a step.                                           *)

\* What a step leaves behind.
Closes(y, c, k) ==
  /\ InStep(y) /\ DwellsOK(y, k)
  /\ c.over \/ y.lc.phase # "Following"
  /\ y.healthy = c.healthy /\ y.sample = c.sample

\* A device in the middle of a step may be the last one.
LEMMA MindsCloses ==
  ASSUME NEW c, NEW k, NEW x, Minds(x, c, k)
  PROVE  Closes(x, c, k)
  BY DEF Closes, Minds, Minded, Home

\* A policy that neither returns to the route nor goes back in its run.
Stands(lc, u) ==
  /\ u.run = lc.run
  /\ u.phase = "Following" => lc.phase = "Following"
  /\ u.phase \in {"Preparing", "Ready"} => lc.phase \in {"Preparing", "Ready"}

\* An execution that dwells where another does.
Dwells(e, f) ==
  /\ f.run = e.run /\ f.aos = e.aos /\ f.seen = e.seen /\ f.below = e.below
  /\ Few(e.rec) => Few(f.rec)

\* A change of both may be the last.
LEMMA BothClose ==
  ASSUME NEW c, NEW k, NEW x, Minds(x, c, k), NEW exec, \A f \in exec : \E e \in x.exec : Dwells(e, f),
         NEW u, Stands(x.lc, u)
  PROVE  /\ Closes([x EXCEPT !.exec = exec, !.lc = u], c, k)
         /\ u = x.lc => Closes([x EXCEPT !.exec = exec], c, k)
<1>1. ASSUME NEW y, y.exec = exec, y.lc = u, y.healthy = x.healthy, y.sample = x.sample
      PROVE  Closes(y, c, k)
  <2>1. ASSUME NEW f \in exec
        PROVE  /\ u.run = {f.run}
               /\ DwellOK(f, k) /\ (f.below # {} => u.phase \notin {"Preparing", "Ready"})
    <3>1. PICK e \in x.exec : Dwells(e, f)
      OBVIOUS
    <3>2. x.lc.run = {e.run}
      BY DEF Minds, InStep
    <3>3. DwellOK(e, k) /\ (e.below # {} => x.lc.phase \notin {"Preparing", "Ready"})
      BY <3>2 DEF Minds, Minded, DwellsOK
    <3>4. DwellOK(f, k)
      BY <3>1, <3>3 DEF Dwells, DwellOK
    <3> QED BY <3>1, <3>2, <3>3, <3>4 DEF Dwells, Stands
  <2>2. InStep(y) /\ DwellsOK(y, k)
    BY <1>1, <2>1 DEF InStep, DwellsOK
  <2>3. c.over \/ u.phase # "Following"
    BY DEF Stands, Minds, Minded, Home
  <2> QED BY <1>1, <2>2, <2>3 DEF Closes, Minds, Minded
<1>2. Has(x, DeviceFields)
  BY DEF Minds, Minded, DeviceOK
<1> DEFINE y == [x EXCEPT !.exec = exec, !.lc = u]
           z == [x EXCEPT !.exec = exec]
<1>3. y.exec = exec /\ y.lc = u /\ y.healthy = x.healthy /\ y.sample = x.sample
  BY <1>2 DEF Has, DeviceFields
<1>4. z.exec = exec /\ z.lc = x.lc /\ z.healthy = x.healthy /\ z.sample = x.sample
  BY <1>2 DEF Has, DeviceFields
<1> HIDE DEF y, z
<1>5. Closes(y, c, k)
  BY <1>1, <1>3
<1>6. u = x.lc => Closes(z, c, k)
  BY <1>1, <1>4
<1> QED BY <1>5, <1>6 DEF y, z

\* So may a change of the execution alone.
LEMMA ExecCloses ==
  ASSUME NEW c, NEW k, NEW x, Minds(x, c, k), NEW exec, \A f \in exec : \E e \in x.exec : Dwells(e, f)
  PROVE  Closes([x EXCEPT !.exec = exec], c, k)
<1> DEFINE u == x.lc
<1>1. Stands(x.lc, u)
  BY DEF Stands
<1>2. u = x.lc
  OBVIOUS
<1> HIDE DEF u
<1> QED BY <1>1, <1>2, BothClose, Zenon

\* The end of a search (runtime.rs step_reacquisition).
LEMMA SearchDoneCloses ==
  ASSUME NEW c, NEW k, NEW x, Minds(x, c, k), NEW join
  PROVE  Closes(SearchDone(x, join), c, k)
<1> DEFINE next(e) == [e EXCEPT !.rec = {SearchEnded(r, join, now) : r \in @}]
           exec == {next(e) : e \in x.exec}
<1>1. SearchDone(x, join) = [x EXCEPT !.exec = exec]
  BY DEF SearchDone
<1>2. ASSUME NEW e \in x.exec PROVE Dwells(e, next(e))
  <2> DEFINE recs == {SearchEnded(r, join, now) : r \in e.rec}
             f == [e EXCEPT !.rec = recs]
  <2>1. next(e) = f
    OBVIOUS
  <2>2. Few(e.rec) => Few(recs)
    BY DEF Few
  <2>3. Has(e, ExecutionFields)
    BY DEF Minds, Minded, Formed
  <2> HIDE DEF recs, next
  <2>4. Dwells(e, f)
    BY <2>2, <2>3 DEF Dwells, Has, ExecutionFields
  <2> QED BY <2>1, <2>4
<1> HIDE DEF next
<1>3. \A f \in exec : \E e \in x.exec : Dwells(e, f)
  BY <1>2
<1> HIDE DEF exec
<1>4. Closes([x EXCEPT !.exec = exec], c, k)
  BY <1>3, ExecCloses, Zenon
<1> QED BY <1>1, <1>4

\* An execution with other episodes, followers or deadlines.
LEMMA DwellsStill ==
  ASSUME NEW e, Has(e, ExecutionFields), NEW r, NEW follower, NEW control
  PROVE  /\ Dwells(e, [e EXCEPT !.follower = follower, !.control = control])
         /\ Dwells(e, [e EXCEPT !.follower = follower, !.control = control, !.rec = {r}])
<1>1. Few({r})
  BY DEF Few
<1> QED BY <1>1 DEF Dwells, Has, ExecutionFields

\* A turn of an episode (runtime.rs execution_command, recovery.rs command).
LEMMA RecoveryTurnCloses ==
  ASSUME NEW c, NEW k, NEW x, Minds(x, c, k), NEW e, x.exec = {e}, NEW r, NEW want,
         NEW t \in Nat, Quiet(x.lc, t)
  PROVE  Closes(RecoveryTurn(x, e, r, want, t), c, k)
<1>1. PICK commanded, envelope :
        RecoveryTurn(x, e, r, want, t)
          = [x EXCEPT !.exec = {[e EXCEPT !.follower = {}, !.control = {t}, !.rec = {commanded}]},
                      !.lc = RecoveryCommanded(Ticked(@, t), r.episode, envelope, t)]
  BY DEF RecoveryTurn
<1> DEFINE f == [e EXCEPT !.follower = {}, !.control = {t}, !.rec = {commanded}]
           exec == {f}
           u == RecoveryCommanded(x.lc, r.episode, envelope, t)
<1>2. Ticked(x.lc, t) = x.lc
  BY QuietTicks DEF Minds, Minded, DeviceOK
<1>3. RecoveryTurn(x, e, r, want, t) = [x EXCEPT !.exec = exec, !.lc = u]
  BY <1>1, <1>2
<1>4. Has(e, ExecutionFields) /\ Has(x.lc, PolicyFields)
  BY DEF Minds, Minded, Formed, DeviceOK, PolicyOK
<1>5. Dwells(e, f)
  BY <1>4, DwellsStill, Zenon
<1> HIDE DEF f
<1>6. \A g \in exec : \E h \in x.exec : Dwells(h, g)
  BY <1>5
<1>7. Stands(x.lc, u)
  BY <1>4 DEF RecoveryCommanded, Stands, Has, PolicyFields
<1> HIDE DEF exec, u
<1>8. Closes([x EXCEPT !.exec = exec, !.lc = u], c, k)
  BY <1>6, <1>7, BothClose, Zenon
<1> QED BY <1>3, <1>8

\* A turn on the route (runtime.rs execution_command).
LEMMA FollowerTurnCloses ==
  ASSUME NEW c, NEW k, NEW x, Minds(x, c, k), NEW e, x.exec = {e}, NEW want,
         NEW t \in Nat, Quiet(x.lc, t)
  PROVE  Closes(FollowerTurn(x, e, want, t), c, k)
<1> DEFINE s == The(x.sample)
           follower == IF e.follower = {} THEN NewFollower ELSE The(e.follower)
           seen == FollowerSaw(follower, Moving(x.out), t)
           preparing == x.lc.phase \in {"Preparing", "Ready"}
           followers == {FollowerAsked(seen, want, s.at)}
           control == {t}
           asked1 == [e EXCEPT !.follower = followers, !.control = control]
           good == Acquired(x, s, t)
           next == IF preparing THEN Readied(asked1, good, s.at) ELSE asked1
           ready == preparing /\ ReadyDwelt(asked1, next, s.at)
           prepared == IF ready THEN MadeReady(Ticked(x.lc, t), x.lc.run) ELSE x.lc
           by == [run |-> x.lc.run, sampled |-> s.at, launch |-> {}]
           envelope == RunEnvelope(Asks(seen, want, s.at), t + MovementLease, by)
           exec == {next}
           u == TrackingCommanded(Ticked(prepared, t), x.lc.run, envelope, t)
<1>1. FollowerTurn(x, e, want, t) = [x EXCEPT !.exec = exec, !.lc = u]
  BY DEF FollowerTurn
<1>2. Ticked(x.lc, t) = x.lc /\ PolicyOK(x.lc) /\ Has(e, ExecutionFields)
  BY QuietTicks DEF Minds, Minded, Formed, DeviceOK
<1> HIDE DEF followers, control, envelope, good, s
<1>3. Dwells(e, next)
  <2>1. Dwells(e, asked1)
    BY <1>2, DwellsStill, Zenon
  <2>2. Has(asked1, ExecutionFields)
    BY <1>2 DEF Has, ExecutionFields
  <2> HIDE DEF asked1
  <2>3. Dwells(e, Readied(asked1, good, s.at))
    <3> DEFINE gap == asked1.read = {} \/ \E r \in asked1.read : s.at - r >= FeedbackMaxAge
               since == IF ~good THEN {}
                        ELSE IF asked1.read = {s.at} THEN asked1.since
                        ELSE IF gap \/ asked1.since = {} THEN {s.at} ELSE asked1.since
    <3>1. Readied(asked1, good, s.at) = [asked1 EXCEPT !.since = since, !.read = {s.at}]
      BY DEF Readied
    <3> HIDE DEF since
    <3> QED BY <2>1, <2>2, <3>1 DEF Dwells, Has, ExecutionFields
  <2> QED BY <2>1, <2>3
<1> HIDE DEF next
<1>4. PolicyOK(prepared) /\ Quiet(prepared, t) /\ Stands(x.lc, prepared)
  <2> HIDE DEF ready
  <2>1. LET v == MadeReady(x.lc, x.lc.run)
        IN  PolicyOK(v) /\ Quiet(v, t) /\ Stands(x.lc, v)
    <3> DEFINE n == Bumped(x.lc)
               m == [n EXCEPT !.phase = "Ready"]
               v == MadeReady(x.lc, x.lc.run)
    <3>1. PolicyOK(v) /\ Quiet(v, t) /\ v.run = x.lc.run
      BY <1>2, MadeReadyFacts
    <3>2. v = x.lc \/ (v = m /\ x.lc.phase = "Preparing")
      BY DEF MadeReady
    <3>3. Has(n, PolicyFields)
      BY <1>2, BumpedFacts DEF PolicyOK
    <3> HIDE DEF n, v
    <3>4. m.phase = "Ready"
      BY <3>3 DEF Has, PolicyFields
    <3> HIDE DEF m
    <3>5. Stands(x.lc, v)
      BY <3>1, <3>2, <3>4 DEF Stands
    <3> QED BY <3>1, <3>5 DEF v
  <2>2. Stands(x.lc, x.lc)
    BY DEF Stands
  <2> QED BY <1>2, <2>1, <2>2
<1> HIDE DEF prepared
<1>5. Ticked(prepared, t) = prepared /\ Has(prepared, PolicyFields)
  BY <1>4, QuietTicks DEF PolicyOK
<1>6. Stands(prepared, u)
  BY <1>5 DEF TrackingCommanded, Stands, Has, PolicyFields
<1> HIDE DEF u
<1>7. Stands(x.lc, u)
  BY <1>4, <1>6 DEF Stands
<1>8. \A g \in exec : \E h \in x.exec : Dwells(h, g)
  BY <1>3
<1> HIDE DEF exec
<1>9. Closes([x EXCEPT !.exec = exec, !.lc = u], c, k)
  BY <1>7, <1>8, BothClose, Zenon
<1> QED BY <1>1, <1>9

\* Whatever is to be commanded (runtime.rs execution_command).
LEMMA TurnCloses ==
  ASSUME NEW c, NEW k, NEW x, Minds(x, c, k), NEW want, NEW t \in Nat, Quiet(x.lc, t)
  PROVE  Closes(Turn(x, want, t), c, k)
<1> DEFINE e == The(x.exec)
           waiting == x.lc.phase = "Reacquiring" /\ (e.rec = {} \/ e.seen = {})
<1>1. Turn(x, want, t)
        = IF x.lc.run = {} \/ x.lc.plan = {} \/ x.exec = {} THEN x
          ELSE IF waiting
            THEN [x EXCEPT !.exec = {[e EXCEPT !.follower = {}, !.control = {t}]}]
          ELSE IF x.lc.phase = "Reacquiring" THEN RecoveryTurn(x, e, The(e.rec), want, t)
          ELSE FollowerTurn(x, e, want, t)
  BY DEF Turn
<1>2. CASE x.lc.run = {} \/ x.lc.plan = {} \/ x.exec = {}
  BY <1>1, <1>2, MindsCloses
<1>3. CASE ~(x.lc.run = {} \/ x.lc.plan = {} \/ x.exec = {})
  <2>1. x.exec = {e} /\ Has(e, ExecutionFields)
    BY <1>3, TheFacts DEF The, DeviceOK, ExecutionsOK, Minds, Minded
  <2>2. CASE waiting
    <3> DEFINE f == [e EXCEPT !.follower = {}, !.control = {t}]
               exec == {f}
    <3>1. Turn(x, want, t) = [x EXCEPT !.exec = exec]
      BY <1>1, <1>3, <2>2
    <3> HIDE DEF e
    <3>2. Dwells(e, f)
      BY <2>1, DwellsStill, Zenon
    <3> HIDE DEF f
    <3>3. \A g \in exec : \E h \in x.exec : Dwells(h, g)
      BY <2>1, <3>2
    <3> HIDE DEF exec
    <3>4. Closes([x EXCEPT !.exec = exec], c, k)
      BY <3>3, ExecCloses, Zenon
    <3> QED BY <3>1, <3>4
  <2>3. CASE ~waiting
    <3> HIDE DEF e
    <3>1. Closes(RecoveryTurn(x, e, The(e.rec), want, t), c, k)
      BY <2>1, RecoveryTurnCloses
    <3>2. Closes(FollowerTurn(x, e, want, t), c, k)
      BY <2>1, FollowerTurnCloses
    <3> QED BY <1>1, <1>3, <2>3, <3>1, <3>2 DEF e
  <2> QED BY <2>2, <2>3
<1> QED BY <1>2, <1>3

\* A command by hand (runtime.rs manual_command).
LEMMA RuntimeJoggedCloses ==
  ASSUME NEW c, NEW k, NEW x, Minds(x, c, k), NEW token, NEW e, EnvelopeOK(e),
         NEW t \in Nat, Quiet(x.lc, t)
  PROVE  Closes(RuntimeJogged(x, token, e, t), c, k)
<1> DEFINE u == ManuallyCommanded(x.lc, token, e, t)
<1>1. Ticked(x.lc, t) = x.lc /\ PolicyOK(x.lc)
  BY QuietTicks DEF Minds, Minded, DeviceOK
<1>2. RuntimeJogged(x, token, e, t) = x \/ RuntimeJogged(x, token, e, t) = [x EXCEPT !.lc = u]
  BY <1>1 DEF RuntimeJogged
<1>3. PolicyOK(u) /\ u.run = x.lc.run
  BY <1>1, ManuallyCommandedFacts
<1>4. u = x.lc \/ x.lc.mode = "Manual"
  BY DEF ManuallyCommanded
<1> HIDE DEF u
<1>5. u = x.lc \/ (x.lc.run = {} /\ u.run = {})
  BY <1>1, <1>3, <1>4, PhaseFacts
<1>6. u = x.lc \/ Minds([x EXCEPT !.lc = u], c, k)
  BY <1>3, <1>5, RunlessServicedMinds
<1>7. [x EXCEPT !.lc = x.lc] = x
  BY LcUnchanged DEF Minds, Minded
<1> QED BY <1>2, <1>6, <1>7, MindsCloses

-----------------------------------------------------------------------------
(* Every step measures its episode.                                        *)

Routes == {r.intercept : r \in UNION {e.rec : e \in d.exec}}

\* What a step that hears this feedback starts from.
Hearing(healthy, sample, k) ==
  [healthy |-> healthy, sample |-> sample, streak |-> k, routes |-> Routes,
   over |-> d.lc.phase = "Reacquiring"
              => Proved([sample |-> sample, streak |-> k, routes |-> Routes])]

\* An episode that ends in this step was measured.
Measured ==
  (d.lc.phase = "Reacquiring" /\ d'.lc.phase = "Following") =>
    \A s \in d'.sample, r \in UNION {e.rec : e \in d.exec} :
      /\ \E t \in streak' : s.at >= t + RecoveryDwell
      /\ \E i \in r.intercept : s.at >= i.join + RecoveryDwell

\* The invariant, as the lemmas about operations have it.
LEMMA HearingFacts ==
  ASSUME IInv, MeasuresOK, LaunchesOK, NEW healthy, NEW sample, NEW k, k \subseteq Int,
         Heard(Hearing(healthy, sample, k), streak)
  PROVE  LET c == Hearing(healthy, sample, k)
         IN  /\ Apt(c, streak) /\ c.streak = k /\ c.healthy = healthy /\ c.sample = sample
             /\ DeviceOK(d) /\ Formed(d.exec) /\ DwellsOK(d, streak) /\ InStep(d)
             /\ Traced(d.exec, c) /\ Home(d.lc, c)
             /\ c.routes = Routes
             /\ c.over <=> (d.lc.phase = "Reacquiring" => Proved(c))
<1> DEFINE c == Hearing(healthy, sample, k)
<1>1. /\ c.streak = k /\ c.healthy = healthy /\ c.sample = sample /\ c.routes = Routes
      /\ c.over <=> (d.lc.phase = "Reacquiring"
                       => Proved([sample |-> sample, streak |-> k, routes |-> Routes]))
  BY DEF Hearing
<1> HIDE DEF c
<1>2. Proved([sample |-> sample, streak |-> k, routes |-> Routes]) <=> Proved(c)
  BY <1>1 DEF Proved
<1>3. DeviceOK(d) /\ Formed(d.exec) /\ DwellsOK(d, streak) /\ InStep(d) /\ streak \subseteq 0 .. now
  BY DEF IInv, Sound, LaunchesOK, LaunchesAt, MeasuresOK, Measures
<1>4. Few(Routes)
  <2>1. \A e \in d.exec : Few(e.rec)
    BY <1>3 DEF DwellsOK, DwellOK, InStep
  <2>2. Few(d.exec)
    BY <1>3 DEF DeviceOK, ExecutionsOK
  <2> QED BY <2>1, <2>2 DEF Few, Routes
<1>5. Traced(d.exec, c)
  BY <1>1 DEF Traced, Routes
<1>6. Home(d.lc, c)
  BY <1>1 DEF Home
<1>7. Apt(c, streak)
  <2>1. streak \subseteq Int
    BY <1>3
  <2>2. Heard(c, streak)
    BY DEF c
  <2> QED BY <1>1, <1>2, <1>4, <2>1, <2>2 DEF Apt
<1> QED BY <1>1, <1>2, <1>3, <1>5, <1>6, <1>7 DEF c

\* A step that hears no feedback.
Silent(c) ==
  /\ Apt(c, streak) /\ c.streak = streak /\ Minds(d, c, streak)
  /\ c.routes = Routes /\ (c.over <=> (d.lc.phase = "Reacquiring" => Proved(c)))

LEMMA SilentFacts ==
  ASSUME IInv, MeasuresOK, LaunchesOK
  PROVE  Silent(Hearing(d.healthy, d.sample, streak))
<1> DEFINE c == Hearing(d.healthy, d.sample, streak)
<1>1. streak \subseteq 0 .. now /\ StreakOK(d, streak)
  BY DEF MeasuresOK, Measures
<1>2. streak \subseteq Int
  BY <1>1
<1>3. c.healthy = d.healthy /\ c.sample = d.sample /\ c.streak = streak
  BY DEF Hearing
<1>4. Heard(c, streak)
  BY <1>1, <1>3 DEF Heard, StreakOK
<1> HIDE DEF c
<1>5. /\ Apt(c, streak) /\ c.streak = streak /\ c.healthy = d.healthy /\ c.sample = d.sample
      /\ DeviceOK(d) /\ Formed(d.exec) /\ DwellsOK(d, streak) /\ InStep(d)
      /\ Traced(d.exec, c) /\ Home(d.lc, c)
      /\ c.routes = Routes
      /\ c.over <=> (d.lc.phase = "Reacquiring" => Proved(c))
  BY <1>2, <1>4, HearingFacts DEF c
<1>6. Minds(d, c, streak)
  BY <1>5 DEF Minds, Minded
<1> QED BY <1>5, <1>6 DEF Silent, c

\* What a step leaves behind is measured.
LEMMA ClosesMeasures ==
  ASSUME NEW c, NEW k, k = streak', c.streak = k, c.routes = Routes,
         c.over <=> (d.lc.phase = "Reacquiring" => Proved(c)),
         Closes(d', c, k), StreakOK(d', k), k \subseteq 0 .. now'
  PROVE  MeasuresOK' /\ Measured
<1>1. Measures(d', streak', now')
  BY DEF Measures, Closes
<1>2. MeasuresOK'
  BY <1>1 DEF MeasuresOK
<1>3. Measured
  BY DEF Measured, Closes, Proved, Routes
<1> QED BY <1>2, <1>3

\* So is what a step leaves that heard nothing.
LEMMA SilentMeasures ==
  ASSUME MeasuresOK, NEW c, Silent(c), Closes(d', c, streak), streak' = streak, now' = now
  PROVE  MeasuresOK' /\ Measured
<1>1. StreakOK(d, streak) /\ streak \subseteq 0 .. now
  BY DEF MeasuresOK, Measures
<1>2. d'.healthy = d.healthy /\ d'.sample = d.sample
  BY DEF Closes, Silent, Minds, Minded
<1>3. StreakOK(d', streak)
  BY <1>1, <1>2 DEF StreakOK
<1> QED BY <1>1, <1>3, ClosesMeasures DEF Silent

\* A poll of the worker.
LEMMA PollCloses ==
  ASSUME now \in Nat, SourcesOK(source), JobsOK(work), NEW c, NEW k, Minds(d, c, k), Poll
  PROVE  Closes(d', c, k)
<1>1. PICK refreshed \in {d, InputsRefreshed(d, source)} :
        \E dev \in {Serviced(Advanced(refreshed, now), now)} :
          LET ticket == PlanningTicket(refreshed.lc)
          IN  GoesOn(dev, ticket) \/ FindsJoin(dev, ticket) \/ Plans(dev, ticket)
  BY DEF Poll
<1> DEFINE ticket == PlanningTicket(refreshed.lc)
           live == Advanced(refreshed, now)
           dev == Serviced(live, now)
<1>2. GoesOn(dev, ticket) \/ FindsJoin(dev, ticket) \/ Plans(dev, ticket)
  BY <1>1
<1>3. Minds(refreshed, c, k)
  BY <1>1, InputsRefreshedMinds
<1>4. Minds(live, c, k)
  BY <1>3, AdvancedMinds
<1> HIDE DEF live, ticket
<1>5. Minds(dev, c, k)
  BY <1>4, ServicedMinds
<1> HIDE DEF dev
<1>6. CASE GoesOn(dev, ticket)
  <2>1. d' = dev \/ d' = JobBegun(dev, The(ticket)).d
    BY <1>6 DEF GoesOn
  <2>2. Minds(JobBegun(dev, The(ticket)).d, c, k)
    BY <1>5, JobBegunMinds
  <2> QED BY <1>5, <2>1, <2>2, MindsCloses
<1>7. CASE FindsJoin(dev, ticket)
  <2>1. PICK join : d' = SearchDone(dev, join)
    BY <1>7 DEF FindsJoin
  <2> QED BY <1>5, <2>1, SearchDoneCloses
<1>8. CASE Plans(dev, ticket)
  <2>0. PICK job \in Kept(ticket) : \E found \in Findings(job) :
          d' = PlanPublished(Checked(Advanced(dev, now), now), job.inputs, found, now)
    BY <1>8 DEF Plans
  <2>1. PICK found \in Findings(job) :
          d' = PlanPublished(Checked(Advanced(dev, now), now), job.inputs, found, now)
    BY <2>0
  <2> DEFINE a == Advanced(dev, now)
             b == Checked(a, now)
             y == PlanPublished(b, job.inputs, found, now)
  <2>2. d' = y
    BY <2>1
  <2>3. Minds(a, c, k)
    BY <1>5, AdvancedMinds
  <2> HIDE DEF a
  <2>4. Minds(b, c, k)
    BY <2>3, CheckedMinds
  <2> HIDE DEF b
  <2>5. Few(found) /\ \A p \in found : PlanOK(p)
    BY KeptFacts, FindingsFacts
  <2>6. Minds(y, c, k)
    BY <2>4, <2>5, PlanPublishedMinds
  <2> QED BY <2>2, <2>6, MindsCloses
<1> QED BY <1>2, <1>6, <1>7, <1>8

\* A pass of the output task.
LEMMA PassCloses ==
  ASSUME now \in Nat, SourcesOK(source), Fit(d, source, now),
         NEW c, NEW k, k = c.streak, Apt(c, k), Minds(d, c, k), Pass
  PROVE  Closes(d', c, k)
<1> DEFINE live == Advanced(d, now)
           input == ObservedRun(live, now)
<1>1. Taking = Serviced(input, now)
  BY DEF Taking, InputTaken
<1>2. Minds(live, c, k)
  BY AdvancedMinds
<1> HIDE DEF live
<1>3. Minds(input, c, k)
  BY <1>2, ObservedRunMinds
<1> HIDE DEF input
<1>4. Minds(Taking, c, k)
  BY <1>1, <1>3, ServicedMinds
<1>5. Quiet(Taking.lc, now) /\ Taking.applied <= now
  BY TakingMoves DEF Fit, Sound
<1>6. PICK faulty, want :
        \/ d' = TrackingExecuted(OutputServiced(Taking, faulty, now), want, now)
        \/ d' = OutputServiced(Taking, faulty, now)
  BY DEF Pass, PassBegins, PassEnds
<1> DEFINE x == OutputServiced(Taking, faulty, now)
           a == Advanced(x, now)
           b == ObservedRun(a, now)
           s == Serviced(b, now)
           o == ObservedRun(s, now)
           y == Turn(o, want, now)
<1>7. d' = x \/ d' = y
  BY <1>6 DEF TrackingExecuted, Executed
<1>8. Minds(x, c, k)
  BY <1>4, <1>5, OutputServicedMinds
<1> HIDE DEF x
<1>9. Minds(a, c, k)
  BY <1>8, AdvancedMinds
<1> HIDE DEF a
<1>10. Minds(b, c, k)
  BY <1>9, ObservedRunMinds
<1> HIDE DEF b
<1>11. Minds(s, c, k) /\ Quiet(s.lc, now)
  BY <1>10, ServicedMinds
<1> HIDE DEF s
<1>12. Minds(o, c, k) /\ Quiet(o.lc, now)
  BY <1>11, ObservedRunMinds, ObservedRunFacts DEF Leads, Minds, Minded
<1> HIDE DEF o
<1>13. Closes(y, c, k)
  BY <1>12, TurnCloses
<1> QED BY <1>7, <1>8, <1>13, MindsCloses

\* A report on the network, an answer of a time server, or a publication.
LEMMA NewsCloses ==
  ASSUME now \in Nat, SourcesOK(source), Fit(d, source, now), NEW c, NEW k, Minds(d, c, k),
         Network \/ Sync \/ Publish
  PROVE  Closes(d', c, k)
<1>1. CASE Network
  <2>1. PICK ready : d' = NetworkPublished(d, ready, now)
    BY <1>1 DEF Network
  <2>2. Minds(NetworkPublished(d, ready, now), c, k)
    BY NetworkPublishedMinds
  <2> QED BY <2>1, <2>2, MindsCloses
<1>2. CASE Sync
  <2>1. PICK offset \in Offsets :
          d' = ClockPublished(d, {[rev |-> a.rev + 1, at |-> now, offset |-> offset] : a \in d.clock},
                              now)
    BY <1>2 DEF Sync
  <2> DEFINE clock == {[rev |-> a.rev + 1, at |-> now, offset |-> offset] : a \in d.clock}
  <2>2. Few(clock) /\ clock \subseteq Anchor
    <3>1. offset \in Int
      BY TimesAreTyped
    <3>2. Few(d.clock) /\ d.clock \subseteq Anchor
      BY DEF Fit, Sound, DeviceOK
    <3> QED BY <3>1, <3>2 DEF Few, Anchor
  <2>3. d' = ClockPublished(d, clock, now)
    BY <2>1
  <2> HIDE DEF clock
  <2>4. Minds(ClockPublished(d, clock, now), c, k)
    BY <2>2, ClockPublishedMinds
  <2> QED BY <2>3, <2>4, MindsCloses
<1>3. CASE Publish
  <2>1. SourcesOK(source')
    BY <1>3, PublishBecomes
  <2>2. d' = InputsRefreshed(d, source')
    BY <1>3 DEF Publish
  <2>3. Minds(InputsRefreshed(d, source'), c, k)
    BY <2>1, InputsRefreshedMinds
  <2> QED BY <2>2, <2>3, MindsCloses
<1> QED BY <1>1, <1>2, <1>3

\* An operator takes control, gives it up, or presses.
LEMMA OperatorCloses ==
  ASSUME now \in Nat, NEW c, NEW k, Minds(d, c, k), Take \/ Leave \/ Jog
  PROVE  Closes(d', c, k)
<1> DEFINE a == Advanced(d, now)
           y == Serviced(a, now)
<1>1. Minds(a, c, k)
  BY AdvancedMinds
<1>2. CASE Take
  <2>1. d' = [y EXCEPT !.lc = Claimed(@, left["grants"])]
    BY <1>2 DEF Take
  <2> HIDE DEF a
  <2>2. Minds(y, c, k)
    BY <1>1, ServicedMinds
  <2> HIDE DEF y
  <2>3. Minds([y EXCEPT !.lc = Claimed(@, left["grants"])], c, k)
    BY <2>2, GrantMinds
  <2> QED BY <2>1, <2>3, MindsCloses
<1>3. CASE Leave
  <2>1. d' = [y EXCEPT !.lc = Unowned(@)]
    BY <1>3 DEF Leave
  <2> HIDE DEF a
  <2>2. Minds(y, c, k)
    BY <1>1, ServicedMinds
  <2> HIDE DEF y
  <2>3. Minds([y EXCEPT !.lc = Unowned(@)], c, k)
    <3>1. /\ Minds([y EXCEPT !.lc = Claimed(@, 0)], c, k)
          /\ Minds([y EXCEPT !.lc = Unowned(@)], c, k)
      BY <2>2, GrantMinds
    <3> QED BY <3>1
  <2> QED BY <2>1, <2>3, MindsCloses
<1>4. CASE Jog
  <2> DEFINE e == [command |-> [kind |-> "Jog", drive |-> [b \in Axis |-> "up"]],
                   until |-> now + MovementLease,
                   by |-> [run |-> {}, sampled |-> now, launch |-> {}]]
  <2>1. PICK token : d' = RuntimeJogged(y, token, e, now)
    BY <1>4 DEF Jog
  <2>2. EnvelopeOK(e)
    <3>1. now + MovementLease \in Nat
      BY RelayConfigIsValid
    <3> QED BY <3>1, JogIsOK
  <2> HIDE DEF a, e
  <2>3. Minds(y, c, k) /\ Quiet(y.lc, now)
    BY <1>1, ServicedMinds
  <2> HIDE DEF y
  <2> QED BY <2>1, <2>2, <2>3, RuntimeJoggedCloses
<1> QED BY <1>2, <1>3, <1>4

\* A request arrives.
LEMMA DeliverCloses ==
  ASSUME now \in Nat, RequestsOK, NEW c, NEW k, Minds(d, c, k), Deliver
  PROVE  Closes(d', c, k)
<1> DEFINE m == Head(wire)
           q == m.intent
           live == Advanced(d, now)
           x == Checked(live, now)
           done == RuntimeRequested(x, q, now)
<1>1. wire # <<>> /\ (d' = done.d \/ d' = live)
  BY DEF Deliver, Answered
<1>2. m \in Carried(wire) /\ q \in {a.intent : a \in asked}
  BY <1>1, TailCarries, WireShrinks DEF RequestsOK
<1>3. RequestOK(q)
  BY <1>2 DEF RequestsOK
<1>4. Minds(live, c, k)
  BY AdvancedMinds
<1> HIDE DEF live
<1>5. Minds(x, c, k)
  BY <1>4, CheckedMinds
<1> HIDE DEF x
<1>6. Minds(done.d, c, k)
  BY <1>3, <1>5, RuntimeRequestedMinds
<1> HIDE DEF done
<1> QED BY <1>1, <1>4, <1>6, MindsCloses

\* The feedback task publishes a sample, good or not.
LEMMA FeedbackMeasures ==
  ASSUME IInv, MeasuresOK, LaunchesOK, Feedback
  PROVE  MeasuresOK' /\ Measured
<1>0. now \in Nat
  BY InvariantFacts
<1>1. PICK pose \in 0 .. 1, error \in Errors \cup {"good"} :
        LET s == [at |-> now, pose |-> pose, error |-> error]
        IN  /\ d' = FeedbackPublished(d, TRUE, {s}, now)
            /\ streak' = IF error = "good" THEN Since(streak, now) ELSE {}
            /\ now' = now
  BY DEF Feedback
<1> DEFINE s == [at |-> now, pose |-> pose, error |-> error]
           valid == TRUE
           k == IF error = "good" THEN Since(streak, now) ELSE {}
<1>2. d' = FeedbackPublished(d, valid, {s}, now) /\ streak' = k /\ now' = now
  BY <1>1
<1>3. s.at = now /\ s.error = error
  OBVIOUS
<1>4. streak \subseteq 0 .. now
  BY DEF MeasuresOK, Measures
<1>5. k \subseteq 0 .. now
  BY <1>0, <1>4 DEF Since
<1>6. error = "good" => streak \subseteq k /\ \E u \in k : u <= now
  BY <1>0, <1>4 DEF Since
<1> HIDE DEF s, k, valid
<1> DEFINE c == Hearing(valid, {s}, k)
<1>7. c.healthy = valid /\ c.sample = {s} /\ c.streak = k
  BY DEF Hearing
<1>8. Heard(c, streak)
  BY <1>0, <1>3, <1>6, <1>7 DEF Heard
<1>9. k \subseteq Int
  BY <1>5
<1>a. Hearing(valid, {s}, k) = c
  OBVIOUS
<1> HIDE DEF c
<1>10. /\ Apt(c, streak)
       /\ DeviceOK(d) /\ Formed(d.exec) /\ DwellsOK(d, streak) /\ InStep(d)
       /\ Traced(d.exec, c) /\ Home(d.lc, c)
       /\ c.routes = Routes
       /\ c.over <=> (d.lc.phase = "Reacquiring" => Proved(c))
  BY <1>a, <1>7, <1>8, <1>9, HearingFacts
<1>11. Minds(d', c, k)
  <2>1. Few(c.sample)
    BY <1>7 DEF Few
  <2>2. Minds(FeedbackPublished(d, c.healthy, c.sample, now), c, c.streak)
    BY <1>0, <1>10, <2>1, FeedbackPublishedMinds
  <2> QED BY <1>2, <1>7, <2>2
<1>12. StreakOK(d', k)
  BY <1>0, <1>3, <1>6, <1>7, <1>11 DEF StreakOK, Minds, Minded
<1> QED BY <1>2, <1>5, <1>7, <1>10, <1>11, <1>12, MindsCloses, ClosesMeasures

\* Its reading fails.
LEMMA FailureMeasures ==
  ASSUME IInv, MeasuresOK, LaunchesOK, FeedbackFails
  PROVE  MeasuresOK' /\ Measured
<1>0. now \in Nat
  BY InvariantFacts
<1> DEFINE valid == FALSE
<1>1. d' = FeedbackPublished(d, valid, d.sample, now) /\ streak' = {} /\ now' = now /\ ~valid
  BY DEF FeedbackFails
<1> HIDE DEF valid
<1> DEFINE c == Hearing(valid, d.sample, {})
<1>2. c.healthy = valid /\ c.sample = d.sample /\ c.streak = {}
  BY DEF Hearing
<1>3. Few(d.sample) /\ \A s \in d.sample : s.at \in Int
  BY DEF IInv, Sound, DeviceOK, MeasuresOK, Measures, StreakOK
<1>4. Heard(c, streak)
  BY <1>1, <1>2, <1>3 DEF Heard
<1> HIDE DEF c
<1>5. /\ Apt(c, streak)
      /\ DeviceOK(d) /\ Formed(d.exec) /\ DwellsOK(d, streak) /\ InStep(d)
      /\ Traced(d.exec, c) /\ Home(d.lc, c)
      /\ c.routes = Routes
      /\ c.over <=> (d.lc.phase = "Reacquiring" => Proved(c))
  BY <1>4, HearingFacts DEF c
<1>6. Minds(d', c, {})
  <2>1. Minds(FeedbackPublished(d, c.healthy, c.sample, now), c, c.streak)
    BY <1>0, <1>2, <1>3, <1>5, FeedbackPublishedMinds
  <2> QED BY <1>1, <1>2, <2>1
<1>7. StreakOK(d', {})
  BY <1>1, <1>2, <1>3, <1>6 DEF StreakOK, Minds, Minded
<1> QED BY <1>1, <1>2, <1>5, <1>6, <1>7, MindsCloses, ClosesMeasures

\* Time passes, or a request is sent.
LEMMA StillMeasures ==
  ASSUME IInv, MeasuresOK, d' = d, streak' = streak, now' \in {now, now + 1}
  PROVE  MeasuresOK' /\ Measured
<1>1. now \in Nat
  BY InvariantFacts
<1>2. 0 .. now \subseteq 0 .. now'
  BY <1>1
<1>3. Measures(d', streak', now')
  BY <1>2 DEF MeasuresOK, Measures
<1> QED BY <1>3 DEF MeasuresOK, Measured

\* Every step keeps what is measured, and ends no episode on less.
LEMMA NextMeasures ==
  ASSUME IInv, MeasuresOK, LaunchesOK, Next
  PROVE  MeasuresOK' /\ Measured
<1> DEFINE c == Hearing(d.healthy, d.sample, streak)
<1>1. now \in Nat /\ SourcesOK(source) /\ Fit(d, source, now) /\ JobsOK(work) /\ RequestsOK
  BY InvariantFacts
<1>2. Silent(c)
  BY SilentFacts
<1> HIDE DEF c
<1>3. Apt(c, streak) /\ c.streak = streak /\ Minds(d, c, streak)
  BY <1>2 DEF Silent
<1>4. CASE Feedback \/ FeedbackFails
  BY <1>4, FeedbackMeasures, FailureMeasures
<1>5. CASE Ticks \/ Send \/ Resend
  <2>1. d' = d /\ streak' = streak /\ now' \in {now, now + 1}
    BY <1>5 DEF Ticks, Send, Resend, NoteOnly
  <2> QED BY <2>1, StillMeasures
<1>6. CASE Poll \/ Pass \/ Network \/ Sync \/ Publish \/ Take \/ Leave \/ Jog \/ Deliver
  <2>1. streak' = streak /\ now' = now
    <3>1. CASE Poll \/ Pass
      BY <3>1 DEF Poll, Pass, PassBegins, PassEnds, NoteOnly
    <3>2. CASE Network \/ Sync \/ Publish
      BY <3>2 DEF Network, Sync, Publish, NoteOnly
    <3>3. CASE Take \/ Leave \/ Jog \/ Deliver
      BY <3>3 DEF Take, Leave, Jog, Deliver, NoteOnly
    <3> QED BY <1>6, <3>1, <3>2, <3>3
  <2>2. Closes(d', c, streak)
    BY <1>1, <1>3, <1>6, PollCloses, PassCloses, NewsCloses, OperatorCloses, DeliverCloses
  <2> QED BY <1>2, <2>1, <2>2, SilentMeasures
<1> QED BY <1>4, <1>5, <1>6 DEF Next, Environment, Browser

\* A run that dwells near its route has done so since an instant from which
\* every sample was good, none of them from before the pass, and only while its
\* pass is under way (runtime.rs observe_tracking and sync_execution).
THEOREM MeasureInvariant == Spec => []MeasuresOK
<1>1. Init => MeasuresOK
  BY BootsAreMeasured DEF Init, MeasuresOK
<1>2. IInv /\ LaunchesOK /\ MeasuresOK /\ [Next]_vars => MeasuresOK'
  <2>1. ASSUME MeasuresOK, UNCHANGED vars PROVE MeasuresOK'
    BY <2>1 DEF vars, hist, MeasuresOK
  <2> QED BY <2>1, NextMeasures
<1> QED BY <1>1, <1>2, Invariance, LaunchInvariant, PTL DEF Spec

\* An episode ends on the route only when every sample of a whole dwell after
\* the predicted join was near it (runtime.rs observe_tracking, deviation.rs).
THEOREM RecoveriesAreMeasured == Spec => RecoveryIsMeasured
<1> DEFINE Ends == d.lc.phase = "Reacquiring" /\ d'.lc.phase = "Following"
           Proves == \A s \in d'.sample, r \in UNION {e.rec : e \in d.exec} :
                       /\ \E t \in streak' : s.at >= t + RecoveryDwell
                       /\ \E i \in r.intercept : s.at >= i.join + RecoveryDwell
<1>1. ASSUME IInv, LaunchesOK, MeasuresOK, Next PROVE Ends => Proves
  BY <1>1, NextMeasures DEF Measured
<1>2. ASSUME UNCHANGED vars PROVE ~Ends
  BY <1>2 DEF vars
<1>3. IInv /\ LaunchesOK /\ MeasuresOK /\ [Next]_vars => [Ends => Proves]_vars
  BY <1>1, <1>2
<1> QED BY <1>3, Invariance, LaunchInvariant, MeasureInvariant, PTL DEF Spec, RecoveryIsMeasured
=============================================================================
