--------------------------- MODULE TrackingProofs ---------------------------
(***************************************************************************)
(* What Tracking promises, for any passes, forecasts and publications, any *)
(* clock samples, any valid timing, and any order and lateness of tasks,   *)
(* requests and outages.                                                   *)
(*                                                                         *)
(* IInv is the inductive invariant.  A step of the device is a chain of    *)
(* policy transitions at one instant, so the proof goes operation by       *)
(* operation: each of them Leads from a good device to a good one, and     *)
(* what Leads says of a run survives any chain of them.  Two things make   *)
(* that so: after a tick nothing more is due at its instant (Quiet), and   *)
(* a run that is back on its route cannot leave it again before another    *)
(* sample has arrived (Firm).                                              *)
(*                                                                         *)
(* What an operator saw is told apart by the revision alone: no transition *)
(* changes what is seen without moving it (Tells, Shows), so a request     *)
(* knows whether it is still about what it was made from (ViewsOK).        *)
(***************************************************************************)
EXTENDS TrackingInvariant, RelayProofs, FiniteSetTheorems

\* A run whose AOS has come although it is not ready.
Late(lc, t) == lc.phase = "Preparing" /\ t >= PassOf(lc).aos

\* What no operation but a request and a refresh touches.
Untouched(lc, u) ==
  Originals(u) = Originals(lc) /\ u.revs = lc.revs /\ u.receipt = lc.receipt

\* What becomes of the policy lc at the instant t without a request or a result.
Runs(lc, u, t) ==
  /\ Quiet(lc, t) => Quiet(u, t)
  /\ Untouched(lc, u)
  /\ u.mode = "Manual" => u.plan = {} \/ (lc.mode = "Manual" /\ u.plan = lc.plan)
  /\ u.mode = "Tracking" =>
       /\ lc.mode = "Tracking"
       /\ lc.run # {} => u.run = lc.run /\ u.plan = lc.plan
       /\ lc.recovery # {} => u.recovery = lc.recovery
       /\ lc.recovery = {} => \A r \in u.recovery : r.deadline <= t + RecoveryLimit
       /\ Late(lc, t) => \/ Late(u, t)
                         \/ /\ u.recovery # {}
                            /\ \A r \in u.recovery : r.deadline <= PassOf(lc).aos + RecoveryLimit
       /\ (lc.phase = "Following" /\ Quiet(lc, t)) => u.phase = "Following"

\* The same without an episode's beginning.
Prepares(lc, u, t) == Runs(lc, u, t) /\ (u.run = {} \/ u.recovery = lc.recovery)

-----------------------------------------------------------------------------
(* Operations of the policy.                                               *)

\* A queued stop is not replaced, and what is queued stays well formed.
LEMMA SubmittedFacts ==
  ASSUME NEW box, Few(box), \A e \in box : EnvelopeOK(e), NEW e, EnvelopeOK(e)
  PROVE  Few(Submitted(box, e)) /\ \A f \in Submitted(box, e) : EnvelopeOK(f)
  BY DEF Submitted, Few

\* A stop is a well-formed envelope (mailbox.rs).
LEMMA StopIsOK == EnvelopeOK(Stop)
  BY CommandTypes DEF EnvelopeOK, Stop, Command, Inhibition

\* Inhibiting the output changes nothing else.
LEMMA InhibitedFacts ==
  ASSUME NEW lc, PolicyOK(lc)
  PROVE  LET u == Inhibited(lc)
         IN  /\ PolicyOK(u)
             /\ \A f \in PolicyFields \ {"box"} : u[f] = lc[f]
<1> DEFINE b == Submitted(lc.box, Stop)
           u == [lc EXCEPT !.box = b]
<1>1. Few(b) /\ \A e \in b : EnvelopeOK(e)
  BY SubmittedFacts, StopIsOK DEF PolicyOK
<1>2. Inhibited(lc) = u
  BY DEF Inhibited
<1> HIDE DEF b
<1>3. Has(u, PolicyFields) /\ u.box = b
  BY DEF PolicyOK, Has, PolicyFields
<1>4. \A f \in PolicyFields \ {"box"} : u[f] = lc[f]
  BY DEF PolicyOK, Has, PolicyFields
<1> HIDE DEF u
<1>5. PolicyOK(u)
  BY <1>1, <1>3, <1>4 DEF PolicyOK, InPhase, PolicyFields
<1> QED BY <1>2, <1>4, <1>5

\* Of any stop: the policy is in Manual mode and holds nothing of the run.
Ended(u) == u.mode = "Manual" /\ u.run = {} /\ u.plan = {}

\* A pass that has ended has nothing due.
LEMMA EndedIsQuiet ==
  ASSUME NEW lc, NEW u, PolicyOK(u), Ended(u), Untouched(lc, u), NEW t
  PROVE  Quiet(u, t) /\ Runs(lc, u, t)
  BY DEF Quiet, Runs, Ended, PolicyOK, InPhase

\* What stopping a pass leaves (lifecycle.rs stop).
LEMMA StoppedFacts ==
  ASSUME NEW lc, PolicyOK(lc), NEW reason
  PROVE  LET u == Stopped(lc, reason)
         IN  /\ PolicyOK(u) /\ Ended(u) /\ Untouched(lc, u)
             /\ u.revision = lc.revision /\ u.serial = lc.serial /\ u.token = lc.token
             /\ u.ticket = {} /\ u.status = "Unplanned"
<1> DEFINE over == {[event |-> {s.id : s \in lc.selection}, run |-> lc.run, reason |-> reason]}
           last == TerminalPhase(reason)
           s == [lc EXCEPT
                  !.ended = over, !.mode = "Manual", !.phase = last,
                  !.run = {}, !.recovery = {}, !.handled = FALSE, !.armedBy = {},
                  !.ticket = {}, !.plan = {}, !.status = "Unplanned", !.timing = "Scheduled"]
<1>1. Stopped(lc, reason) = Inhibited(s)
  BY DEF Stopped
<1>2. last \in {"Idle", "Complete", "Cancelled", "Stopped"}
  BY DEF TerminalPhase
<1> HIDE DEF last, over
<1>3. /\ Has(s, PolicyFields)
      /\ s.mode = "Manual" /\ s.phase = last /\ s.run = {} /\ s.recovery = {} /\ s.armedBy = {}
      /\ s.ticket = {} /\ s.plan = {} /\ s.status = "Unplanned"
      /\ \A f \in {"token", "selection", "revs", "receipt", "box", "revision", "serial"} :
           s[f] = lc[f]
  BY Zenon DEF PolicyOK, Has, PolicyFields
<1> HIDE DEF s
<1>4. PolicyOK(s)
  BY <1>2, <1>3 DEF PolicyOK, InPhase, Few
<1>5. LET u == Inhibited(s)
      IN  /\ PolicyOK(u)
          /\ \A f \in PolicyFields \ {"box"} : u[f] = s[f]
  BY <1>4, InhibitedFacts
<1> QED BY <1>1, <1>3, <1>5 DEF Ended, Untouched, Originals, PolicyFields

\* A change of nothing but the revision, the last serial and the rest of what
\* no property speaks about.
LEMMA BumpedFacts ==
  ASSUME NEW lc, PolicyOK(lc)
  PROVE  /\ PolicyOK(Bumped(lc)) /\ PolicyOK(Numbered(lc)) /\ PolicyOK(Bumped(Numbered(lc)))
         /\ \A f \in PolicyFields \ {"revision"} : Bumped(lc)[f] = lc[f]
         /\ \A f \in PolicyFields \ {"serial"} : Numbered(lc)[f] = lc[f]
         /\ \A f \in PolicyFields \ {"revision", "serial"} : Bumped(Numbered(lc))[f] = lc[f]
         /\ Bumped(Numbered(lc)).serial \in Nat
<1>1. ASSUME NEW x, PolicyOK(x)
      PROVE  PolicyOK(Bumped(x)) /\ \A f \in PolicyFields \ {"revision"} : Bumped(x)[f] = x[f]
  <2> DEFINE n == x.revision + 1
             u == [x EXCEPT !.revision = n]
  <2>1. Bumped(x) = u
    BY DEF Bumped
  <2> HIDE DEF n
  <2>2. Has(u, PolicyFields) /\ \A f \in PolicyFields \ {"revision"} : u[f] = x[f]
    BY <1>1 DEF PolicyOK, Has, PolicyFields
  <2> HIDE DEF u
  <2>3. PolicyOK(u)
    BY <1>1, <2>2 DEF PolicyOK, InPhase, PolicyFields
  <2> QED BY <2>1, <2>2, <2>3
<1>2. PolicyOK(Numbered(lc)) /\ \A f \in PolicyFields \ {"serial"} : Numbered(lc)[f] = lc[f]
  <2> DEFINE n == lc.serial + 1
             u == [lc EXCEPT !.serial = n]
  <2>1. Numbered(lc) = u
    BY DEF Numbered
  <2>4. n \in Nat
    BY DEF PolicyOK
  <2> HIDE DEF n
  <2>2. Has(u, PolicyFields) /\ u.serial = n /\ \A f \in PolicyFields \ {"serial"} : u[f] = lc[f]
    BY DEF PolicyOK, Has, PolicyFields
  <2> HIDE DEF u
  <2>3. PolicyOK(u)
    BY <2>2, <2>4 DEF PolicyOK, InPhase, PolicyFields
  <2> QED BY <2>1, <2>2, <2>3
<1>3. PolicyOK(Bumped(lc)) /\ \A f \in PolicyFields \ {"revision"} : Bumped(lc)[f] = lc[f]
  BY <1>1
<1> DEFINE w == Numbered(lc)
<1> HIDE DEF w
<1>4. PolicyOK(Bumped(w)) /\ \A f \in PolicyFields \ {"revision"} : Bumped(w)[f] = w[f]
  BY <1>1, <1>2 DEF w
<1>5. Bumped(w).serial \in Nat
  BY <1>4 DEF PolicyOK
<1>6. \A f \in PolicyFields \ {"revision", "serial"} : Bumped(w)[f] = lc[f]
  BY <1>2, <1>4 DEF w
<1> QED BY <1>2, <1>3, <1>4, <1>5, <1>6 DEF w

\* Interrupting a pass ends it, whatever the reason (lifecycle.rs interrupt).
LEMMA InterruptedFacts ==
  ASSUME NEW lc, PolicyOK(lc), NEW reason
  PROVE  LET u == Interrupted(lc, reason)
         IN  /\ PolicyOK(u) /\ Ended(u) /\ Untouched(lc, u) /\ u.token = lc.token
             /\ u.ticket = {} /\ u.status = "Unplanned"
<1> DEFINE w == Bumped(lc)
<1>1. PolicyOK(w) /\ Untouched(lc, w) /\ w.token = lc.token
  BY BumpedFacts DEF Untouched, Originals, PolicyFields
<1> HIDE DEF w
<1>2. LET u == Stopped(w, reason)
      IN  /\ PolicyOK(u) /\ Ended(u) /\ Untouched(w, u) /\ u.token = w.token
          /\ u.ticket = {} /\ u.status = "Unplanned"
  BY <1>1, StoppedFacts
<1> QED BY <1>1, <1>2 DEF w, Untouched, Originals, Interrupted

-----------------------------------------------------------------------------
(* Plans of the policy.                                                    *)

\* Of a set of at most one, The is its element.
LEMMA TheFacts ==
  ASSUME NEW S, S # {}, Few(S)
  PROVE  LET x == CHOOSE x \in S : TRUE IN x \in S /\ S = {x}
  BY DEF Few

\* A plan can be armed until an instant.
LEMMA PlanDeadlineFacts ==
  ASSUME NEW p, PlanOK(p)
  PROVE  PlanDeadline(p) \in Int
<1>1. CASE LateGap(p) = {}
  BY <1>1 DEF PlanOK, PlanDeadline
<1>2. CASE LateGap(p) # {}
  <2> DEFINE g == CHOOSE g \in LateGap(p) : TRUE
  <2>1. g \in p.gap
    BY <1>2 DEF LateGap
  <2> HIDE DEF g
  <2>2. g.recoveryAt + 1 \in Int
    BY <2>1 DEF PlanOK
  <2> QED BY <1>2, <2>2 DEF PlanDeadline, g
<1> QED BY <1>1, <1>2

\* An accepted plan is well formed, and so is its window.
LEMMA ThePlanFacts ==
  ASSUME NEW lc, PolicyOK(lc), lc.plan # {}
  PROVE  /\ Theplan(lc) \in lc.plan /\ lc.plan = {Theplan(lc)}
         /\ PlanOK(Theplan(lc)) /\ ValidPlan(Theplan(lc))
         /\ PassOf(lc) = Theplan(lc).inputs.window
         /\ PassOf(lc).aos \in Int /\ PassOf(lc).los \in Int
<1>1. Theplan(lc) \in lc.plan /\ lc.plan = {Theplan(lc)}
  BY TheFacts DEF PolicyOK, Theplan
<1>2. PlanOK(Theplan(lc)) /\ ValidPlan(Theplan(lc))
  BY <1>1 DEF PolicyOK
<1> QED BY <1>1, <1>2 DEF PlanOK, PassOf

\* A policy without a run may lose its plan, get another job or none.
LEMMA PlanDropped ==
  ASSUME NEW lc, PolicyOK(lc), lc.run = {}, NEW u, Has(u, PolicyFields),
         \A f \in PolicyFields \ {"revision", "serial", "timing", "plan", "ticket", "status"} :
           u[f] = lc[f],
         u.serial \in Nat, u.plan = {}, Few(u.ticket), \A k \in u.ticket : k.pass \in Event,
         NEW t
  PROVE  PolicyOK(u) /\ Runs(lc, u, t) /\ u.mode = lc.mode /\ u.run = {}
<1>1. /\ u.mode = lc.mode /\ u.phase = lc.phase /\ u.run = {} /\ u.recovery = lc.recovery
      /\ u.armedBy = lc.armedBy /\ u.box = lc.box /\ u.token = lc.token
      /\ u.selection = lc.selection /\ u.revs = lc.revs /\ u.receipt = lc.receipt
  BY DEF PolicyFields
<1>2. PolicyOK(u)
  BY <1>1 DEF PolicyOK, InPhase, Few
<1>3. lc.recovery = {} /\ lc.phase \notin {"Preparing", "Following"}
  BY DEF PolicyOK, InPhase
<1>4. Quiet(lc, t) => Quiet(u, t)
  BY <1>1 DEF Quiet
<1>5. Runs(lc, u, t)
  BY <1>1, <1>3, <1>4 DEF Runs, Untouched, Originals, Late
<1> QED BY <1>1, <1>2, <1>5

\* What was planned before a run can be dropped (lifecycle.rs invalidate_inputs).
LEMMA InvalidatedFacts ==
  ASSUME NEW lc, PolicyOK(lc), lc.run = {}, NEW t
  PROVE  LET u == Invalidated(lc)
         IN  PolicyOK(u) /\ Runs(lc, u, t) /\ u.mode = lc.mode /\ u.run = {} /\ u.plan = {}
<1> DEFINE w == Bumped(lc)
           u == [w EXCEPT !.plan = {}, !.ticket = {}, !.status = "Inputs"]
<1>1. PolicyOK(w) /\ \A f \in PolicyFields \ {"revision"} : w[f] = lc[f]
  BY BumpedFacts
<1>2. Invalidated(lc) = u
  BY DEF Invalidated
<1> HIDE DEF w
<1>3. /\ Has(u, PolicyFields) /\ u.plan = {} /\ u.ticket = {}
      /\ \A f \in PolicyFields \ {"plan", "ticket", "status"} : u[f] = w[f]
  BY <1>1, Zenon DEF PolicyOK, Has, PolicyFields
<1>4. u.serial \in Nat
  BY <1>1, <1>3 DEF PolicyOK, PolicyFields
<1> HIDE DEF u
<1>5. \A f \in PolicyFields \ {"revision", "serial", "timing", "plan", "ticket", "status"} :
        u[f] = lc[f]
  BY <1>1, <1>3
<1>6. PolicyOK(u) /\ Runs(lc, u, t) /\ u.mode = lc.mode /\ u.run = {}
  BY <1>3, <1>4, <1>5, PlanDropped DEF Few
<1> QED BY <1>2, <1>3, <1>6

\* A job is for the selected event, as the newest forecast has it.
Current(lc) == \E s \in lc.selection : s.current # {}

\* A new planning job drops the old plan (lifecycle.rs start_job).
LEMMA JobStartedFacts ==
  ASSUME NEW lc, PolicyOK(lc), lc.run = {}, Current(lc), NEW t
  PROVE  LET u == JobStarted(lc)
         IN  PolicyOK(u) /\ Runs(lc, u, t) /\ u.mode = lc.mode /\ u.run = {} /\ u.plan = {}
<1> DEFINE w == Bumped(Numbered(lc))
           event == CHOOSE e \in UNION {s.current : s \in lc.selection} : TRUE
           revs == CHOOSE r \in lc.revs : TRUE
           k == {[serial |-> w.serial, pass |-> event, revs |-> revs, timing |-> lc.timing]}
           u == [w EXCEPT !.ticket = k, !.plan = {}, !.status = "Planning"]
<1>1. /\ PolicyOK(w) /\ w.serial \in Nat
      /\ \A f \in PolicyFields \ {"revision", "serial"} : w[f] = lc[f]
  BY BumpedFacts
<1>2. event \in Event
  BY DEF Current, PolicyOK, Selection
<1>3. JobStarted(lc) = u
  BY DEF JobStarted
<1>4. Few(k) /\ \A x \in k : x.pass \in Event
  BY <1>2 DEF Few
<1> HIDE DEF w, k
<1>5. /\ Has(u, PolicyFields) /\ u.plan = {} /\ u.ticket = k
      /\ \A f \in PolicyFields \ {"plan", "ticket", "status"} : u[f] = w[f]
  BY <1>1, Zenon DEF PolicyOK, Has, PolicyFields
<1>6. u.serial \in Nat
  BY <1>1, <1>5 DEF PolicyFields
<1> HIDE DEF u
<1>7. \A f \in PolicyFields \ {"revision", "serial", "timing", "plan", "ticket", "status"} :
        u[f] = lc[f]
  BY <1>1, <1>5
<1>8. PolicyOK(u) /\ Runs(lc, u, t) /\ u.mode = lc.mode /\ u.run = {}
  BY <1>4, <1>5, <1>6, <1>7, PlanDropped
<1> QED BY <1>3, <1>5, <1>8

-----------------------------------------------------------------------------
(* Requests.                                                               *)

\* What a selection leaves: the new event alone, and the revisions that do not
\* belong to a satellite.
Selects(lc, u, event) ==
  /\ Ended(u) /\ u.receipt = lc.receipt
  /\ Originals(u) = {event}
  /\ u.revs = {[r EXCEPT !.orbit = 0] : r \in lc.revs}

\* What arming leaves: the accepted plan, and a Manual policy's word that it
\* will begin.
Arms(lc, u) ==
  /\ lc.mode = "Manual" /\ u.mode = "Tracking" /\ Untouched(lc, u)
  /\ u.run = {} /\ u.recovery = {} /\ u.phase = "Armed"
  /\ lc.plan # {} /\ u.plan = lc.plan

\* Selecting ends what there was and starts over (lifecycle.rs apply, Select).
LEMMA SelectedFacts ==
  ASSUME NEW lc, PolicyOK(lc), NEW event \in Event
  PROVE  PolicyOK(Selected(lc, event)) /\ Selects(lc, Selected(lc, event), event)
<1> DEFINE w == Bumped(Numbered(lc))
           x == Stopped(w, "Replaced")
           over == IF lc.mode = "Tracking" THEN x.ended ELSE lc.ended
           selection == {[id |-> w.serial, original |-> event, current |-> {event}]}
           revs == {[r EXCEPT !.orbit = 0] : r \in x.revs}
           u == [x EXCEPT !.ended = over, !.selection = selection, !.revs = revs]
<1>1. /\ PolicyOK(w) /\ w.serial \in Nat
      /\ \A f \in PolicyFields \ {"revision", "serial"} : w[f] = lc[f]
  BY BumpedFacts
<1>2. Selected(lc, event) = u
  BY DEF Selected
<1>3. /\ \A s \in selection : s \in Selection
      /\ {s.original : s \in selection} = {event}
  BY <1>1 DEF Selection
<1> HIDE DEF w
<1>4. PolicyOK(x) /\ Ended(x) /\ Untouched(w, x)
  BY <1>1, StoppedFacts
<1>5. \A r \in revs : r \in Revision
  BY <1>4 DEF PolicyOK, Revision
<1>6. revs = {[r EXCEPT !.orbit = 0] : r \in lc.revs}
  BY <1>1, <1>4 DEF Untouched, Originals, PolicyFields
<1>7. Few(selection)
  BY DEF Few
<1> HIDE DEF x, over, selection, revs
<1>8. /\ Has(u, PolicyFields) /\ u.selection = selection /\ u.revs = revs
      /\ \A f \in PolicyFields \ {"ended", "selection", "revs"} : u[f] = x[f]
  BY <1>4, Zenon DEF PolicyOK, Has, PolicyFields
<1> HIDE DEF u
<1>9. PolicyOK(u) /\ Ended(u)
  BY <1>3, <1>4, <1>5, <1>7, <1>8 DEF PolicyOK, InPhase, Ended, PolicyFields
<1>10. u.receipt = lc.receipt
  BY <1>1, <1>4, <1>8 DEF Untouched, Originals, PolicyFields
<1> QED BY <1>2, <1>3, <1>6, <1>8, <1>9, <1>10 DEF Selects, Originals

\* Arming takes the plan as it is, or refuses (lifecycle.rs apply, Arm).
LEMMA ArmedFacts ==
  ASSUME NEW lc, PolicyOK(lc), NEW t
  PROVE  LET a == Armed(lc, t)
         IN  /\ PolicyOK(a.lc)
             /\ a.lc = lc \/ Arms(lc, a.lc)
             /\ a.error # "none" => a.lc = lc
<1>1. CASE lc.mode # "Manual" \/ ~Armable(lc, t)
  BY <1>1 DEF Armed, Refused
<1>2. CASE lc.mode = "Manual" /\ Armable(lc, t)
  <2> DEFINE w == Bumped(lc)
             due == PlanDeadline(Theplan(lc))
             x == [w EXCEPT !.mode = "Tracking", !.phase = "Armed", !.armedBy = {due}]
             u == Inhibited(x)
  <2>1. PolicyOK(w) /\ \A f \in PolicyFields \ {"revision"} : w[f] = lc[f]
    BY BumpedFacts
  <2>2. lc.plan # {} /\ due \in Int
    BY <1>2, ThePlanFacts, PlanDeadlineFacts DEF Armable
  <2>3. Armed(lc, t) = [lc |-> u, error |-> "none"]
    BY <1>2 DEF Armed, Done
  <2> HIDE DEF w, due
  <2>4. /\ Has(x, PolicyFields)
        /\ x.mode = "Tracking" /\ x.phase = "Armed" /\ x.armedBy = {due}
        /\ \A f \in PolicyFields \ {"mode", "phase", "armedBy"} : x[f] = w[f]
    BY <2>1, Zenon DEF PolicyOK, Has, PolicyFields
  <2>5. w.run = {} /\ w.recovery = {}
    BY <1>2, <2>1 DEF PolicyOK, InPhase, PolicyFields
  <2> HIDE DEF x
  <2>6. PolicyOK(x)
    BY <2>1, <2>2, <2>4, <2>5 DEF PolicyOK, InPhase, PolicyFields
  <2>7. PolicyOK(u) /\ \A f \in PolicyFields \ {"box"} : u[f] = x[f]
    BY <2>6, InhibitedFacts
  <2> HIDE DEF u
  <2>8. Arms(lc, u)
    BY <1>2, <2>1, <2>2, <2>4, <2>5, <2>7 DEF Arms, Untouched, Originals, PolicyFields
  <2> QED BY <2>3, <2>7, <2>8
<1> QED BY <1>1, <1>2

\* Preparing now replans an armed pass, or is refused (lifecycle.rs apply, PrepareNow).
LEMMA PreparedNowFacts ==
  ASSUME NEW lc, PolicyOK(lc), NEW t
  PROVE  LET a == PreparedNow(lc)
         IN  /\ PolicyOK(a.lc) /\ Runs(lc, a.lc, t) /\ a.lc.mode = lc.mode
             /\ a.lc.run = {} \/ a.lc = lc
             /\ a.error # "none" => a.lc = lc
<1>1. CASE lc.phase # "Armed" \/ \A s \in lc.selection : s.current = {}
  <2>1. PreparedNow(lc) = [lc |-> lc, error |-> "NotReady"]
    BY <1>1 DEF PreparedNow, Refused
  <2>2. Runs(lc, lc, t)
    BY DEF Runs, Untouched, Originals, PolicyOK, InPhase
  <2> QED BY <2>1, <2>2
<1>2. CASE lc.phase = "Armed" /\ Current(lc)
  <2> DEFINE w == [lc EXCEPT !.timing = "Immediate"]
             u == JobStarted(w)
  <2>1. PreparedNow(lc) = [lc |-> u, error |-> "none"]
    BY <1>2 DEF PreparedNow, Done, Current
  <2>2. Has(w, PolicyFields) /\ \A f \in PolicyFields \ {"timing"} : w[f] = lc[f]
    BY DEF PolicyOK, Has, PolicyFields
  <2> HIDE DEF w
  <2>3. lc.run = {}
    BY <1>2 DEF PolicyOK, InPhase
  <2>4. PolicyOK(w) /\ w.run = {} /\ Current(w)
    BY <1>2, <2>2, <2>3 DEF PolicyOK, InPhase, Current, PolicyFields
  <2>5. PolicyOK(u) /\ Runs(w, u, t) /\ u.mode = w.mode /\ u.run = {} /\ u.plan = {}
    BY <2>4, JobStartedFacts
  <2> HIDE DEF u
  <2>6. Quiet(lc, t) => Quiet(w, t)
    BY <2>2, <2>3 DEF Quiet, PolicyFields
  <2>7. Runs(lc, u, t)
    BY <2>2, <2>3, <2>5, <2>6, <1>2 DEF Runs, Untouched, Originals, Late, PolicyOK, InPhase, PolicyFields
  <2> QED BY <2>1, <2>2, <2>3, <2>5, <2>7 DEF PolicyFields
<1> QED BY <1>1, <1>2 DEF Current

\* What a request that was applied makes of the policy.
Outcome(lc, u, q, t) ==
  \/ Prepares(lc, u, t)
  \/ q.action = "Select" /\ Selects(lc, u, q.event)
  \/ q.action = "Arm" /\ Arms(lc, u)

\* Doing nothing is one of the things that may happen to a policy.
LEMMA RunsStill ==
  ASSUME NEW lc, PolicyOK(lc), NEW t
  PROVE  Runs(lc, lc, t)
  BY DEF Runs, Untouched, Originals, PolicyOK, InPhase

\* What any request makes of the policy (lifecycle.rs apply).
LEMMA AppliedFacts ==
  ASSUME NEW lc, PolicyOK(lc), NEW q, RequestOK(q), NEW t
  PROVE  LET a == Applied(lc, q, t)
         IN  /\ PolicyOK(a.lc) /\ Outcome(lc, a.lc, q, t)
             /\ a.error # "none" => a.lc = lc
<1>1. CASE q.action \notin {"Cancel", "Manual"} /\ q.expected # lc.revision
  <2>1. Applied(lc, q, t) = [lc |-> lc, error |-> "StateRevision"]
    BY <1>1 DEF Applied, Refused
  <2> QED BY <2>1, RunsStill DEF Outcome, Prepares
<1>2. ASSUME ~(q.action \notin {"Cancel", "Manual"} /\ q.expected # lc.revision),
             NEW reason, Applied(lc, q, t) = Done(Interrupted(lc, reason))
      PROVE  LET a == Applied(lc, q, t)
             IN  /\ PolicyOK(a.lc) /\ Outcome(lc, a.lc, q, t)
                 /\ a.error # "none" => a.lc = lc
  <2> DEFINE u == Interrupted(lc, reason)
  <2>1. PolicyOK(u) /\ Ended(u) /\ Untouched(lc, u)
    BY InterruptedFacts
  <2>2. Applied(lc, q, t) = [lc |-> u, error |-> "none"]
    BY <1>2 DEF Done
  <2> HIDE DEF u
  <2>3. Runs(lc, u, t)
    BY <2>1, EndedIsQuiet
  <2> QED BY <2>1, <2>2, <2>3 DEF Outcome, Prepares, Ended
<1>3. CASE q.action = "Cancel"
  BY <1>3, <1>2 DEF Applied
<1>4. CASE q.action = "Manual"
  BY <1>4, <1>2 DEF Applied
<1>5. CASE q.action = "Select" /\ q.expected = lc.revision
  <2> DEFINE u == Selected(lc, q.event)
  <2>1. Applied(lc, q, t) = [lc |-> u, error |-> "none"]
    BY <1>5 DEF Applied, Done
  <2>2. PolicyOK(u) /\ Selects(lc, u, q.event)
    BY <1>5, SelectedFacts DEF RequestOK
  <2> QED BY <1>5, <2>1, <2>2 DEF Outcome
<1>6. CASE q.action = "Arm" /\ q.expected = lc.revision
  <2>1. Applied(lc, q, t) = Armed(lc, t)
    BY <1>6 DEF Applied
  <2> QED BY <1>6, <2>1, ArmedFacts, RunsStill DEF Outcome, Prepares
<1>7. CASE q.action = "PrepareNow" /\ q.expected = lc.revision
  <2>1. Applied(lc, q, t) = PreparedNow(lc)
    BY <1>7 DEF Applied
  <2> QED BY <2>1, PreparedNowFacts DEF Outcome, Prepares
<1> QED BY <1>1, <1>3, <1>4, <1>5, <1>6, <1>7 DEF RequestOK

\* A receipt is all that answering changes by itself.
Receives(lc, v, q, result) ==
  /\ PolicyOK(v)
  /\ \A f \in PolicyFields \ {"receipt"} : v[f] = lc[f]
  /\ v.receipt = {[request |-> q, result |-> result]}

\* Writing a receipt changes nothing else.
LEMMA ReceivesFacts ==
  ASSUME NEW lc, PolicyOK(lc), NEW q, NEW result
  PROVE  Receives(lc, [lc EXCEPT !.receipt = {[request |-> q, result |-> result]}], q, result)
<1> DEFINE r == {[request |-> q, result |-> result]}
           v == [lc EXCEPT !.receipt = r]
<1>1. Few(r)
  BY DEF Few
<1> HIDE DEF r
<1>2. /\ Has(v, PolicyFields) /\ v.receipt = r
      /\ \A f \in PolicyFields \ {"receipt"} : v[f] = lc[f]
  BY DEF PolicyOK, Has, PolicyFields
<1> HIDE DEF v
<1>3. PolicyOK(v)
  BY <1>1, <1>2 DEF PolicyOK, InPhase, PolicyFields
<1>4. Receives(lc, v, q, result)
  BY <1>2, <1>3 DEF Receives, r
<1> QED BY <1>4 DEF v, r

\* An outcome is the same with the receipt written into it.
LEMMA OutcomeReceives ==
  ASSUME NEW lc, NEW u, NEW q, NEW result, NEW t, Outcome(lc, u, q, t),
         NEW v, Receives(lc, v, q, result), NEW w, Receives(u, w, q, result)
  PROVE  Outcome(v, w, q, t)
<1>1. /\ v.mode = lc.mode /\ v.phase = lc.phase /\ v.selection = lc.selection
      /\ v.revs = lc.revs /\ v.plan = lc.plan /\ v.run = lc.run
      /\ v.recovery = lc.recovery /\ v.handled = lc.handled /\ v.armedBy = lc.armedBy
      /\ w.mode = u.mode /\ w.phase = u.phase /\ w.selection = u.selection
      /\ w.revs = u.revs /\ w.plan = u.plan /\ w.run = u.run
      /\ w.recovery = u.recovery /\ w.handled = u.handled /\ w.armedBy = u.armedBy
      /\ w.receipt = v.receipt
  BY DEF Receives, PolicyFields
<1>2. (Quiet(v, t) <=> Quiet(lc, t)) /\ (Quiet(w, t) <=> Quiet(u, t))
  BY <1>1 DEF Quiet, PassOf, Theplan
<1>3. (Late(v, t) <=> Late(lc, t)) /\ (Late(w, t) <=> Late(u, t)) /\ PassOf(v) = PassOf(lc)
  BY <1>1 DEF Late, PassOf, Theplan
<1>4. CASE Prepares(lc, u, t)
  <2>1. Runs(v, w, t)
    BY <1>1, <1>2, <1>3, <1>4 DEF Prepares, Runs, Untouched, Originals
  <2> QED BY <1>1, <1>4, <2>1 DEF Outcome, Prepares
<1>5. CASE q.action = "Select" /\ Selects(lc, u, q.event)
  BY <1>1, <1>5 DEF Outcome, Selects, Ended, Originals
<1>6. CASE q.action = "Arm" /\ Arms(lc, u)
  BY <1>1, <1>6 DEF Outcome, Arms, Untouched, Originals
<1> QED BY <1>4, <1>5, <1>6 DEF Outcome

\* A request is answered from its receipt, refused without one, or applied.
Repeats(lc, a, q) ==
  /\ a.lc = lc
  /\ \/ a.result.error \in {"Lease", "RequestOrder"}
     \/ \E r \in lc.receipt : r.request = q /\ r.result = a.result
Applies(lc, v, a, q, t) ==
  /\ Receives(lc, v, q, a.result)
  /\ \A r \in lc.receipt : r.request # q
  /\ PolicyOK(a.lc) /\ Outcome(v, a.lc, q, t)
  /\ a.result.error # "none" => a.lc = v

\* A request is answered from its receipt, refused without one, or applied
\* (lifecycle.rs request).
LEMMA RequestedFacts ==
  ASSUME NEW lc, PolicyOK(lc), NEW q, RequestOK(q), NEW t
  PROVE  LET a == Requested(lc, q, t)
         IN  Repeats(lc, a, q) \/ \E v : Applies(lc, v, a, q, t)
<1> DEFINE a == Requested(lc, q, t)
<1>1. CASE RequestProblem(lc, q) # "none"
  <2>1. a = [lc |-> lc, result |-> Answer(RequestProblem(lc, q), 0)]
    BY <1>1 DEF Requested
  <2>2. RequestProblem(lc, q) \in {"Lease", "RequestOrder"}
    BY <1>1 DEF RequestProblem
  <2> QED BY <2>1, <2>2 DEF Answer, Repeats
<1>2. CASE RequestProblem(lc, q) = "none" /\ Repeated(lc, q) # {}
  <2> DEFINE r == CHOOSE r \in Repeated(lc, q) : TRUE
  <2>1. a = [lc |-> lc, result |-> r.result]
    BY <1>2 DEF Requested
  <2>2. r \in lc.receipt /\ r.request = q
    BY <1>2 DEF Repeated, Receipts
  <2> HIDE DEF r
  <2>3. Repeats(lc, a, q)
    BY <2>1, <2>2 DEF Repeats
  <2> QED BY <2>3
<1>3. CASE RequestProblem(lc, q) = "none" /\ Repeated(lc, q) = {}
  <2> DEFINE b == Applied(lc, q, t)
             result == Answer(b.error, IF b.error = "none" THEN b.lc.revision ELSE 0)
             receipt == {[request |-> q, result |-> result]}
             v == [lc EXCEPT !.receipt = receipt]
             w == [b.lc EXCEPT !.receipt = receipt]
  <2>1. a = [lc |-> w, result |-> result]
    BY <1>3 DEF Requested, Receipted
  <2>2. PolicyOK(b.lc) /\ Outcome(lc, b.lc, q, t) /\ (b.error # "none" => b.lc = lc)
    BY AppliedFacts
  <2>3. result.error = b.error
    BY DEF Answer
  <2> HIDE DEF b, result
  <2>4. Receives(lc, v, q, result) /\ Receives(b.lc, w, q, result)
    BY <2>2, ReceivesFacts
  <2>6. result.error # "none" => w = v
    BY <2>2, <2>3
  <2> HIDE DEF v, w
  <2>8. Outcome(v, w, q, t)
    BY <2>2, <2>4, OutcomeReceives
  <2>5. Outcome(v, w, q, t) /\ PolicyOK(w)
    BY <2>4, <2>8 DEF Receives
  <2>9. \A r \in lc.receipt : r.request # q
    BY <1>3 DEF Repeated, Receipts
  <2>7. Applies(lc, v, a, q, t)
    BY <2>1, <2>4, <2>5, <2>6, <2>9 DEF Applies
  <2> QED BY <2>7
<1> QED BY <1>1, <1>2, <1>3

-----------------------------------------------------------------------------
(* Operators, forecasts and plans.                                         *)

\* What the rest of the proof speaks about.
CoreFields == {"mode", "phase", "selection", "revs", "plan", "run", "recovery", "handled",
               "armedBy", "receipt"}
Resembles(lc, u) == \A f \in CoreFields : u[f] = lc[f]

\* A policy with the same core has the same due.
LEMMA ResemblesFacts ==
  ASSUME NEW lc, PolicyOK(lc), NEW u, Resembles(lc, u), NEW t
  PROVE  Runs(lc, u, t) /\ (Quiet(u, t) <=> Quiet(lc, t))
<1>1. /\ u.mode = lc.mode /\ u.phase = lc.phase /\ u.selection = lc.selection
      /\ u.revs = lc.revs /\ u.plan = lc.plan /\ u.run = lc.run
      /\ u.recovery = lc.recovery /\ u.handled = lc.handled /\ u.armedBy = lc.armedBy
      /\ u.receipt = lc.receipt
  BY DEF Resembles, CoreFields
<1>2. Quiet(u, t) <=> Quiet(lc, t)
  BY <1>1 DEF Quiet, PassOf, Theplan
<1>3. Late(u, t) <=> Late(lc, t)
  BY <1>1 DEF Late, PassOf, Theplan
<1> QED BY <1>1, <1>2, <1>3, RunsStill DEF Runs, Untouched, Originals, PolicyOK, InPhase

\* A change of the operator leaves the core of the policy.
LEMMA OwnedFacts ==
  ASSUME NEW lc, PolicyOK(lc), NEW tokens, Few(tokens)
  PROVE  LET u == [lc EXCEPT !.token = tokens]
             v == IF lc.mode = "Manual" THEN Inhibited(u) ELSE u
         IN  PolicyOK(v) /\ Resembles(lc, v)
<1> DEFINE u == [lc EXCEPT !.token = tokens]
<1>1. Has(u, PolicyFields) /\ u.token = tokens /\ \A f \in PolicyFields \ {"token"} : u[f] = lc[f]
  BY DEF PolicyOK, Has, PolicyFields
<1> HIDE DEF u
<1>2. PolicyOK(u) /\ Resembles(lc, u)
  BY <1>1 DEF PolicyOK, InPhase, PolicyFields, Resembles, CoreFields
<1>3. PolicyOK(Inhibited(u)) /\ \A f \in PolicyFields \ {"box"} : Inhibited(u)[f] = u[f]
  BY <1>2, InhibitedFacts
<1>4. Resembles(lc, Inhibited(u))
  BY <1>2, <1>3 DEF Resembles, CoreFields, PolicyFields
<1> QED BY <1>2, <1>3, <1>4 DEF u

\* Both changes of operator (lifecycle.rs claim, release).
LEMMA ClaimedFacts ==
  ASSUME NEW lc, PolicyOK(lc), NEW token
  PROVE  /\ PolicyOK(Claimed(lc, token)) /\ Resembles(lc, Claimed(lc, token))
         /\ PolicyOK(Unowned(lc)) /\ Resembles(lc, Unowned(lc))
<1>1. Few({token}) /\ Few({})
  BY DEF Few
<1> QED BY <1>1, OwnedFacts DEF Claimed, Unowned

\* A forecast changes the current events of a selection only.
LEMMA AssociateFacts ==
  ASSUME NEW lc, PolicyOK(lc), lc.run = {}, NEW events \in SUBSET Event
  PROVE  LET u == Associate(lc, events)
         IN  /\ PolicyOK(u) /\ Originals(u) = Originals(lc)
             /\ \A f \in PolicyFields \ {"selection"} : u[f] = lc[f]
             /\ \A s \in u.selection : s.current = events
             /\ lc.selection # {} => u.selection # {}
<1> DEFINE selection == {[s EXCEPT !.current = events] : s \in lc.selection}
           u == [lc EXCEPT !.selection = selection]
<1>0. \A s \in lc.selection :
        LET e == [s EXCEPT !.current = events]
        IN  e \in Selection /\ e.current = events /\ e.original = s.original
  BY DEF PolicyOK, Selection
<1>1. /\ \A s \in selection : s \in Selection /\ s.current = events
      /\ {s.original : s \in selection} = {s.original : s \in lc.selection}
      /\ lc.selection # {} => selection # {}
  BY <1>0, Zenon
<1>2. Few(selection)
  BY DEF Few, PolicyOK
<1>3. Associate(lc, events) = u
  BY DEF Associate
<1> HIDE DEF selection
<1>4. /\ Has(u, PolicyFields) /\ u.selection = selection
      /\ \A f \in PolicyFields \ {"selection"} : u[f] = lc[f]
  BY DEF PolicyOK, Has, PolicyFields
<1> HIDE DEF u
<1>5. PolicyOK(u)
  BY <1>1, <1>2, <1>4 DEF PolicyOK, InPhase, PolicyFields
<1> QED BY <1>1, <1>3, <1>4, <1>5 DEF Originals

\* Runs for a policy that has been associated with another row.
LEMMA AssociatedRuns ==
  ASSUME NEW lc, PolicyOK(lc), lc.run = {}, NEW w, PolicyOK(w),
         Originals(w) = Originals(lc), \A f \in PolicyFields \ {"selection", "revision"} : w[f] = lc[f],
         NEW u, NEW t, Runs(w, u, t)
  PROVE  Runs(lc, u, t)
<1>1. /\ w.mode = lc.mode /\ w.phase = lc.phase /\ w.run = {} /\ w.revs = lc.revs
      /\ w.plan = lc.plan /\ w.recovery = {} /\ lc.recovery = {} /\ w.receipt = lc.receipt
      /\ w.armedBy = lc.armedBy /\ w.handled = lc.handled
      /\ lc.phase \notin {"Preparing", "Following"}
  BY DEF PolicyFields, PolicyOK, InPhase
<1>2. Quiet(w, t) <=> Quiet(lc, t)
  BY <1>1 DEF Quiet
<1> QED BY <1>1, <1>2 DEF Runs, Untouched, Late

\* Reconciling a selection with a forecast only prepares (lifecycle.rs refresh).
LEMMA ReconciledFacts ==
  ASSUME NEW lc, PolicyOK(lc), lc.run = {}, lc.selection # {},
         NEW matching \in SUBSET Event, NEW changed, NEW t
  PROVE  LET u == Reconciled(lc, matching, changed)
         IN  PolicyOK(u) /\ Runs(lc, u, t) /\ u.run = {}
<1> DEFINE u == Reconciled(lc, matching, changed)
<1>1. CASE u = lc
  BY <1>1, RunsStill
<1>2. CASE matching # {} /\ u = JobStarted(Associate(lc, matching))
  <2> DEFINE w == Associate(lc, matching)
  <2>1. /\ PolicyOK(w) /\ Originals(w) = Originals(lc)
        /\ \A f \in PolicyFields \ {"selection"} : w[f] = lc[f]
        /\ \A s \in w.selection : s.current = matching
        /\ w.selection # {}
    BY AssociateFacts
  <2> HIDE DEF w
  <2>2. w.run = {} /\ Current(w)
    BY <1>2, <2>1 DEF Current, PolicyFields
  <2>3. PolicyOK(JobStarted(w)) /\ Runs(w, JobStarted(w), t) /\ JobStarted(w).run = {}
    BY <2>1, <2>2, JobStartedFacts
  <2>4. Runs(lc, JobStarted(w), t)
    BY <2>1, <2>3, AssociatedRuns
  <2> QED BY <1>2, <2>3, <2>4 DEF w
<1>3. CASE u = [Associate(Bumped(lc), {}) EXCEPT
                  !.ticket = {}, !.plan = {}, !.status = EventProblem(matching)]
  <2> DEFINE b == Bumped(lc)
             w == Associate(b, {})
             status == EventProblem(matching)
             x == [w EXCEPT !.ticket = {}, !.plan = {}, !.status = status]
  <2>1. PolicyOK(b) /\ \A f \in PolicyFields \ {"revision"} : b[f] = lc[f]
    BY BumpedFacts
  <2>2. b.run = {} /\ Originals(b) = Originals(lc)
    BY <2>1 DEF Originals, PolicyFields
  <2> HIDE DEF b
  <2>3. /\ PolicyOK(w) /\ Originals(w) = Originals(b)
        /\ \A f \in PolicyFields \ {"selection"} : w[f] = b[f]
    BY <2>1, <2>2, AssociateFacts
  <2> HIDE DEF w, status
  <2>4. /\ Has(x, PolicyFields) /\ x.plan = {} /\ x.ticket = {}
        /\ \A f \in PolicyFields \ {"ticket", "plan", "status"} : x[f] = w[f]
    BY <2>3, Zenon DEF PolicyOK, Has, PolicyFields
  <2>5. x.serial \in Nat /\ w.run = {}
    BY <2>2, <2>3, <2>4 DEF PolicyOK, PolicyFields
  <2> HIDE DEF x
  <2>6. PolicyOK(x) /\ Runs(w, x, t) /\ x.run = {}
    BY <2>3, <2>4, <2>5, PlanDropped DEF Few
  <2>7. \A f \in PolicyFields \ {"selection", "revision"} : w[f] = lc[f]
    BY <2>1, <2>3
  <2>8. Runs(lc, x, t)
    BY <2>2, <2>3, <2>6, <2>7, AssociatedRuns
  <2> QED BY <1>3, <2>6, <2>8 DEF x, w, b, status
<1> QED BY <1>1, <1>2, <1>3 DEF Reconciled

Records(lc, v, revs) ==
  /\ PolicyOK(v) /\ v.revs = {revs}
  /\ \A f \in PolicyFields \ {"revs"} : v[f] = lc[f]

\* A refresh records its revisions and only prepares (lifecycle.rs refresh).
LEMMA RefreshedFacts ==
  ASSUME NEW lc, PolicyOK(lc), NEW forecast \in SUBSET Event, NEW revs \in Revision, NEW t,
         Follows(revs, lc.revs)
  PROVE  LET u == Refreshed(lc, forecast, revs)
         IN  PolicyOK(u) /\ \E v : Records(lc, v, revs) /\ Prepares(v, u, t)
<1> DEFINE r == {revs}
           v == [lc EXCEPT !.revs = r]
           matching == UNION {Matching(s.original, forecast) : s \in lc.selection}
           u == IF lc.run # {} \/ lc.selection = {} THEN v ELSE Reconciled(v, matching, lc.revs # r)
<1>1. Refreshed(lc, forecast, revs) = u
  BY DEF Refreshed
<1>2. matching \in SUBSET Event
  BY DEF Matching
<1>3. \A x \in r : x \in Revision
  OBVIOUS
<1> HIDE DEF matching, r
<1>4. /\ Has(v, PolicyFields) /\ v.revs = r
      /\ \A f \in PolicyFields \ {"revs"} : v[f] = lc[f]
  BY DEF PolicyOK, Has, PolicyFields
<1> HIDE DEF v
<1>5. PolicyOK(v)
  BY <1>3, <1>4 DEF PolicyOK, InPhase, PolicyFields
<1>6. Records(lc, v, revs)
  BY <1>4, <1>5 DEF Records, r
<1>7. v.run = lc.run /\ v.selection = lc.selection
  BY <1>4 DEF PolicyFields
<1>8. PolicyOK(u) /\ Prepares(v, u, t)
  <2>1. CASE lc.run # {} \/ lc.selection = {}
    BY <1>5, <2>1, RunsStill DEF Prepares
  <2>2. CASE lc.run = {} /\ lc.selection # {}
    BY <1>2, <1>5, <1>7, <2>2, ReconciledFacts DEF Prepares
  <2> QED BY <2>1, <2>2
<1> HIDE DEF u
<1> QED BY <1>1, <1>6, <1>8

\* A result gives a policy without a run another plan, or none.
Replans(lc, u) ==
  /\ Untouched(lc, u)
  /\ u.mode = lc.mode /\ u.run = {} /\ u.recovery = {}

\* A planner's result replaces the plan and nothing else (lifecycle.rs publish_plan).
LEMMA PlannedFacts ==
  ASSUME NEW lc, PolicyOK(lc), lc.run = {}, NEW t \in Nat,
         NEW found, Few(found), \A p \in found : PlanOK(p)
  PROVE  LET u == Planned(lc, found, t) IN PolicyOK(u) /\ Replans(lc, u)
<1> DEFINE bounded == {[p EXCEPT !.freezeBefore = Earlier(@, PlanDeadline(p))] : p \in found}
           problem == PlanProblem(bounded, t)
           p == CHOOSE p \in bounded : TRUE
           b == Bumped(lc)
<1>1. PolicyOK(b) /\ \A f \in PolicyFields \ {"revision"} : b[f] = lc[f]
  BY BumpedFacts
<1>2. /\ b.run = {} /\ b.recovery = {} /\ Untouched(lc, b) /\ b.mode = lc.mode /\ b.phase = lc.phase
      /\ b.phase \notin {"Preparing", "Ready", "Following", "Reacquiring"}
  BY <1>1 DEF Untouched, Originals, PolicyFields, PolicyOK, InPhase
<1>3. \A x \in bounded : PlanOK(x)
  <2> SUFFICES ASSUME NEW x \in found
               PROVE  PlanOK([x EXCEPT !.freezeBefore = Earlier(@, PlanDeadline(x))])
    OBVIOUS
  <2> DEFINE n == Earlier(x.freezeBefore, PlanDeadline(x))
             y == [x EXCEPT !.freezeBefore = n]
  <2>1. PlanOK(x)
    OBVIOUS
  <2>2. n \in Int /\ n <= x.freezeBefore
    BY <2>1, PlanDeadlineFacts DEF Earlier, PlanOK
  <2> HIDE DEF n
  <2>3. /\ Has(y, PlanFields) /\ y.freezeBefore = n
        /\ \A f \in PlanFields \ {"freezeBefore"} : y[f] = x[f]
    BY <2>1 DEF PlanOK, Has, PlanFields
  <2>4. /\ y.inputs = x.inputs /\ y.gap = x.gap /\ y.prepareAt = x.prepareAt
        /\ y.preparation = x.preparation
    BY <2>3 DEF PlanFields
  <2> HIDE DEF y
  <2>5. PlanOK(y)
    BY <2>1, <2>2, <2>3, <2>4 DEF PlanOK
  <2> QED BY <2>5 DEF y, n
<1>4. Few(bounded)
  BY DEF Few
<1> HIDE DEF bounded
<1>5. CASE problem # "none"
  <2> DEFINE u == [b EXCEPT !.status = problem]
  <2>1. Planned(lc, found, t) = u
    BY <1>5 DEF Planned, bounded
  <2> HIDE DEF b, problem
  <2>2. Has(u, PolicyFields) /\ \A f \in PolicyFields \ {"status"} : u[f] = b[f]
    BY <1>1 DEF PolicyOK, Has, PolicyFields
  <2> HIDE DEF u
  <2>3. PolicyOK(u)
    BY <1>1, <1>2, <2>2 DEF PolicyOK, InPhase, PolicyFields
  <2>4. Replans(lc, u)
    BY <1>2, <2>2 DEF Replans, Untouched, Originals, PolicyFields
  <2> QED BY <2>1, <2>3, <2>4
<1>6. CASE problem = "none"
  <2> DEFINE due == IF lc.phase = "Armed" THEN {PlanDeadline(p)} ELSE b.armedBy
             status == IF p.gap = {} THEN "Supported" ELSE "SupportedPartial"
             u == [b EXCEPT !.plan = bounded, !.armedBy = due, !.status = status]
  <2>1. Planned(lc, found, t) = u
    BY <1>6 DEF Planned, bounded
  <2>2. bounded # {}
    BY <1>6 DEF PlanProblem
  <2>3. p \in bounded /\ bounded = {p}
    BY <1>4, <2>2, TheFacts
  <2>4. ValidPlan(p)
    BY <1>6, <2>2 DEF PlanProblem
  <2>5. PlanDeadline(p) \in Int
    BY <1>3, <2>3, PlanDeadlineFacts
  <2>6. \A a \in due : a \in Int
    BY <1>1, <2>5 DEF PolicyOK
  <2> HIDE DEF b, p, due, status
  <2>7. /\ Has(u, PolicyFields) /\ u.plan = bounded /\ u.armedBy = due
        /\ \A f \in PolicyFields \ {"plan", "armedBy", "status"} : u[f] = b[f]
    BY <1>1, Zenon DEF PolicyOK, Has, PolicyFields
  <2> HIDE DEF u
  <2>8. PolicyOK(u)
    BY <1>1, <1>2, <1>3, <1>4, <2>3, <2>4, <2>6, <2>7 DEF PolicyOK, InPhase, PolicyFields
  <2>9. Replans(lc, u)
    BY <1>2, <2>7 DEF Replans, Untouched, Originals, PolicyFields
  <2> QED BY <2>1, <2>8, <2>9
<1> QED BY <1>5, <1>6

-----------------------------------------------------------------------------
(* Ticks.                                                                  *)

\* Whatever may happen to a policy may happen in two steps.
LEMMA RunsTwice ==
  ASSUME NEW t, NEW lc, PolicyOK(lc), NEW v, PolicyOK(v), NEW u, PolicyOK(u),
         Runs(lc, v, t), Runs(v, u, t)
  PROVE  Runs(lc, u, t)
<1>1. /\ Quiet(lc, t) => Quiet(u, t)
      /\ Untouched(lc, u)
      /\ u.mode = "Manual" => u.plan = {} \/ (lc.mode = "Manual" /\ u.plan = lc.plan)
  BY DEF Runs, Untouched, Originals
<1>2. ASSUME u.mode = "Tracking"
      PROVE  /\ lc.mode = "Tracking" /\ v.mode = "Tracking"
             /\ lc.run # {} => v.run = lc.run /\ v.plan = lc.plan /\ u.run = lc.run /\ u.plan = lc.plan
             /\ lc.recovery # {} => u.recovery = lc.recovery
             /\ lc.recovery = {} => \A r \in u.recovery : r.deadline <= t + RecoveryLimit
             /\ (lc.phase = "Following" /\ Quiet(lc, t)) => u.phase = "Following"
  BY <1>2 DEF Runs
<1>3. ASSUME u.mode = "Tracking", Late(lc, t)
      PROVE  \/ Late(u, t)
             \/ /\ u.recovery # {}
                /\ \A r \in u.recovery : r.deadline <= PassOf(lc).aos + RecoveryLimit
  <2>1. PassOf(v) = PassOf(lc)
    BY <1>2, <1>3 DEF Late, PolicyOK, InPhase, PassOf, Theplan
  <2> QED BY <1>2, <1>3, <2>1 DEF Runs
<1> QED BY <1>1, <1>2, <1>3 DEF Runs

\* An episode of a run on its route.
LEMMA EnteredFacts ==
  ASSUME NEW lc, PolicyOK(lc), lc.run # {}, lc.recovery = {}, NEW cause, NEW due \in Int
  PROVE  LET u == Entered(lc, cause, due, 0)
         IN  /\ PolicyOK(u) /\ u.mode = "Tracking" /\ u.phase = "Reacquiring"
             /\ u.recovery # {}
             /\ \A r \in u.recovery :
                  r.deadline \in Int /\ r.deadline = Earlier(due + RecoveryLimit, PassOf(lc).los)
             /\ \A f \in {"selection", "revs", "plan", "run", "handled", "armedBy", "receipt"} :
                  u[f] = lc[f]
<1> DEFINE w == Bumped(Numbered(lc))
           r == {[serial |-> w.serial, started |-> due, cause |-> cause,
                  deadline |-> Earlier(due + RecoveryLimit, PassOf(lc).los)]}
           x == [w EXCEPT !.recovery = r, !.phase = "Reacquiring"]
           u == Inhibited(x)
<1>1. PolicyOK(w) /\ \A f \in PolicyFields \ {"revision", "serial"} : w[f] = lc[f]
  BY BumpedFacts
<1>2. PassOf(lc).los \in Int
  BY ThePlanFacts DEF PolicyOK
<1>3. Earlier(due + RecoveryLimit, PassOf(lc).los) \in Int
  BY <1>2, RecoveryLimitIsPositive DEF Earlier
<1>4. Entered(lc, cause, due, 0) = u
  BY DEF Entered
<1>5. /\ r # {} /\ Few(r)
      /\ \A y \in r : y.deadline \in Int
                      /\ y.deadline = Earlier(due + RecoveryLimit, PassOf(lc).los)
  BY <1>3 DEF Few
<1> HIDE DEF w, r
<1>6. /\ Has(x, PolicyFields) /\ x.recovery = r /\ x.phase = "Reacquiring"
      /\ \A f \in PolicyFields \ {"recovery", "phase"} : x[f] = w[f]
  BY <1>1, Zenon DEF PolicyOK, Has, PolicyFields
<1> HIDE DEF x
<1>7. w.mode = "Tracking" /\ w.run # {}
  BY <1>1 DEF PolicyOK, InPhase, PolicyFields
<1>8. PolicyOK(x)
  BY <1>1, <1>5, <1>6, <1>7 DEF PolicyOK, InPhase, PolicyFields
<1>9. PolicyOK(u) /\ \A f \in PolicyFields \ {"box"} : u[f] = x[f]
  BY <1>8, InhibitedFacts
<1> HIDE DEF u
<1>10. /\ u.mode = "Tracking" /\ u.phase = "Reacquiring" /\ u.recovery = r
       /\ \A f \in {"selection", "revs", "plan", "run", "handled", "armedBy", "receipt"} :
            u[f] = lc[f]
  BY <1>1, <1>6, <1>7, <1>9 DEF PolicyFields
<1> QED BY <1>4, <1>5, <1>9, <1>10

\* Nobody reads the instant at which an episode was found.
LEMMA EnteredWhenever ==
  ASSUME NEW lc, NEW cause, NEW due, NEW t
  PROVE  Entered(lc, cause, due, t) = Entered(lc, cause, due, 0)
  BY DEF Entered

GapSeen(lc, t) == lc.handled \/ \A g \in Theplan(lc).gap : t < g.recoveryAt

\* A pass whose AOS finds it unprepared begins an episode (lifecycle.rs tick).
LEMMA OvertakenFacts ==
  ASSUME NEW lc, PolicyOK(lc), lc.run # {}, NEW t \in Nat
  PROVE  LET u == Overtaken(lc, t)
         IN  /\ PolicyOK(u) /\ Runs(lc, u, t) /\ ~Late(u, t) /\ u.run = lc.run
<1> DEFINE aos == PassOf(lc).aos
           u == Overtaken(lc, t)
<1>1. CASE ~Late(lc, t)
  BY <1>1, RunsStill DEF Late, Overtaken
<1>2. CASE Late(lc, t)
  <2>1. aos \in Int /\ PassOf(lc).los \in Int
    BY ThePlanFacts DEF PolicyOK
  <2>2. lc.recovery = {} /\ lc.mode = "Tracking" /\ ~Quiet(lc, t)
    BY <1>2, <2>1 DEF Late, PolicyOK, InPhase, Quiet
  <2>3. u = Entered(lc, "LatePreparation", aos, 0)
    BY <1>2, EnteredWhenever DEF Late, Overtaken
  <2>4. /\ PolicyOK(u) /\ u.mode = "Tracking" /\ u.phase = "Reacquiring" /\ u.recovery # {}
        /\ \A r \in u.recovery :
             r.deadline \in Int /\ r.deadline = Earlier(aos + RecoveryLimit, PassOf(lc).los)
        /\ u.selection = lc.selection /\ u.revs = lc.revs /\ u.plan = lc.plan
        /\ u.run = lc.run /\ u.receipt = lc.receipt
    BY <2>1, <2>2, <2>3, EnteredFacts
  <2>5. \A r \in u.recovery : r.deadline <= aos + RecoveryLimit /\ r.deadline <= t + RecoveryLimit
    BY <1>2, <2>1, <2>4, RecoveryLimitIsPositive DEF Earlier, Late
  <2> HIDE DEF u
  <2>6. Runs(lc, u, t) /\ ~Late(u, t)
    BY <1>2, <2>2, <2>4, <2>5 DEF Runs, Untouched, Originals, Late
  <2> QED BY <2>4, <2>6 DEF u
<1> QED BY <1>1, <1>2

\* A planned gap begins its episode once (lifecycle.rs tick).
LEMMA GapEnteredFacts ==
  ASSUME NEW lc, PolicyOK(lc), lc.run # {}, NEW t \in Nat, ~Late(lc, t)
  PROVE  LET u == GapEntered(lc, t)
         IN  /\ PolicyOK(u) /\ Runs(lc, u, t) /\ ~Late(u, t) /\ GapSeen(u, t) /\ u.run = lc.run
<1> DEFINE due == {g \in Theplan(lc).gap : ~lc.handled /\ t >= g.recoveryAt}
           noted == [lc EXCEPT !.handled = TRUE]
           at == (CHOOSE g \in due : TRUE).recoveryAt
           u == GapEntered(lc, t)
<1>1. PlanOK(Theplan(lc)) /\ PassOf(lc).los \in Int
  BY ThePlanFacts DEF PolicyOK
<1>2. CASE due = {}
  <2>1. u = lc
    BY <1>2 DEF GapEntered
  <2>2. GapSeen(lc, t)
    BY <1>1, <1>2 DEF GapSeen, PlanOK
  <2> QED BY <2>1, <2>2, RunsStill
<1>3. CASE due # {}
  <2>1. ~Quiet(lc, t) /\ at \in Int /\ at <= t
    BY <1>1, <1>3 DEF Quiet, PlanOK
  <2>2. u = IF lc.recovery # {} THEN noted ELSE Entered(noted, "PlannedGap", at, t)
    BY <1>3 DEF GapEntered
  <2> HIDE DEF due, at
  <2>3. Has(noted, PolicyFields) /\ noted.handled /\ \A f \in PolicyFields \ {"handled"} : noted[f] = lc[f]
    BY DEF PolicyOK, Has, PolicyFields
  <2> HIDE DEF noted
  <2>4. /\ noted.selection = lc.selection /\ noted.revs = lc.revs /\ noted.plan = lc.plan
        /\ noted.run = lc.run /\ noted.receipt = lc.receipt /\ noted.recovery = lc.recovery
        /\ noted.mode = lc.mode /\ noted.phase = lc.phase
    BY <2>3 DEF PolicyFields
  <2>5. PolicyOK(noted) /\ Theplan(noted) = Theplan(lc) /\ PassOf(noted) = PassOf(lc)
    BY <2>3, <2>4 DEF PolicyOK, InPhase, PolicyFields, Theplan, PassOf
  <2>6. CASE lc.recovery # {}
    <3>1. u = noted
      BY <2>2, <2>6
    <3> HIDE DEF u
    <3>2. ~Late(u, t) /\ GapSeen(u, t)
      BY <2>3, <2>4, <2>5, <3>1 DEF Late, GapSeen
    <3>3. lc.phase = "Reacquiring" /\ lc.mode = "Tracking"
      BY <2>6 DEF PolicyOK, InPhase
    <3>4. Runs(lc, u, t)
      BY <2>1, <2>4, <2>6, <3>1, <3>3 DEF Runs, Untouched, Originals
    <3> QED BY <2>4, <2>5, <3>1, <3>2, <3>4 DEF u
  <2>7. CASE lc.recovery = {}
    <3>1. u = Entered(noted, "PlannedGap", at, 0)
      BY <2>2, <2>7, EnteredWhenever
    <3>2. /\ PolicyOK(u) /\ u.mode = "Tracking" /\ u.phase = "Reacquiring" /\ u.recovery # {}
          /\ \A r \in u.recovery :
               r.deadline \in Int /\ r.deadline = Earlier(at + RecoveryLimit, PassOf(noted).los)
          /\ u.selection = lc.selection /\ u.revs = lc.revs /\ u.plan = lc.plan
          /\ u.run = lc.run /\ u.receipt = lc.receipt /\ u.handled
      BY <2>1, <2>3, <2>4, <2>5, <2>7, <3>1, EnteredFacts
    <3>3. \A r \in u.recovery : r.deadline <= t + RecoveryLimit
      BY <1>1, <2>1, <2>5, <3>2, RecoveryLimitIsPositive DEF Earlier
    <3> HIDE DEF u
    <3>4. lc.mode = "Tracking"
      BY DEF PolicyOK, InPhase
    <3>5. Runs(lc, u, t) /\ ~Late(u, t) /\ GapSeen(u, t)
      BY <2>1, <2>7, <3>2, <3>3, <3>4 DEF Runs, Untouched, Originals, Late, GapSeen
    <3> QED BY <3>2, <3>5 DEF u
  <2> QED BY <2>6, <2>7
<1> QED BY <1>2, <1>3

\* An episode that is over its time, and a pass at its LOS, end (lifecycle.rs tick).
LEMMA ConcludedFacts ==
  ASSUME NEW lc, PolicyOK(lc), lc.run # {}, NEW t \in Nat, ~Late(lc, t), GapSeen(lc, t)
  PROVE  LET u == Concluded(lc, t)
         IN  PolicyOK(u) /\ Runs(lc, u, t) /\ Quiet(u, t)
<1> DEFINE spent == {r \in lc.recovery : t >= r.deadline}
           u == Concluded(lc, t)
           w == Bumped(lc)
           x == [w EXCEPT !.phase = "Following"]
<1>1. /\ PlanOK(Theplan(lc)) /\ PassOf(lc).los \in Int /\ PassOf(lc).aos \in Int
      /\ \A r \in lc.recovery : r.deadline \in Int
      /\ \A g \in Theplan(lc).gap : g.recoveryAt \in Int
  BY ThePlanFacts DEF PolicyOK, PlanOK
<1>2. CASE \E reason : u = Interrupted(lc, reason)
  <2>1. PICK reason : u = Interrupted(lc, reason)
    BY <1>2
  <2> HIDE DEF u
  <2>2. PolicyOK(u) /\ Ended(u) /\ Untouched(lc, u)
    BY <2>1, InterruptedFacts
  <2> QED BY <2>2, EndedIsQuiet DEF u
<1>3. CASE spent = {} /\ t < PassOf(lc).los
  <2>1. \A r \in lc.recovery : t < r.deadline
    BY <1>1, <1>3
  <2>2. CASE t >= PassOf(lc).aos /\ lc.phase = "Ready"
    <3>1. u = x
      BY <1>1, <1>3, <2>2 DEF Concluded
    <3>2. PolicyOK(w) /\ \A f \in PolicyFields \ {"revision"} : w[f] = lc[f]
      BY BumpedFacts
    <3> HIDE DEF w
    <3>3. /\ Has(x, PolicyFields) /\ x.phase = "Following"
          /\ \A f \in PolicyFields \ {"phase"} : x[f] = w[f]
      BY <3>2 DEF PolicyOK, Has, PolicyFields
    <3> HIDE DEF x, u
    <3>4. /\ x.mode = lc.mode /\ x.selection = lc.selection /\ x.revs = lc.revs
          /\ x.plan = lc.plan /\ x.run = lc.run /\ x.receipt = lc.receipt
          /\ x.recovery = {} /\ lc.recovery = {} /\ x.handled = lc.handled /\ lc.mode = "Tracking"
      BY <2>2, <3>2, <3>3 DEF PolicyFields, PolicyOK, InPhase
    <3>5. PolicyOK(x)
      BY <3>2, <3>3, <3>4 DEF PolicyOK, InPhase, PolicyFields
    <3>6. Quiet(x, t)
      BY <1>3, <3>3, <3>4 DEF Quiet, GapSeen, PassOf, Theplan
    <3>7. Runs(lc, x, t)
      BY <2>2, <3>3, <3>4, <3>6 DEF Runs, Untouched, Originals, Late
    <3> QED BY <3>1, <3>5, <3>6, <3>7 DEF u
  <2>3. CASE ~(t >= PassOf(lc).aos /\ lc.phase = "Ready")
    <3>1. u = lc
      BY <1>1, <1>3, <2>3 DEF Concluded
    <3>2. Quiet(lc, t)
      BY <1>1, <1>3, <2>1, <2>3 DEF Quiet, GapSeen, Late, PolicyOK, InPhase
    <3> QED BY <3>1, <3>2, RunsStill
  <2> QED BY <2>2, <2>3
<1> QED BY <1>1, <1>2, <1>3 DEF Concluded

\* Freezing a plan leaves nothing due at its instant (lifecycle.rs tick).
LEMMA FrozenFacts ==
  ASSUME NEW lc, PolicyOK(lc), lc.mode = "Tracking", lc.run = {}, lc.plan # {}, NEW t \in Nat,
         t < Theplan(lc).freezeBefore, HasPreparationTime(Theplan(lc), t),
         t >= Theplan(lc).prepareAt
  PROVE  LET u == Frozen(lc, t)
         IN  PolicyOK(u) /\ Runs(lc, u, t) /\ Quiet(u, t)
<1> DEFINE w == Bumped(Numbered(lc))
           run == {w.serial}
           x == [w EXCEPT !.run = run, !.phase = "Preparing", !.status = "Frozen"]
           late == LateGap(Theplan(lc))
           y == [x EXCEPT !.handled = TRUE]
           u == Frozen(lc, t)
           p == Theplan(lc)
<1>1. /\ PlanOK(p) /\ ValidPlan(p) /\ PassOf(lc) = p.inputs.window
      /\ PassOf(lc).los \in Int /\ PassOf(lc).aos \in Int
      /\ lc.recovery = {} /\ lc.phase = "Armed"
  BY ThePlanFacts DEF PolicyOK, InPhase
<1>2. PolicyOK(w) /\ \A f \in PolicyFields \ {"revision", "serial"} : w[f] = lc[f]
  BY BumpedFacts
<1>3. run # {} /\ Few(run)
  BY DEF Few
<1>4. u = IF late = {} THEN x
          ELSE Entered(y, "LateAcquisition", (CHOOSE g \in late : TRUE).recoveryAt, t)
  BY DEF Frozen
<1>5. t < PassOf(lc).los
  BY <1>1 DEF PlanOK
<1> HIDE DEF w, run
<1>6. /\ Has(x, PolicyFields) /\ x.run = run /\ x.phase = "Preparing" /\ x.status = "Frozen"
      /\ \A f \in PolicyFields \ {"run", "phase", "status"} : x[f] = w[f]
  BY <1>2, Zenon DEF PolicyOK, Has, PolicyFields
<1> HIDE DEF x
<1>7. /\ x.mode = "Tracking" /\ x.selection = lc.selection /\ x.revs = lc.revs
      /\ x.plan = lc.plan /\ x.receipt = lc.receipt /\ x.recovery = {} /\ x.handled = lc.handled
  BY <1>1, <1>2, <1>6 DEF PolicyFields
<1>8. PolicyOK(x)
  BY <1>2, <1>3, <1>6, <1>7 DEF PolicyOK, InPhase, PolicyFields
<1>9. ~Quiet(lc, t)
  <2>1. p \in lc.plan /\ p.prepareAt \in Int
    BY ThePlanFacts DEF PlanOK
  <2>2. ~(t < p.prepareAt)
    BY <2>1
  <2> QED BY <1>1, <2>1, <2>2 DEF Quiet
<1>10. CASE late = {}
  <2>1. t < p.inputs.window.aos /\ \A g \in p.gap : t < g.recoveryAt
    BY <1>1, <1>10 DEF HasPreparationTime, PlanOK
  <2>2. u = x
    BY <1>4, <1>10
  <2> HIDE DEF u
  <2>3. Quiet(x, t)
    BY <1>1, <1>3, <1>5, <1>6, <1>7, <2>1 DEF Quiet, PassOf, Theplan
  <2>4. Runs(lc, x, t)
    BY <1>1, <1>6, <1>7, <1>9 DEF Runs, Untouched, Originals, Late
  <2> QED BY <1>8, <2>2, <2>3, <2>4 DEF u
<1>11. CASE late # {}
  <2> DEFINE at == (CHOOSE g \in late : TRUE).recoveryAt
  <2>1. (CHOOSE g \in late : TRUE) \in late /\ late \subseteq p.gap
    BY <1>11 DEF LateGap
  <2>2. at \in Int /\ at = t
    BY <1>1, <1>11, <2>1 DEF HasPreparationTime, ValidPlan, PlanOK
  <2>3. u = Entered(y, "LateAcquisition", at, 0)
    BY <1>4, <1>11, EnteredWhenever
  <2> HIDE DEF at
  <2>4. Has(y, PolicyFields) /\ y.handled /\ \A f \in PolicyFields \ {"handled"} : y[f] = x[f]
    BY <1>8 DEF PolicyOK, Has, PolicyFields
  <2> HIDE DEF y
  <2>5. /\ y.mode = "Tracking" /\ y.selection = lc.selection /\ y.revs = lc.revs
        /\ y.plan = lc.plan /\ y.receipt = lc.receipt /\ y.recovery = {} /\ y.run = run
        /\ y.phase = "Preparing"
    BY <1>6, <1>7, <2>4 DEF PolicyFields
  <2>6. PolicyOK(y) /\ PassOf(y) = PassOf(lc)
    BY <1>8, <2>4, <2>5 DEF PolicyOK, InPhase, PolicyFields, PassOf, Theplan
  <2>7. /\ PolicyOK(u) /\ u.mode = "Tracking" /\ u.phase = "Reacquiring" /\ u.recovery # {}
        /\ \A r \in u.recovery :
             r.deadline \in Int /\ r.deadline = Earlier(at + RecoveryLimit, PassOf(y).los)
        /\ u.selection = lc.selection /\ u.revs = lc.revs /\ u.plan = lc.plan
        /\ u.run = run /\ u.receipt = lc.receipt /\ u.handled
    BY <1>3, <2>2, <2>3, <2>4, <2>5, <2>6, EnteredFacts
  <2>8. \A r \in u.recovery : r.deadline <= t + RecoveryLimit /\ t < r.deadline
    BY <1>1, <1>5, <2>2, <2>6, <2>7, RecoveryLimitIsPositive DEF Earlier
  <2> HIDE DEF u
  <2>9. Quiet(u, t)
    BY <1>3, <1>5, <2>7, <2>8 DEF Quiet, PassOf, Theplan
  <2>10. Runs(lc, u, t)
    BY <1>1, <1>9, <2>7, <2>8 DEF Runs, Untouched, Originals, Late
  <2> QED BY <2>7, <2>9, <2>10 DEF u
<1> QED BY <1>10, <1>11

\* A plan before its run waits, expires, or is frozen (lifecycle.rs tick).
LEMMA WaitingFacts ==
  ASSUME NEW lc, PolicyOK(lc), lc.run = {}, lc.plan # {}, NEW t \in Nat,
         lc.phase = "Armed" => \A a \in lc.armedBy : t < a
  PROVE  LET u == Waiting(lc, t)
         IN  PolicyOK(u) /\ Runs(lc, u, t) /\ Quiet(u, t)
<1> DEFINE p == Theplan(lc)
           u == Waiting(lc, t)
           w == Bumped(lc)
<1>1. /\ PlanOK(p) /\ lc.plan = {p} /\ lc.recovery = {}
      /\ p.freezeBefore \in Int /\ p.prepareAt \in Int
  BY ThePlanFacts DEF PolicyOK, InPhase, PlanOK
<1>2. ASSUME NEW status, u = [w EXCEPT !.plan = {}, !.status = status]
      PROVE  PolicyOK(u) /\ Runs(lc, u, t) /\ Quiet(u, t)
  <2> DEFINE x == [w EXCEPT !.plan = {}, !.status = status]
  <2>1. PolicyOK(w) /\ \A f \in PolicyFields \ {"revision"} : w[f] = lc[f]
    BY BumpedFacts
  <2> HIDE DEF w, u
  <2>2. /\ Has(x, PolicyFields) /\ x.plan = {}
        /\ \A f \in PolicyFields \ {"plan", "status"} : x[f] = w[f]
    BY <2>1, Zenon DEF PolicyOK, Has, PolicyFields
  <2>3. u = x
    BY <1>2
  <2> HIDE DEF x
  <2>4. x.serial \in Nat /\ Few(x.ticket) /\ \A k \in x.ticket : k.pass \in Event
    BY <2>1, <2>2 DEF PolicyOK, PolicyFields
  <2>5. \A f \in PolicyFields \ {"revision", "serial", "timing", "plan", "ticket", "status"} :
          x[f] = lc[f]
    BY <2>1, <2>2
  <2>6. PolicyOK(x) /\ Runs(lc, x, t)
    BY <2>2, <2>4, <2>5, PlanDropped
  <2>7. x.run = {} /\ x.phase = lc.phase /\ x.armedBy = lc.armedBy
    BY <2>5 DEF PolicyFields
  <2>8. Quiet(x, t)
    BY <2>2, <2>7 DEF Quiet
  <2> QED BY <2>3, <2>6, <2>8
<1>3. CASE t >= p.freezeBefore
  <2>1. u = [w EXCEPT !.plan = {}, !.status = "Expired"]
    BY <1>3 DEF Waiting
  <2> QED BY <1>2, <2>1, Zenon
<1>4. CASE t < p.freezeBefore /\ (lc.phase # "Armed" \/ t < p.prepareAt)
  <2>1. u = lc
    BY <1>1, <1>4 DEF Waiting
  <2>2. Quiet(lc, t)
    BY <1>1, <1>4 DEF Quiet
  <2> QED BY <2>1, <2>2, RunsStill
<1>5. CASE t < p.freezeBefore /\ lc.phase = "Armed" /\ t >= p.prepareAt /\ ~Armable(lc, t)
  <2>1. u = [w EXCEPT !.plan = {}, !.status = "TooLate"]
    BY <1>1, <1>5 DEF Waiting
  <2> QED BY <1>2, <2>1, Zenon
<1>6. CASE t < p.freezeBefore /\ lc.phase = "Armed" /\ t >= p.prepareAt /\ Armable(lc, t)
  <2>1. u = Frozen(lc, t)
    BY <1>1, <1>6 DEF Waiting
  <2>2. lc.mode = "Tracking"
    BY <1>6 DEF PolicyOK, InPhase
  <2>3. HasPreparationTime(p, t)
    BY <1>1, <1>6 DEF Armable
  <2> HIDE DEF u
  <2> QED BY <1>6, <2>1, <2>2, <2>3, FrozenFacts DEF u
<1> QED BY <1>1, <1>3, <1>4, <1>5, <1>6

\* After a tick nothing is due at its instant (lifecycle.rs tick).
LEMMA TickedFacts ==
  ASSUME NEW lc, PolicyOK(lc), NEW t \in Nat
  PROVE  LET u == Ticked(lc, t)
         IN  PolicyOK(u) /\ Runs(lc, u, t) /\ Quiet(u, t)
<1> DEFINE missed == lc.phase = "Armed" /\ \E a \in lc.armedBy : t >= a
           u == Ticked(lc, t)
<1>1. CASE missed
  <2> DEFINE x == Interrupted(lc, "LatePreparation")
  <2>1. PolicyOK(x) /\ Ended(x) /\ Untouched(lc, x)
    BY InterruptedFacts
  <2>2. u = x
    BY <1>1 DEF Ticked
  <2> HIDE DEF x, u
  <2> QED BY <2>1, <2>2, EndedIsQuiet DEF u
<1>2. ~missed => (lc.phase = "Armed" => \A a \in lc.armedBy : t < a)
  BY DEF PolicyOK
<1>3. CASE ~missed /\ lc.run # {}
  <2> DEFINE v == Overtaken(lc, t)
             w == GapEntered(v, t)
             x == Concluded(w, t)
  <2>1. u = x
    BY <1>3 DEF Ticked
  <2>2. PolicyOK(v) /\ Runs(lc, v, t) /\ ~Late(v, t) /\ v.run # {}
    BY <1>3, OvertakenFacts
  <2> HIDE DEF v
  <2>3. PolicyOK(w) /\ Runs(v, w, t) /\ ~Late(w, t) /\ GapSeen(w, t) /\ w.run # {}
    BY <2>2, GapEnteredFacts
  <2> HIDE DEF w
  <2>4. PolicyOK(x) /\ Runs(w, x, t) /\ Quiet(x, t)
    BY <2>3, ConcludedFacts
  <2> HIDE DEF x, u
  <2>5. Runs(lc, w, t)
    BY <2>2, <2>3, RunsTwice
  <2>6. Runs(lc, x, t)
    BY <2>3, <2>4, <2>5, RunsTwice
  <2> QED BY <2>1, <2>4, <2>6 DEF u
<1>4. CASE ~missed /\ lc.run = {} /\ lc.plan # {}
  <2>1. u = Waiting(lc, t)
    BY <1>4 DEF Ticked
  <2> HIDE DEF u
  <2> QED BY <1>2, <1>4, <2>1, WaitingFacts DEF u
<1>5. CASE ~missed /\ lc.run = {} /\ lc.plan = {}
  <2>1. u = lc
    BY <1>5 DEF Ticked
  <2>2. Quiet(lc, t)
    BY <1>2, <1>5 DEF Quiet
  <2> QED BY <2>1, <2>2, RunsStill
<1> QED BY <1>1, <1>3, <1>4, <1>5

\* After a tick nothing more is due.
LEMMA QuietTicks ==
  ASSUME NEW lc, PolicyOK(lc), NEW t \in Nat, Quiet(lc, t)
  PROVE  Ticked(lc, t) = lc
<1>1. ~(lc.phase = "Armed" /\ \E a \in lc.armedBy : t >= a)
  BY DEF Quiet, PolicyOK
<1>2. CASE lc.run # {}
  <2>1. /\ PlanOK(Theplan(lc)) /\ PassOf(lc).los \in Int /\ PassOf(lc).aos \in Int
        /\ \A r \in lc.recovery : r.deadline \in Int
        /\ \A g \in Theplan(lc).gap : g.recoveryAt \in Int
    BY <1>2, ThePlanFacts DEF PolicyOK, PlanOK
  <2>2. Overtaken(lc, t) = lc
    BY <1>2, <2>1 DEF Overtaken, Quiet
  <2>3. GapEntered(lc, t) = lc
    BY <1>2, <2>1 DEF GapEntered, Quiet
  <2>4. Concluded(lc, t) = lc
    BY <1>2, <2>1 DEF Concluded, Quiet
  <2> QED BY <1>1, <1>2, <2>2, <2>3, <2>4 DEF Ticked
<1>3. CASE lc.run = {} /\ lc.plan # {}
  <2>1. /\ Theplan(lc) \in lc.plan
        /\ Theplan(lc).freezeBefore \in Int /\ Theplan(lc).prepareAt \in Int
    BY <1>3, ThePlanFacts DEF PlanOK
  <2>2. Waiting(lc, t) = lc
    BY <1>3, <2>1 DEF Waiting, Quiet
  <2> QED BY <1>1, <1>3, <2>2 DEF Ticked
<1>4. CASE lc.run = {} /\ lc.plan = {}
  BY <1>1, <1>4 DEF Ticked
<1> QED BY <1>2, <1>3, <1>4

-----------------------------------------------------------------------------
(* What the executor asks of a policy that has just been ticked.           *)

\* A command that is queued leaves the core of the policy.
LEMMA CommandedFacts ==
  ASSUME NEW lc, PolicyOK(lc), NEW e, EnvelopeOK(e)
  PROVE  LET u == [lc EXCEPT !.box = Submitted(@, e)]
         IN  PolicyOK(u) /\ Resembles(lc, u)
<1> DEFINE b == Submitted(lc.box, e)
           u == [lc EXCEPT !.box = b]
<1>1. Few(b) /\ \A f \in b : EnvelopeOK(f)
  BY SubmittedFacts DEF PolicyOK
<1> HIDE DEF b
<1>2. Has(u, PolicyFields) /\ u.box = b /\ \A f \in PolicyFields \ {"box"} : u[f] = lc[f]
  BY DEF PolicyOK, Has, PolicyFields
<1> HIDE DEF u
<1>3. PolicyOK(u) /\ Resembles(lc, u)
  BY <1>1, <1>2 DEF PolicyOK, InPhase, PolicyFields, Resembles, CoreFields
<1> QED BY <1>3 DEF u, b

\* So does the one that is drained.
LEMMA EmptiedFacts ==
  ASSUME NEW lc, PolicyOK(lc)
  PROVE  LET u == [lc EXCEPT !.box = {}]
         IN  PolicyOK(u) /\ Resembles(lc, u)
<1> DEFINE u == [lc EXCEPT !.box = {}]
<1>2. Has(u, PolicyFields) /\ u.box = {} /\ \A f \in PolicyFields \ {"box"} : u[f] = lc[f]
  BY DEF PolicyOK, Has, PolicyFields
<1> HIDE DEF u
<1>3. PolicyOK(u) /\ Resembles(lc, u)
  BY <1>2 DEF PolicyOK, InPhase, Few, PolicyFields, Resembles, CoreFields
<1> QED BY <1>3 DEF u

\* A policy has its own core.
LEMMA ResemblesItself ==
  ASSUME NEW lc
  PROVE  Resembles(lc, lc)
  BY DEF Resembles

\* An episode's command leaves the core of the policy.
LEMMA RecoveryCommandedFacts ==
  ASSUME NEW lc, PolicyOK(lc), NEW recovery, NEW e, NEW t,
         lc.recovery = {recovery} => EnvelopeOK(e)
  PROVE  LET u == RecoveryCommanded(lc, recovery, e, t)
         IN  PolicyOK(u) /\ Resembles(lc, u)
  BY CommandedFacts, ResemblesItself DEF RecoveryCommanded

\* So does a follower's.
LEMMA TrackingCommandedFacts ==
  ASSUME NEW lc, PolicyOK(lc), NEW run, NEW e, EnvelopeOK(e), NEW t
  PROVE  LET u == TrackingCommanded(lc, run, e, t)
         IN  PolicyOK(u) /\ Resembles(lc, u)
  BY CommandedFacts, ResemblesItself DEF TrackingCommanded

\* Movement by hand makes what was planned outdated (lifecycle.rs manual_command).
LEMMA OutdatedFacts ==
  ASSUME NEW lc, PolicyOK(lc), lc.run = {}, NEW command, NEW t
  PROVE  LET u == Outdated(lc, command)
         IN  PolicyOK(u) /\ Runs(lc, u, t) /\ u.mode = lc.mode /\ u.run = {}
<1> DEFINE w == Bumped(lc)
           u == [w EXCEPT !.plan = {}, !.ticket = {}, !.status = "Unplanned"]
<1>1. PolicyOK(w) /\ \A f \in PolicyFields \ {"revision"} : w[f] = lc[f]
  BY BumpedFacts
<1>2. Outdated(lc, command) \in {u, lc}
  BY DEF Outdated
<1> HIDE DEF w
<1>3. /\ Has(u, PolicyFields) /\ u.plan = {} /\ u.ticket = {}
      /\ \A f \in PolicyFields \ {"plan", "ticket", "status"} : u[f] = w[f]
  BY <1>1, Zenon DEF PolicyOK, Has, PolicyFields
<1>4. u.serial \in Nat
  BY <1>1, <1>3 DEF PolicyOK, PolicyFields
<1> HIDE DEF u
<1>5. \A f \in PolicyFields \ {"revision", "serial", "timing", "plan", "ticket", "status"} :
        u[f] = lc[f]
  BY <1>1, <1>3
<1>6. PolicyOK(u) /\ Runs(lc, u, t) /\ u.mode = lc.mode /\ u.run = {}
  BY <1>3, <1>4, <1>5, PlanDropped DEF Few
<1>7. Runs(lc, lc, t)
  BY RunsStill
<1> QED BY <1>2, <1>6, <1>7

\* A press moves the dish in Manual mode only (lifecycle.rs manual_command).
LEMMA ManuallyCommandedFacts ==
  ASSUME NEW lc, PolicyOK(lc), NEW token, NEW e, EnvelopeOK(e), NEW t
  PROVE  LET u == ManuallyCommanded(lc, token, e, t)
         IN  PolicyOK(u) /\ Runs(lc, u, t) /\ u.run = lc.run /\ u.mode = lc.mode
<1>1. CASE ManuallyCommanded(lc, token, e, t) = lc
  BY <1>1, RunsStill
<1>2. CASE lc.mode = "Manual"
           /\ ManuallyCommanded(lc, token, e, t)
                = [Outdated(lc, e.command) EXCEPT !.box = Submitted(@, e)]
  <2> DEFINE v == Outdated(lc, e.command)
             u == [v EXCEPT !.box = Submitted(@, e)]
  <2>1. lc.run = {}
    BY <1>2 DEF PolicyOK, InPhase
  <2>2. PolicyOK(v) /\ Runs(lc, v, t) /\ v.mode = lc.mode /\ v.run = {}
    BY <2>1, OutdatedFacts
  <2> HIDE DEF v
  <2>3. PolicyOK(u) /\ Resembles(v, u)
    BY <2>2, CommandedFacts
  <2> HIDE DEF u
  <2>4. Runs(v, u, t)
    BY <2>2, <2>3, ResemblesFacts
  <2>5. Runs(lc, u, t)
    BY <2>2, <2>3, <2>4, RunsTwice
  <2>6. u.mode = lc.mode /\ u.run = lc.run
    BY <2>1, <2>2, <2>3 DEF Resembles, CoreFields
  <2> QED BY <1>2, <2>3, <2>5, <2>6 DEF u, v
<1> QED BY <1>1, <1>2 DEF ManuallyCommanded

\* The end of a preparation (lifecycle.rs preparation_ready).
LEMMA MadeReadyFacts ==
  ASSUME NEW lc, PolicyOK(lc), NEW run, NEW t \in Nat, Quiet(lc, t)
  PROVE  LET u == MadeReady(lc, run)
         IN  PolicyOK(u) /\ Runs(lc, u, t) /\ Quiet(u, t) /\ u.run = lc.run
<1>1. CASE MadeReady(lc, run) = lc
  BY <1>1, RunsStill
<1>2. CASE lc.phase = "Preparing" /\ MadeReady(lc, run) = [Bumped(lc) EXCEPT !.phase = "Ready"]
  <2> DEFINE w == Bumped(lc)
             u == [w EXCEPT !.phase = "Ready"]
  <2>1. PolicyOK(w) /\ \A f \in PolicyFields \ {"revision"} : w[f] = lc[f]
    BY BumpedFacts
  <2> HIDE DEF w
  <2>2. Has(u, PolicyFields) /\ u.phase = "Ready" /\ \A f \in PolicyFields \ {"phase"} : u[f] = w[f]
    BY <2>1 DEF PolicyOK, Has, PolicyFields
  <2> HIDE DEF u
  <2>3. /\ u.mode = lc.mode /\ u.selection = lc.selection /\ u.revs = lc.revs
        /\ u.plan = lc.plan /\ u.run = lc.run /\ u.receipt = lc.receipt
        /\ u.recovery = lc.recovery /\ u.handled = lc.handled
    BY <2>1, <2>2 DEF PolicyFields
  <2>4. lc.mode = "Tracking" /\ lc.run # {} /\ lc.recovery = {}
    BY <1>2 DEF PolicyOK, InPhase
  <2>5. PolicyOK(u)
    BY <2>1, <2>2, <2>3, <2>4 DEF PolicyOK, InPhase, PolicyFields
  <2>6. Quiet(u, t)
    BY <1>2, <2>2, <2>3, <2>4 DEF Quiet, PassOf, Theplan
  <2>7. PassOf(lc).aos \in Int
    BY <2>4, ThePlanFacts DEF PolicyOK
  <2>8. ~Late(lc, t)
    BY <1>2, <2>4, <2>7 DEF Late, Quiet
  <2>9. Runs(lc, u, t)
    BY <1>2, <2>2, <2>3, <2>4, <2>6, <2>8 DEF Runs, Untouched, Originals
  <2> QED BY <1>2, <2>3, <2>5, <2>6, <2>9 DEF u, w
<1> QED BY <1>1, <1>2 DEF MadeReady

\* A run that leaves its route or comes back to it stays the same run.
SameRun(lc, u) == /\ Untouched(lc, u)
                  /\ lc.mode = "Tracking" /\ u.mode = "Tracking"
                  /\ lc.run # {} /\ u.run = lc.run /\ u.plan = lc.plan

\* A run on its route begins an episode, of bounded time (lifecycle.rs
\* begin_reacquisition).
LEMMA BegunFacts ==
  ASSUME NEW lc, PolicyOK(lc), NEW run, NEW t \in Nat, Quiet(lc, t)
  PROVE  LET u == Begun(lc, run, t)
         IN  \/ u = lc
             \/ /\ PolicyOK(u) /\ SameRun(lc, u) /\ Quiet(u, t)
                /\ lc.recovery = {} /\ lc.phase = "Following"
                /\ \A r \in u.recovery : r.deadline <= t + RecoveryLimit
<1> DEFINE u == Begun(lc, run, t)
<1>1. CASE u = lc
  BY <1>1
<1>2. CASE lc.recovery = {} /\ lc.phase = "Following" /\ u = Entered(lc, "Deviation", t, t)
  <2>1. lc.run # {} /\ lc.mode = "Tracking"
    BY <1>2 DEF PolicyOK, InPhase
  <2>2. u = Entered(lc, "Deviation", t, 0)
    BY <1>2, EnteredWhenever
  <2> HIDE DEF u
  <2>3. /\ PolicyOK(u) /\ u.mode = "Tracking" /\ u.phase = "Reacquiring" /\ u.recovery # {}
        /\ \A r \in u.recovery :
             r.deadline \in Int /\ r.deadline = Earlier(t + RecoveryLimit, PassOf(lc).los)
        /\ u.selection = lc.selection /\ u.revs = lc.revs /\ u.plan = lc.plan
        /\ u.run = lc.run /\ u.receipt = lc.receipt /\ u.handled = lc.handled
    BY <1>2, <2>1, <2>2, EnteredFacts
  <2>4. PassOf(lc).los \in Int /\ t < PassOf(lc).los /\ PassOf(u) = PassOf(lc)
    BY <2>1, <2>3, ThePlanFacts DEF PolicyOK, Quiet, PassOf, Theplan
  <2>5. \A r \in u.recovery : r.deadline <= t + RecoveryLimit /\ t < r.deadline
    BY <2>3, <2>4, RecoveryLimitIsPositive DEF Earlier
  <2>6. Quiet(u, t)
    BY <2>1, <2>3, <2>4, <2>5 DEF Quiet, Theplan
  <2>7. SameRun(lc, u)
    BY <2>1, <2>3 DEF SameRun, Untouched, Originals
  <2> QED BY <1>2, <2>3, <2>5, <2>6, <2>7 DEF u
<1> QED BY <1>1, <1>2 DEF Begun

\* An episode ends within its time only (lifecycle.rs
\* finish_reacquisition).
LEMMA RejoinedFacts ==
  ASSUME NEW lc, PolicyOK(lc), NEW recovery, NEW t \in Nat, Quiet(lc, t)
  PROVE  LET u == Rejoined(lc, recovery)
         IN  \/ u = lc
             \/ /\ PolicyOK(u) /\ SameRun(lc, u) /\ Quiet(u, t)
                /\ lc.recovery # {} /\ u.recovery = {} /\ u.phase = "Following"
                /\ \A r \in lc.recovery : t < r.deadline
<1> DEFINE u == Rejoined(lc, recovery)
<1>1. CASE u = lc
  BY <1>1
<1>2. CASE lc.recovery = {recovery}
           /\ u = Inhibited([Bumped(lc) EXCEPT !.phase = "Following", !.recovery = {}])
  <2> DEFINE w == Bumped(lc)
             v == [w EXCEPT !.phase = "Following", !.recovery = {}]
  <2>1. PolicyOK(w) /\ \A f \in PolicyFields \ {"revision"} : w[f] = lc[f]
    BY BumpedFacts
  <2>2. u = Inhibited(v)
    BY <1>2
  <2> HIDE DEF w, u
  <2>3. /\ Has(v, PolicyFields) /\ v.phase = "Following" /\ v.recovery = {}
        /\ \A f \in PolicyFields \ {"phase", "recovery"} : v[f] = w[f]
    BY <2>1, Zenon DEF PolicyOK, Has, PolicyFields
  <2>4. lc.mode = "Tracking" /\ lc.run # {}
    BY <1>2 DEF PolicyOK, InPhase
  <2> HIDE DEF v
  <2>5. PolicyOK(v)
    BY <2>1, <2>3, <2>4 DEF PolicyOK, InPhase, Few, PolicyFields
  <2>6. PolicyOK(u) /\ \A f \in PolicyFields \ {"box"} : u[f] = v[f]
    BY <2>2, <2>5, InhibitedFacts
  <2>7. /\ u.mode = lc.mode /\ u.selection = lc.selection /\ u.revs = lc.revs
        /\ u.plan = lc.plan /\ u.run = lc.run /\ u.receipt = lc.receipt
        /\ u.recovery = {} /\ u.phase = "Following" /\ u.handled = lc.handled
    BY <2>1, <2>3, <2>6 DEF PolicyFields
  <2>8. Quiet(u, t)
    BY <2>4, <2>7 DEF Quiet, PassOf, Theplan
  <2>9. SameRun(lc, u)
    BY <2>4, <2>7 DEF SameRun, Untouched, Originals
  <2>10. \A r \in lc.recovery : t < r.deadline
    BY <2>4 DEF Quiet
  <2> QED BY <1>2, <2>6, <2>7, <2>8, <2>9, <2>10 DEF u
<1> QED BY <1>1, <1>2 DEF Rejoined

-----------------------------------------------------------------------------
(* The device.                                                             *)

\* A run on its route that has looked at all there is to see.
Firm(x, t) ==
  /\ x.lc.phase = "Following" /\ Quiet(x.lc, t)
  /\ x.exec # {} /\ \A e \in x.exec : x.lc.run = {e.run} /\ e.seen = x.sample

\* What becomes of a pass in device x at the instant t.
Goes(x, y, t) ==
  y.lc.mode = "Tracking" =>
    /\ x.lc.mode = "Tracking" /\ y.bound = x.bound /\ y.gate = x.gate
    /\ x.lc.run # {} => y.lc.run = x.lc.run /\ y.lc.plan = x.lc.plan
    /\ x.lc.recovery # {} =>
         \/ y.lc.recovery = x.lc.recovery
         \/ Firm(y, t) /\ \A r \in x.lc.recovery : t < r.deadline
    /\ x.lc.recovery = {} => \A r \in y.lc.recovery : r.deadline <= t + RecoveryLimit
    /\ Late(x.lc, t) =>
         \/ Late(y.lc, t) \/ Firm(y, t)
         \/ /\ y.lc.recovery # {}
            /\ \A r \in y.lc.recovery : r.deadline <= PassOf(x.lc).aos + RecoveryLimit
    /\ Firm(x, t) => Firm(y, t)

\* What becomes of device x at the instant t, while it learns nothing new.
Leads(x, y, t) ==
  /\ DeviceOK(y)
  /\ y.clock = x.clock /\ y.sample = x.sample /\ x.startRev <= y.startRev
  /\ y.applied = x.applied \/ (y.applied = t /\ Quiet(y.lc, t))
  /\ Quiet(x.lc, t) => Quiet(y.lc, t)
  /\ Untouched(x.lc, y.lc)
  /\ y.lc.mode = "Manual" =>
       y.lc.plan = {} \/ (x.lc.mode = "Manual" /\ x.lc.plan # {} /\ y.bound \subseteq x.bound)
  /\ Goes(x, y, t)

\* What becomes of a pass may become of it in two steps.
LEMMA GoesTwice ==
  ASSUME NEW t, NEW x, PolicyOK(x.lc), NEW y, PolicyOK(y.lc), NEW z, PolicyOK(z.lc),
         Goes(x, y, t), Goes(y, z, t)
  PROVE  Goes(x, z, t)
<1> SUFFICES ASSUME z.lc.mode = "Tracking" PROVE Goes(x, z, t)
  BY DEF Goes
<1>1. /\ y.lc.mode = "Tracking" /\ x.lc.mode = "Tracking"
      /\ z.bound = x.bound /\ z.gate = x.gate
      /\ x.lc.run # {} => z.lc.run = x.lc.run /\ z.lc.plan = x.lc.plan /\ y.lc.plan = x.lc.plan
      /\ Firm(x, t) => Firm(z, t)
  BY DEF Goes
<1>2. ASSUME NEW w, PolicyOK(w.lc), Firm(w, t) PROVE w.lc.recovery = {}
  BY <1>2 DEF Firm, PolicyOK, InPhase
<1>3. x.lc.recovery # {} =>
        \/ z.lc.recovery = x.lc.recovery
        \/ Firm(z, t) /\ \A r \in x.lc.recovery : t < r.deadline
  BY <1>1 DEF Goes
<1>4. x.lc.recovery = {} => \A r \in z.lc.recovery : r.deadline <= t + RecoveryLimit
  BY <1>1, <1>2 DEF Goes
<1>5. ASSUME Late(x.lc, t)
      PROVE  \/ Late(z.lc, t) \/ Firm(z, t)
             \/ /\ z.lc.recovery # {}
                /\ \A r \in z.lc.recovery : r.deadline <= PassOf(x.lc).aos + RecoveryLimit
  <2>1. PassOf(y.lc) = PassOf(x.lc)
    BY <1>1, <1>5 DEF Late, PolicyOK, InPhase, PassOf, Theplan
  <2> QED BY <1>1, <1>5, <2>1 DEF Goes
<1> QED BY <1>1, <1>3, <1>4, <1>5 DEF Goes

\* What becomes of a device may become of it in two steps.
LEMMA LeadsTwice ==
  ASSUME NEW t, NEW x, DeviceOK(x), NEW y, Leads(x, y, t), NEW z, Leads(y, z, t)
  PROVE  Leads(x, z, t)
<1>1. Goes(x, z, t)
  BY GoesTwice DEF Leads, DeviceOK
<1>2. /\ x.startRev \in Nat /\ y.startRev \in Nat /\ z.startRev \in Nat
      /\ x.startRev <= y.startRev /\ y.startRev <= z.startRev
  BY DEF Leads, DeviceOK
<1>3. x.startRev <= z.startRev
  BY <1>2
<1>4. Untouched(x.lc, z.lc)
  BY DEF Leads, Untouched
<1>5. z.applied = x.applied \/ (z.applied = t /\ Quiet(z.lc, t))
  BY DEF Leads
<1> QED BY <1>1, <1>3, <1>4, <1>5 DEF Leads

\* A device whose policy runs on, and whose execution is not lost.
LEMMA ChangeLeads ==
  ASSUME NEW t, NEW x, DeviceOK(x), NEW y, DeviceOK(y),
         y.clock = x.clock, y.sample = x.sample, x.startRev <= y.startRev,
         y.applied = x.applied \/ (y.applied = t /\ Quiet(y.lc, t)),
         Runs(x.lc, y.lc, t),
         y.bound \subseteq x.bound,
         y.lc.mode = "Tracking" => y.gate = x.gate /\ y.bound = x.bound,
         (Firm(x, t) /\ y.lc.mode = "Tracking") =>
           y.exec # {} /\ \A e \in y.exec : x.lc.run = {e.run} /\ e.seen = x.sample
  PROVE  Leads(x, y, t)
<1>1. Firm(x, t) /\ y.lc.mode = "Tracking" => Firm(y, t)
  <2> SUFFICES ASSUME Firm(x, t), y.lc.mode = "Tracking" PROVE Firm(y, t)
    OBVIOUS
  <2>1. x.lc.run # {}
    BY DEF Firm
  <2> QED BY <2>1 DEF Firm, Runs
<1>2. Goes(x, y, t)
  BY <1>1 DEF Goes, Runs
<1> QED BY <1>2 DEF Leads, Runs

\* A device may stay as it is.
LEMMA LeadsStill ==
  ASSUME NEW t, NEW x, DeviceOK(x)
  PROVE  Leads(x, x, t)
<1>1. Runs(x.lc, x.lc, t) /\ x.startRev <= x.startRev
  BY RunsStill DEF DeviceOK
<1> QED BY <1>1, ChangeLeads DEF Firm

\* When the end of an episode is known.
LEMMA DatedFacts ==
  ASSUME NEW lc, PolicyOK(lc), NEW t \in Nat
  PROVE  /\ Quiet(lc, t) => Dated(lc)
         /\ lc.recovery = {} => Dated(lc)
         /\ \A u : Dated(u) /\ u.recovery = lc.recovery => Dated(lc)
<1>1. ASSUME Quiet(lc, t), NEW r \in lc.recovery PROVE r.deadline \in Nat
  <2>1. lc.run # {} /\ r.deadline \in Int
    BY <1>1 DEF PolicyOK, InPhase
  <2>2. t < r.deadline
    BY <1>1, <2>1 DEF Quiet
  <2> QED BY <2>1, <2>2
<1> QED BY <1>1 DEF Dated

\* A change of the policy alone.
LEMMA PolicyLeads ==
  ASSUME NEW t, NEW x, DeviceOK(x), NEW u, PolicyOK(u), Dated(u), Runs(x.lc, u, t)
  PROVE  LET y == [x EXCEPT !.lc = u]
         IN  /\ Leads(x, y, t) /\ y.lc = u
             /\ \A f \in DeviceFields \ {"lc"} : y[f] = x[f]
<1> DEFINE y == [x EXCEPT !.lc = u]
<1>1. Has(y, DeviceFields) /\ y.lc = u /\ \A f \in DeviceFields \ {"lc"} : y[f] = x[f]
  BY DEF DeviceOK, Has, DeviceFields
<1> HIDE DEF y
<1>2. /\ y.bound = x.bound /\ y.exec = x.exec /\ y.clock = x.clock /\ y.gate = x.gate
      /\ y.sample = x.sample /\ y.out = x.out /\ y.applied = x.applied /\ y.startRev = x.startRev
  BY <1>1 DEF DeviceFields
<1>3. DeviceOK(y)
  BY <1>1, <1>2 DEF DeviceOK
<1>4. x.startRev <= y.startRev
  BY <1>2 DEF DeviceOK
<1>5. Firm(x, t) => y.exec # {} /\ \A e \in y.exec : x.lc.run = {e.run} /\ e.seen = x.sample
  BY <1>2 DEF Firm
<1>6. Leads(x, y, t)
  BY <1>1, <1>2, <1>3, <1>4, <1>5, ChangeLeads
<1> QED BY <1>1, <1>6 DEF y

\* A change of the execution alone.
LEMMA ExecLeads ==
  ASSUME NEW t, NEW x, DeviceOK(x), NEW exec, ExecutionsOK(exec),
         Firm(x, t) => exec # {} /\ \A e \in exec : x.lc.run = {e.run} /\ e.seen = x.sample
  PROVE  LET y == [x EXCEPT !.exec = exec]
         IN  /\ Leads(x, y, t) /\ y.exec = exec
             /\ \A f \in DeviceFields \ {"exec"} : y[f] = x[f]
<1> DEFINE y == [x EXCEPT !.exec = exec]
<1>1. Has(y, DeviceFields) /\ y.exec = exec /\ \A f \in DeviceFields \ {"exec"} : y[f] = x[f]
  BY DEF DeviceOK, Has, DeviceFields
<1> HIDE DEF y
<1>2. /\ y.bound = x.bound /\ y.lc = x.lc /\ y.clock = x.clock /\ y.gate = x.gate
      /\ y.sample = x.sample /\ y.out = x.out /\ y.applied = x.applied /\ y.startRev = x.startRev
  BY <1>1 DEF DeviceFields
<1>3. DeviceOK(y)
  BY <1>1, <1>2 DEF DeviceOK
<1>4. x.startRev <= y.startRev /\ Runs(x.lc, y.lc, t)
  BY <1>2, RunsStill DEF DeviceOK
<1>6. Leads(x, y, t)
  BY <1>1, <1>2, <1>3, <1>4, ChangeLeads
<1> QED BY <1>1, <1>6 DEF y

\* In Manual mode no generation has to be remembered.
LEMMA UnboundLeads ==
  ASSUME NEW t, NEW x, DeviceOK(x), x.lc.mode = "Manual"
  PROVE  LET y == [x EXCEPT !.bound = {}]
         IN  /\ Leads(x, y, t) /\ y.bound = {}
             /\ \A f \in DeviceFields \ {"bound"} : y[f] = x[f]
<1> DEFINE y == [x EXCEPT !.bound = {}]
<1>1. Has(y, DeviceFields) /\ y.bound = {} /\ \A f \in DeviceFields \ {"bound"} : y[f] = x[f]
  BY DEF DeviceOK, Has, DeviceFields
<1> HIDE DEF y
<1>2. /\ y.exec = x.exec /\ y.lc = x.lc /\ y.clock = x.clock /\ y.gate = x.gate
      /\ y.sample = x.sample /\ y.out = x.out /\ y.applied = x.applied /\ y.startRev = x.startRev
  BY <1>1 DEF DeviceFields
<1>3. DeviceOK(y)
  BY <1>1, <1>2 DEF DeviceOK
<1>4. x.startRev <= y.startRev /\ Runs(x.lc, y.lc, t)
  BY <1>2, RunsStill DEF DeviceOK
<1>6. Leads(x, y, t)
  BY <1>1, <1>2, <1>3, <1>4, ChangeLeads
<1> QED BY <1>1, <1>6 DEF y

-----------------------------------------------------------------------------
(* Executions and the service of a device.                                 *)

\* An execution of the same run, after the same sample.
Kin(e, f) == Has(f, ExecutionFields) /\ f.run = e.run /\ f.seen = e.seen

\* Following its episode, an execution stays the one of its run.
LEMMA EpisodeSyncedFacts ==
  ASSUME NEW e, Has(e, ExecutionFields), NEW lc
  PROVE  Kin(e, EpisodeSynced(e, lc))
<1> DEFINE over == {r \in e.rec : lc.recovery # {r.episode}}
           follower == IF lc.phase = "Following" THEN UNION {r.follower : r \in over} ELSE e.follower
           w == IF over = {} THEN e ELSE [e EXCEPT !.rec = {}, !.follower = follower]
           rec == {NewRecovery(r) : r \in lc.recovery}
           u == [w EXCEPT !.rec = rec]
<1>1. EpisodeSynced(e, lc) \in {w, u}
  BY Zenon DEF EpisodeSynced
<1> HIDE DEF over, follower, rec
<1>2. Kin(e, w)
  BY DEF Kin, Has, ExecutionFields
<1> HIDE DEF w
<1>3. Kin(e, u)
  BY <1>2 DEF Kin, Has, ExecutionFields
<1> QED BY <1>1, <1>2, <1>3

\* A new execution is the one of its run.
LEMMA NewExecutionFacts ==
  ASSUME NEW lc, PolicyOK(lc), lc.run # {}
  PROVE  Has(NewExecution(lc), ExecutionFields) /\ lc.run = {NewExecution(lc).run}
<1>1. lc.run = {The(lc.run)}
  BY TheFacts DEF PolicyOK, The
<1> QED BY <1>1 DEF NewExecution, Has, ExecutionFields

\* Synchronising puts the execution in step with the policy (runtime.rs
\* sync_execution).
LEMMA SyncedFacts ==
  ASSUME NEW t, NEW x, DeviceOK(x)
  PROVE  LET y == Synced(x)
         IN  /\ Leads(x, y, t) /\ InStep(y)
             /\ \A f \in DeviceFields \ {"exec"} : y[f] = x[f]
<1> DEFINE kept == {e \in x.exec : x.lc.run = {e.run}}
           some == IF kept # {} THEN kept
                   ELSE IF x.lc.run = {} THEN {} ELSE {NewExecution(x.lc)}
           exec == {EpisodeSynced(e, x.lc) : e \in some}
           y == [x EXCEPT !.exec = exec]
<1>1. Synced(x) = y
  BY DEF Synced
<1>2. /\ Few(some)
      /\ \A e \in some : Has(e, ExecutionFields) /\ x.lc.run = {e.run}
  <2>1. CASE kept # {}
    BY <2>1 DEF DeviceOK, ExecutionsOK, Few
  <2>2. CASE kept = {} /\ x.lc.run = {}
    BY <2>2 DEF Few
  <2>3. CASE kept = {} /\ x.lc.run # {}
    BY <2>3, NewExecutionFacts DEF Few, DeviceOK
  <2> QED BY <2>1, <2>2, <2>3
<1>3. Firm(x, t) => some # {} /\ \A e \in some : e.seen = x.sample
  BY DEF Firm
<1> HIDE DEF some
<1>4. \A e \in some : LET f == EpisodeSynced(e, x.lc) IN Kin(e, f)
  BY <1>2, EpisodeSyncedFacts
<1>5. ExecutionsOK(exec) /\ \A f \in exec : x.lc.run = {f.run}
  BY <1>2, <1>4 DEF ExecutionsOK, Few, Kin
<1>6. Firm(x, t) => exec # {} /\ \A f \in exec : f.seen = x.sample
  BY <1>3, <1>4 DEF Kin
<1> HIDE DEF exec
<1>7. /\ Leads(x, y, t) /\ y.exec = exec
      /\ \A f \in DeviceFields \ {"exec"} : y[f] = x[f]
  BY <1>5, <1>6, ExecLeads
<1> HIDE DEF y
<1>8. InStep(y)
  BY <1>5, <1>7 DEF InStep, DeviceFields
<1> QED BY <1>1, <1>7, <1>8

\* An interrupted device is in Manual mode.
LEMMA InterruptFacts ==
  ASSUME NEW t, NEW x, DeviceOK(x), NEW reason
  PROVE  LET y == Interrupt(x, reason)
         IN  /\ Leads(x, y, t) /\ y.lc.mode = "Manual" /\ Quiet(y.lc, t)
             /\ \A f \in DeviceFields \ {"lc"} : y[f] = x[f]
<1> DEFINE u == Interrupted(x.lc, reason)
<1>1. PolicyOK(u) /\ Ended(u) /\ Untouched(x.lc, u)
  BY InterruptedFacts DEF DeviceOK
<1>2. Runs(x.lc, u, t) /\ u.mode = "Manual" /\ Dated(u) /\ Quiet(u, t)
  BY <1>1, EndedIsQuiet DEF Ended, PolicyOK, InPhase, Dated
<1> HIDE DEF u
<1>3. LET y == [x EXCEPT !.lc = u]
      IN  /\ Leads(x, y, t) /\ y.lc = u
          /\ \A f \in DeviceFields \ {"lc"} : y[f] = x[f]
  BY <1>1, <1>2, PolicyLeads
<1> QED BY <1>2, <1>3 DEF u, Interrupt

\* The two forms in which the runtime gives up a run.
LEMMA GivenUpFacts ==
  ASSUME NEW t, NEW x, DeviceOK(x), NEW reason
  PROVE  /\ LET y == Synced(Interrupt(x, reason))
            IN  Leads(x, y, t) /\ InStep(y) /\ y.lc.mode = "Manual" /\ Quiet(y.lc, t)
         /\ LET y == Synced([Interrupt(x, reason) EXCEPT !.bound = {}])
            IN  /\ Leads(x, y, t) /\ InStep(y) /\ y.lc.mode = "Manual" /\ Quiet(y.lc, t)
                /\ y.bound = {}
<1> DEFINE v == Interrupt(x, reason)
           w == [v EXCEPT !.bound = {}]
<1>1. Leads(x, v, t) /\ v.lc.mode = "Manual" /\ Quiet(v.lc, t)
  BY InterruptFacts
<1> HIDE DEF v
<1>2. /\ Leads(v, w, t) /\ w.bound = {}
      /\ \A f \in DeviceFields \ {"bound"} : w[f] = v[f]
  BY <1>1, UnboundLeads DEF Leads
<1> HIDE DEF w
<1>3. Leads(x, w, t) /\ DeviceOK(v) /\ DeviceOK(w)
  BY <1>1, <1>2, LeadsTwice DEF Leads
<1>4. /\ Leads(v, Synced(v), t) /\ InStep(Synced(v))
      /\ \A f \in DeviceFields \ {"exec"} : Synced(v)[f] = v[f]
  BY <1>3, SyncedFacts
<1>5. /\ Leads(w, Synced(w), t) /\ InStep(Synced(w))
      /\ \A f \in DeviceFields \ {"exec"} : Synced(w)[f] = w[f]
  BY <1>3, SyncedFacts
<1>6. Leads(x, Synced(v), t) /\ Leads(x, Synced(w), t)
  BY <1>1, <1>3, <1>4, <1>5, LeadsTwice
<1>7. /\ Synced(v).lc = v.lc /\ Synced(w).lc = v.lc /\ Synced(w).bound = {}
  BY <1>2, <1>4, <1>5 DEF DeviceFields
<1> QED BY <1>1, <1>4, <1>5, <1>6, <1>7 DEF v, w

\* Checking the inputs ends a pass whose network is another one (runtime.rs
\* check_inputs).
LEMMA CheckedFacts ==
  ASSUME NEW t \in Nat, NEW x, DeviceOK(x)
  PROVE  LET y == Checked(x, t)
         IN  /\ Leads(x, y, t)
             /\ ~NetworkKept(x, t) => y.lc.mode = "Manual"
             /\ y.gate = x.gate
<1> DEFINE y == Checked(x, t)
<1>0. \A reason : /\ Synced([Interrupt(x, reason) EXCEPT !.bound = {}]).gate = x.gate
  <2> TAKE reason
  <2> DEFINE v == Interrupt(x, reason)
             w == [v EXCEPT !.bound = {}]
  <2>1. Leads(x, v, t) /\ v.lc.mode = "Manual" /\ \A f \in DeviceFields \ {"lc"} : v[f] = x[f]
    BY InterruptFacts
  <2> HIDE DEF v
  <2>2. /\ Leads(v, w, t) /\ \A f \in DeviceFields \ {"bound"} : w[f] = v[f]
    BY <2>1, UnboundLeads DEF Leads
  <2> HIDE DEF w
  <2>3. \A f \in DeviceFields \ {"exec"} : Synced(w)[f] = w[f]
    BY <2>2, SyncedFacts DEF Leads
  <2> QED BY <2>1, <2>2, <2>3 DEF v, w, DeviceFields
<1>1. CASE \E reason : y = Synced([Interrupt(x, reason) EXCEPT !.bound = {}])
  <2>1. PICK reason : y = Synced([Interrupt(x, reason) EXCEPT !.bound = {}])
    BY <1>1
  <2> HIDE DEF y
  <2>2. Leads(x, y, t) /\ y.lc.mode = "Manual" /\ y.gate = x.gate
    BY <1>0, <2>1, GivenUpFacts
  <2> QED BY <2>2 DEF y
<1>2. CASE y = x /\ ~(x.lc.mode = "Tracking" /\ ~NetworkKept(x, t))
  <2>1. x.lc.mode \in {"Manual", "Tracking"}
    BY DEF DeviceOK, PolicyOK, InPhase
  <2> QED BY <1>2, <2>1, LeadsStill
<1>3. CASE /\ y = [x EXCEPT !.lc = Invalidated(@)] /\ x.lc.run = {}
           /\ ~(x.lc.mode = "Tracking" /\ ~NetworkKept(x, t))
  <2> DEFINE u == Invalidated(x.lc)
  <2>1. PolicyOK(u) /\ Runs(x.lc, u, t) /\ u.mode = x.lc.mode /\ u.run = {}
    BY <1>3, InvalidatedFacts DEF DeviceOK
  <2>2. Dated(u)
    BY <2>1 DEF PolicyOK, InPhase, Dated
  <2>3. y = [x EXCEPT !.lc = u]
    BY <1>3
  <2> HIDE DEF u, y
  <2>4. /\ Leads(x, y, t) /\ y.lc = u
        /\ \A f \in DeviceFields \ {"lc"} : y[f] = x[f]
    BY <2>1, <2>2, <2>3, PolicyLeads
  <2>5. x.lc.mode \in {"Manual", "Tracking"} /\ y.gate = x.gate
    BY <2>4 DEF DeviceOK, PolicyOK, InPhase, DeviceFields
  <2> QED BY <1>3, <2>1, <2>4, <2>5 DEF y
<1> QED BY <1>1, <1>2, <1>3 DEF Checked

\* The execution goes on.
Continues(before, after) ==
  \/ before = {} /\ after = {}
  \/ \E e, f : before = {e} /\ after = {f} /\ Kin(e, f)

\* Executions that continue those of a run are well formed.
LEMMA ContinuesFacts ==
  ASSUME NEW t, NEW x, DeviceOK(x), NEW exec, Continues(x.exec, exec)
  PROVE  /\ ExecutionsOK(exec)
         /\ Firm(x, t) => exec # {} /\ \A e \in exec : x.lc.run = {e.run} /\ e.seen = x.sample
         /\ InStep(x) => \A e \in exec : x.lc.run = {e.run}
  BY DEF Continues, Kin, ExecutionsOK, Few, Firm, InStep

\* A device has one execution or none.
LEMMA ExecutionSplit ==
  ASSUME NEW x, DeviceOK(x)
  PROVE  x.exec = {} \/ \E e : x.exec = {e} /\ Has(e, ExecutionFields)
<1>1. ASSUME NEW e \in x.exec PROVE x.exec = {e} /\ Has(e, ExecutionFields)
  BY DEF DeviceOK, ExecutionsOK, Few
<1> QED BY <1>1

\* An operation on the policy of a device and its execution at once.
Both(x, y, exec, u, t) ==
  /\ Leads(x, y, t) /\ y.exec = exec /\ y.lc = u
  /\ \A f \in DeviceFields \ {"exec", "lc"} : y[f] = x[f]

\* A change of policy and execution at once.
LEMMA BothLead ==
  ASSUME NEW t, NEW x, DeviceOK(x), NEW exec, Continues(x.exec, exec),
         NEW u, PolicyOK(u), Dated(u), Runs(x.lc, u, t)
  PROVE  Both(x, [x EXCEPT !.exec = exec, !.lc = u], exec, u, t)
<1> DEFINE y == [x EXCEPT !.exec = exec, !.lc = u]
<1>1. /\ Has(y, DeviceFields) /\ y.exec = exec /\ y.lc = u
      /\ \A f \in DeviceFields \ {"exec", "lc"} : y[f] = x[f]
  BY Zenon DEF DeviceOK, Has, DeviceFields
<1> HIDE DEF y
<1>2. /\ y.bound = x.bound /\ y.clock = x.clock /\ y.gate = x.gate
      /\ y.sample = x.sample /\ y.out = x.out /\ y.applied = x.applied /\ y.startRev = x.startRev
  BY <1>1 DEF DeviceFields
<1>3. /\ ExecutionsOK(exec)
      /\ Firm(x, t) => exec # {} /\ \A e \in exec : x.lc.run = {e.run} /\ e.seen = x.sample
  BY ContinuesFacts
<1>4. DeviceOK(y)
  BY <1>1, <1>2, <1>3 DEF DeviceOK
<1>5. x.startRev <= y.startRev
  BY <1>2 DEF DeviceOK
<1>6. Leads(x, y, t)
  BY <1>1, <1>2, <1>3, <1>4, <1>5, ChangeLeads
<1> QED BY <1>1, <1>6 DEF y, Both

\* A tick of the device leaves nothing due at its instant.
LEMMA TickFacts ==
  ASSUME NEW t \in Nat, NEW x, DeviceOK(x)
  PROVE  LET y == Tick(x, t)
         IN  /\ Leads(x, y, t) /\ InStep(y) /\ Quiet(y.lc, t)
             /\ \A f \in DeviceFields \ {"exec", "lc"} : y[f] = x[f]
<1> DEFINE u == Ticked(x.lc, t)
           v == [x EXCEPT !.lc = u]
           y == Synced(v)
<1>1. PolicyOK(u) /\ Runs(x.lc, u, t) /\ Quiet(u, t)
  BY TickedFacts DEF DeviceOK
<1>2. Tick(x, t) = y
  BY DEF Tick
<1> HIDE DEF u
<1>3. /\ Leads(x, v, t) /\ v.lc = u
      /\ \A f \in DeviceFields \ {"lc"} : v[f] = x[f]
  BY <1>1, DatedFacts, PolicyLeads
<1> HIDE DEF v
<1>4. /\ Leads(v, y, t) /\ InStep(y)
      /\ \A f \in DeviceFields \ {"exec"} : y[f] = v[f]
  BY <1>3, SyncedFacts DEF Leads
<1> HIDE DEF y
<1>5. Leads(x, y, t) /\ y.lc = u
  BY <1>3, <1>4, LeadsTwice DEF DeviceFields
<1> QED BY <1>1, <1>2, <1>3, <1>4, <1>5

\* A run that misses its own deadline ends (runtime.rs service).
LEMMA DeadlinesKeptFacts ==
  ASSUME NEW t \in Nat, NEW x, DeviceOK(x), Quiet(x.lc, t)
  PROVE  LET y == DeadlinesKept(x, t)
         IN  Leads(x, y, t) /\ Quiet(y.lc, t)
<1> DEFINE y == DeadlinesKept(x, t)
<1>1. CASE y = x
  BY <1>1, LeadsStill
<1>2. CASE \E reason : y = Synced(Interrupt(x, reason))
  <2>1. PICK reason : y = Synced(Interrupt(x, reason))
    BY <1>2
  <2> HIDE DEF y
  <2>2. Leads(x, y, t) /\ Quiet(y.lc, t)
    BY <2>1, GivenUpFacts, Zenon
  <2> QED BY <2>2 DEF y
<1> QED BY <1>1, <1>2 DEF DeadlinesKept

\* What an episode's execution goes through leaves the run's.
LEMMA RecMapped ==
  ASSUME NEW e, Has(e, ExecutionFields), NEW rec
  PROVE  Kin(e, [e EXCEPT !.rec = rec])
  BY DEF Kin, Has, ExecutionFields

\* A missed launch stops the dish and not the run (runtime.rs
\* check_recovery_schedule).
LEMMA ScheduleCheckedFacts ==
  ASSUME NEW t \in Nat, NEW x, DeviceOK(x), Quiet(x.lc, t)
  PROVE  LET y == ScheduleChecked(x, t)
         IN  /\ Leads(x, y, t) /\ Quiet(y.lc, t) /\ y.lc.run = x.lc.run
             /\ InStep(x) => InStep(y)
             /\ \A f \in DeviceFields \ {"exec", "lc"} : y[f] = x[f]
<1> DEFINE y == ScheduleChecked(x, t)
           missed == {r \in UNION {e.rec : e \in x.exec} : Missed(r, t)}
           exec == {[e EXCEPT !.rec = {Held(r, t) : r \in @}] : e \in x.exec}
           u == RecoveryCommanded(Ticked(x.lc, t), The(missed).episode, Stop, t)
<1>1. CASE y = x
  BY <1>1, LeadsStill
<1>2. CASE y = [x EXCEPT !.exec = exec, !.lc = u]
  <2>1. Ticked(x.lc, t) = x.lc
    BY QuietTicks DEF DeviceOK
  <2>2. PolicyOK(u) /\ Resembles(x.lc, u)
    BY <2>1, StopIsOK, RecoveryCommandedFacts DEF DeviceOK
  <2> HIDE DEF u
  <2>3. Runs(x.lc, u, t) /\ Quiet(u, t) /\ Dated(u) /\ u.run = x.lc.run
    <3>1. Runs(x.lc, u, t) /\ Quiet(u, t)
      BY <2>2, ResemblesFacts DEF DeviceOK
    <3> QED BY <2>2, <3>1, DatedFacts DEF Resembles, CoreFields
  <2>4. Continues(x.exec, exec)
    <3>1. CASE x.exec = {}
      BY <3>1 DEF Continues
    <3>2. ASSUME NEW e, x.exec = {e}, Has(e, ExecutionFields) PROVE Continues(x.exec, exec)
      <4> DEFINE rec == {Held(r, t) : r \in e.rec}
      <4>1. exec = {[e EXCEPT !.rec = rec]}
        BY <3>2
      <4> HIDE DEF rec, exec
      <4>2. Kin(e, [e EXCEPT !.rec = rec])
        BY <3>2, RecMapped
      <4> QED BY <3>2, <4>1, <4>2 DEF Continues
    <3> QED BY <3>1, <3>2, ExecutionSplit
  <2> HIDE DEF exec, y
  <2>7. Both(x, [x EXCEPT !.exec = exec, !.lc = u], exec, u, t)
    BY <2>2, <2>3, <2>4, BothLead, Zenon
  <2>8. Both(x, y, exec, u, t)
    BY <1>2, <2>7
  <2>5. /\ Leads(x, y, t) /\ y.exec = exec /\ y.lc = u
        /\ \A f \in DeviceFields \ {"exec", "lc"} : y[f] = x[f]
    BY <2>8 DEF Both
  <2>6. InStep(x) => InStep(y)
    BY <2>3, <2>4, <2>5, ContinuesFacts DEF InStep
  <2> QED BY <2>3, <2>5, <2>6 DEF y
<1> QED BY <1>1, <1>2, Zenon DEF ScheduleChecked

\* After a service nothing is due, and nothing is bound by hand.
Served(y, t) == Quiet(y.lc, t) /\ (y.lc.mode = "Manual" => y.bound = {})

\* A service leaves nothing due, and without the network no pass (runtime.rs
\* service).
LEMMA ServicedFacts ==
  ASSUME NEW t \in Nat, NEW x, DeviceOK(x)
  PROVE  LET y == Serviced(x, t)
         IN  /\ Leads(x, y, t) /\ Served(y, t)
             /\ ~NetworkKept(x, t) => y.lc.mode = "Manual"
<1> DEFINE a == Checked(x, t)
           b == Tick(a, t)
           c == DeadlinesKept(b, t)
           v == ScheduleChecked(c, t)
           y == Unbound(v)
<1>0. Serviced(x, t) = y
  BY DEF Serviced
<1>1. Leads(x, a, t) /\ (~NetworkKept(x, t) => a.lc.mode = "Manual") /\ DeviceOK(a)
  BY CheckedFacts DEF Leads
<1> HIDE DEF a
<1>2. Leads(a, b, t) /\ Quiet(b.lc, t) /\ DeviceOK(b)
  BY <1>1, TickFacts DEF Leads
<1> HIDE DEF b
<1>3. Leads(b, c, t) /\ Quiet(c.lc, t) /\ DeviceOK(c)
  BY <1>2, DeadlinesKeptFacts DEF Leads
<1> HIDE DEF c
<1>4. Leads(c, v, t) /\ Quiet(v.lc, t) /\ DeviceOK(v)
  BY <1>3, ScheduleCheckedFacts DEF Leads
<1> HIDE DEF v
<1>5. Leads(v, y, t) /\ Served(y, t)
  <2>1. CASE v.lc.mode = "Manual"
    <3> DEFINE w == [v EXCEPT !.bound = {}]
    <3>1. y = w
      BY <2>1 DEF Unbound
    <3>2. /\ Leads(v, w, t) /\ w.bound = {}
          /\ \A f \in DeviceFields \ {"bound"} : w[f] = v[f]
      BY <1>4, <2>1, UnboundLeads
    <3> HIDE DEF w, y
    <3>3. w.lc = v.lc
      BY <3>2 DEF DeviceFields
    <3> QED BY <1>4, <3>1, <3>2, <3>3 DEF Served
  <2>2. CASE v.lc.mode # "Manual"
    BY <1>4, <2>2, LeadsStill DEF Unbound, Served
  <2> QED BY <2>1, <2>2
<1> HIDE DEF y
<1>6. Leads(x, b, t) /\ Leads(a, b, t)
  BY <1>1, <1>2, LeadsTwice
<1>7. Leads(x, c, t) /\ Leads(a, c, t)
  BY <1>1, <1>3, <1>6, LeadsTwice
<1>8. Leads(x, v, t) /\ Leads(a, v, t)
  BY <1>1, <1>4, <1>7, LeadsTwice
<1>9. Leads(x, y, t) /\ Leads(a, y, t)
  BY <1>1, <1>5, <1>8, LeadsTwice
<1>10. a.lc.mode = "Manual" => y.lc.mode = "Manual"
  BY <1>9 DEF Leads, Goes, DeviceOK, PolicyOK, InPhase
<1> QED BY <1>0, <1>1, <1>5, <1>9, <1>10

-----------------------------------------------------------------------------
(* Observing a run.                                                        *)

\* An execution of the same run that has looked at all there is to see.
Saw(e, f, sample) == Has(f, ExecutionFields) /\ f.run = e.run /\ f.seen = sample

\* An execution that has looked at the newest sample.
LEMMA SawLeads ==
  ASSUME NEW t, NEW x, DeviceOK(x), InStep(x), NEW e, x.exec = {e},
         NEW f, Saw(e, f, x.sample)
  PROVE  LET y == [x EXCEPT !.exec = {f}]
         IN  /\ Leads(x, y, t) /\ InStep(y) /\ y.exec = {f}
             /\ \A g \in DeviceFields \ {"exec"} : y[g] = x[g]
<1> DEFINE exec == {f}
<1>1. x.lc.run = {f.run} /\ f.seen = x.sample /\ ExecutionsOK(exec)
  BY DEF InStep, Saw, ExecutionsOK, Few
<1>2. exec # {} /\ \A h \in exec : x.lc.run = {h.run} /\ h.seen = x.sample
  BY <1>1
<1> DEFINE y == [x EXCEPT !.exec = exec]
<1> HIDE DEF exec
<1>3. /\ Leads(x, y, t) /\ y.exec = exec
      /\ \A g \in DeviceFields \ {"exec"} : y[g] = x[g]
  BY <1>1, <1>2, ExecLeads
<1>4. y.lc = x.lc
  BY <1>3 DEF DeviceFields
<1>5. InStep(y)
  BY <1>2, <1>3, <1>4 DEF InStep
<1> QED BY <1>3, <1>5 DEF exec

\* A run that leaves its route, or comes back to it in time.
LeavesRoute(lc, u, t) ==
  /\ lc.recovery = {} /\ lc.phase = "Following"
  /\ \A r \in u.recovery : r.deadline <= t + RecoveryLimit
ComesBack(lc, u, t) ==
  /\ lc.recovery # {} /\ u.recovery = {} /\ u.phase = "Following"
  /\ \A r \in lc.recovery : t < r.deadline
Turns(lc, u, t) ==
  /\ PolicyOK(u) /\ SameRun(lc, u) /\ Quiet(u, t)
  /\ LeavesRoute(lc, u, t) \/ ComesBack(lc, u, t)

\* A run that leaves its route or comes back to it after looking.
LEMMA TurnsLead ==
  ASSUME NEW t \in Nat, NEW x, DeviceOK(x), InStep(x), ~Firm(x, t), NEW e, x.exec = {e},
         NEW f, Saw(e, f, x.sample), NEW u, Turns(x.lc, u, t)
  PROVE  LET y == [x EXCEPT !.exec = {f}, !.lc = u]
         IN  Leads(x, y, t)
<1> DEFINE y == [x EXCEPT !.exec = {f}, !.lc = u]
<1>1. /\ Has(y, DeviceFields) /\ y.exec = {f} /\ y.lc = u
      /\ \A g \in DeviceFields \ {"exec", "lc"} : y[g] = x[g]
  BY Zenon DEF DeviceOK, Has, DeviceFields
<1> HIDE DEF y
<1>2. /\ y.bound = x.bound /\ y.clock = x.clock /\ y.gate = x.gate
      /\ y.sample = x.sample /\ y.out = x.out /\ y.applied = x.applied /\ y.startRev = x.startRev
  BY <1>1 DEF DeviceFields
<1>3. x.lc.run = {f.run} /\ f.seen = x.sample /\ ExecutionsOK({f})
  BY DEF InStep, Saw, ExecutionsOK, Few
<1>4. /\ PolicyOK(u) /\ SameRun(x.lc, u) /\ Quiet(u, t) /\ Dated(u)
  BY DatedFacts DEF Turns
<1>5. DeviceOK(y)
  BY <1>1, <1>2, <1>3, <1>4 DEF DeviceOK
<1>6. x.startRev <= y.startRev
  BY <1>2 DEF DeviceOK
<1>7. u.phase = "Following" => Firm(y, t)
  BY <1>1, <1>2, <1>3, <1>4 DEF Firm, SameRun
<1>8. Goes(x, y, t)
  <2>1. CASE LeavesRoute(x.lc, u, t)
    BY <2>1, <1>1, <1>2, <1>4 DEF Goes, LeavesRoute, Late, SameRun
  <2>2. CASE ComesBack(x.lc, u, t)
    <3>1. ~Late(x.lc, t)
      BY <2>2 DEF Late, ComesBack, DeviceOK, PolicyOK, InPhase
    <3> QED BY <2>2, <3>1, <1>1, <1>2, <1>4, <1>7 DEF Goes, ComesBack, SameRun
  <2> QED BY <2>1, <2>2 DEF Turns
<1>9. Leads(x, y, t)
  BY <1>1, <1>2, <1>4, <1>5, <1>6, <1>8 DEF Leads, SameRun
<1> QED BY <1>9 DEF y

\* Noting a sample is looking at it.
LEMMA NotedSaw ==
  ASSUME NEW e, Has(e, ExecutionFields), NEW s, NEW rec
  PROVE  Saw(e, [e EXCEPT !.seen = {s}, !.rec = rec], {s})
  BY DEF Saw, Has, ExecutionFields

\* The monitor leaves what was looked at.
LEMMA MonitoredSaw ==
  ASSUME NEW e, NEW s, NEW f, Saw(e, f, {s})
  PROVE  Saw(e, Monitored(f, s), {s})
<1> DEFINE gap == \E t \in f.current : s.at - t > FeedbackMaxAge
           begun(since) == IF since = {} \/ gap THEN {s.at} ELSE since
           above == IF s.error = "bad" THEN begun(f.above) ELSE {}
           below == IF s.error = "good" THEN begun(f.below) ELSE {}
           m == [f EXCEPT !.current = {s.at}, !.above = above, !.below = below]
<1>1. Monitored(f, s) = m
  BY DEF Monitored
<1> HIDE DEF above, below
<1>2. Saw(e, m, {s})
  BY DEF Saw, Has, ExecutionFields
<1> QED BY <1>1, <1>2

\* What a deviation that lasted makes of a run (runtime.rs observe_tracking).
LEMMA DeviationActedFacts ==
  ASSUME NEW t \in Nat, NEW x, DeviceOK(x), InStep(x), Quiet(x.lc, t), ~Firm(x, t),
         NEW e, x.exec = {e}, NEW f, Saw(e, f, x.sample), NEW s
  PROVE  Leads(x, DeviationActed(x, f, s, t), t)
<1> DEFINE next == [x EXCEPT !.exec = {f}]
           y == DeviationActed(x, f, s, t)
<1>1. Leads(x, next, t)
  BY SawLeads
<1>2. Ticked(x.lc, t) = x.lc
  BY QuietTicks DEF DeviceOK
<1>3. next.lc = x.lc
  BY DEF DeviceOK, Has, DeviceFields
<1>4. ASSUME NEW u, u = x.lc \/ Turns(x.lc, u, t), y = [next EXCEPT !.lc = u]
      PROVE  Leads(x, y, t)
  <2>1. CASE u = x.lc
    <3>1. y = next
      BY <2>1, <1>3, <1>4 DEF DeviceOK, Has, DeviceFields
    <3> QED BY <3>1, <1>1
  <2>2. CASE Turns(x.lc, u, t)
    <3>1. Leads(x, [x EXCEPT !.exec = {f}, !.lc = u], t)
      BY <2>2, TurnsLead, Zenon
    <3>2. y = [x EXCEPT !.exec = {f}, !.lc = u]
      BY <1>4
    <3> QED BY <3>1, <3>2
  <2> QED BY <1>4, <2>1, <2>2
<1>5. ASSUME NEW run PROVE Begun(x.lc, run, t) = x.lc \/ Turns(x.lc, Begun(x.lc, run, t), t)
  BY BegunFacts DEF DeviceOK, Turns, LeavesRoute
<1>6. ASSUME NEW r PROVE Rejoined(x.lc, r) = x.lc \/ Turns(x.lc, Rejoined(x.lc, r), t)
  BY RejoinedFacts DEF DeviceOK, Turns, ComesBack
<1>7. CASE y = next
  BY <1>1, <1>7
<1>8. CASE y = [next EXCEPT !.lc = Begun(Ticked(@, t), {f.run}, t)]
  <2> DEFINE u == Begun(x.lc, {f.run}, t)
  <2>1. y = [next EXCEPT !.lc = u]
    BY <1>2, <1>3, <1>8
  <2>2. u = x.lc \/ Turns(x.lc, u, t)
    BY <1>5
  <2> HIDE DEF u, y
  <2>3. Leads(x, y, t)
    BY <1>4, <2>1, <2>2, Zenon
  <2> QED BY <2>3 DEF y
<1>9. CASE y = [next EXCEPT !.lc = Rejoined(Ticked(@, t), The(f.rec).episode)]
  <2> DEFINE u == Rejoined(x.lc, The(f.rec).episode)
  <2>1. y = [next EXCEPT !.lc = u]
    BY <1>2, <1>3, <1>9
  <2>2. u = x.lc \/ Turns(x.lc, u, t)
    BY <1>6
  <2> HIDE DEF u, y
  <2>3. Leads(x, y, t)
    BY <1>4, <2>1, <2>2, Zenon
  <2> QED BY <2>3 DEF y
<1> QED BY <1>7, <1>8, <1>9 DEF DeviationActed

\* What a sample makes of a run (runtime.rs observe_tracking).
LEMMA WatchedFacts ==
  ASSUME NEW t \in Nat, NEW x, DeviceOK(x), InStep(x), Quiet(x.lc, t), NEW e, x.exec = {e}
  PROVE  LET y == Watched(x, e, t) IN Leads(x, y, t) /\ InStep(y)
<1> DEFINE y == Watched(x, e, t)
           s == The(x.sample)
           rec == {[r EXCEPT !.follower = OutputSeen(@, Moving(x.out), t)] : r \in e.rec}
           noted == [e EXCEPT !.seen = {s}, !.rec = rec]
           compared == /\ e.seen # {s}
                       /\ x.lc.phase \in {"Following", "Reacquiring"}
                       /\ s.at >= e.aos
           problem == ObservationProblem(x, e, t)
<1>1. y = IF problem # "none" THEN Synced(Interrupt(x, problem))
          ELSE IF ~compared THEN [x EXCEPT !.exec = {noted}]
          ELSE Synced(DeviationActed(x, Monitored(noted, s), s, t))
  BY DEF Watched
<1>2. CASE problem # "none"
  <2>1. y = Synced(Interrupt(x, problem))
    BY <1>1, <1>2
  <2> HIDE DEF y, problem
  <2>2. Leads(x, y, t) /\ InStep(y)
    BY <2>1, GivenUpFacts
  <2> QED BY <2>2 DEF y
<1>3. CASE problem = "none"
  <2>1. x.sample # {}
    BY <1>3 DEF ObservationProblem
  <2>2. x.sample = {s}
    BY <2>1, TheFacts DEF The, DeviceOK
  <2>3. Has(e, ExecutionFields)
    BY DEF DeviceOK, ExecutionsOK
  <2> HIDE DEF s, rec
  <2>4. Saw(e, noted, {s})
    BY <2>3, NotedSaw, Zenon
  <2> HIDE DEF noted
  <2>7. Saw(e, noted, x.sample) /\ Saw(e, Monitored(noted, s), x.sample)
    BY <2>2, <2>4, MonitoredSaw
  <2>5. CASE ~compared
    <3>1. y = [x EXCEPT !.exec = {noted}]
      BY <1>1, <1>3, <2>5
    <3> HIDE DEF y
    <3>2. Leads(x, y, t) /\ InStep(y)
      BY <2>7, <3>1, SawLeads
    <3> QED BY <3>2 DEF y
  <2>6. CASE compared
    <3>1. ~Firm(x, t)
      BY <2>2, <2>6 DEF Firm
    <3> DEFINE m == Monitored(noted, s)
               z == DeviationActed(x, m, s, t)
    <3>2. y = Synced(z)
      BY <1>1, <1>3, <2>6
    <3> HIDE DEF m
    <3>3. Leads(x, z, t)
      BY <2>7, <3>1, DeviationActedFacts DEF m
    <3> HIDE DEF y, z
    <3>4. Leads(z, Synced(z), t) /\ InStep(Synced(z))
      BY <3>3, SyncedFacts DEF Leads
    <3>5. Leads(x, y, t) /\ InStep(y)
      BY <3>2, <3>3, <3>4, LeadsTwice
    <3> QED BY <3>5 DEF y
  <2> QED BY <2>5, <2>6
<1> QED BY <1>2, <1>3

\* Observing a run, its service included (runtime.rs observe_tracking).
LEMMA ObservedRunFacts ==
  ASSUME NEW t \in Nat, NEW x, DeviceOK(x)
  PROVE  Leads(x, ObservedRun(x, t), t)
<1> DEFINE a == Checked(x, t)
           live == Tick(a, t)
           v == ScheduleChecked(live, t)
           y == ObservedRun(x, t)
<1>1. Leads(x, a, t) /\ DeviceOK(a)
  BY CheckedFacts DEF Leads
<1> HIDE DEF a
<1>2. Leads(a, live, t) /\ InStep(live) /\ Quiet(live.lc, t) /\ DeviceOK(live)
  BY <1>1, TickFacts DEF Leads
<1>3. y = x \/ y = live \/ y = WatchedRun(v, t)
  BY DEF ObservedRun, ObservedLive, a
<1> HIDE DEF live
<1>4. Leads(live, v, t) /\ InStep(v) /\ Quiet(v.lc, t) /\ DeviceOK(v)
  BY <1>2, ScheduleCheckedFacts DEF Leads
<1> HIDE DEF v, y
<1>5. Leads(x, live, t)
  BY <1>1, <1>2, LeadsTwice
<1>6. Leads(x, v, t)
  BY <1>4, <1>5, LeadsTwice
<1>7. Leads(v, WatchedRun(v, t), t)
  <2>1. CASE v.lc.plan = {} \/ v.exec = {}
    BY <1>4, <2>1, LeadsStill DEF WatchedRun
  <2>2. CASE v.lc.plan # {} /\ v.exec # {}
    <3>1. v.exec = {The(v.exec)}
      BY <1>4, <2>2, TheFacts DEF The, DeviceOK, ExecutionsOK
    <3>2. Leads(v, Watched(v, The(v.exec), t), t)
      BY <1>4, <3>1, WatchedFacts
    <3> QED BY <2>2, <3>2 DEF WatchedRun
  <2> QED BY <2>1, <2>2
<1>8. Leads(x, WatchedRun(v, t), t)
  BY <1>6, <1>7, LeadsTwice
<1>9. Leads(x, y, t)
  BY <1>3, <1>5, <1>8, LeadsStill
<1> QED BY <1>9 DEF y

-----------------------------------------------------------------------------
(* The network, the operator and the output.                               *)

\* A change of execution that continues the run.
LEMMA ContinuedLeads ==
  ASSUME NEW t, NEW x, DeviceOK(x), NEW exec, Continues(x.exec, exec)
  PROVE  LET y == [x EXCEPT !.exec = exec]
         IN  /\ Leads(x, y, t) /\ y.exec = exec
             /\ \A f \in DeviceFields \ {"exec"} : y[f] = x[f]
<1>1. /\ ExecutionsOK(exec)
      /\ Firm(x, t) => exec # {} /\ \A e \in exec : x.lc.run = {e.run} /\ e.seen = x.sample
  BY ContinuesFacts
<1> QED BY <1>1, ExecLeads

\* Observing the output touches followers only (runtime.rs observe_output).
LEMMA OutputObservedFacts ==
  ASSUME NEW t, NEW x, DeviceOK(x)
  PROVE  LET y == OutputObserved(x, t)
         IN  /\ Leads(x, y, t)
             /\ \A f \in DeviceFields \ {"exec"} : y[f] = x[f]
<1> DEFINE seen(followers) == OutputSeen(followers, Moving(x.out), t)
           rec(e) == {[r EXCEPT !.follower = seen(@)] : r \in e.rec}
           next(e) == [e EXCEPT !.follower = seen(@), !.rec = {[r EXCEPT !.follower = seen(@)] : r \in @}]
           exec == {next(e) : e \in x.exec}
<1>1. OutputObserved(x, t) = [x EXCEPT !.exec = exec]
  BY DEF OutputObserved
<1>2. Continues(x.exec, exec)
  <2>1. CASE x.exec = {}
    BY <2>1 DEF Continues
  <2>2. ASSUME NEW e, x.exec = {e}, Has(e, ExecutionFields) PROVE Continues(x.exec, exec)
    <3> DEFINE follower == seen(e.follower)
               recs == rec(e)
               f == [e EXCEPT !.follower = follower, !.rec = recs]
    <3>1. next(e) = f
      OBVIOUS
    <3>2. exec = {f}
      BY <2>2, <3>1
    <3> HIDE DEF follower, recs, exec
    <3>3. Kin(e, f)
      BY <2>2 DEF Kin, Has, ExecutionFields
    <3> QED BY <2>2, <3>2, <3>3 DEF Continues
  <2> QED BY <2>1, <2>2, ExecutionSplit, Zenon
<1> HIDE DEF exec
<1> QED BY <1>1, <1>2, ContinuedLeads

\* Claiming and releasing control.
LEMMA OwnedLeads ==
  ASSUME NEW t, NEW x, DeviceOK(x), NEW token
  PROVE  /\ LET y == [x EXCEPT !.lc = Claimed(@, token)]
            IN  Leads(x, y, t) /\ y.lc.mode = x.lc.mode /\ y.bound = x.bound /\ Resembles(x.lc, y.lc)
         /\ LET y == [x EXCEPT !.lc = Unowned(@)]
            IN  Leads(x, y, t) /\ y.lc.mode = x.lc.mode /\ y.bound = x.bound /\ Resembles(x.lc, y.lc)
<1>1. ASSUME NEW u, PolicyOK(u), Resembles(x.lc, u)
      PROVE  LET y == [x EXCEPT !.lc = u]
             IN  Leads(x, y, t) /\ y.lc.mode = x.lc.mode /\ y.bound = x.bound /\ Resembles(x.lc, y.lc)
  <2> DEFINE y == [x EXCEPT !.lc = u]
  <2>1. Runs(x.lc, u, t) /\ Dated(u) /\ u.mode = x.lc.mode
    BY <1>1, ResemblesFacts DEF DeviceOK, Dated, Resembles, CoreFields
  <2>2. /\ Leads(x, y, t) /\ y.lc = u
        /\ \A f \in DeviceFields \ {"lc"} : y[f] = x[f]
    BY <1>1, <2>1, PolicyLeads
  <2> HIDE DEF y
  <2>3. y.bound = x.bound
    BY <2>2 DEF DeviceFields
  <2> QED BY <1>1, <2>1, <2>2, <2>3 DEF y
<1>2. /\ PolicyOK(Claimed(x.lc, token)) /\ Resembles(x.lc, Claimed(x.lc, token))
      /\ PolicyOK(Unowned(x.lc)) /\ Resembles(x.lc, Unowned(x.lc))
  BY ClaimedFacts DEF DeviceOK
<1> QED BY <1>1, <1>2

\* Without the permission it was armed under, no pass is kept.
LEMMA NetworkRevokedFacts ==
  ASSUME NEW t \in Nat, NEW x, DeviceOK(x), x.lc.mode = "Tracking" => ~NetworkKept(x, t)
  PROVE  LET y == NetworkRevoked(x, t)
         IN  Leads(x, y, t) /\ Served(y, t) /\ y.lc.mode = "Manual"
<1> DEFINE a == Serviced(x, t)
           b == [a EXCEPT !.lc = Unowned(@)]
           v == IF x.lc.token = {} THEN x ELSE b
           y == Serviced(v, t)
<1>0. NetworkRevoked(x, t) = y
  BY DEF NetworkRevoked
<1>1. ASSUME NEW w, DeviceOK(w), NEW u, Leads(w, u, t), w.lc.mode = "Manual"
      PROVE  u.lc.mode = "Manual"
  BY <1>1 DEF Leads, Goes, DeviceOK, PolicyOK, InPhase
<1>2. /\ Leads(x, a, t) /\ DeviceOK(a) /\ (~NetworkKept(x, t) => a.lc.mode = "Manual")
  BY ServicedFacts DEF Leads
<1>3. x.lc.mode = "Manual" \/ ~NetworkKept(x, t)
  BY DEF DeviceOK, PolicyOK, InPhase
<1>4. a.lc.mode = "Manual"
  BY <1>1, <1>2, <1>3
<1> HIDE DEF a
<1>5. Leads(a, b, t) /\ b.lc.mode = "Manual" /\ DeviceOK(b)
  BY <1>2, <1>4, OwnedLeads DEF Leads
<1> HIDE DEF b
<1>6. Leads(x, b, t)
  BY <1>2, <1>5, LeadsTwice
<1>7. Leads(x, v, t) /\ (v.lc.mode = "Manual" \/ (v = x /\ ~NetworkKept(x, t)))
  BY <1>3, <1>5, <1>6, LeadsStill
<1> HIDE DEF v
<1>8. DeviceOK(v)
  BY <1>7 DEF Leads
<1>9. Leads(v, y, t) /\ Served(y, t) /\ (~NetworkKept(v, t) => y.lc.mode = "Manual")
  BY <1>8, ServicedFacts
<1>10. y.lc.mode = "Manual"
  BY <1>1, <1>7, <1>8, <1>9
<1>11. Leads(x, y, t)
  BY <1>7, <1>9, LeadsTwice
<1> QED BY <1>0, <1>9, <1>10, <1>11

\* The network gate of a device that has given up its run.
GateOK(gate) == gate \in [observed : SUBSET Nat, generation : Nat]

\* A device with another network gate is well formed.
LEMMA GateChanged ==
  ASSUME NEW x, DeviceOK(x), NEW gate, GateOK(gate)
  PROVE  LET g == [x EXCEPT !.gate = gate]
         IN  /\ DeviceOK(g) /\ g.gate = gate
             /\ \A f \in DeviceFields \ {"gate"} : g[f] = x[f]
<1> DEFINE g == [x EXCEPT !.gate = gate]
<1>1. /\ Has(g, DeviceFields) /\ g.gate = gate
      /\ \A f \in DeviceFields \ {"gate"} : g[f] = x[f]
  BY DEF DeviceOK, Has, DeviceFields
<1> HIDE DEF g
<1>2. /\ g.lc = x.lc /\ g.exec = x.exec /\ g.clock = x.clock /\ g.sample = x.sample
      /\ g.out = x.out /\ g.applied = x.applied /\ g.startRev = x.startRev
  BY <1>1 DEF DeviceFields
<1>3. DeviceOK(g)
  BY <1>1, <1>2 DEF DeviceOK, GateOK
<1> QED BY <1>1, <1>3 DEF g

\* What ends in Manual mode may begin with any network gate.
LEMMA ManualLeads ==
  ASSUME NEW t, NEW x, DeviceOK(x), NEW gate, GateOK(gate), NEW y,
         Leads([x EXCEPT !.gate = gate], y, t), y.lc.mode = "Manual"
  PROVE  Leads(x, y, t)
<1> DEFINE g == [x EXCEPT !.gate = gate]
<1>1. \A f \in DeviceFields \ {"gate"} : g[f] = x[f]
  BY GateChanged
<1>2. Leads(g, y, t)
  OBVIOUS
<1> HIDE DEF g
<1>3. /\ g.lc = x.lc /\ g.clock = x.clock /\ g.sample = x.sample /\ g.bound = x.bound
      /\ g.applied = x.applied /\ g.startRev = x.startRev
  BY <1>1 DEF DeviceFields
<1> QED BY <1>2, <1>3 DEF Leads, Goes

\* A lapsed network ends a pass (coordination.rs advance).
LEMMA AdvancedFacts ==
  ASSUME NEW t \in Nat, NEW x, DeviceOK(x)
  PROVE  Leads(x, Advanced(x, t), t)
<1>1. CASE ~Lapsed(x.gate, t)
  BY <1>1, LeadsStill DEF Advanced
<1>2. CASE Lapsed(x.gate, t)
  <2> DEFINE gate == Expire(x.gate, t)
             g == [x EXCEPT !.gate = gate]
  <2>1. Advanced(x, t) = NetworkRevoked(g, t)
    BY <1>2 DEF Advanced
  <2>2. GateOK(gate) /\ ~Ready(gate, t)
    BY <1>2 DEF Expire, DeviceOK, GateOK, Ready
  <2> HIDE DEF gate
  <2>3. DeviceOK(g) /\ g.gate = gate
    BY <2>2, GateChanged
  <2>4. ~NetworkKept(g, t)
    BY <2>2, <2>3 DEF NetworkKept
  <2> DEFINE y == NetworkRevoked(g, t)
  <2>5. Leads(g, y, t) /\ y.lc.mode = "Manual"
    BY <2>3, <2>4, NetworkRevokedFacts
  <2> HIDE DEF y
  <2>6. Leads(x, y, t)
    BY <2>2, <2>5, ManualLeads
  <2> QED BY <2>1, <2>6 DEF y
<1> QED BY <1>1, <1>2

\* What is drained for the output.
DrainOK(envelopes) == Few(envelopes) /\ \A e \in envelopes : EnvelopeOK(e)

\* Draining a command (runtime.rs take_command).
LEMMA CommandTakenFacts ==
  ASSUME NEW t \in Nat, NEW x, DeviceOK(x), Quiet(x.lc, t)
  PROVE  LET y == CommandTaken(x, t)
         IN  /\ Leads(x, y, t) /\ Quiet(y.lc, t) /\ y.out = x.out
             /\ DrainOK(Drained(x, t))
<1> DEFINE exec == {[e EXCEPT !.rec = {[r EXCEPT !.pending = FALSE] : r \in @}] : e \in x.exec}
           u == [x.lc EXCEPT !.box = {}]
           y == CommandTaken(x, t)
<1>1. Ticked(x.lc, t) = x.lc
  BY QuietTicks DEF DeviceOK
<1>2. y = [x EXCEPT !.exec = exec, !.lc = u]
  BY <1>1 DEF CommandTaken
<1>3. PolicyOK(u) /\ Resembles(x.lc, u)
  BY EmptiedFacts DEF DeviceOK
<1> HIDE DEF u
<1>4. Runs(x.lc, u, t) /\ Quiet(u, t)
  BY <1>3, ResemblesFacts DEF DeviceOK
<1>5. Dated(u)
  BY <1>3, <1>4, DatedFacts
<1>6. Continues(x.exec, exec)
  <2>1. CASE x.exec = {}
    BY <2>1 DEF Continues
  <2>2. ASSUME NEW e, x.exec = {e}, Has(e, ExecutionFields) PROVE Continues(x.exec, exec)
    <3> DEFINE rec == {[r EXCEPT !.pending = FALSE] : r \in e.rec}
    <3>1. exec = {[e EXCEPT !.rec = rec]}
      BY <2>2
    <3> HIDE DEF rec, exec
    <3>2. Kin(e, [e EXCEPT !.rec = rec])
      BY <2>2, RecMapped
    <3> QED BY <2>2, <3>1, <3>2 DEF Continues
  <2> QED BY <2>1, <2>2, ExecutionSplit
<1> HIDE DEF exec, y
<1>7. Both(x, [x EXCEPT !.exec = exec, !.lc = u], exec, u, t)
  BY <1>3, <1>4, <1>5, <1>6, BothLead, Zenon
<1>8. Both(x, y, exec, u, t)
  BY <1>2, <1>7
<1>9. Leads(x, y, t) /\ Quiet(y.lc, t) /\ y.out = x.out
  BY <1>4, <1>8 DEF Both, DeviceFields
<1>10. DrainOK(Drained(x, t))
  BY <1>1, StopIsOK DEF Drained, DrainOK, Taken, DeviceOK, PolicyOK, Few
<1> QED BY <1>9, <1>10 DEF y

\* A leased guard, with a lease as it can be granted at the instant t.
LeasedAt(g, t) == g \in Guard /\ Leased(g) /\ g.lease <= t + MovementLease

\* A command extends the lease by no more than one lease from now.
LEMMA CommandLeases ==
  ASSUME NEW t \in Nat, NEW g, LeasedAt(g, t), NEW command \in Command, NEW until \in Nat
  PROVE  LeasedAt(CommandUntil(g, command, t, until), t) /\ LeasedAt(InhibitGuard(g, t), t)
<1>1. Inhibition \in Command
  BY CommandTypes
<1> QED BY <1>1, CommandUntilFacts DEF LeasedAt, GuardStep, InhibitGuard

\* An update extends no lease.
LEMMA UpdateLeases ==
  ASSUME NEW t \in Nat, NEW g, LeasedAt(g, t)
  PROVE  LeasedAt(UpdateGuard(g, t), t)
<1>1. /\ GuardStep(g, UpdateGuard(g, t), t)
      /\ UpdateGuard(g, t).lease \in {g.lease, NoLease}
  BY UpdateGuardFacts DEF LeasedAt
<1>2. NoLease <= t + MovementLease
  BY RelayConfigIsValid DEF NoLease
<1> QED BY <1>1, <1>2 DEF LeasedAt, GuardStep

\* An output step leaves the relays well formed and leased (actuator.rs step).
LEMMA OutputStepFacts ==
  ASSUME NEW t \in Nat, NEW x, DeviceOK(x), x.applied <= t,
         NEW envelopes, DrainOK(envelopes), NEW faulty
  PROVE  OutputOK(OutputStep(x, envelopes, faulty, t), t)
<1> DEFINE current == x.healthy /\ \E s \in x.sample : t <= s.at + FeedbackMaxAge
           able == current /\ ~x.out.fault /\ ~faulty
           kept == IF able THEN x.out ELSE [x.out EXCEPT !.guard = InhibitGuard(@, t)]
           permitted(e) == IF able /\ Ready(x.gate, t) THEN e.command ELSE Inhibition
           obeyed(guard) == IF envelopes = {} THEN UpdateGuard(guard, t)
                            ELSE LET e == The(envelopes)
                                 IN  CommandUntil(guard, permitted(e), t, e.until)
           revoked == Revoke(kept, x.gate, t)
           next == [revoked EXCEPT !.guard = obeyed(@), !.fault = @ \/ faulty]
           turned == IF Moving(x.out) \/ Moving(next) THEN t ELSE next.turned
<1>0. OutputStep(x, envelopes, faulty, t) = [next EXCEPT !.turned = turned]
  BY DEF OutputStep
<1>1. LeasedAt(x.out.guard, t) /\ Has(x.out, OutputFields)
  BY RelayConfigIsValid DEF DeviceOK, OutputOK, LeasedAt, Leased, InMotion, Guard
<1>2. LeasedAt(InhibitGuard(x.out.guard, t), t)
  BY <1>1, CommandLeases, CommandTypes, StopIsOK DEF EnvelopeOK
<1>3. LeasedAt(kept.guard, t) /\ Has(kept, OutputFields)
  BY <1>1, <1>2 DEF Has, OutputFields
<1> HIDE DEF kept
<1>4. LeasedAt(revoked.guard, t) /\ Has(revoked, OutputFields)
  <2>1. LeasedAt(InhibitGuard(kept.guard, t), t)
    BY <1>3, CommandLeases, StopIsOK DEF EnvelopeOK
  <2> QED BY <1>3, <2>1 DEF Revoke, Has, OutputFields
<1> HIDE DEF revoked
<1>5. LeasedAt(obeyed(revoked.guard), t)
  <2>1. CASE envelopes = {}
    BY <1>4, <2>1, UpdateLeases
  <2>2. CASE envelopes # {}
    <3> DEFINE e == The(envelopes)
               command == permitted(e)
    <3>1. e \in envelopes
      BY <2>2, TheFacts DEF The, DrainOK
    <3>2. EnvelopeOK(e)
      BY <3>1 DEF DrainOK
    <3>3. command \in Command /\ e.until \in Nat
      BY <3>2, StopIsOK, CommandTypes DEF EnvelopeOK, Stop
    <3>4. obeyed(revoked.guard) = CommandUntil(revoked.guard, command, t, e.until)
      BY <2>2
    <3> HIDE DEF e, command, obeyed
    <3> QED BY <1>4, <3>3, <3>4, CommandLeases
  <2> QED BY <2>1, <2>2
<1>6. next.guard = obeyed(revoked.guard) /\ Has(next, OutputFields)
  <2> DEFINE guard == obeyed(revoked.guard)
             fault == revoked.fault \/ faulty
  <2>1. next = [revoked EXCEPT !.guard = guard, !.fault = fault]
    OBVIOUS
  <2> HIDE DEF guard, fault, obeyed, next
  <2>2. next.guard = guard /\ Has(next, OutputFields)
    BY <1>4, <2>1 DEF Has, OutputFields
  <2> QED BY <2>2 DEF guard
<1> HIDE DEF obeyed, next, turned
<1> DEFINE out == [next EXCEPT !.turned = turned]
<1>7. LeasedAt(out.guard, t) /\ Has(out, OutputFields)
  BY <1>5, <1>6 DEF Has, OutputFields
<1>8. OutputOK(out, t)
  BY <1>7 DEF OutputOK, LeasedAt, Leased, InMotion
<1> QED BY <1>0, <1>8

\* Recording an output at the instant of a service.
LEMMA OutputLeads ==
  ASSUME NEW t \in Nat, NEW x, DeviceOK(x), Quiet(x.lc, t), NEW out, OutputOK(out, t)
  PROVE  LET y == [x EXCEPT !.out = out, !.applied = t]
         IN  Leads(x, y, t) /\ Quiet(y.lc, t) /\ y.applied = t
<1> DEFINE y == [x EXCEPT !.out = out, !.applied = t]
<1>1. /\ Has(y, DeviceFields) /\ y.out = out /\ y.applied = t
      /\ \A f \in DeviceFields \ {"out", "applied"} : y[f] = x[f]
  BY Zenon DEF DeviceOK, Has, DeviceFields
<1> HIDE DEF y
<1>2. /\ y.bound = x.bound /\ y.clock = x.clock /\ y.gate = x.gate
      /\ y.sample = x.sample /\ y.lc = x.lc /\ y.exec = x.exec /\ y.startRev = x.startRev
  BY <1>1 DEF DeviceFields
<1>3. DeviceOK(y)
  BY <1>1, <1>2 DEF DeviceOK
<1>4. x.startRev <= y.startRev /\ Runs(x.lc, y.lc, t)
  BY <1>2, RunsStill DEF DeviceOK
<1>5. Firm(x, t) => y.exec # {} /\ \A e \in y.exec : x.lc.run = {e.run} /\ e.seen = x.sample
  BY <1>2 DEF Firm
<1>6. Leads(x, y, t)
  BY <1>1, <1>2, <1>3, <1>4, <1>5, ChangeLeads
<1> QED BY <1>1, <1>2, <1>6 DEF y

\* Another start drops what was planned from the old one (runtime.rs
\* invalidate_start).
LEMMA StartChangedFacts ==
  ASSUME NEW t \in Nat, NEW x, DeviceOK(x)
  PROVE  LET y == StartChanged(x)
         IN  Leads(x, y, t) /\ y.applied = x.applied
<1> DEFINE n == x.startRev + 1
           noted == [x EXCEPT !.startRev = n]
           y == StartChanged(x)
<1>1. n \in Nat /\ x.startRev <= n
  BY DEF DeviceOK
<1> HIDE DEF n
<1>2. /\ Has(noted, DeviceFields) /\ noted.startRev = n
      /\ \A f \in DeviceFields \ {"startRev"} : noted[f] = x[f]
  BY DEF DeviceOK, Has, DeviceFields
<1>3. y = noted \/ (noted.lc.run = {} /\ y = [noted EXCEPT !.lc = Invalidated(@)])
  <2>1. noted = [x EXCEPT !.startRev = @ + 1]
    BY DEF n
  <2>2. noted.lc = x.lc
    BY <1>2 DEF DeviceFields
  <2> QED BY <2>1, <2>2 DEF StartChanged
<1> HIDE DEF noted, y
<1>4. /\ noted.bound = x.bound /\ noted.clock = x.clock /\ noted.gate = x.gate
      /\ noted.sample = x.sample /\ noted.lc = x.lc /\ noted.exec = x.exec
      /\ noted.out = x.out /\ noted.applied = x.applied
  BY <1>2 DEF DeviceFields
<1>5. DeviceOK(noted)
  BY <1>1, <1>2, <1>4 DEF DeviceOK
<1>6. Runs(x.lc, noted.lc, t)
  BY <1>4, RunsStill DEF DeviceOK
<1>7. Firm(x, t) => noted.exec # {} /\ \A e \in noted.exec : x.lc.run = {e.run} /\ e.seen = x.sample
  BY <1>4 DEF Firm
<1>8. Leads(x, noted, t)
  BY <1>1, <1>2, <1>4, <1>5, <1>6, <1>7, ChangeLeads
<1>9. CASE y = noted
  BY <1>4, <1>8, <1>9 DEF y
<1>10. CASE noted.lc.run = {} /\ y = [noted EXCEPT !.lc = Invalidated(@)]
  <2> DEFINE u == Invalidated(noted.lc)
  <2>1. y = [noted EXCEPT !.lc = u]
    BY <1>10
  <2>2. PolicyOK(u) /\ Runs(noted.lc, u, t) /\ u.run = {}
    BY <1>5, <1>10, InvalidatedFacts DEF DeviceOK
  <2> HIDE DEF u
  <2>3. Dated(u)
    BY <2>2, DatedFacts DEF PolicyOK, InPhase
  <2>4. /\ Leads(noted, y, t)
        /\ \A f \in DeviceFields \ {"lc"} : y[f] = noted[f]
    BY <1>5, <2>1, <2>2, <2>3, PolicyLeads
  <2>5. y.applied = x.applied
    BY <1>4, <2>4 DEF DeviceFields
  <2>6. Leads(x, y, t)
    BY <1>8, <2>4, LeadsTwice
  <2> QED BY <2>5, <2>6 DEF y
<1> QED BY <1>3, <1>9, <1>10

\* So does another identity of the start (coordination.rs changed_start).
LEMMA IdentifiedFacts ==
  ASSUME NEW t \in Nat, NEW x, DeviceOK(x), NEW identity
  PROVE  LET y == Identified(x, identity)
         IN  Leads(x, y, t) /\ y.applied = x.applied
<1>1. CASE identity = x.identity
  BY <1>1, LeadsStill DEF Identified
<1>2. CASE identity # x.identity
  <2> DEFINE v == [x EXCEPT !.identity = identity]
             y == StartChanged(v)
  <2>1. Identified(x, identity) = y
    BY <1>2 DEF Identified
  <2>2. /\ Has(v, DeviceFields)
        /\ \A f \in DeviceFields \ {"identity"} : v[f] = x[f]
    BY DEF DeviceOK, Has, DeviceFields
  <2> HIDE DEF v
  <2>3. /\ v.bound = x.bound /\ v.clock = x.clock /\ v.gate = x.gate
        /\ v.sample = x.sample /\ v.lc = x.lc /\ v.exec = x.exec
        /\ v.out = x.out /\ v.applied = x.applied /\ v.startRev = x.startRev
    BY <2>2 DEF DeviceFields
  <2>4. DeviceOK(v)
    BY <2>2, <2>3 DEF DeviceOK
  <2>5. Runs(x.lc, v.lc, t) /\ x.startRev <= v.startRev
    BY <2>3, RunsStill DEF DeviceOK
  <2>6. Firm(x, t) => v.exec # {} /\ \A e \in v.exec : x.lc.run = {e.run} /\ e.seen = x.sample
    BY <2>3 DEF Firm
  <2>7. Leads(x, v, t)
    BY <2>3, <2>4, <2>5, <2>6, ChangeLeads
  <2>8. Leads(v, y, t) /\ y.applied = v.applied
    BY <2>4, StartChangedFacts
  <2> HIDE DEF y
  <2>9. Leads(x, y, t)
    BY <2>7, <2>8, LeadsTwice
  <2> QED BY <2>1, <2>3, <2>8, <2>9
<1> QED BY <1>1, <1>2

\* Recording an output, all of it (coordination.rs record_actuator).
LEMMA RecordedFacts ==
  ASSUME NEW t \in Nat, NEW x, DeviceOK(x), Quiet(x.lc, t), NEW out, OutputOK(out, t)
  PROVE  LET y == Recorded(x, out, t)
         IN  Leads(x, y, t) /\ Quiet(y.lc, t) /\ y.applied = t
<1> DEFINE a == [x EXCEPT !.out = out, !.applied = t]
           b == OutputObserved(a, t)
           identity == Identity(b, t)
           y == Identified(b, identity)
<1>0. Recorded(x, out, t) = y
  BY DEF Recorded
<1>1. Leads(x, a, t) /\ Quiet(a.lc, t) /\ a.applied = t
  BY OutputLeads, Zenon
<1> HIDE DEF a
<1>2. /\ Leads(a, b, t)
      /\ \A f \in DeviceFields \ {"exec"} : b[f] = a[f]
  BY <1>1, OutputObservedFacts DEF Leads
<1> HIDE DEF b, identity
<1>3. DeviceOK(b) /\ b.applied = t
  BY <1>1, <1>2 DEF Leads, DeviceFields
<1>4. Leads(b, y, t) /\ y.applied = t
  BY <1>3, IdentifiedFacts
<1> HIDE DEF y
<1>5. Leads(x, b, t)
  BY <1>1, <1>2, LeadsTwice
<1>6. Leads(x, y, t)
  BY <1>4, <1>5, LeadsTwice
<1>7. Quiet(y.lc, t)
  BY <1>6 DEF Leads
<1> QED BY <1>0, <1>4, <1>6, <1>7

\* A service of the output, all of it (coordination.rs service_actuator).
LEMMA OutputServicedFacts ==
  ASSUME NEW t \in Nat, NEW x, DeviceOK(x), Quiet(x.lc, t), x.applied <= t, NEW faulty
  PROVE  LET y == OutputServiced(x, faulty, t)
         IN  Leads(x, y, t) /\ Quiet(y.lc, t) /\ y.applied = t
<1> DEFINE a == CommandTaken(x, t)
           envelopes == Drained(x, t)
           out == OutputStep(a, envelopes, faulty, t)
           y == Recorded(a, out, t)
<1>0. OutputServiced(x, faulty, t) = y
  BY DEF OutputServiced, Applying
<1>1. Leads(x, a, t) /\ Quiet(a.lc, t) /\ DrainOK(envelopes) /\ DeviceOK(a)
  BY CommandTakenFacts DEF Leads
<1> HIDE DEF a, envelopes
<1>2. a.applied <= t
  BY <1>1 DEF Leads
<1>3. OutputOK(out, t)
  BY <1>1, <1>2, OutputStepFacts
<1> HIDE DEF out
<1>4. Leads(a, y, t) /\ Quiet(y.lc, t) /\ y.applied = t
  BY <1>1, <1>3, RecordedFacts
<1> HIDE DEF y
<1>5. Leads(x, y, t)
  BY <1>1, <1>4, LeadsTwice
<1> QED BY <1>0, <1>4, <1>5

-----------------------------------------------------------------------------
(* Commanding a run, and the half of an output pass that does.             *)

\* A run's own commands are well formed.
LEMMA EnvelopesAreOK ==
  ASSUME NEW active, NEW until \in Nat, NEW by
  PROVE  EnvelopeOK(RunEnvelope(active, until, by))
<1>1. Drive(active) \in Command
  BY DEF Drive, Command, DriveCommand, Direction
<1> QED BY <1>1 DEF RunEnvelope, EnvelopeOK

\* A turn of the executor changes what is queued, and the execution it is for.
LEMMA RecoveryTurnFacts ==
  ASSUME NEW t \in Nat, NEW x, DeviceOK(x), Quiet(x.lc, t), NEW e, x.exec = {e}, NEW r, NEW want
  PROVE  Leads(x, RecoveryTurn(x, e, r, want, t), t)
<1> DEFINE sample == The(e.seen)
           ready == Ready(x.gate, t)
           start == RestingStart(sample, x.out, x.gate.generation, t)
           next == Commanding(r, start, e.aos, Resting(x.out, t), ready, t)
           followers == OutputSeen(next.follower, Moving(x.out), t)
           moves == \E f \in followers : Asks(f, want, sample.at)
           until == Earlier(t + MovementLease, r.episode.deadline)
           launch == IF next.pending THEN next.intercept ELSE {}
           by == [run |-> x.lc.run, sampled |-> sample.at, launch |-> launch]
           envelope == IF followers = {} THEN Stop ELSE RunEnvelope(moves, until, by)
           commanded == [next EXCEPT
                          !.follower = {FollowerAsked(f, want, sample.at) : f \in followers},
                          !.last = IF followers = {} THEN @ ELSE {t}]
           rec == {commanded}
           f == [e EXCEPT !.follower = {}, !.control = {t}, !.rec = rec]
           exec == {f}
           u == RecoveryCommanded(Ticked(x.lc, t), r.episode, envelope, t)
           y == RecoveryTurn(x, e, r, want, t)
<1>1. y = [x EXCEPT !.exec = exec, !.lc = u]
  BY DEF RecoveryTurn
<1>2. Ticked(x.lc, t) = x.lc
  BY QuietTicks DEF DeviceOK
<1> HIDE DEF y, rec, followers, moves, by
<1>3. x.lc.recovery = {r.episode} => EnvelopeOK(envelope)
  <2>1. ASSUME x.lc.recovery = {r.episode} PROVE until \in Nat
    <3>1. r.episode.deadline \in Nat
      BY <2>1 DEF DeviceOK, Dated
    <3> QED BY <3>1, RelayConfigIsValid DEF Earlier
  <2> HIDE DEF until
  <2> QED BY <2>1, EnvelopesAreOK, StopIsOK
<1> HIDE DEF envelope
<1>4. PolicyOK(u) /\ Resembles(x.lc, u)
  BY <1>2, <1>3, RecoveryCommandedFacts DEF DeviceOK
<1> HIDE DEF u
<1>5. Runs(x.lc, u, t) /\ Dated(u)
  BY <1>4, ResemblesFacts DEF DeviceOK, Dated, Resembles, CoreFields
<1>6. Has(e, ExecutionFields)
  BY DEF DeviceOK, ExecutionsOK
<1>7. Kin(e, f)
  BY <1>6 DEF Kin, Has, ExecutionFields
<1> HIDE DEF f
<1>8. Continues(x.exec, exec)
  BY <1>7 DEF Continues
<1> HIDE DEF exec
<1>9. Both(x, [x EXCEPT !.exec = exec, !.lc = u], exec, u, t)
  BY <1>4, <1>5, <1>8, BothLead, Zenon
<1>10. Both(x, y, exec, u, t)
  BY <1>1, <1>9
<1> QED BY <1>10 DEF Both, y

\* A turn of the follower of the route (runtime.rs execution_command).
LEMMA FollowerTurnFacts ==
  ASSUME NEW t \in Nat, NEW x, DeviceOK(x), Quiet(x.lc, t), NEW e, x.exec = {e}, NEW want
  PROVE  Leads(x, FollowerTurn(x, e, want, t), t)
<1> DEFINE s == The(x.sample)
           follower == IF e.follower = {} THEN NewFollower ELSE The(e.follower)
           seen == FollowerSaw(follower, Moving(x.out), t)
           preparing == x.lc.phase \in {"Preparing", "Ready"}
           asked1 == [e EXCEPT !.follower = {FollowerAsked(seen, want, s.at)}, !.control = {t}]
           next == IF preparing THEN Readied(asked1, Acquired(x, s, t), s.at) ELSE asked1
           ready == preparing /\ ReadyDwelt(asked1, next, s.at)
           prepared == IF ready THEN MadeReady(Ticked(x.lc, t), x.lc.run) ELSE x.lc
           by == [run |-> x.lc.run, sampled |-> s.at, launch |-> {}]
           envelope == RunEnvelope(Asks(seen, want, s.at), t + MovementLease, by)
           exec == {next}
           u == TrackingCommanded(Ticked(prepared, t), x.lc.run, envelope, t)
           y == FollowerTurn(x, e, want, t)
<1>1. y = [x EXCEPT !.exec = exec, !.lc = u]
  BY DEF FollowerTurn
<1>2. Ticked(x.lc, t) = x.lc
  BY QuietTicks DEF DeviceOK
<1> HIDE DEF y
<1>3. EnvelopeOK(envelope)
  <2>1. t + MovementLease \in Nat
    BY RelayConfigIsValid
  <2> HIDE DEF seen, s, by
  <2> QED BY <2>1, EnvelopesAreOK
<1> HIDE DEF envelope
<1>4. PolicyOK(prepared) /\ Runs(x.lc, prepared, t) /\ Quiet(prepared, t)
  <2> HIDE DEF ready
  <2>1. LET v == MadeReady(x.lc, x.lc.run)
        IN  PolicyOK(v) /\ Runs(x.lc, v, t) /\ Quiet(v, t)
    BY MadeReadyFacts DEF DeviceOK
  <2>2. PolicyOK(x.lc) /\ Runs(x.lc, x.lc, t)
    BY RunsStill DEF DeviceOK
  <2> QED BY <1>2, <2>1, <2>2
<1> HIDE DEF prepared
<1>5. Ticked(prepared, t) = prepared
  BY <1>4, QuietTicks
<1>6. PolicyOK(u) /\ Resembles(prepared, u)
  BY <1>3, <1>4, <1>5, TrackingCommandedFacts
<1> HIDE DEF u
<1>7. Runs(prepared, u, t) /\ Quiet(u, t)
  BY <1>4, <1>6, ResemblesFacts
<1>8. Runs(x.lc, u, t) /\ Dated(u)
  BY <1>4, <1>6, <1>7, RunsTwice, DatedFacts DEF DeviceOK
<1>9. Has(e, ExecutionFields)
  BY DEF DeviceOK, ExecutionsOK
<1>10. Kin(e, next)
  <2> DEFINE fs == {FollowerAsked(seen, want, s.at)}
             a == [e EXCEPT !.follower = fs, !.control = {t}]
             good == Acquired(x, s, t)
  <2>1. asked1 = a
    OBVIOUS
  <2> HIDE DEF fs, asked1, good, s
  <2>2. Kin(e, a)
    BY <1>9 DEF Kin, Has, ExecutionFields
  <2> HIDE DEF a
  <2>3. Kin(e, Readied(a, good, s.at))
    <3> DEFINE gap == a.read = {} \/ \E r \in a.read : s.at - r >= FeedbackMaxAge
               since == IF ~good THEN {}
                        ELSE IF a.read = {s.at} THEN a.since
                        ELSE IF gap \/ a.since = {} THEN {s.at} ELSE a.since
    <3>1. Readied(a, good, s.at) = [a EXCEPT !.since = since, !.read = {s.at}]
      BY DEF Readied
    <3> HIDE DEF since
    <3> QED BY <2>2, <3>1 DEF Kin, Has, ExecutionFields
  <2>4. next = a \/ next = Readied(a, good, s.at)
    BY <2>1 DEF good
  <2> QED BY <2>2, <2>3, <2>4
<1> HIDE DEF next
<1>11. Continues(x.exec, exec)
  BY <1>10 DEF Continues
<1> HIDE DEF exec
<1>12. Both(x, [x EXCEPT !.exec = exec, !.lc = u], exec, u, t)
  BY <1>6, <1>4, <1>8, <1>11, BothLead, Zenon
<1>13. Both(x, y, exec, u, t)
  BY <1>1, <1>12
<1> QED BY <1>13 DEF Both, y

\* A turn of whatever is to be commanded (runtime.rs execution_command).
LEMMA TurnFacts ==
  ASSUME NEW t \in Nat, NEW x, DeviceOK(x), Quiet(x.lc, t), NEW want
  PROVE  Leads(x, Turn(x, want, t), t)
<1> DEFINE e == The(x.exec)
           waiting == x.lc.phase = "Reacquiring" /\ (e.rec = {} \/ e.seen = {})
           y == Turn(x, want, t)
<1>1. y = IF x.lc.run = {} \/ x.lc.plan = {} \/ x.exec = {} THEN x
          ELSE IF waiting
            THEN [x EXCEPT !.exec = {[e EXCEPT !.follower = {}, !.control = {t}]}]
          ELSE IF x.lc.phase = "Reacquiring" THEN RecoveryTurn(x, e, The(e.rec), want, t)
          ELSE FollowerTurn(x, e, want, t)
  BY DEF Turn
<1>2. CASE x.lc.run = {} \/ x.lc.plan = {} \/ x.exec = {}
  BY <1>1, <1>2, LeadsStill
<1>3. CASE ~(x.lc.run = {} \/ x.lc.plan = {} \/ x.exec = {})
  <2>1. x.exec = {e} /\ Has(e, ExecutionFields)
    BY <1>3, TheFacts DEF The, DeviceOK, ExecutionsOK
  <2>2. CASE waiting
    <3> DEFINE f == [e EXCEPT !.follower = {}, !.control = {t}]
               exec == {f}
    <3>1. y = [x EXCEPT !.exec = exec]
      BY <1>1, <1>3, <2>2
    <3> HIDE DEF e
    <3>2. Kin(e, f)
      BY <2>1 DEF Kin, Has, ExecutionFields
    <3> HIDE DEF f
    <3>3. Continues(x.exec, exec)
      BY <2>1, <3>2 DEF Continues
    <3> HIDE DEF exec, y
    <3>4. Leads(x, y, t)
      BY <3>1, <3>3, ContinuedLeads
    <3> QED BY <3>4 DEF y
  <2>3. CASE ~waiting
    <3> HIDE DEF e
    <3>1. Leads(x, RecoveryTurn(x, e, The(e.rec), want, t), t)
      BY <2>1, RecoveryTurnFacts
    <3>2. Leads(x, FollowerTurn(x, e, want, t), t)
      BY <2>1, FollowerTurnFacts
    <3> QED BY <1>1, <1>3, <2>3, <3>1, <3>2 DEF e
  <2> QED BY <2>2, <2>3
<1> QED BY <1>2, <1>3

\* Commanding a run, with the services and observations around it (runtime.rs
\* execution_command).
LEMMA ExecutedFacts ==
  ASSUME NEW t \in Nat, NEW x, DeviceOK(x), NEW want
  PROVE  Leads(x, Executed(x, want, t), t)
<1> DEFINE a == ObservedRun(x, t)
           b == Serviced(a, t)
           c == ObservedRun(b, t)
           y == Turn(c, want, t)
<1>0. Executed(x, want, t) = y
  BY DEF Executed
<1>1. Leads(x, a, t) /\ DeviceOK(a)
  BY ObservedRunFacts DEF Leads
<1> HIDE DEF a
<1>2. Leads(a, b, t) /\ Quiet(b.lc, t) /\ DeviceOK(b)
  BY <1>1, ServicedFacts DEF Leads, Served
<1> HIDE DEF b
<1>3. Leads(b, c, t) /\ Quiet(c.lc, t) /\ DeviceOK(c)
  BY <1>2, ObservedRunFacts DEF Leads
<1> HIDE DEF c
<1>4. Leads(c, y, t)
  BY <1>3, TurnFacts
<1> HIDE DEF y
<1>5. Leads(x, b, t)
  BY <1>1, <1>2, LeadsTwice
<1>6. Leads(x, c, t)
  BY <1>3, <1>5, LeadsTwice
<1>7. Leads(x, y, t)
  BY <1>4, <1>6, LeadsTwice
<1> QED BY <1>0, <1>7

\* take_actuator_input up to where its command is drained.
LEMMA InputTakenFacts ==
  ASSUME NEW t \in Nat, NEW x, DeviceOK(x)
  PROVE  LET y == Serviced(InputTaken(x, t), t)
         IN  Leads(x, y, t) /\ Quiet(y.lc, t) /\ DeviceOK(y)
<1> DEFINE a == Advanced(x, t)
           b == ObservedRun(a, t)
           y == Serviced(b, t)
<1>0. InputTaken(x, t) = b
  BY DEF InputTaken
<1>1. Leads(x, a, t) /\ DeviceOK(a)
  BY AdvancedFacts DEF Leads
<1> HIDE DEF a
<1>2. Leads(a, b, t) /\ DeviceOK(b)
  BY <1>1, ObservedRunFacts DEF Leads
<1> HIDE DEF b
<1>3. Leads(b, y, t) /\ Quiet(y.lc, t) /\ DeviceOK(y)
  BY <1>2, ServicedFacts DEF Leads, Served
<1> HIDE DEF y
<1>4. Leads(x, b, t)
  BY <1>1, <1>2, LeadsTwice
<1>5. Leads(x, y, t)
  BY <1>3, <1>4, LeadsTwice
<1> QED BY <1>0, <1>3, <1>5 DEF y

-----------------------------------------------------------------------------
(* A device among the publications.                                        *)

\* What the invariant says of the device.
Fit(x, s, t) == Sound(x, s, t) /\ Guarded(x) /\ Free(x) /\ Prompt(x, t)

\* What a step that arms nothing makes of a pass, whatever it learns.
Stays(x, y, t) ==
  y.lc.mode = "Tracking" =>
    /\ x.lc.mode = "Tracking" /\ y.gate.generation = x.gate.generation
    /\ x.lc.run # {} => y.lc.run = x.lc.run /\ y.lc.plan = x.lc.plan
    /\ x.lc.recovery # {} =>
         \/ y.lc.recovery = x.lc.recovery
         \/ y.lc.phase = "Following" /\ \A r \in x.lc.recovery : t < r.deadline
    /\ x.lc.recovery = {} => \A r \in y.lc.recovery : r.deadline <= t + RecoveryLimit
    /\ Late(x.lc, t) =>
         \/ Late(y.lc, t) \/ y.lc.phase = "Following"
         \/ /\ y.lc.recovery # {}
            /\ \A r \in y.lc.recovery : r.deadline <= PassOf(x.lc).aos + RecoveryLimit

\* A step may begin with learning something that leaves policy and generation.
LEMMA GoesStays ==
  ASSUME NEW t, NEW w, NEW x, w.lc = x.lc, w.gate.generation = x.gate.generation,
         NEW y, Goes(w, y, t)
  PROVE  Stays(x, y, t)
  BY DEF Stays, Goes, Firm

\* No operation lets an episode last longer than its limit from now.
LEMMA GoesBounds ==
  ASSUME NEW t \in Nat, NEW x, DeviceOK(x), NEW y, DeviceOK(y), Goes(x, y, t),
         \A r \in x.lc.recovery : r.deadline <= t + RecoveryLimit
  PROVE  \A r \in y.lc.recovery : r.deadline <= t + RecoveryLimit
<1>1. CASE y.lc.mode = "Manual"
  BY <1>1 DEF DeviceOK, PolicyOK, InPhase
<1>2. CASE y.lc.mode = "Tracking"
  BY <1>2 DEF Goes, Firm, DeviceOK, PolicyOK, InPhase
<1> QED BY <1>1, <1>2 DEF DeviceOK, PolicyOK, InPhase

\* What becomes of a sound device is sound.
LEMMA LeadsSound ==
  ASSUME NEW t \in Nat, NEW s, SourcesOK(s), NEW x, Sound(x, s, t), NEW y, Leads(x, y, t)
  PROVE  Sound(y, s, t)
<1>1. DeviceOK(x) /\ DeviceOK(y)
  BY DEF Sound, Leads
<1>2. \A r \in y.lc.recovery : r.deadline <= t + RecoveryLimit
  BY <1>1, GoesBounds DEF Sound, Leads
<1>3. y.applied <= t
  BY DEF Sound, Leads
<1>4. ASSUME NEW r \in y.lc.revs
      PROVE  /\ \A a \in y.clock : r.clock <= a.rev
             /\ r.start <= y.startRev
             /\ \A e \in Originals(y.lc) : r.orbit <= s[e.sat].rev
  <2>1. r \in x.lc.revs /\ y.clock = x.clock /\ Originals(y.lc) = Originals(x.lc)
    BY DEF Leads, Untouched
  <2>2. r \in Revision
    BY <1>1, <2>1 DEF DeviceOK, PolicyOK
  <2>3. r.start \in Nat /\ x.startRev \in Nat /\ y.startRev \in Nat
    BY <1>1, <2>2 DEF DeviceOK, Revision
  <2>4. r.start <= x.startRev /\ x.startRev <= y.startRev
    BY <2>1 DEF Sound, Leads
  <2> QED BY <2>1, <2>3, <2>4 DEF Sound
<1> QED BY <1>1, <1>2, <1>3, <1>4 DEF Sound

\* What becomes of a guarded device is guarded.
LEMMA LeadsGuarded ==
  ASSUME NEW t, NEW x, Guarded(x), NEW y, Leads(x, y, t)
  PROVE  Guarded(y)
  BY DEF Guarded, Leads, Goes

\* What becomes of a fit device is fit.
LEMMA LeadsFit ==
  ASSUME NEW t \in Nat, NEW s, SourcesOK(s), NEW x, Fit(x, s, t), NEW y, Leads(x, y, t)
  PROVE  Fit(y, s, t) /\ Goes(x, y, t) /\ y.lc.receipt = x.lc.receipt
<1>1. Sound(y, s, t) /\ Guarded(y)
  BY LeadsSound, LeadsGuarded DEF Fit
<1>2. Free(y)
  BY DEF Fit, Free, Leads
<1>3. Prompt(y, t)
  BY DEF Fit, Prompt, Leads
<1> QED BY <1>1, <1>2, <1>3 DEF Fit, Leads, Untouched

\* A service makes a device fit again.
LEMMA ServedFits ==
  ASSUME NEW t \in Nat, NEW s, SourcesOK(s), NEW x, Sound(x, s, t), Guarded(x)
  PROVE  LET y == Serviced(x, t)
         IN  Fit(y, s, t) /\ Goes(x, y, t) /\ y.lc.receipt = x.lc.receipt
<1> DEFINE y == Serviced(x, t)
<1>1. Leads(x, y, t) /\ Served(y, t)
  BY ServicedFacts DEF Sound
<1> HIDE DEF y
<1>2. Sound(y, s, t) /\ Guarded(y)
  BY <1>1, LeadsSound, LeadsGuarded
<1>3. Free(y) /\ Prompt(y, t)
  BY <1>1 DEF Served, Free, Prompt
<1>4. Goes(x, y, t) /\ y.lc.receipt = x.lc.receipt
  BY <1>1 DEF Leads, Untouched
<1> QED BY <1>2, <1>3, <1>4 DEF Fit, y

\* Steps of a device that keep it fit.
Moves(x, y, s, t) == Fit(y, s, t) /\ Goes(x, y, t) /\ y.lc.receipt = x.lc.receipt

\* Two steps of a fit device are one.
LEMMA MovesTwice ==
  ASSUME NEW t, NEW s, NEW x, Fit(x, s, t), NEW y, Moves(x, y, s, t), NEW z, Moves(y, z, s, t)
  PROVE  Moves(x, z, s, t)
<1>1. PolicyOK(x.lc) /\ PolicyOK(y.lc) /\ PolicyOK(z.lc)
  BY DEF Moves, Fit, Sound, DeviceOK
<1> QED BY <1>1, GoesTwice DEF Moves

\* Whatever operation of a fit device keeps it fit.
LEMMA LeadsMoves ==
  ASSUME NEW t \in Nat, NEW s, SourcesOK(s), NEW x, Fit(x, s, t), NEW y, Leads(x, y, t)
  PROVE  Moves(x, y, s, t)
  BY LeadsFit DEF Moves

\* A policy that differs in the revisions it knows alone.
LEMMA RecordedFits ==
  ASSUME NEW t \in Nat, NEW s, SourcesOK(s), NEW x, Fit(x, s, t),
         NEW revs \in Revision, NEW v, Records(x.lc, v, revs),
         \A a \in x.clock : revs.clock <= a.rev, revs.start <= x.startRev,
         \A e \in Originals(x.lc) : revs.orbit <= s[e.sat].rev
  PROVE  Moves(x, [x EXCEPT !.lc = v], s, t)
<1> DEFINE y == [x EXCEPT !.lc = v]
<1>0. DeviceOK(x)
  BY DEF Fit, Sound
<1>1. /\ Has(y, DeviceFields) /\ y.lc = v
      /\ \A f \in DeviceFields \ {"lc"} : y[f] = x[f]
  BY <1>0 DEF DeviceOK, Has, DeviceFields
<1> HIDE DEF y
<1>2. /\ y.exec = x.exec /\ y.clock = x.clock /\ y.sample = x.sample /\ y.gate = x.gate
      /\ y.out = x.out /\ y.applied = x.applied /\ y.startRev = x.startRev /\ y.bound = x.bound
  BY <1>1 DEF DeviceFields
<1>3. PolicyOK(v) /\ v.revs = {revs} /\ \A f \in PolicyFields \ {"revs"} : v[f] = x.lc[f]
  BY DEF Records
<1>4. /\ v.mode = x.lc.mode /\ v.phase = x.lc.phase /\ v.selection = x.lc.selection
      /\ v.plan = x.lc.plan /\ v.run = x.lc.run /\ v.recovery = x.lc.recovery
      /\ v.handled = x.lc.handled /\ v.armedBy = x.lc.armedBy /\ v.receipt = x.lc.receipt
  BY <1>3 DEF PolicyFields
<1>5. Originals(v) = Originals(x.lc)
  BY <1>4 DEF Originals
<1>6. Theplan(v) = Theplan(x.lc) /\ PassOf(v) = PassOf(x.lc)
  BY <1>4 DEF Theplan, PassOf
<1>7. Quiet(v, t) <=> Quiet(x.lc, t)
  BY <1>4, <1>6 DEF Quiet
<1>8. DeviceOK(y)
  BY <1>0, <1>1, <1>2, <1>3, <1>4 DEF DeviceOK, Dated
<1>9. Fit(y, s, t)
  <2>1. Sound(y, s, t)
    BY <1>1, <1>2, <1>3, <1>4, <1>5, <1>8 DEF Fit, Sound
  <2>2. Guarded(y) /\ Free(y) /\ Prompt(y, t)
    BY <1>1, <1>2, <1>4, <1>7 DEF Fit, Guarded, Free, Prompt
  <2> QED BY <2>1, <2>2 DEF Fit
<1>10. Goes(x, y, t)
  <2>1. Firm(x, t) => Firm(y, t)
    BY <1>1, <1>2, <1>4, <1>7 DEF Firm
  <2>2. Late(x.lc, t) => Late(y.lc, t)
    BY <1>1, <1>4, <1>6 DEF Late
  <2>3. \A r \in y.lc.recovery : r.deadline <= t + RecoveryLimit
    BY <1>1, <1>4 DEF Fit, Sound
  <2> QED BY <1>1, <1>2, <1>4, <2>1, <2>2, <2>3 DEF Goes
<1> QED BY <1>1, <1>4, <1>9, <1>10 DEF Moves, y

\* A result, once it has been serviced.
LEMMA ReplannedMoves ==
  ASSUME NEW t \in Nat, NEW s, SourcesOK(s), NEW x, Fit(x, s, t), x.lc.run = {},
         NEW u, PolicyOK(u), Replans(x.lc, u)
  PROVE  Moves(x, Serviced([x EXCEPT !.lc = u], t), s, t)
<1> DEFINE y == [x EXCEPT !.lc = u]
           z == Serviced(y, t)
<1>0. DeviceOK(x)
  BY DEF Fit, Sound
<1>1. /\ Has(y, DeviceFields) /\ y.lc = u
      /\ \A f \in DeviceFields \ {"lc"} : y[f] = x[f]
  BY <1>0 DEF DeviceOK, Has, DeviceFields
<1> HIDE DEF y
<1>2. /\ y.exec = x.exec /\ y.clock = x.clock /\ y.sample = x.sample /\ y.gate = x.gate
      /\ y.out = x.out /\ y.applied = x.applied /\ y.startRev = x.startRev /\ y.bound = x.bound
  BY <1>1 DEF DeviceFields
<1>3. Untouched(x.lc, u) /\ u.mode = x.lc.mode /\ u.run = {} /\ u.recovery = {}
  BY DEF Replans
<1>4. DeviceOK(y)
  BY <1>0, <1>1, <1>2, <1>3 DEF DeviceOK, Dated
<1>5. Sound(y, s, t)
  BY <1>1, <1>2, <1>3, <1>4 DEF Fit, Sound, Untouched
<1>6. Guarded(y)
  BY <1>1, <1>2, <1>3 DEF Fit, Guarded
<1>7. x.lc.recovery = {} /\ ~Late(x.lc, t) /\ ~Firm(x, t)
  BY <1>0 DEF DeviceOK, PolicyOK, InPhase, Late, Firm
<1>8. Goes(x, y, t)
  BY <1>1, <1>2, <1>3, <1>7 DEF Goes
<1>9. Fit(z, s, t) /\ Goes(y, z, t) /\ z.lc.receipt = y.lc.receipt
  BY <1>5, <1>6, ServedFits
<1> HIDE DEF z
<1>10. Goes(x, z, t)
  <2>1. PolicyOK(x.lc) /\ PolicyOK(y.lc) /\ PolicyOK(z.lc)
    BY <1>0, <1>4, <1>9 DEF DeviceOK, Fit, Sound
  <2> QED BY <1>8, <1>9, <2>1, GoesTwice
<1>11. z.lc.receipt = x.lc.receipt
  BY <1>1, <1>3, <1>9 DEF Untouched
<1> QED BY <1>9, <1>10, <1>11 DEF Moves, z, y

-----------------------------------------------------------------------------
(* Refreshes and results.                                                  *)

\* Preparing fixes no new end of an episode.
LEMMA PreparedDated ==
  ASSUME NEW lc, PolicyOK(lc), Dated(lc), NEW u, PolicyOK(u), NEW t, Prepares(lc, u, t)
  PROVE  Dated(u)
  BY DEF Prepares, Dated, PolicyOK, InPhase

\* A fit device may stay as it is.
LEMMA MovesStill ==
  ASSUME NEW t \in Nat, NEW s, SourcesOK(s), NEW x, Fit(x, s, t)
  PROVE  Moves(x, x, s, t)
<1>1. Leads(x, x, t)
  BY LeadsStill DEF Fit, Sound
<1> QED BY <1>1, LeadsMoves

\* What the policy prepares, once it has been serviced.
LEMMA PreparedMoves ==
  ASSUME NEW t \in Nat, NEW s, SourcesOK(s), NEW x, Fit(x, s, t),
         NEW u, PolicyOK(u), Prepares(x.lc, u, t)
  PROVE  /\ Moves(x, [x EXCEPT !.lc = u], s, t)
         /\ Moves(x, Serviced([x EXCEPT !.lc = u], t), s, t)
<1> DEFINE y == [x EXCEPT !.lc = u]
           z == Serviced(y, t)
<1>0. DeviceOK(x)
  BY DEF Fit, Sound
<1>1. Dated(u) /\ Runs(x.lc, u, t)
  BY <1>0, PreparedDated DEF DeviceOK, Prepares
<1>2. Leads(x, y, t)
  BY <1>0, <1>1, PolicyLeads
<1> HIDE DEF y
<1>3. Moves(x, y, s, t)
  BY <1>2, LeadsMoves
<1>4. Moves(y, z, s, t)
  BY <1>3, ServedFits DEF Moves, Fit
<1> HIDE DEF z
<1>5. Moves(x, z, s, t)
  BY <1>3, <1>4, MovesTwice
<1> QED BY <1>3, <1>5 DEF y, z

\* A refresh from the newest publication (runtime.rs refresh).
LEMMA RuntimeRefreshedMoves ==
  ASSUME NEW t \in Nat, NEW s, SourcesOK(s), NEW x, Fit(x, s, t),
         NEW events \in SUBSET Event, NEW revs \in Revision,
         \A a \in x.clock : revs.clock <= a.rev, revs.start <= x.startRev,
         \A e \in Originals(x.lc) : revs.orbit <= s[e.sat].rev
  PROVE  Moves(x, RuntimeRefreshed(x, events, revs, t), s, t)
<1>1. CASE ~Follows(revs, x.lc.revs)
  BY <1>1, MovesStill DEF RuntimeRefreshed
<1>2. CASE Follows(revs, x.lc.revs)
  <2> DEFINE u == Refreshed(x.lc, events, revs)
             y == Serviced([x EXCEPT !.lc = u], t)
  <2>0. RuntimeRefreshed(x, events, revs, t) = y
    BY <1>2 DEF RuntimeRefreshed
  <2>1. PolicyOK(u) /\ \E v : Records(x.lc, v, revs) /\ Prepares(v, u, t)
    BY <1>2, RefreshedFacts DEF Fit, Sound, DeviceOK
  <2> HIDE DEF u
  <2>2. PICK v : Records(x.lc, v, revs) /\ Prepares(v, u, t)
    BY <2>1
  <2> DEFINE w == [x EXCEPT !.lc = v]
  <2>3. Moves(x, w, s, t)
    BY <2>2, RecordedFits
  <2>4. w.lc = v /\ [w EXCEPT !.lc = u] = [x EXCEPT !.lc = u]
    BY DEF Fit, Sound, DeviceOK, Has, DeviceFields
  <2> HIDE DEF w
  <2>8. Fit(w, s, t) /\ PolicyOK(u) /\ Prepares(w.lc, u, t)
    BY <2>1, <2>2, <2>3, <2>4 DEF Moves
  <2>5. Moves(w, Serviced([w EXCEPT !.lc = u], t), s, t)
    BY <2>8, PreparedMoves
  <2>6. Moves(w, y, s, t)
    BY <2>4, <2>5
  <2> HIDE DEF y
  <2>7. Moves(x, y, s, t)
    BY <2>3, <2>6, MovesTwice
  <2> QED BY <2>0, <2>7
<1> QED BY <1>1, <1>2

\* The revisions the worker reports are those of the publications and devices
\* it reads.
LEMMA InputsRefreshedMoves ==
  ASSUME now \in Nat, NEW s, SourcesOK(s), NEW x, Fit(x, s, now)
  PROVE  Moves(x, InputsRefreshed(x, s), s, now)
<1>1. CASE x.lc.selection = {}
  BY <1>1, MovesStill DEF InputsRefreshed
<1>2. CASE x.lc.selection # {}
  <2> DEFINE o == The(x.lc.selection).original
             publication == s[o.sat]
             live == Advanced(x, now)
             c == Checked(live, now)
             revs == Revisions(live, publication)
             y == RuntimeRefreshed(c, publication.events, revs, now)
  <2>0. InputsRefreshed(x, s) = y
    BY <1>2 DEF InputsRefreshed, RefreshedFrom
  <2>1. DeviceOK(x) /\ PolicyOK(x.lc)
    BY DEF Fit, Sound, DeviceOK
  <2>2. o \in Event /\ Originals(x.lc) = {o}
    <3>1. /\ The(x.lc.selection) \in x.lc.selection
          /\ x.lc.selection = {The(x.lc.selection)}
      BY <1>2, <2>1, TheFacts DEF The, PolicyOK
    <3>2. The(x.lc.selection) \in Selection
      BY <2>1, <3>1 DEF PolicyOK
    <3> QED BY <3>1, <3>2 DEF Selection, Originals
  <2>3. o.sat \in Sats
    BY <2>2 DEF Sats
  <2>4. publication.rev \in Nat /\ publication.events \in SUBSET Event
    BY <2>3 DEF SourcesOK
  <2>5. Leads(x, live, now) /\ DeviceOK(live)
    BY <2>1, AdvancedFacts DEF Leads
  <2> HIDE DEF live
  <2>6. Leads(live, c, now) /\ DeviceOK(c)
    BY <2>5, CheckedFacts DEF Leads
  <2> HIDE DEF c
  <2>7. Leads(x, c, now)
    BY <2>1, <2>5, <2>6, LeadsTwice
  <2>8. Moves(x, c, s, now) /\ Fit(c, s, now)
    BY <2>7, LeadsMoves DEF Moves
  <2>9. c.clock = live.clock /\ live.startRev <= c.startRev /\ Originals(c.lc) = {o}
    BY <2>2, <2>6, <2>7 DEF Leads, Untouched
  <2>10. /\ revs \in Revision
         /\ \A a \in c.clock : revs.clock <= a.rev
         /\ revs.start <= c.startRev
         /\ revs.orbit <= s[o.sat].rev
    <3>1. live.startRev \in Nat /\ live.clock \subseteq Anchor /\ Few(live.clock)
      BY <2>5 DEF DeviceOK
    <3>2. ASSUME NEW a \in live.clock
          PROVE  The(live.clock) = a /\ a.rev \in Nat
      <4>1. The(live.clock) \in live.clock
        BY <3>2 DEF The
      <4> QED BY <3>1, <4>1 DEF Few, Anchor
    <3>3. CASE live.clock = {}
      BY <2>4, <2>9, <3>1, <3>3 DEF Revisions, Revision
    <3>4. CASE live.clock # {}
      <4>1. PICK a : a \in live.clock
        BY <3>4
      <4>2. The(live.clock) = a /\ a.rev \in Nat
        BY <3>2, <4>1
      <4>3. \A b \in live.clock : b = a
        BY <3>1, <4>1 DEF Few
      <4> QED BY <2>4, <2>9, <3>1, <4>1, <4>2, <4>3 DEF Revisions, Revision
    <3> QED BY <3>3, <3>4
  <2> HIDE DEF revs
  <2>11. \A e \in Originals(c.lc) : revs.orbit <= s[e.sat].rev
    BY <2>9, <2>10
  <2> HIDE DEF publication, o
  <2>12. Moves(c, y, s, now)
    BY <2>4, <2>8, <2>10, <2>11, RuntimeRefreshedMoves
  <2> HIDE DEF y
  <2>13. Moves(x, y, s, now)
    BY <2>8, <2>12, MovesTwice
  <2> QED BY <2>0, <2>13
<1> QED BY <1>1, <1>2

\* Only a policy without a run has a job to plan.
LEMMA PlanningFacts ==
  ASSUME NEW lc, PolicyOK(lc), PlanningTicket(lc) # {}
  PROVE  lc.run = {}
  BY DEF PlanningTicket, PolicyOK

\* Dropping a plan only prepares.
LEMMA InvalidatedPrepares ==
  ASSUME NEW lc, PolicyOK(lc), lc.run = {}, NEW t
  PROVE  PolicyOK(Invalidated(lc)) /\ Prepares(lc, Invalidated(lc), t)
  BY InvalidatedFacts DEF Prepares

\* A job whose inputs are refused (runtime.rs reject_inputs).
LEMMA InputsRejectedMoves ==
  ASSUME NEW t \in Nat, NEW s, SourcesOK(s), NEW x, Fit(x, s, t), NEW ticket
  PROVE  Moves(x, InputsRejected(x, ticket, t), s, t)
<1>1. CASE PlanningTicket(x.lc) # {ticket}
  BY <1>1, MovesStill DEF InputsRejected
<1>2. CASE PlanningTicket(x.lc) = {ticket}
  <2> DEFINE u == Invalidated(x.lc)
  <2>1. PolicyOK(x.lc)
    BY DEF Fit, Sound, DeviceOK
  <2>2. x.lc.run = {}
    BY <1>2, <2>1, PlanningFacts
  <2>3. PolicyOK(u) /\ Prepares(x.lc, u, t)
    BY <2>1, <2>2, InvalidatedPrepares
  <2>4. InputsRejected(x, ticket, t) = Serviced([x EXCEPT !.lc = u], t)
    BY <1>2 DEF InputsRejected
  <2> HIDE DEF u
  <2> QED BY <2>3, <2>4, PreparedMoves
<1> QED BY <1>1, <1>2

\* A planner's result, or its having found nothing (runtime.rs publish_plan).
LEMMA PlanPublishedMoves ==
  ASSUME NEW t \in Nat, NEW s, SourcesOK(s), NEW x, Fit(x, s, t), NEW inputs,
         NEW found, Few(found), \A p \in found : PlanOK(p)
  PROVE  Moves(x, PlanPublished(x, inputs, found, t), s, t)
<1>0. PolicyOK(x.lc)
  BY DEF Fit, Sound, DeviceOK
<1>1. CASE PlanningTicket(x.lc) # {inputs.ticket}
  BY <1>1, MovesStill DEF PlanPublished
<1>2. CASE PlanningTicket(x.lc) = {inputs.ticket}
  <2>1. x.lc.run = {}
    BY <1>0, <1>2, PlanningFacts
  <2>2. CASE ~PreviewHolds(inputs, x.clock, t)
    <3> DEFINE u == Invalidated(x.lc)
    <3>1. PolicyOK(u) /\ Prepares(x.lc, u, t)
      BY <1>0, <2>1, InvalidatedPrepares
    <3>2. PlanPublished(x, inputs, found, t) = [x EXCEPT !.lc = u]
      BY <1>2, <2>2 DEF PlanPublished
    <3> HIDE DEF u
    <3> QED BY <3>1, <3>2, PreparedMoves
  <2>3. CASE PreviewHolds(inputs, x.clock, t)
    <3> DEFINE u == Planned(x.lc, found, t)
    <3>1. PolicyOK(u) /\ Replans(x.lc, u)
      BY <1>0, <2>1, PlannedFacts
    <3>2. PlanPublished(x, inputs, found, t) = Serviced([x EXCEPT !.lc = u], t)
      BY <1>2, <2>3 DEF PlanPublished
    <3> HIDE DEF u
    <3> QED BY <2>1, <3>1, <3>2, ReplannedMoves
  <2> QED BY <2>2, <2>3
<1> QED BY <1>1, <1>2

-----------------------------------------------------------------------------
(* The planning worker.                                                    *)

JobsOK(jobs) == Few(jobs) /\ \A w \in jobs : JobOK(w)

\* A clock sample serves a plan until an instant no later than its LOS.
LEMMA InputsDeadlineFacts ==
  ASSUME NEW i, i.window.los \in Int, i.anchor \in Anchor
  PROVE  InputsDeadline(i) \in Int /\ InputsDeadline(i) <= i.window.los
<1>1. Allowance - Uncertainty \in Int /\ DriftEvery \in Int /\ MaxSampleAge \in Int
  BY ClockPolicyIsValid
<1>2. (Allowance - Uncertainty) * DriftEvery \in Int
  BY <1>1
<1>3. i.anchor.at \in Int
  BY DEF Anchor
<1> DEFINE drift == (Allowance - Uncertainty) * DriftEvery
<1> HIDE DEF drift
<1>4. i.anchor.at + Earlier(drift + 1, MaxSampleAge) \in Int
  BY <1>1, <1>2, <1>3 DEF Earlier, drift
<1>5. AdmissionDeadline(i.anchor) \in Int
  BY <1>4 DEF AdmissionDeadline, drift
<1> QED BY <1>5 DEF InputsDeadline, Earlier

\* A plan made for a captured job is well formed.
LEMMA PlanFacts ==
  ASSUME NEW job, JobOK(job), NEW gap \in SUBSET Gaps(job.inputs), Few(gap)
  PROVE  PlanOK(Plan(job, gap))
<1> DEFINE i == job.inputs
           lead == IF i.window.aos > PlanLead THEN i.window.aos - PlanLead ELSE 0
           scheduled == IF job.start.at > lead THEN job.start.at ELSE lead
           late == \E g \in gap : g.late
           prepareAt == IF late THEN (The(gap)).recoveryAt
                        ELSE IF i.ticket.timing = "Immediate" THEN job.start.at ELSE scheduled
           preparation == IF late THEN 0 ELSE Preparation
           deadline == InputsDeadline(i)
           p == [inputs |-> i, start |-> job.start, gap |-> gap, prepareAt |-> prepareAt,
                 preparation |-> preparation, freezeBefore |-> deadline]
<1>1. Plan(job, gap) = p
  BY DEF Plan
<1>2. /\ i.window.aos \in Int /\ i.window.los \in Int /\ i.anchor \in Anchor
      /\ job.start.at \in Nat
  BY DEF JobOK
<1>3. \A g \in gap : /\ g.late \in BOOLEAN /\ g.recoveryAt \in Int
                     /\ i.window.aos <= g.recoveryAt
  <2> SUFFICES ASSUME NEW g \in gap
               PROVE  /\ g.late \in BOOLEAN /\ g.recoveryAt \in Int
                      /\ i.window.aos <= g.recoveryAt
    OBVIOUS
  <2>1. g \in [late : BOOLEAN, recoveryAt : {i.window.aos + k : k \in Recoveries}]
    BY DEF Gaps
  <2>2. PICK k \in Recoveries : g.recoveryAt = i.window.aos + k
    BY <2>1
  <2>3. k \in Nat
    BY TimesAreTyped
  <2> QED BY <1>2, <2>1, <2>2, <2>3
<1>4. prepareAt \in Int
  <2>1. CASE late
    <3>1. The(gap) \in gap
      BY <2>1 DEF The
    <3> QED BY <1>3, <2>1, <3>1
  <2>2. CASE ~late
    <3>1. lead \in Int
      BY <1>2, TimesAreTyped
    <3> HIDE DEF lead
    <3> QED BY <1>2, <2>2, <3>1
  <2> QED BY <2>1, <2>2
<1>5. preparation \in Nat
  BY TimesAreTyped
<1>6. deadline \in Int /\ deadline <= i.window.los
  BY <1>2, InputsDeadlineFacts
<1> HIDE DEF prepareAt, preparation, deadline, i
<1>7. /\ p.inputs = i /\ p.gap = gap /\ p.prepareAt = prepareAt
      /\ p.preparation = preparation /\ p.freezeBefore = deadline
  OBVIOUS
<1>8. Has(p, PlanFields)
  BY DEF Has, PlanFields
<1> HIDE DEF p
<1>9. PlanOK(p)
  BY <1>2, <1>3, <1>4, <1>5, <1>6, <1>7, <1>8 DEF PlanOK
<1> QED BY <1>1, <1>9

\* So is whatever a planner finds.
LEMMA FindingsFacts ==
  ASSUME NEW job, JobOK(job), NEW found \in Findings(job)
  PROVE  Few(found) /\ \A p \in found : PlanOK(p)
<1>1. CASE found = {}
  BY <1>1 DEF Few
<1>2. CASE \E g \in Gaps(job.inputs) : found = {Plan(job, {g})}
  <2>1. PICK g \in Gaps(job.inputs) : found = {Plan(job, {g})}
    BY <1>2
  <2> DEFINE gap == {g}
  <2>2. gap \in SUBSET Gaps(job.inputs) /\ Few(gap)
    BY DEF Few
  <2> HIDE DEF gap
  <2>3. PlanOK(Plan(job, gap))
    BY <2>2, PlanFacts
  <2> QED BY <2>1, <2>3 DEF Few, gap
<1>3. CASE found = {Plan(job, {})}
  <2>1. PlanOK(Plan(job, {}))
    BY PlanFacts DEF Few
  <2> QED BY <1>3, <2>1 DEF Few
<1> QED BY <1>1, <1>2, <1>3 DEF Findings

\* What is captured for a job.
LEMMA JobsFacts ==
  ASSUME NEW x, DeviceOK(x), NEW ticket, ticket.pass \in Event
  PROVE  JobsOK(UNION {Jobs(x, ticket, a) : a \in x.clock})
<1> DEFINE jobs == UNION {Jobs(x, ticket, a) : a \in x.clock}
<1>1. ASSUME NEW w \in jobs
      PROVE  \E a \in x.clock, o \in x.sample :
               w = [inputs |-> InputsOf(ticket, source[ticket.pass.sat], a),
                    start |-> RestingStart(o, x.out, x.gate.generation, x.applied)]
  BY DEF Jobs, RestingStarts
<1>2. Few(jobs)
  BY <1>1 DEF Few, DeviceOK
<1>3. ASSUME NEW w \in jobs PROVE JobOK(w)
  <2>1. PICK a \in x.clock, o \in x.sample :
               w = [inputs |-> InputsOf(ticket, source[ticket.pass.sat], a),
                    start |-> RestingStart(o, x.out, x.gate.generation, x.applied)]
    BY <1>1
  <2>2. w.start.at \in Nat
    BY <2>1 DEF RestingStart, DeviceOK
  <2>3. w.inputs.anchor = a /\ w.inputs.window = Window(a, ticket.pass)
    BY <2>1 DEF InputsOf
  <2>4. a \in Anchor /\ ticket.pass.aos \in Nat /\ ticket.pass.los \in Nat
    BY TimesAreTyped DEF DeviceOK
  <2>5. w.inputs.window.aos \in Int /\ w.inputs.window.los \in Int
    BY <2>3, <2>4 DEF Window, Anchor
  <2> QED BY <2>2, <2>3, <2>4, <2>5 DEF JobOK
<1> QED BY <1>2, <1>3 DEF JobsOK

\* A chain of Leads among the publications.
LEMMA ThenLeads ==
  ASSUME NEW t \in Nat, NEW s, SourcesOK(s), NEW x, Fit(x, s, t), NEW y, Moves(x, y, s, t),
         NEW z, Leads(y, z, t)
  PROVE  Moves(x, z, s, t)
<1>1. Moves(y, z, s, t)
  BY LeadsMoves DEF Moves
<1> QED BY <1>1, MovesTwice

\* Trying a captured job (firmware tracking.rs start_job).
LEMMA JobTriedMoves ==
  ASSUME now \in Nat, NEW s, SourcesOK(s), NEW x, Fit(x, s, now), NEW ticket, NEW jobs, JobsOK(jobs)
  PROVE  LET tried == JobTried(x, ticket, jobs)
         IN  Moves(x, tried.d, s, now) /\ JobsOK(tried.work)
<1> DEFINE c == Checked(x, now)
           tried == JobTried(x, ticket, jobs)
           job == The(jobs)
           a == InputsRejected(c, ticket, now)
           b == PlanPublished(c, job.inputs, {}, now)
<1>1. \/ tried = [d |-> a, work |-> {}]
      \/ tried = [d |-> b, work |-> {}]
      \/ tried = [d |-> x, work |-> jobs]
  BY DEF JobTried
<1>2. Leads(x, c, now)
  BY CheckedFacts DEF Fit, Sound
<1> HIDE DEF c
<1>3. Moves(x, c, s, now) /\ Fit(c, s, now)
  BY <1>2, LeadsMoves DEF Moves
<1>4. Moves(c, a, s, now)
  BY <1>3, InputsRejectedMoves
<1>5. Moves(c, b, s, now)
  <2>1. Few({}) /\ \A p \in {} : PlanOK(p)
    BY DEF Few
  <2> QED BY <1>3, <2>1, PlanPublishedMoves
<1> HIDE DEF a, b, tried, job
<1>6. Moves(x, a, s, now) /\ Moves(x, b, s, now) /\ Moves(x, x, s, now)
  BY <1>3, <1>4, <1>5, MovesTwice, MovesStill
<1>7. JobsOK({})
  BY DEF JobsOK, Few
<1> QED BY <1>1, <1>6, <1>7 DEF tried

\* Capturing a job and trying it (firmware tracking.rs start_job).
LEMMA JobBegunMoves ==
  ASSUME now \in Nat, NEW s, SourcesOK(s), NEW x, Fit(x, s, now), NEW ticket, ticket.pass \in Event
  PROVE  LET begun == JobBegun(x, ticket)
         IN  Moves(x, begun.d, s, now) /\ JobsOK(begun.work)
<1> DEFINE live == Advanced(x, now)
           jobs == UNION {Jobs(x, ticket, a) : a \in x.clock}
           tried == JobTried(live, ticket, jobs)
<1>1. CASE RestingStarts(x, x.applied) = {}
  BY <1>1, MovesStill DEF JobBegun, JobsOK, Few
<1>2. CASE RestingStarts(x, x.applied) # {}
  <2>1. JobBegun(x, ticket) = tried
    BY <1>2 DEF JobBegun
  <2>2. JobsOK(jobs) /\ Leads(x, live, now)
    BY JobsFacts, AdvancedFacts DEF Fit, Sound
  <2> HIDE DEF live, jobs
  <2>3. Moves(x, live, s, now) /\ Fit(live, s, now)
    BY <2>2, LeadsMoves DEF Moves
  <2>4. Moves(live, tried.d, s, now) /\ JobsOK(tried.work)
    BY <2>2, <2>3, JobTriedMoves
  <2> HIDE DEF tried
  <2>5. Moves(x, tried.d, s, now)
    BY <2>3, <2>4, MovesTwice
  <2> QED BY <2>1, <2>4, <2>5
<1> QED BY <1>1, <1>2

\* The end of a search (runtime.rs step_reacquisition).
LEMMA SearchDoneLeads ==
  ASSUME NEW t, NEW x, DeviceOK(x), NEW join
  PROVE  Leads(x, SearchDone(x, join), t)
<1> DEFINE exec == {[e EXCEPT !.rec = {SearchEnded(r, join, now) : r \in @}] : e \in x.exec}
<1>1. SearchDone(x, join) = [x EXCEPT !.exec = exec]
  BY DEF SearchDone
<1>2. Continues(x.exec, exec)
  <2>1. CASE x.exec = {}
    BY <2>1 DEF Continues
  <2>2. ASSUME NEW e, x.exec = {e}, Has(e, ExecutionFields) PROVE Continues(x.exec, exec)
    <3> DEFINE rec == {SearchEnded(r, join, now) : r \in e.rec}
    <3>1. exec = {[e EXCEPT !.rec = rec]}
      BY <2>2
    <3> HIDE DEF rec, exec
    <3>2. Kin(e, [e EXCEPT !.rec = rec])
      BY <2>2, RecMapped
    <3> QED BY <2>2, <3>1, <3>2 DEF Continues
  <2> QED BY <2>1, <2>2, ExecutionSplit
<1> HIDE DEF exec
<1> QED BY <1>1, <1>2, ContinuedLeads

\* A ticket names a known pass.
LEMMA TicketFacts ==
  ASSUME NEW lc, PolicyOK(lc), PlanningTicket(lc) # {}
  PROVE  The(PlanningTicket(lc)).pass \in Event
<1>1. The(PlanningTicket(lc)) \in lc.ticket
  BY DEF PlanningTicket, The
<1> QED BY <1>1 DEF PolicyOK

\* A job that is kept is still well formed.
LEMMA KeptFacts ==
  ASSUME JobsOK(work), NEW ticket
  PROVE  JobsOK(Kept(ticket)) /\ \A w \in Kept(ticket) : JobOK(w)
  BY DEF JobsOK, Few, Kept

\* One poll of the worker.
LEMMA PollMoves ==
  ASSUME now \in Nat, SourcesOK(source), Fit(d, source, now), JobsOK(work), Poll
  PROVE  Moves(d, d', source, now) /\ JobsOK(work')
<1>1. PICK refreshed \in {d, InputsRefreshed(d, source)} :
        \E dev \in {Serviced(Advanced(refreshed, now), now)} :
          LET ticket == PlanningTicket(refreshed.lc)
          IN  GoesOn(dev, ticket) \/ FindsJoin(dev, ticket) \/ Plans(dev, ticket)
  BY DEF Poll
<1> DEFINE ticket == PlanningTicket(refreshed.lc)
           live == Advanced(refreshed, now)
           dev == Serviced(live, now)
<1>2. GoesOn(dev, ticket) \/ FindsJoin(dev, ticket) \/ Plans(dev, ticket)
  BY <1>1
<1>3. Moves(d, refreshed, source, now) /\ Fit(refreshed, source, now)
  BY <1>1, InputsRefreshedMoves, MovesStill DEF Moves
<1>4. Leads(refreshed, live, now)
  BY <1>3, AdvancedFacts DEF Fit, Sound
<1> HIDE DEF live
<1>5. Moves(d, live, source, now) /\ Fit(live, source, now)
  BY <1>3, <1>4, ThenLeads DEF Moves
<1>6. Moves(live, dev, source, now)
  BY <1>5, ServedFits DEF Moves, Fit
<1>7. ticket # {} => The(ticket).pass \in Event
  BY <1>3, TicketFacts DEF Fit, Sound, DeviceOK
<1> HIDE DEF dev, ticket
<1>8. Moves(d, dev, source, now) /\ Fit(dev, source, now)
  BY <1>5, <1>6, MovesTwice DEF Moves
<1>9. CASE GoesOn(dev, ticket)
  <2>1. CASE d' = dev /\ work' = Kept(ticket)
    BY <1>8, <2>1, KeptFacts
  <2>2. CASE ticket # {} /\ \E begun \in {JobBegun(dev, The(ticket))} : d' = begun.d /\ work' = begun.work
    <3> DEFINE begun == JobBegun(dev, The(ticket))
    <3>1. Moves(dev, begun.d, source, now) /\ JobsOK(begun.work)
      BY <1>7, <1>8, <2>2, JobBegunMoves
    <3>2. d' = begun.d /\ work' = begun.work
      BY <2>2
    <3> HIDE DEF begun
    <3>3. Moves(d, begun.d, source, now)
      BY <1>8, <3>1, MovesTwice
    <3> QED BY <3>1, <3>2, <3>3
  <2> QED BY <1>9, <2>1, <2>2 DEF GoesOn
<1>10. CASE FindsJoin(dev, ticket)
  <2>1. PICK join : d' = SearchDone(dev, join)
    BY <1>10 DEF FindsJoin
  <2>2. Leads(dev, SearchDone(dev, join), now)
    BY <1>8, SearchDoneLeads DEF Fit, Sound
  <2>3. Moves(d, SearchDone(dev, join), source, now)
    BY <1>8, <2>2, ThenLeads
  <2>4. JobsOK(work')
    BY <1>10, KeptFacts DEF FindsJoin
  <2> QED BY <2>1, <2>3, <2>4
<1>11. CASE Plans(dev, ticket)
  <2>0. PICK job \in Kept(ticket) : \E found \in Findings(job) :
          d' = PlanPublished(Checked(Advanced(dev, now), now), job.inputs, found, now)
    BY <1>11 DEF Plans
  <2>1. PICK found \in Findings(job) :
          d' = PlanPublished(Checked(Advanced(dev, now), now), job.inputs, found, now)
    BY <2>0
  <2> DEFINE a == Advanced(dev, now)
             c == Checked(a, now)
             y == PlanPublished(c, job.inputs, found, now)
  <2>2. Leads(dev, a, now) /\ DeviceOK(a)
    BY <1>8, AdvancedFacts DEF Fit, Sound, Leads
  <2>3. d' = y
    BY <2>1
  <2> HIDE DEF a
  <2>4. Leads(a, c, now)
    BY <2>2, CheckedFacts
  <2> HIDE DEF c
  <2>5. Moves(d, a, source, now) /\ Fit(a, source, now)
    BY <1>8, <2>2, ThenLeads DEF Moves
  <2>6. Moves(d, c, source, now) /\ Fit(c, source, now)
    BY <2>4, <2>5, ThenLeads DEF Moves
  <2>7. JobOK(job)
    BY KeptFacts
  <2>8. Few(found) /\ \A p \in found : PlanOK(p)
    BY <2>7, FindingsFacts
  <2>9. Moves(c, y, source, now)
    BY <2>6, <2>8, PlanPublishedMoves
  <2> HIDE DEF y
  <2>10. Moves(d, y, source, now)
    BY <2>6, <2>9, MovesTwice
  <2>11. JobsOK(work')
    BY <1>11 DEF Plans, JobsOK, Few
  <2> QED BY <2>3, <2>10, <2>11
<1> QED BY <1>2, <1>9, <1>10, <1>11

-----------------------------------------------------------------------------
(* The output task, and what else the device hears.                        *)

\* What a step that arms nothing makes of a device.
Becomes(x, y, s, t) == Fit(y, s, t) /\ Stays(x, y, t) /\ y.lc.receipt = x.lc.receipt

\* A step that learns nothing is one that may have learned something.
LEMMA MovesBecome ==
  ASSUME NEW t, NEW s, NEW x, NEW y, Moves(x, y, s, t)
  PROVE  Becomes(x, y, s, t)
<1>1. Stays(x, y, t)
  BY GoesStays DEF Moves
<1> QED BY <1>1 DEF Becomes, Moves

\* What take_command finds: an observed and serviced device.
LEMMA TakingMoves ==
  ASSUME now \in Nat, SourcesOK(source), Fit(d, source, now)
  PROVE  Moves(d, Taking, source, now) /\ Fit(Taking, source, now) /\ Quiet(Taking.lc, now)
<1> DEFINE y == Taking
<1>1. Leads(d, y, now) /\ Quiet(y.lc, now)
  BY InputTakenFacts DEF Fit, Sound, Taking
<1> HIDE DEF y
<1>2. Moves(d, y, source, now)
  BY <1>1, LeadsMoves
<1> QED BY <1>1, <1>2 DEF y, Moves

\* The service of the output that follows.
LEMMA ServesMoves ==
  ASSUME now \in Nat, SourcesOK(source), Fit(d, source, now), NEW faulty
  PROVE  LET y == OutputServiced(Taking, faulty, now)
         IN  Moves(d, y, source, now) /\ Fit(y, source, now)
<1> DEFINE x == Taking
           y == OutputServiced(x, faulty, now)
<1>1. Moves(d, x, source, now) /\ Fit(x, source, now) /\ Quiet(x.lc, now)
  BY TakingMoves
<1> HIDE DEF x
<1>2. Leads(x, y, now)
  BY <1>1, OutputServicedFacts DEF Fit, Sound
<1> HIDE DEF y
<1>3. Moves(d, y, source, now)
  BY <1>1, <1>2, ThenLeads
<1> QED BY <1>3 DEF x, y, Moves

\* Both halves of an output pass.
LEMMA PassMoves ==
  ASSUME now \in Nat, SourcesOK(source), Fit(d, source, now), Pass
  PROVE  Moves(d, d', source, now)
<1>1. PICK faulty, want : PassBegins(faulty, want) \/ PassEnds(faulty)
  BY DEF Pass
<1> DEFINE x == OutputServiced(Taking, faulty, now)
           live == Advanced(x, now)
           y == Executed(live, want, now)
<1>2. Moves(d, x, source, now) /\ Fit(x, source, now)
  BY ServesMoves
<1>3. d' = x \/ d' = y
  BY <1>1 DEF PassBegins, PassEnds, TrackingExecuted
<1> HIDE DEF x
<1>4. Leads(x, live, now) /\ DeviceOK(live)
  BY <1>2, AdvancedFacts DEF Fit, Sound, Leads
<1> HIDE DEF live
<1>5. Leads(live, y, now)
  BY <1>4, ExecutedFacts
<1> HIDE DEF y
<1>6. Leads(x, y, now)
  BY <1>2, <1>4, <1>5, LeadsTwice DEF Fit, Sound
<1>7. Moves(d, y, source, now)
  BY <1>2, <1>6, ThenLeads
<1> QED BY <1>2, <1>3, <1>7

\* Operators come and go.
LEMMA GrantMoves ==
  ASSUME now \in Nat, SourcesOK(source), Fit(d, source, now), Take \/ Leave
  PROVE  Moves(d, d', source, now)
<1> DEFINE live == Advanced(d, now)
           x == Serviced(live, now)
           token == left["grants"]
           a == [x EXCEPT !.lc = Claimed(@, token)]
           b == [x EXCEPT !.lc = Unowned(@)]
<1>1. Leads(d, live, now) /\ DeviceOK(live)
  BY AdvancedFacts DEF Fit, Sound, Leads
<1>2. d' = a \/ d' = b
  BY DEF Take, Leave
<1> HIDE DEF live, token
<1>3. Leads(live, x, now) /\ DeviceOK(x)
  BY <1>1, ServicedFacts DEF Leads
<1> HIDE DEF x
<1>4. Leads(x, a, now) /\ Leads(x, b, now)
  BY <1>3, OwnedLeads
<1> HIDE DEF a, b
<1>5. Leads(d, x, now)
  BY <1>1, <1>3, LeadsTwice DEF Fit, Sound
<1>6. Leads(d, d', now)
  BY <1>2, <1>4, <1>5, LeadsTwice DEF Fit, Sound
<1> QED BY <1>6, LeadsMoves

\* A press of a button is a well-formed envelope.
LEMMA JogIsOK ==
  ASSUME NEW until \in Nat, NEW by
  PROVE  EnvelopeOK([command |-> [kind |-> "Jog", drive |-> [a \in Axis |-> "up"]],
                     until |-> until, by |-> by])
  BY DEF EnvelopeOK, Command, DriveCommand, Direction

\* A press of the operator.
LEMMA JogMoves ==
  ASSUME now \in Nat, SourcesOK(source), Fit(d, source, now), Jog
  PROVE  Moves(d, d', source, now)
<1> DEFINE live == Advanced(d, now)
           x == Serviced(live, now)
           e == [command |-> [kind |-> "Jog", drive |-> [a \in Axis |-> "up"]],
                 until |-> now + MovementLease,
                 by |-> [run |-> {}, sampled |-> now, launch |-> {}]]
<1>1. PICK t \in d.lc.token : d' = RuntimeJogged(x, t, e, now)
  BY DEF Jog
<1>2. now + MovementLease \in Nat
  BY RelayConfigIsValid
<1>3. EnvelopeOK(e)
  BY <1>2, JogIsOK
<1> HIDE DEF e
<1>4. Leads(d, live, now) /\ DeviceOK(live)
  BY AdvancedFacts DEF Fit, Sound, Leads
<1> HIDE DEF live
<1>5. Leads(live, x, now) /\ DeviceOK(x) /\ Quiet(x.lc, now)
  BY <1>4, ServicedFacts DEF Leads, Served
<1> HIDE DEF x
<1>6. Leads(d, x, now)
  BY <1>4, <1>5, LeadsTwice DEF Fit, Sound
<1> DEFINE u == ManuallyCommanded(x.lc, t, e, now)
           y == [x EXCEPT !.lc = u]
<1>7. d' = x \/ d' = y
  <2>1. Ticked(x.lc, now) = x.lc
    BY <1>5, QuietTicks DEF DeviceOK
  <2> QED BY <1>1, <2>1 DEF RuntimeJogged
<1>8. PolicyOK(u) /\ Runs(x.lc, u, now)
  BY <1>3, <1>5, ManuallyCommandedFacts DEF DeviceOK
<1> HIDE DEF u
<1>9. Dated(u)
  <2>1. Quiet(u, now)
    BY <1>5, <1>8 DEF Runs
  <2> QED BY <1>8, <2>1, DatedFacts
<1>10. Leads(x, y, now)
  BY <1>5, <1>8, <1>9, PolicyLeads
<1> HIDE DEF y
<1>11. Leads(d, d', now)
  BY <1>6, <1>7, <1>10, LeadsTwice DEF Fit, Sound
<1> QED BY <1>11, LeadsMoves

\* The feedback task publishes a reading or its failure.
LEMMA FeedbackBecomes ==
  ASSUME NEW t \in Nat, NEW s, SourcesOK(s), NEW x, Fit(x, s, t),
         NEW healthy, NEW sample, Few(sample)
  PROVE  Becomes(x, FeedbackPublished(x, healthy, sample, t), s, t)
<1> DEFINE next == [x EXCEPT !.healthy = healthy, !.sample = sample]
           a == StartChanged(next)
           y == ObservedRun(next, t)
           z == ObservedRun(a, t)
<1>0. FeedbackPublished(x, healthy, sample, t) \in {y, z}
  BY DEF FeedbackPublished
<1>1. /\ Has(next, DeviceFields) /\ next.sample = sample
      /\ \A f \in DeviceFields \ {"healthy", "sample"} : next[f] = x[f]
  BY Zenon DEF Fit, Sound, DeviceOK, Has, DeviceFields
<1> HIDE DEF next
<1>2. /\ next.lc = x.lc /\ next.exec = x.exec /\ next.clock = x.clock /\ next.gate = x.gate
      /\ next.out = x.out /\ next.applied = x.applied /\ next.startRev = x.startRev
      /\ next.bound = x.bound
  BY <1>1 DEF DeviceFields
<1>3. DeviceOK(next)
  BY <1>1, <1>2 DEF Fit, Sound, DeviceOK
<1>4. Fit(next, s, t)
  BY <1>2, <1>3 DEF Fit, Sound, Guarded, Free, Prompt
<1>5. Leads(next, a, t) /\ DeviceOK(a)
  BY <1>3, StartChangedFacts DEF Leads
<1> HIDE DEF a
<1>6. Leads(next, y, t) /\ Leads(a, z, t)
  BY <1>3, <1>5, ObservedRunFacts
<1> HIDE DEF y, z
<1>7. Leads(next, z, t)
  BY <1>3, <1>5, <1>6, LeadsTwice
<1>8. ASSUME NEW v, Leads(next, v, t) PROVE Becomes(x, v, s, t)
  <2>1. Moves(next, v, s, t)
    BY <1>4, <1>8, LeadsMoves
  <2>2. Stays(x, v, t)
    BY <1>2, <2>1, GoesStays DEF Moves
  <2> QED BY <1>2, <2>1, <2>2 DEF Becomes, Moves
<1>9. Becomes(x, y, s, t) /\ Becomes(x, z, s, t)
  BY <1>6, <1>7, <1>8
<1> QED BY <1>0, <1>9

\* Both kinds of readings.
LEMMA FeedbackStepBecomes ==
  ASSUME now \in Nat, SourcesOK(source), Fit(d, source, now), Feedback \/ FeedbackFails
  PROVE  Becomes(d, d', source, now)
<1>1. CASE Feedback
  <2>1. PICK pose, error :
          d' = FeedbackPublished(d, TRUE, {[at |-> now, pose |-> pose, error |-> error]}, now)
    BY <1>1 DEF Feedback
  <2>2. Few({[at |-> now, pose |-> pose, error |-> error]})
    BY DEF Few
  <2> QED BY <2>1, <2>2, FeedbackBecomes
<1>2. CASE FeedbackFails
  <2>1. d' = FeedbackPublished(d, FALSE, d.sample, now)
    BY <1>2 DEF FeedbackFails
  <2>2. Few(d.sample)
    BY DEF Fit, Sound, DeviceOK
  <2> QED BY <2>1, <2>2, FeedbackBecomes
<1> QED BY <1>1, <1>2

\* A time server answers.
LEMMA SyncBecomes ==
  ASSUME now \in Nat, SourcesOK(source), Fit(d, source, now), Sync
  PROVE  Becomes(d, d', source, now)
<1>1. PICK offset \in Offsets :
        d' = ClockPublished(d, {[rev |-> a.rev + 1, at |-> now, offset |-> offset] : a \in d.clock},
                            now)
  BY DEF Sync
<1> DEFINE clock == {[rev |-> a.rev + 1, at |-> now, offset |-> offset] : a \in d.clock}
           next == [d EXCEPT !.clock = clock]
           y == Serviced(next, now)
<1>2. d' = y
  BY <1>1 DEF ClockPublished
<1>3. Few(d.clock) /\ d.clock \subseteq Anchor /\ d.lc.revs \subseteq Revision
  BY DEF Fit, Sound, DeviceOK, PolicyOK
<1>4. Few(clock) /\ clock \subseteq Anchor
  <2>1. offset \in Int
    BY TimesAreTyped
  <2> QED BY <1>3, <2>1 DEF Few, Anchor
<1>5. ASSUME NEW r \in d.lc.revs, NEW b \in clock PROVE r.clock <= b.rev
  <2>1. PICK a \in d.clock : b.rev = a.rev + 1
    OBVIOUS
  <2>2. r.clock \in Nat /\ a.rev \in Nat /\ r.clock <= a.rev
    BY <1>3 DEF Fit, Sound, Revision, Anchor
  <2> QED BY <2>1, <2>2
<1> HIDE DEF clock
<1>6. /\ Has(next, DeviceFields) /\ next.clock = clock
      /\ \A f \in DeviceFields \ {"clock"} : next[f] = d[f]
  BY DEF Fit, Sound, DeviceOK, Has, DeviceFields
<1> HIDE DEF next
<1>7. /\ next.lc = d.lc /\ next.exec = d.exec /\ next.sample = d.sample /\ next.gate = d.gate
      /\ next.out = d.out /\ next.applied = d.applied /\ next.startRev = d.startRev
      /\ next.bound = d.bound
  BY <1>6 DEF DeviceFields
<1>8. DeviceOK(next)
  BY <1>4, <1>6, <1>7 DEF Fit, Sound, DeviceOK
<1>9. Sound(next, source, now) /\ Guarded(next)
  BY <1>5, <1>6, <1>7, <1>8 DEF Fit, Sound, Guarded
<1>10. Fit(y, source, now) /\ Goes(next, y, now) /\ y.lc.receipt = next.lc.receipt
  BY <1>9, ServedFits
<1> HIDE DEF y
<1>11. Stays(d, y, now)
  BY <1>7, <1>10, GoesStays
<1> QED BY <1>2, <1>7, <1>10, <1>11 DEF Becomes

\* The network supervisor reports.
LEMMA NetworkBecomes ==
  ASSUME now \in Nat, SourcesOK(source), Fit(d, source, now), Network
  PROVE  Becomes(d, d', source, now)
<1>1. PICK ready \in BOOLEAN : d' = NetworkPublished(d, ready, now)
  BY DEF Network
<1> DEFINE gate == Observe(d.gate, ready, now)
           next == [d EXCEPT !.gate = gate]
<1>2. DeviceOK(d) /\ d.gate \in [observed : SUBSET Nat, generation : Nat] /\ Guarded(d)
  BY DEF Fit, Sound, DeviceOK
<1>3. GateOK(gate)
  BY <1>2 DEF Observe, Expire, GateOK
<1>4. CASE Lost(d.gate, ready, now)
  <2> DEFINE y == NetworkRevoked(next, now)
  <2>1. d' = y
    BY <1>1, <1>4 DEF NetworkPublished
  <2>2. ~Ready(gate, now) \/ gate.generation # d.gate.generation
    BY <1>2, <1>4 DEF Lost, Observe, Expire, Ready
  <2> HIDE DEF gate
  <2>3. DeviceOK(next) /\ next.gate = gate /\ \A f \in DeviceFields \ {"gate"} : next[f] = d[f]
    BY <1>2, <1>3, GateChanged
  <2>4. Leads(next, y, now) => Leads(d, y, now) \/ y.lc.mode # "Manual"
    BY <1>2, <1>3, ManualLeads
  <2> HIDE DEF next
  <2>5. next.lc = d.lc /\ next.bound = d.bound
    BY <2>3 DEF DeviceFields
  <2>6. next.lc.mode = "Tracking" => ~NetworkKept(next, now)
    BY <2>2, <2>3, <2>5, <1>2 DEF NetworkKept, Guarded
  <2>7. Leads(next, y, now) /\ y.lc.mode = "Manual"
    BY <2>3, <2>6, NetworkRevokedFacts
  <2> HIDE DEF y
  <2>8. Moves(d, y, source, now)
    BY <2>4, <2>7, LeadsMoves
  <2> QED BY <2>1, <2>8, MovesBecome
<1>5. CASE ~Lost(d.gate, ready, now)
  <2>1. d' = next
    BY <1>1, <1>5 DEF NetworkPublished
  <2>2. d.gate.observed # {} => gate.generation = d.gate.generation /\ gate.observed # {}
    BY <1>2, <1>5 DEF Lost, Observe, Expire
  <2> HIDE DEF gate
  <2>3. DeviceOK(next) /\ next.gate = gate /\ \A f \in DeviceFields \ {"gate"} : next[f] = d[f]
    BY <1>2, <1>3, GateChanged
  <2> HIDE DEF next
  <2>4. /\ next.lc = d.lc /\ next.clock = d.clock /\ next.bound = d.bound
        /\ next.applied = d.applied /\ next.startRev = d.startRev
    BY <2>3 DEF DeviceFields
  <2>5. Fit(next, source, now)
    BY <2>2, <2>3, <2>4 DEF Fit, Sound, Guarded, Free, Prompt
  <2>6. Stays(d, next, now)
    <3>1. next.lc.mode = "Tracking" => next.gate.generation = d.gate.generation
      BY <1>2, <2>2, <2>3, <2>4 DEF Guarded
    <3>2. Fit(d, source, now)
      OBVIOUS
    <3> QED BY <2>4, <3>1, <3>2 DEF Stays, Fit, Sound, DeviceOK, PolicyOK, InPhase
  <2> QED BY <2>1, <2>4, <2>5, <2>6 DEF Becomes
<1> QED BY <1>4, <1>5

\* A catalog refresh is published.
LEMMA PublishBecomes ==
  ASSUME now \in Nat, SourcesOK(source), Fit(d, source, now), Publish
  PROVE  Becomes(d, d', source', now) /\ SourcesOK(source')
<1>1. PICK sat \in Sats, until \in Lifetimes, events \in Forecasts :
        LET newest == CHOOSE r \in {source[x].rev : x \in Sats} : \A x \in Sats : source[x].rev <= r
            next == [source EXCEPT ![sat] =
                      [sat |-> sat, rev |-> newest + 1, until |-> until, events |-> events]]
        IN  source' = next /\ d' = InputsRefreshed(d, next)
  BY DEF Publish
<1> DEFINE newest == CHOOSE r \in {source[x].rev : x \in Sats} : \A x \in Sats : source[x].rev <= r
           new == [sat |-> sat, rev |-> newest + 1, until |-> until, events |-> events]
           next == [source EXCEPT ![sat] = new]
<1>2. source' = next /\ d' = InputsRefreshed(d, next)
  BY <1>1
<1>3. newest \in Nat /\ \A x \in Sats : source[x].rev \in Nat /\ source[x].rev <= newest
  <2>1. \E r \in {source[x].rev : x \in Sats} : \A x \in Sats : source[x].rev <= r
    BY DEF SourcesOK
  <2>2. newest \in {source[x].rev : x \in Sats} /\ \A x \in Sats : source[x].rev <= newest
    BY <2>1
  <2> QED BY <2>2 DEF SourcesOK
<1> HIDE DEF newest
<1>4. new.rev = newest + 1 /\ new.events \subseteq Event
  BY ForecastsAreOfEvents
<1> HIDE DEF new
<1>5. /\ Sats \subseteq DOMAIN next /\ next[sat] = new
      /\ \A x \in Sats \ {sat} : next[x] = source[x]
  BY DEF SourcesOK
<1> HIDE DEF next
<1>6. /\ \A x \in Sats : next[x].rev \in Nat /\ next[x].events \subseteq Event
      /\ \A x \in Sats : source[x].rev <= next[x].rev /\ next[x].rev <= next[sat].rev
  BY <1>3, <1>4, <1>5 DEF SourcesOK
<1>7. SourcesOK(next)
  BY <1>5, <1>6 DEF SourcesOK
<1>8. ASSUME NEW r \in d.lc.revs, NEW e \in Originals(d.lc)
      PROVE  r.orbit <= next[e.sat].rev
  <2>1. r \in Revision /\ e \in Event
    BY DEF Fit, Sound, DeviceOK, PolicyOK, Originals, Selection
  <2>2. e.sat \in Sats
    BY <2>1 DEF Sats
  <2>3. r.orbit \in Nat /\ r.orbit <= source[e.sat].rev
    BY <2>1 DEF Fit, Sound, Revision
  <2> QED BY <1>3, <1>6, <2>2, <2>3
<1>9. Fit(d, next, now)
  BY <1>8 DEF Fit, Sound
<1>10. Moves(d, InputsRefreshed(d, next), next, now)
  BY <1>7, <1>9, InputsRefreshedMoves
<1> QED BY <1>2, <1>7, <1>10, MovesBecome

-----------------------------------------------------------------------------
(* Requests.                                                               *)

\* What answering the request q with result makes of the receipt.
Answers(lc, u, q, result) ==
  \/ /\ u.receipt = lc.receipt
     /\ Lasting(result) => \E r \in lc.receipt : r.request = q /\ r.result = result
  \/ /\ u.receipt = {[request |-> q, result |-> result]}
     /\ \A r \in lc.receipt : r.request # q

\* A device with a plan that is waiting for its operator.
Awaits(x) == x.lc.mode = "Manual" /\ x.lc.plan # {}

\* What a request makes of device x.
Serves(x, y, s, t) == Fit(y, s, t) /\ (Goes(x, y, t) \/ Awaits(x))

\* A device with another policy is well formed.
LEMMA PolicyChanged ==
  ASSUME NEW x, DeviceOK(x), NEW u, PolicyOK(u), Dated(u)
  PROVE  LET y == [x EXCEPT !.lc = u]
         IN  /\ DeviceOK(y) /\ y.lc = u
             /\ \A f \in DeviceFields \ {"lc"} : y[f] = x[f]
<1> DEFINE y == [x EXCEPT !.lc = u]
<1>1. /\ Has(y, DeviceFields) /\ y.lc = u
      /\ \A f \in DeviceFields \ {"lc"} : y[f] = x[f]
  BY DEF DeviceOK, Has, DeviceFields
<1> HIDE DEF y
<1>2. /\ y.exec = x.exec /\ y.clock = x.clock /\ y.sample = x.sample /\ y.gate = x.gate
      /\ y.out = x.out /\ y.applied = x.applied /\ y.startRev = x.startRev
  BY <1>1 DEF DeviceFields
<1>3. DeviceOK(y)
  BY <1>1, <1>2 DEF DeviceOK
<1> QED BY <1>1, <1>3 DEF y

\* A policy that differs in its receipt alone.
LEMMA ReceivedFits ==
  ASSUME NEW t \in Nat, NEW s, SourcesOK(s), NEW x, Fit(x, s, t),
         NEW q, NEW result, NEW v, Receives(x.lc, v, q, result)
  PROVE  LET y == [x EXCEPT !.lc = v]
         IN  Fit(y, s, t) /\ Goes(x, y, t) /\ y.lc = v
<1> DEFINE y == [x EXCEPT !.lc = v]
<1>1. DeviceOK(x) /\ PolicyOK(v)
  BY DEF Fit, Sound, Receives
<1>2. /\ v.mode = x.lc.mode /\ v.phase = x.lc.phase /\ v.selection = x.lc.selection
      /\ v.revs = x.lc.revs /\ v.plan = x.lc.plan /\ v.run = x.lc.run
      /\ v.recovery = x.lc.recovery /\ v.handled = x.lc.handled /\ v.armedBy = x.lc.armedBy
  BY DEF Receives, PolicyFields
<1>3. Dated(v)
  BY <1>1, <1>2 DEF DeviceOK, Dated
<1>4. DeviceOK(y) /\ y.lc = v /\ \A f \in DeviceFields \ {"lc"} : y[f] = x[f]
  BY <1>1, <1>3, PolicyChanged
<1> HIDE DEF y
<1>5. /\ y.clock = x.clock /\ y.sample = x.sample /\ y.gate = x.gate /\ y.exec = x.exec
      /\ y.bound = x.bound /\ y.applied = x.applied /\ y.startRev = x.startRev
  BY <1>4 DEF DeviceFields
<1>6. (Quiet(v, t) <=> Quiet(x.lc, t)) /\ (Late(v, t) <=> Late(x.lc, t))
  BY <1>2 DEF Quiet, Late, PassOf, Theplan
<1>7. Originals(v) = Originals(x.lc)
  BY <1>2 DEF Originals
<1>8. Fit(y, s, t)
  BY <1>2, <1>4, <1>5, <1>6, <1>7 DEF Fit, Sound, Guarded, Free, Prompt
<1>9. Goes(x, y, t)
  BY <1>1, <1>2, <1>4, <1>5, <1>6 DEF Goes, Firm, Fit, Sound, DeviceOK, PolicyOK, InPhase
<1> QED BY <1>4, <1>8, <1>9 DEF y

\* A device serviced with a policy that has been given another pass.
LEMMA SelectsFits ==
  ASSUME NEW t \in Nat, NEW s, SourcesOK(s), NEW x, Fit(x, s, t), NEW event \in Event,
         NEW v, v.revs = x.lc.revs, NEW u, PolicyOK(u), Selects(v, u, event)
  PROVE  LET y == Serviced([x EXCEPT !.lc = u], t)
         IN  Fit(y, s, t) /\ Goes(x, y, t) /\ y.lc.receipt = u.receipt
<1> DEFINE z == [x EXCEPT !.lc = u]
           y == Serviced(z, t)
<1>1. DeviceOK(x) /\ u.mode = "Manual" /\ u.recovery = {}
  BY DEF Fit, Sound, Selects, Ended, PolicyOK, InPhase
<1>2. Dated(u)
  BY <1>1 DEF Dated
<1>3. DeviceOK(z) /\ z.lc = u /\ \A f \in DeviceFields \ {"lc"} : z[f] = x[f]
  BY <1>1, <1>2, PolicyChanged
<1> HIDE DEF z
<1>4. z.clock = x.clock /\ z.applied = x.applied /\ z.startRev = x.startRev
  BY <1>3 DEF DeviceFields
<1>5. ASSUME NEW r \in u.revs
      PROVE  /\ \A a \in x.clock : r.clock <= a.rev
             /\ r.start <= x.startRev
             /\ \A e \in Originals(u) : r.orbit <= s[e.sat].rev
  <2>1. PICK k \in x.lc.revs : r = [k EXCEPT !.orbit = 0]
    BY DEF Selects
  <2>2. k \in Revision
    BY <1>1 DEF DeviceOK, PolicyOK
  <2>3. r.clock = k.clock /\ r.start = k.start /\ r.orbit = 0
    BY <2>1, <2>2 DEF Revision
  <2>4. Originals(u) = {event} /\ event.sat \in Sats
    BY DEF Selects, Sats
  <2>5. s[event.sat].rev \in Nat
    BY <2>4 DEF SourcesOK
  <2> QED BY <2>3, <2>4, <2>5 DEF Fit, Sound
<1>6. Sound(z, s, t) /\ Guarded(z)
  BY <1>1, <1>3, <1>4, <1>5 DEF Fit, Sound, Guarded
<1>7. Fit(y, s, t) /\ Goes(z, y, t) /\ y.lc.receipt = z.lc.receipt
  BY <1>6, ServedFits
<1> HIDE DEF y
<1>8. y.lc.mode # "Tracking"
  BY <1>1, <1>3, <1>7 DEF Goes
<1> QED BY <1>3, <1>7, <1>8 DEF Goes, y, z

\* A device serviced with a policy that has been armed.
LEMMA ArmsFits ==
  ASSUME NEW t \in Nat, NEW s, SourcesOK(s), NEW x, Fit(x, s, t), Ready(x.gate, t),
         NEW q, NEW result, NEW v, Receives(x.lc, v, q, result), NEW u, PolicyOK(u), Arms(v, u)
  PROVE  LET y == Serviced([[x EXCEPT !.lc = u] EXCEPT !.bound = {x.gate.generation}], t)
         IN  Fit(y, s, t) /\ y.lc.receipt = u.receipt /\ Awaits(x) /\ x.bound = {}
<1> DEFINE w == [x EXCEPT !.lc = u]
           bound == {x.gate.generation}
           z == [w EXCEPT !.bound = bound]
           y == Serviced(z, t)
<1>1. /\ v.mode = x.lc.mode /\ v.plan = x.lc.plan /\ v.revs = x.lc.revs
      /\ v.selection = x.lc.selection
  BY DEF Receives, PolicyFields
<1>2. DeviceOK(x) /\ u.mode = "Tracking" /\ u.recovery = {} /\ u.revs = x.lc.revs
      /\ Originals(u) = Originals(x.lc)
  BY <1>1 DEF Fit, Sound, Arms, Untouched, Originals
<1>3. Awaits(x) /\ x.bound = {}
  BY <1>1 DEF Arms, Fit, Free, Awaits
<1>4. Dated(u)
  BY <1>2 DEF Dated
<1>5. DeviceOK(w) /\ w.lc = u /\ \A f \in DeviceFields \ {"lc"} : w[f] = x[f]
  BY <1>2, <1>4, PolicyChanged
<1> HIDE DEF w, bound
<1>6. Has(z, DeviceFields) /\ z.bound = bound /\ \A f \in DeviceFields \ {"bound"} : z[f] = w[f]
  BY <1>5 DEF DeviceOK, Has, DeviceFields
<1> HIDE DEF z
<1>7. /\ z.lc = u /\ z.clock = x.clock /\ z.applied = x.applied /\ z.startRev = x.startRev
      /\ z.gate = x.gate
      /\ z.lc = w.lc /\ z.exec = w.exec /\ z.clock = w.clock /\ z.sample = w.sample
      /\ z.gate = w.gate /\ z.applied = w.applied /\ z.startRev = w.startRev /\ z.out = w.out
  BY <1>5, <1>6 DEF DeviceFields
<1>8. DeviceOK(z)
  BY <1>5, <1>6, <1>7 DEF DeviceOK
<1>9. Sound(z, s, t)
  BY <1>2, <1>7, <1>8 DEF Fit, Sound
<1>10. Guarded(z)
  BY <1>6, <1>7 DEF Guarded, Ready, bound
<1>11. Fit(y, s, t) /\ y.lc.receipt = z.lc.receipt
  BY <1>9, <1>10, ServedFits
<1> QED BY <1>3, <1>7, <1>11 DEF y, z, w, bound

\* A device with its own policy is itself.
LEMMA LcUnchanged ==
  ASSUME NEW x, DeviceOK(x)
  PROVE  [x EXCEPT !.lc = x.lc] = x
<1>1. Has(x, DeviceFields)
  BY DEF DeviceOK
<1> QED BY <1>1 DEF Has, DeviceFields

\* A request that is answered from its receipt, or refused without one.
LEMMA RepeatsServes ==
  ASSUME NEW t \in Nat, NEW s, SourcesOK(s), NEW x, Fit(x, s, t), NEW q, NEW a,
         Repeats(x.lc, a, q)
  PROVE  LET done == RequestDone(x, a, t)
         IN  /\ Serves(x, done.d, s, t) /\ done.result = a.result
             /\ Answers(x.lc, done.d.lc, q, done.result)
<1> DEFINE y == Serviced(x, t)
           done == RequestDone(x, a, t)
<1>1. DeviceOK(x) /\ Guarded(x)
  BY DEF Fit, Sound
<1>2. a.lc = x.lc /\ [x EXCEPT !.lc = a.lc] = x
  BY <1>1, LcUnchanged DEF Repeats
<1>3. ~(a.lc.mode = "Tracking" /\ x.bound = {})
  BY <1>1, <1>2 DEF Guarded
<1>4. (done.d = y \/ done.d = x) /\ done.result = a.result
  BY <1>2, <1>3 DEF RequestDone
<1> HIDE DEF done
<1>5. Fit(y, s, t) /\ Goes(x, y, t) /\ y.lc.receipt = x.lc.receipt
  BY <1>1, ServedFits DEF Fit
<1>6. Fit(x, s, t) /\ Goes(x, x, t)
  BY MovesStill DEF Moves
<1> HIDE DEF y
<1>7. Serves(x, done.d, s, t) /\ done.d.lc.receipt = x.lc.receipt
  BY <1>4, <1>5, <1>6 DEF Serves
<1>8. Answers(x.lc, done.d.lc, q, done.result)
  BY <1>4, <1>7 DEF Answers, Repeats, Lasting
<1> QED BY <1>4, <1>7, <1>8 DEF done

\* A request that is carried out, or refused with a receipt.
LEMMA AppliesServes ==
  ASSUME NEW t \in Nat, NEW s, SourcesOK(s), NEW x, Fit(x, s, t), NEW q, RequestOK(q),
         q.action # "Arm" \/ Ready(x.gate, t), NEW a, NEW v, Applies(x.lc, v, a, q, t)
  PROVE  LET done == RequestDone(x, a, t)
         IN  /\ Serves(x, done.d, s, t) /\ done.result = a.result
             /\ Answers(x.lc, done.d.lc, q, done.result)
<1> DEFINE u == a.lc
           w == [x EXCEPT !.lc = v]
           z == [x EXCEPT !.lc = u]
           b == [z EXCEPT !.bound = {x.gate.generation}]
           done == RequestDone(x, a, t)
<1>1. /\ Receives(x.lc, v, q, a.result) /\ PolicyOK(u) /\ Outcome(v, u, q, t)
      /\ a.result.error # "none" => u = v
      /\ \A r \in x.lc.receipt : r.request # q
  BY DEF Applies
<1>2. Fit(w, s, t) /\ Goes(x, w, t) /\ w.lc = v
  BY <1>1, ReceivedFits
<1>3. v.mode = x.lc.mode /\ v.revs = x.lc.revs /\ v.receipt = {[request |-> q, result |-> a.result]}
  BY <1>1 DEF Receives, PolicyFields
<1>4. done.result = a.result
  BY DEF RequestDone
<1>5. DeviceOK(x) /\ Guarded(x)
  BY DEF Fit, Sound
<1> DEFINE Right == Serves(x, done.d, s, t) /\ done.d.lc.receipt = v.receipt
<1>6. Right => Serves(x, done.d, s, t) /\ Answers(x.lc, done.d.lc, q, done.result)
  BY <1>1, <1>3, <1>4 DEF Answers
<1>7. CASE a.result.error # "none"
  <2>1. done.d = w
    BY <1>1, <1>7 DEF RequestDone
  <2> HIDE DEF done, w
  <2>2. Right
    BY <1>2, <2>1 DEF Serves
  <2> QED BY <1>4, <1>6, <2>2 DEF done
<1>8. CASE a.result.error = "none" /\ Prepares(v, u, t)
  <2>1. ~(u.mode = "Tracking" /\ x.bound = {})
    BY <1>3, <1>5, <1>8 DEF Guarded, Prepares, Runs
  <2>2. done.d = Serviced(z, t)
    BY <1>8, <2>1 DEF RequestDone
  <2>3. z = [w EXCEPT !.lc = u]
    <3>1. Has(x, DeviceFields)
      BY <1>5 DEF DeviceOK
    <3> QED BY <3>1 DEF Has, DeviceFields
  <2> HIDE DEF done, w, z, u
  <2>4. Prepares(w.lc, u, t)
    BY <1>2, <1>8
  <2>5. Moves(w, Serviced(z, t), s, t)
    BY <1>1, <1>2, <2>3, <2>4, PreparedMoves
  <2>6. PolicyOK(x.lc) /\ PolicyOK(w.lc) /\ PolicyOK(Serviced(z, t).lc)
    BY <1>2, <1>5, <2>5 DEF Moves, Fit, Sound, DeviceOK
  <2>7. Goes(x, Serviced(z, t), t)
    BY <1>2, <2>5, <2>6, GoesTwice DEF Moves
  <2>8. Right
    BY <1>2, <2>2, <2>5, <2>7 DEF Serves, Moves
  <2> QED BY <1>4, <1>6, <2>8 DEF done
<1>9. CASE a.result.error = "none" /\ q.action = "Select" /\ Selects(v, u, q.event)
  <2>1. u.mode = "Manual" /\ u.receipt = v.receipt
    BY <1>9 DEF Selects, Ended
  <2>2. done.d = Serviced(z, t)
    BY <1>9, <2>1 DEF RequestDone
  <2>3. q.event \in Event
    BY <1>9 DEF RequestOK
  <2> HIDE DEF done, u
  <2>4. Fit(Serviced(z, t), s, t) /\ Goes(x, Serviced(z, t), t) /\ Serviced(z, t).lc.receipt = u.receipt
    BY <1>1, <1>3, <1>9, <2>3, SelectsFits
  <2>5. Right
    BY <2>1, <2>2, <2>4 DEF Serves
  <2> QED BY <1>4, <1>6, <2>5 DEF done
<1>10. CASE a.result.error = "none" /\ q.action = "Arm" /\ Arms(v, u)
  <2>1. u.mode = "Tracking" /\ u.receipt = v.receipt
    BY <1>10 DEF Arms, Untouched
  <2> DEFINE y == Serviced(b, t)
  <2>2. x.bound = {} => done.d = y
    BY <1>10, <2>1 DEF RequestDone
  <2> HIDE DEF done, u
  <2>3. Ready(x.gate, t)
    BY <1>10
  <2>4. Fit(y, s, t) /\ y.lc.receipt = u.receipt /\ Awaits(x) /\ x.bound = {}
    BY <1>1, <1>10, <2>3, ArmsFits, Zenon
  <2> HIDE DEF y
  <2>5. Right
    BY <2>1, <2>2, <2>4 DEF Serves
  <2> QED BY <1>4, <1>6, <2>5 DEF done
<1> QED BY <1>1, <1>7, <1>8, <1>9, <1>10 DEF Outcome

\* What any request makes of a fit device (runtime.rs request).
LEMMA RuntimeRequestedServes ==
  ASSUME NEW t \in Nat, NEW s, SourcesOK(s), NEW x, Fit(x, s, t), NEW q, RequestOK(q)
  PROVE  LET done == RuntimeRequested(x, q, t)
         IN  Serves(x, done.d, s, t) /\ Answers(x.lc, done.d.lc, q, done.result)
<1>1. CASE q.action = "Arm" /\ ~Ready(x.gate, t)
  <2>1. RuntimeRequested(x, q, t) = [d |-> x, result |-> Answer("Network", 0)]
    BY <1>1 DEF RuntimeRequested
  <2>2. Fit(x, s, t) /\ Goes(x, x, t)
    BY MovesStill DEF Moves
  <2>3. ~Lasting(Answer("Network", 0))
    BY DEF Lasting, Answer
  <2> QED BY <2>1, <2>2, <2>3 DEF Serves, Answers
<1>2. CASE q.action # "Arm" \/ Ready(x.gate, t)
  <2> DEFINE a == Requested(x.lc, q, t)
  <2>1. RuntimeRequested(x, q, t) = RequestDone(x, a, t)
    BY <1>2 DEF RuntimeRequested
  <2>2. Repeats(x.lc, a, q) \/ \E v : Applies(x.lc, v, a, q, t)
    BY RequestedFacts DEF Fit, Sound, DeviceOK
  <2> HIDE DEF a
  <2>3. CASE Repeats(x.lc, a, q)
    BY <2>1, <2>3, RepeatsServes
  <2>4. CASE \E v : Applies(x.lc, v, a, q, t)
    <3>1. PICK v : Applies(x.lc, v, a, q, t)
      BY <2>4
    <3> QED BY <1>2, <2>1, <3>1, AppliesServes
  <2> QED BY <2>2, <2>3, <2>4
<1> QED BY <1>1, <1>2

\* A wire that loses its head, and one that gains a message.
LEMMA WireShrinks ==
  ASSUME NEW intents, NEW messages, WireOK(messages, intents), messages # <<>>
  PROVE  Head(messages).intent \in intents /\ WireOK(Tail(messages), intents)
<1> DEFINE T == Tail(messages)
           S == {messages[i] : i \in DOMAIN messages}
<1>1. messages \in Seq(S)
  BY DEF WireOK
<1> HIDE DEF S
<1>2. /\ Len(messages) \in Nat /\ DOMAIN messages = 1 .. Len(messages) /\ Len(messages) > 0
      /\ Head(messages) = messages[1]
      /\ T \in Seq(S) /\ Len(T) = Len(messages) - 1
      /\ \A i \in 1 .. Len(T) : T[i] = messages[i + 1]
  BY <1>1
<1> HIDE DEF T
<1>3. DOMAIN T = 1 .. Len(T) /\ Len(T) \in Nat
  BY <1>2
<1>4. \A i \in DOMAIN T : T[i].intent \in intents
  BY <1>2, <1>3 DEF WireOK
<1>5. T \in Seq({T[i] : i \in DOMAIN T})
  BY <1>2, <1>3
<1>6. 1 \in DOMAIN messages
  BY <1>2
<1> QED BY <1>2, <1>4, <1>5, <1>6 DEF WireOK, T

\* A wire that gains a message, and one with a message alone.
LEMMA WireGrows ==
  ASSUME NEW intents, NEW messages, WireOK(messages, intents), NEW m, m.intent \in intents
  PROVE  WireOK(Append(messages, m), intents) /\ WireOK(<<m>>, intents)
<1> DEFINE T == Append(messages, m)
           U == <<m>>
           S == {messages[i] : i \in DOMAIN messages}
<1>1. messages \in Seq(S)
  BY DEF WireOK
<1> HIDE DEF S
<1>2. messages \in Seq(S \cup {m})
  BY <1>1
<1>3. /\ DOMAIN messages = 1 .. Len(messages) /\ Len(messages) \in Nat
      /\ T \in Seq(S \cup {m}) /\ Len(T) = Len(messages) + 1
      /\ T[Len(messages) + 1] = m
      /\ \A i \in 1 .. Len(messages) : T[i] = messages[i]
  BY <1>1, <1>2
<1> HIDE DEF T
<1>4. DOMAIN T = 1 .. Len(messages) + 1 /\ T \in Seq({T[i] : i \in DOMAIN T})
  BY <1>3
<1>5. \A i \in DOMAIN T : T[i].intent \in intents
  BY <1>3, <1>4 DEF WireOK
<1>6. U \in Seq({U[i] : i \in DOMAIN U}) /\ \A i \in DOMAIN U : U[i].intent \in intents
  OBVIOUS
<1> HIDE DEF U
<1> QED BY <1>4, <1>5, <1>6 DEF WireOK, T, U

\* What of the requests survives a step that leaves them alone.
LEMMA RequestsKept ==
  ASSUME RequestsOK, UNCHANGED <<wire, asked, replies>>, d'.lc.receipt = d.lc.receipt
  PROVE  RequestsOK'
  BY DEF RequestsOK

\* A lasting reply is the receipt's.
LEMMA RepliesFacts ==
  ASSUME RequestsOK, Few(d.lc.receipt), NEW q, q \in {a.intent : a \in asked},
         NEW lc, lc.receipt = d.lc.receipt, NEW u, NEW result, Answers(lc, u, q, result),
         NEW next, next = IF Lasting(result) THEN replies \cup {result} ELSE replies,
         next # {}
  PROVE  \E a \in asked, r \in u.receipt : r.request = a.intent /\ next = {r.result}
<1>1. PICK a \in asked : a.intent = q
  OBVIOUS
<1>2. \A b \in asked : b = a
  BY DEF RequestsOK, Few
<1>3. replies # {} => \E r \in d.lc.receipt : r.request = q /\ replies = {r.result}
  BY <1>1, <1>2 DEF RequestsOK
<1>4. CASE /\ u.receipt = lc.receipt
           /\ Lasting(result) => \E r \in lc.receipt : r.request = q /\ r.result = result
  <2>1. \E r \in d.lc.receipt : r.request = q /\ next = {r.result}
    BY <1>3, <1>4 DEF Few
  <2> QED BY <1>1, <1>4, <2>1
<1>5. CASE /\ u.receipt = {[request |-> q, result |-> result]}
           /\ \A r \in lc.receipt : r.request # q
  <2>1. replies = {}
    BY <1>3, <1>5
  <2>2. next = {result}
    BY <2>1
  <2> QED BY <1>1, <1>5, <2>2
<1> QED BY <1>4, <1>5 DEF Answers

\* A request arrives.
LEMMA DeliverServes ==
  ASSUME now \in Nat, SourcesOK(source), Fit(d, source, now), RequestsOK, Deliver
  PROVE  Fit(d', source, now) /\ (Stays(d, d', now) \/ d.lc.mode = "Manual") /\ RequestsOK'
<1> DEFINE m == Head(wire)
           q == m.intent
           live == Advanced(d, now)
           c == Checked(live, now)
           done == RuntimeRequested(c, q, now)
           intents == {a.intent : a \in asked}
<1>1. /\ wire # <<>> /\ wire' = Tail(wire) /\ asked' = asked
      /\ \/ d' = live /\ replies' = replies
         \/ /\ d' = done.d
            /\ replies' = IF Lasting(done.result) THEN replies \cup {done.result} ELSE replies
  BY DEF Deliver, Answered
<1>2. q \in intents /\ WireOK(wire', intents)
  BY <1>1, WireShrinks DEF RequestsOK
<1>3. PICK a \in asked : q = a.intent
  BY <1>2
<1>4. RequestOK(q) /\ Few(asked) /\ \A b \in asked : RequestOK(b.intent)
  BY <1>3 DEF RequestsOK
<1>5. Leads(d, live, now) /\ DeviceOK(d) /\ DeviceOK(live)
  BY AdvancedFacts DEF Fit, Sound, Leads
<1> HIDE DEF live, intents, q
<1>6. Leads(live, c, now)
  BY <1>5, CheckedFacts
<1> HIDE DEF c
<1>7. Leads(d, c, now)
  BY <1>5, <1>6, LeadsTwice
<1>8. Moves(d, c, source, now) /\ Moves(d, live, source, now)
  BY <1>5, <1>7, LeadsMoves
<1>9. Fit(c, source, now) /\ c.lc.receipt = d.lc.receipt /\ live.lc.receipt = d.lc.receipt
  BY <1>8 DEF Moves
<1>10. Serves(c, done.d, source, now) /\ Answers(c.lc, done.d.lc, q, done.result)
  BY <1>4, <1>9, RuntimeRequestedServes
<1> HIDE DEF done
<1>11. CASE d' = live /\ replies' = replies
  <2>1. RequestsOK'
    BY <1>1, <1>2, <1>9, <1>11 DEF RequestsOK, intents
  <2>2. Becomes(d, live, source, now)
    BY <1>8, MovesBecome
  <2> QED BY <1>11, <2>1, <2>2 DEF Becomes
<1>12. CASE /\ d' = done.d
            /\ replies' = IF Lasting(done.result) THEN replies \cup {done.result} ELSE replies
  <2>1. Fit(d', source, now)
    BY <1>10, <1>12 DEF Serves
  <2>2. Stays(d, d', now) \/ d.lc.mode = "Manual"
    <3>1. CASE Goes(c, done.d, now)
      <4>1. PolicyOK(d.lc) /\ PolicyOK(c.lc) /\ PolicyOK(done.d.lc)
        BY <1>5, <1>9, <1>12, <2>1 DEF Fit, Sound, DeviceOK
      <4>2. Goes(d, done.d, now)
        BY <1>8, <3>1, <4>1, GoesTwice DEF Moves
      <4> QED BY <1>12, <4>2, GoesStays
    <3>2. CASE Awaits(c)
      BY <1>7, <3>2 DEF Leads, Awaits
    <3> QED BY <1>10, <3>1, <3>2 DEF Serves
  <2>3. replies' # {} => \E b \in asked, r \in done.d.lc.receipt :
                           r.request = b.intent /\ replies' = {r.result}
    <3>1. Few(d.lc.receipt)
      BY <1>5 DEF DeviceOK, PolicyOK
    <3>2. q \in {b.intent : b \in asked}
      BY <1>2 DEF intents
    <3> SUFFICES ASSUME replies' # {}
                 PROVE  \E b \in asked, r \in done.d.lc.receipt :
                          r.request = b.intent /\ replies' = {r.result}
      OBVIOUS
    <3>3. c.lc.receipt = d.lc.receipt
      BY <1>9
    <3> DEFINE lc == c.lc
               u == done.d.lc
               result == done.result
               next == replies'
    <3>4. /\ lc.receipt = d.lc.receipt /\ Answers(lc, u, q, result)
          /\ next = IF Lasting(result) THEN replies \cup {result} ELSE replies
          /\ next # {}
      BY <1>10, <1>12, <3>3
    <3> HIDE DEF lc, u, result, next
    <3>5. \E b \in asked, r \in u.receipt : r.request = b.intent /\ next = {r.result}
      BY <3>1, <3>2, <3>4, RepliesFacts
    <3> QED BY <3>5 DEF u, next
  <2>4. RequestsOK'
    BY <1>1, <1>2, <1>4, <1>12, <2>3 DEF RequestsOK, intents
  <2> QED BY <2>1, <2>2, <2>4
<1> QED BY <1>1, <1>11, <1>12

\* A new request, which takes the place of the last one.
LEMMA SendAsks ==
  ASSUME SourcesOK(source), Send
  PROVE  RequestsOK' /\ d' = d
<1>1. PICK intent \in Intents :
        LET a == [intent |-> intent, seen |-> Seen(d.lc)]
        IN  wire' = <<Message(a)>> /\ asked' = {a} /\ replies' = {} /\ d' = d
  BY DEF Send
<1> DEFINE a == [intent |-> intent, seen |-> Seen(d.lc)]
<1>2. RequestOK(intent)
  <2>1. PICK action \in Actions : \E t \in d.lc.token, e \in Offered(action) :
          intent.action = action /\ intent.event = e
    BY DEF Intents
  <2>2. intent.action \in {"Select", "Arm", "PrepareNow", "Cancel", "Manual"}
    BY <2>1, ActionsExist
  <2>3. intent.action = "Select" => intent.event \in Event
    <3>1. ASSUME intent.action = "Select" PROVE intent.event \in UNION {source[s].events : s \in Sats}
      BY <2>1, <3>1 DEF Offered
    <3> QED BY <3>1 DEF SourcesOK
  <2> QED BY <2>2, <2>3 DEF RequestOK
<1>3. wire' = <<Message(a)>> /\ asked' = {a} /\ replies' = {} /\ d' = d
  BY <1>1
<1>4. a.intent = intent
  OBVIOUS
<1> HIDE DEF a
<1>5. Message(a).intent \in {b.intent : b \in {a}}
  BY DEF Message
<1> DEFINE nothing == <<>>
<1>6. WireOK(nothing, {b.intent : b \in {a}})
  BY DEF WireOK
<1>7. WireOK(<<Message(a)>>, {b.intent : b \in {a}})
  BY <1>5, <1>6, WireGrows
<1>8. Few({a}) /\ \A b \in {a} : RequestOK(b.intent)
  BY <1>2, <1>4 DEF Few
<1> QED BY <1>3, <1>7, <1>8 DEF RequestsOK

\* The same request once more.
LEMMA ResendAsks ==
  ASSUME RequestsOK, Resend
  PROVE  RequestsOK' /\ d' = d
<1>1. PICK a \in asked : wire' = Append(wire, Message(a))
  BY DEF Resend
<1>2. Message(a).intent \in {b.intent : b \in asked}
  BY DEF Message
<1>3. WireOK(Append(wire, Message(a)), {b.intent : b \in asked})
  BY <1>2, WireGrows DEF RequestsOK
<1> QED BY <1>1, <1>3 DEF Resend, NoteOnly, RequestsOK

-----------------------------------------------------------------------------
(* The system.                                                             *)

\* What every step but the clock's makes of the system.
StepOK ==
  /\ SourcesOK(source') /\ Fit(d', source', now)
  /\ Stays(d, d', now) \/ d.lc.mode = "Manual"
  /\ JobsOK(work') /\ RequestsOK' /\ mid' \subseteq 0 .. now /\ now' = now /\ Note

\* A policy is in the phase of its own episode.
LEMMA PhaseFacts ==
  ASSUME NEW lc, PolicyOK(lc)
  PROVE  /\ lc.mode \in {"Manual", "Tracking"}
         /\ lc.mode = "Manual" => lc.run = {} /\ lc.recovery = {}
         /\ lc.mode = "Tracking" => (lc.phase = "Armed" <=> lc.run = {})
         /\ lc.recovery # {} <=> lc.phase = "Reacquiring"
         /\ lc.phase \in {"Preparing", "Reacquiring"} =>
              /\ lc.mode = "Tracking" /\ lc.run # {} /\ lc.plan # {}
              /\ PassOf(lc).aos \in Int
         /\ lc.phase \in {"Armed", "Following"} => lc.recovery = {}
<1>1. InPhase(lc) /\ (lc.run # {} => lc.plan # {})
  BY DEF PolicyOK
<1>2. lc.plan # {} => PassOf(lc).aos \in Int
  BY ThePlanFacts
<1> QED BY <1>1, <1>2 DEF InPhase

\* An armed pass keeps the generation it was armed under.
LEMMA PledgeKept ==
  ASSUME d.lc.mode = "Tracking" => pledged = {d.gate.generation}, Note,
         Stays(d, d', now) \/ d.lc.mode = "Manual"
  PROVE  d'.lc.mode = "Tracking" => pledged' = {d'.gate.generation}
<1> SUFFICES ASSUME d'.lc.mode = "Tracking" PROVE pledged' = {d'.gate.generation}
  OBVIOUS
<1>1. CASE d.lc.mode = "Manual"
  BY <1>1 DEF Note
<1>2. CASE d.lc.mode # "Manual"
  BY <1>2 DEF Note, Stays
<1> QED BY <1>1, <1>2

\* A run that is off its route has its limit since it left it.
LEMMA AstrayKept ==
  ASSUME now \in Nat, now' = now, PolicyOK(d.lc), PolicyOK(d'.lc), Dated(d'.lc), Note,
         AstrayOK(d, astray, now), Stays(d, d', now) \/ d.lc.mode = "Manual",
         \A r \in d'.lc.recovery : r.deadline <= now + RecoveryLimit
  PROVE  AstrayOK(d', astray', now)
<1>1. CASE ~OffRoute(d', now)
  BY <1>1 DEF Note, AstrayOK
<1>2. CASE OffRoute(d', now) /\ astray = {}
  <2>1. astray' = {now}
    BY <1>2 DEF Note, Since
  <2>2. PassOf(d'.lc).aos <= now
    BY <1>2, PhaseFacts DEF OffRoute
  <2> QED BY <1>2, <2>1, <2>2 DEF AstrayOK
<1>3. CASE OffRoute(d', now) /\ astray # {}
  <2>1. astray' = astray
    BY <1>3 DEF Note, Since
  <2>2. OffRoute(d, now)
    BY <1>3 DEF AstrayOK
  <2>3. /\ d.lc.mode = "Tracking" /\ d.lc.run # {} /\ d'.lc.mode = "Tracking"
        /\ PassOf(d.lc).aos \in Int
    BY <1>3, <2>2, PhaseFacts DEF OffRoute
  <2>4. d'.lc.plan = d.lc.plan
    BY <2>3 DEF Stays
  <2>5. PassOf(d'.lc) = PassOf(d.lc)
    BY <2>4 DEF PassOf, Theplan
  <2>6. ASSUME NEW a \in astray, NEW r \in d'.lc.recovery PROVE r.deadline <= a + RecoveryLimit
    <3>1. a \in Int /\ PassOf(d.lc).aos <= a /\ \A e \in d.lc.recovery : e.deadline <= a + RecoveryLimit
      BY <2>6 DEF AstrayOK
    <3>2. d'.lc.phase = "Reacquiring"
      BY <2>6, PhaseFacts
    <3>3. CASE d.lc.recovery # {}
      <4>1. d'.lc.recovery = d.lc.recovery
        BY <2>3, <3>2, <3>3 DEF Stays
      <4> QED BY <2>6, <3>1, <4>1
    <3>4. CASE d.lc.recovery = {}
      <4>1. Late(d.lc, now)
        BY <2>2, <3>4, PhaseFacts DEF OffRoute, Late
      <4>2. ~Late(d'.lc, now) /\ d'.lc.phase # "Following"
        BY <3>2 DEF Late
      <4>3. r.deadline <= PassOf(d.lc).aos + RecoveryLimit
        BY <2>3, <4>1, <4>2 DEF Stays
      <4>4. r.deadline \in Nat
        BY DEF Dated
      <4> QED BY <2>3, <3>1, <4>3, <4>4, RecoveryLimitIsPositive
    <3> QED BY <3>3, <3>4
  <2> QED BY <1>3, <2>1, <2>5, <2>6 DEF AstrayOK
<1> QED BY <1>1, <1>2, <1>3

\* Steps in which time stands still.
LEMMA StepKeeps ==
  ASSUME IInv, StepOK
  PROVE  IInv'
<1>1. now \in Nat /\ now' = now
  BY DEF IInv, StepOK
<1>2. PolicyOK(d.lc) /\ PolicyOK(d'.lc) /\ Dated(d'.lc)
  BY DEF IInv, StepOK, Fit, Sound, DeviceOK
<1>3. \A r \in d'.lc.recovery : r.deadline <= now + RecoveryLimit
  BY DEF StepOK, Fit, Sound
<1>4. AstrayOK(d', astray', now)
  BY <1>1, <1>2, <1>3, AstrayKept DEF IInv, StepOK
<1>5. d'.lc.mode = "Tracking" => pledged' = {d'.gate.generation}
  BY PledgeKept DEF IInv, StepOK
<1> QED BY <1>1, <1>4, <1>5 DEF IInv, StepOK, Fit, JobsOK

\* A unit of time passes.
LEMMA TicksKeeps ==
  ASSUME IInv, Ticks
  PROVE  IInv'
<1>1. /\ now \in Nat /\ now < MaxTime /\ now' = now + 1 /\ MaxTime \in Nat
      /\ mid' = mid /\ source' = source /\ work' = work /\ d' = d
      /\ wire' = wire /\ asked' = asked /\ replies' = replies /\ Note
  BY TimesAreTyped DEF IInv, Ticks, NoteOnly
<1>2. now' \in 0 .. MaxTime /\ mid' \subseteq 0 .. now'
  BY <1>1 DEF IInv
<1>3. DeviceOK(d) /\ PolicyOK(d.lc) /\ Dated(d.lc) /\ d.applied \in Nat /\ d.applied <= now
  BY DEF IInv, Sound, DeviceOK
<1>4. \A r \in d.lc.recovery : r.deadline <= now + RecoveryLimit /\ r.deadline \in Nat
  BY <1>3 DEF IInv, Sound, Dated
<1>5. \A r \in d.lc.recovery : r.deadline <= now' + RecoveryLimit
  BY <1>1, <1>4, RecoveryLimitIsPositive
<1>6. Sound(d, source, now') /\ Prompt(d, now')
  BY <1>1, <1>3, <1>5 DEF IInv, Sound, Prompt
<1>7. d.lc.mode = "Tracking" => pledged' = pledged
  BY <1>1 DEF Note
<1>8. AstrayOK(d, astray', now')
  <2>1. CASE ~OffRoute(d, now')
    BY <1>1, <2>1 DEF Note, AstrayOK
  <2>2. CASE OffRoute(d, now')
    <3>1. astray' = IF astray = {} THEN {now'} ELSE astray
      BY <1>1, <2>2 DEF Note, Since
    <3>2. PassOf(d.lc).aos <= now'
      BY <1>1, <1>3, <2>2, PhaseFacts DEF OffRoute
    <3>3. CASE astray = {}
      BY <1>1, <1>5, <2>2, <3>1, <3>2, <3>3 DEF AstrayOK
    <3>4. CASE astray # {}
      <4>1. AstrayOK(d, astray, now)
        BY DEF IInv
      <4> QED BY <1>1, <2>2, <3>1, <3>4, <4>1 DEF AstrayOK
    <3> QED BY <3>3, <3>4
  <2> QED BY <2>1, <2>2
<1>9. RequestsOK'
  BY <1>1, RequestsKept DEF IInv
<1> QED BY <1>1, <1>2, <1>6, <1>7, <1>8, <1>9 DEF IInv

\* What the invariant says for the lemmas about steps.
LEMMA InvariantFacts ==
  ASSUME IInv
  PROVE  /\ now \in Nat /\ SourcesOK(source) /\ Fit(d, source, now) /\ JobsOK(work) /\ RequestsOK
         /\ mid \subseteq 0 .. now
  BY DEF IInv, Fit, JobsOK

\* Steps that leave the requests alone.
LEMMA BecomingKeeps ==
  ASSUME IInv, Becomes(d, d', source, now), SourcesOK(source'), Fit(d', source', now),
         JobsOK(work'), mid' \subseteq 0 .. now, UNCHANGED <<wire, asked, replies, now>>, Note
  PROVE  StepOK
<1>1. RequestsOK'
  BY RequestsKept DEF IInv, Becomes
<1> QED BY <1>1 DEF StepOK, Becomes

\* A poll of the worker, as a step of the system.
LEMMA PollKeeps ==
  ASSUME IInv, Poll
  PROVE  StepOK
<1>1. Moves(d, d', source, now) /\ JobsOK(work')
  BY PollMoves, InvariantFacts
<1>2. /\ source' = source /\ mid' = mid /\ Note /\ UNCHANGED <<wire, asked, replies, now>>
  BY DEF Poll, NoteOnly
<1>3. Becomes(d, d', source, now)
  BY <1>1, MovesBecome
<1> QED BY <1>1, <1>2, <1>3, BecomingKeeps, InvariantFacts DEF Becomes

\* Half an output pass, as a step of the system.
LEMMA PassKeeps ==
  ASSUME IInv, Pass
  PROVE  StepOK
<1>1. Becomes(d, d', source, now)
  BY PassMoves, MovesBecome, InvariantFacts
<1>2. PICK faulty, want : PassBegins(faulty, want) \/ PassEnds(faulty)
  BY DEF Pass
<1>3. /\ source' = source /\ work' = work /\ Note /\ UNCHANGED <<wire, asked, replies, now>>
      /\ mid' = {} \/ mid' = {now}
  BY <1>2 DEF PassBegins, PassEnds, NoteOnly
<1>4. mid' \subseteq 0 .. now
  BY <1>3, InvariantFacts
<1> QED BY <1>1, <1>3, <1>4, BecomingKeeps, InvariantFacts DEF Becomes

\* What the device hears, as a step of the system.
LEMMA EnvironmentKeeps ==
  ASSUME IInv, Feedback \/ FeedbackFails \/ Network \/ Sync
  PROVE  StepOK
<1>1. Becomes(d, d', source, now)
  BY FeedbackStepBecomes, NetworkBecomes, SyncBecomes, InvariantFacts
<1>2. /\ source' = source /\ work' = work /\ mid' = mid /\ Note
      /\ UNCHANGED <<wire, asked, replies, now>>
  BY DEF Feedback, FeedbackFails, Network, Sync, NoteOnly
<1> QED BY <1>1, <1>2, BecomingKeeps, InvariantFacts DEF Becomes

\* A publication, as a step of the system.
LEMMA PublishKeeps ==
  ASSUME IInv, Publish
  PROVE  StepOK
<1>1. Becomes(d, d', source', now) /\ SourcesOK(source')
  BY PublishBecomes, InvariantFacts
<1>2. work' = work /\ mid' = mid /\ Note /\ UNCHANGED <<wire, asked, replies, now>>
  BY DEF Publish, NoteOnly
<1>3. RequestsOK'
  BY <1>1, <1>2, RequestsKept, InvariantFacts DEF Becomes
<1> QED BY <1>1, <1>2, <1>3, InvariantFacts DEF StepOK, Becomes, JobsOK

\* Operators who come, go and press, as steps of the system.
LEMMA OperatorKeeps ==
  ASSUME IInv, Take \/ Leave \/ Jog
  PROVE  StepOK
<1>1. Becomes(d, d', source, now)
  BY GrantMoves, JogMoves, MovesBecome, InvariantFacts
<1>2. /\ source' = source /\ work' = work /\ mid' = mid /\ Note
      /\ UNCHANGED <<wire, asked, replies, now>>
  BY DEF Take, Leave, Jog, NoteOnly
<1> QED BY <1>1, <1>2, BecomingKeeps, InvariantFacts DEF Becomes

\* Sending and sending again, as steps of the system.
LEMMA AskingKeeps ==
  ASSUME IInv, Send \/ Resend
  PROVE  StepOK
<1>1. RequestsOK' /\ d' = d
  BY SendAsks, ResendAsks, InvariantFacts
<1>2. source' = source /\ work' = work /\ mid' = mid /\ Note /\ now' = now
  BY DEF Send, Resend, NoteOnly
<1>3. Becomes(d, d, source, now)
  BY MovesStill, MovesBecome, InvariantFacts
<1> QED BY <1>1, <1>2, <1>3, InvariantFacts DEF StepOK, Becomes, JobsOK

\* The arrival of a request, as a step of the system.
LEMMA DeliverKeeps ==
  ASSUME IInv, Deliver
  PROVE  StepOK
<1>1. Fit(d', source, now) /\ (Stays(d, d', now) \/ d.lc.mode = "Manual") /\ RequestsOK'
  BY DeliverServes, InvariantFacts
<1>2. source' = source /\ work' = work /\ mid' = mid /\ Note /\ now' = now
  BY DEF Deliver
<1> QED BY <1>1, <1>2, InvariantFacts DEF StepOK, JobsOK

\* Every step is the clock's, or one in which time stands still.
LEMMA NextKeeps ==
  ASSUME IInv, Next
  PROVE  StepOK \/ Ticks
  BY PollKeeps, PassKeeps, EnvironmentKeeps, PublishKeeps, OperatorKeeps, AskingKeeps,
     DeliverKeeps DEF Next, Environment, Browser

\* Nothing happens.
LEMMA StutterKeeps ==
  ASSUME IInv, UNCHANGED vars
  PROVE  IInv'
<1>1. /\ d' = d /\ source' = source /\ work' = work /\ wire' = wire /\ now' = now /\ mid' = mid
      /\ asked' = asked /\ pledged' = pledged /\ replies' = replies /\ astray' = astray
  BY DEF vars, hist
<1>2. RequestsOK'
  BY <1>1, RequestsKept DEF IInv
<1> QED BY <1>1, <1>2 DEF IInv

\* The systems to start from are what BootsAreReachable says.
LEMMA InitHolds ==
  ASSUME Init
  PROVE  IInv
<1>1. PICK b \in Boots : d = b.d /\ source = b.source /\ now = b.now
  BY DEF Init
<1>2. /\ now \in 0 .. MaxTime /\ SourcesOK(source)
      /\ Sound(d, source, now) /\ Guarded(d) /\ Free(d) /\ Prompt(d, now)
      /\ \A r \in d.lc.receipt : RequestOK(r.request)
  BY <1>1, BootsAreReachable
<1>3. DeviceOK(d) /\ PolicyOK(d.lc) /\ Few(d.lc.receipt)
  BY <1>2 DEF Sound, DeviceOK, PolicyOK
<1>4. RequestsOK
  <2>1. asked = {[intent |-> r.request, seen |-> Seen(d.lc)] : r \in d.lc.receipt} /\ wire = <<>>
        /\ replies = {}
    BY DEF Init
  <2>2. Few(asked) /\ \A a \in asked : RequestOK(a.intent)
    BY <1>2, <1>3, <2>1 DEF Few
  <2>3. WireOK(wire, {a.intent : a \in asked})
    BY <2>1 DEF WireOK
  <2> QED BY <2>1, <2>2, <2>3 DEF RequestsOK
<1>5. d.lc.mode = "Tracking" => pledged = {d.gate.generation}
  BY DEF Init
<1>6. AstrayOK(d, astray, now)
  <2>1. CASE ~OffRoute(d, now)
    BY <2>1 DEF Init, AstrayOK
  <2>2. CASE OffRoute(d, now)
    <3>1. astray = {now}
      BY <2>2 DEF Init
    <3>2. PassOf(d.lc).aos <= now /\ now \in Int
      BY <1>2, <2>2 DEF OffRoute
    <3>3. \A r \in d.lc.recovery : r.deadline <= now + RecoveryLimit
      BY <1>2 DEF Sound
    <3> QED BY <2>2, <3>1, <3>2, <3>3 DEF AstrayOK
  <2> QED BY <2>1, <2>2
<1>7. mid = {} /\ work = {}
  BY DEF Init
<1> QED BY <1>2, <1>4, <1>5, <1>6, <1>7 DEF IInv, Few

\* The invariant (TrackingInvariant) holds of every state.
THEOREM Invariance == Spec => []IInv
<1>1. Init => IInv
  BY InitHolds
<1>2. IInv /\ [Next]_vars => IInv'
  <2> SUFFICES ASSUME IInv, [Next]_vars PROVE IInv'
    OBVIOUS
  <2>1. CASE Next
    BY <2>1, NextKeeps, StepKeeps, TicksKeeps
  <2>2. CASE UNCHANGED vars
    BY <2>2, StutterKeeps
  <2> QED BY <2>1, <2>2
<1> QED BY <1>1, <1>2, PTL DEF Spec

-----------------------------------------------------------------------------
(* What the invariant is for.                                              *)

\* At most one, as a cardinality.
LEMMA FewCardinality ==
  ASSUME NEW S, Few(S)
  PROVE  Cardinality(S) <= 1
<1>1. CASE S = {}
  BY <1>1, FS_EmptySet
<1>2. CASE S # {}
  <2>1. PICK x : x \in S
    BY <1>2
  <2>2. S = {x}
    BY <2>1 DEF Few
  <2>3. Cardinality({x}) = 1
    BY FS_Singleton
  <2> QED BY <2>2, <2>3
<1> QED BY <1>1, <1>2

\* What the invariant says of types and of the policy's parts.
LEMMA TypeFacts ==
  ASSUME IInv
  PROVE  TypeOK
<1>1. DeviceOK(d) /\ PolicyOK(d.lc) /\ Guarded(d)
  BY DEF IInv, Sound, DeviceOK
<1>2. /\ d.lc.mode \in {"Manual", "Tracking"}
      /\ d.lc.phase \in {"Idle", "Armed", "Preparing", "Ready", "Following", "Reacquiring",
                         "Complete", "Cancelled", "Stopped"}
      /\ d.lc.run # {} => d.lc.mode = "Tracking" /\ d.lc.plan # {} /\ d.lc.status = "Frozen"
      /\ d.lc.mode = "Tracking" => (d.lc.phase = "Armed" <=> d.lc.run = {})
      /\ d.lc.recovery # {} <=> d.lc.phase = "Reacquiring"
  BY <1>1 DEF PolicyOK, InPhase
<1>3. d.lc.mode = "Tracking" => d.bound # {}
  BY <1>1 DEF Guarded
<1>4. \A size \in {Cardinality(d.lc.token), Cardinality(d.lc.selection), Cardinality(d.lc.plan),
                   Cardinality(d.lc.ticket), Cardinality(d.lc.run), Cardinality(d.lc.recovery),
                   Cardinality(d.lc.box), Cardinality(d.exec), Cardinality(work)} : size <= 1
  <2>1. Few(d.lc.token) /\ Few(d.lc.selection) /\ Few(d.lc.plan) /\ Few(d.lc.ticket)
        /\ Few(d.lc.run) /\ Few(d.lc.recovery) /\ Few(d.lc.box)
    BY <1>1 DEF PolicyOK
  <2>2. Few(d.exec) /\ Few(work)
    BY <1>1 DEF DeviceOK, ExecutionsOK, IInv
  <2>3. /\ Cardinality(d.lc.token) <= 1 /\ Cardinality(d.lc.selection) <= 1
        /\ Cardinality(d.lc.plan) <= 1 /\ Cardinality(d.lc.ticket) <= 1
        /\ Cardinality(d.lc.run) <= 1 /\ Cardinality(d.lc.recovery) <= 1
        /\ Cardinality(d.lc.box) <= 1
    BY <2>1, FewCardinality
  <2>4. Cardinality(d.exec) <= 1 /\ Cardinality(work) <= 1
    BY <2>2, FewCardinality
  <2> QED BY <2>3, <2>4
<1>5. (\A e \in d.lc.box : e.command \in Command) /\ d.out.guard \in Guard
  BY <1>1 DEF PolicyOK, DeviceOK, EnvelopeOK, OutputOK
<1>6. now \in 0 .. MaxTime /\ mid \subseteq 0 .. now
  BY DEF IInv
<1> QED BY <1>2, <1>3, <1>4, <1>5, <1>6 DEF TypeOK

\* TypeOK: at any time a run has its plan and executes it, movement by hand has
\* neither, and an episode belongs to its run's own phase (lifecycle.rs).
THEOREM TypeCorrect == Spec => []TypeOK
  BY Invariance, TypeFacts, PTL

\* OutageEndsRun: a pass armed under one network permission is never kept under
\* another (runtime.rs check_inputs, network.rs observe).
THEOREM OutagesEndRuns == Spec => []OutageEndsRun
<1>1. IInv => OutageEndsRun
  BY DEF IInv, OutageEndsRun
<1> QED BY <1>1, Invariance, PTL

\* RequestsApplyOnce: however often a request is sent, it is answered for good
\* once (lifecycle.rs request and its receipt).
THEOREM RequestsAreAppliedOnce == Spec => []RequestsApplyOnce
<1>1. ASSUME IInv PROVE RequestsApplyOnce
  <2>1. Few(replies)
    BY <1>1 DEF IInv, RequestsOK, Few
  <2> QED BY <2>1, FewCardinality DEF RequestsApplyOnce
<1> QED BY <1>1, Invariance, PTL

\* RefreshIsNeverStale: the policy never knows of something newer than what the
\* worker refreshes it from (lifecycle.rs refresh).
THEOREM RefreshesAreNeverStale == Spec => []RefreshIsNeverStale
<1>1. ASSUME IInv PROVE RefreshIsNeverStale
  <2>1. DeviceOK(d) /\ PolicyOK(d.lc) /\ Sound(d, source, now) /\ SourcesOK(source)
    BY <1>1 DEF IInv, Sound, DeviceOK
  <2> SUFFICES ASSUME NEW s \in d.lc.selection, NEW a \in d.clock, NEW b \in d.lc.revs
               PROVE  /\ source[s.original.sat].rev >= b.orbit
                      /\ a.rev >= b.clock /\ d.startRev >= b.start
    BY DEF RefreshIsNeverStale, Follows
  <2>2. s.original \in Event /\ s.original \in Originals(d.lc)
    BY <2>1 DEF PolicyOK, Selection, Originals
  <2>3. s.original.sat \in Sats
    BY <2>2 DEF Sats
  <2>4. source[s.original.sat].rev \in Nat /\ a.rev \in Nat /\ d.startRev \in Nat /\ b \in Revision
    BY <2>1, <2>3 DEF SourcesOK, DeviceOK, PolicyOK, Anchor
  <2>5. b.orbit <= source[s.original.sat].rev /\ b.clock <= a.rev /\ b.start <= d.startRev
    BY <2>1, <2>2 DEF Sound
  <2> QED BY <2>4, <2>5 DEF Revision
<1> QED BY <1>1, Invariance, PTL

\* RecoveryIsBounded: a run is back on its route within the recovery limit of
\* leaving it, or over, and ends with its pass (lifecycle.rs enter_reacquisition
\* and tick).
THEOREM RecoveriesAreBounded == Spec => []RecoveryIsBounded
<1>1. ASSUME IInv PROVE RecoveryIsBounded
  <2>1. PolicyOK(d.lc) /\ Dated(d.lc) /\ Prompt(d, now) /\ AstrayOK(d, astray, now) /\ now \in Nat
    BY <1>1 DEF IInv, Sound, DeviceOK
  <2>2. \A r \in d.lc.recovery, t \in astray : r.deadline <= t + RecoveryLimit
    BY <2>1 DEF AstrayOK
  <2>3. ASSUME d.lc.run # {}, d.applied = now
        PROVE  now < PassOf(d.lc).los /\ \A t \in astray : now < t + RecoveryLimit
    <3>1. /\ now < PassOf(d.lc).los
          /\ \A r \in d.lc.recovery : now < r.deadline
          /\ d.lc.phase = "Preparing" => now < PassOf(d.lc).aos
      BY <2>1, <2>3 DEF Prompt, Quiet
    <3>2. ASSUME NEW t \in astray PROVE now < t + RecoveryLimit
      <4>1. OffRoute(d, now) /\ t \in Int
        BY <2>1, <3>2 DEF AstrayOK
      <4>2. d.lc.phase = "Reacquiring"
        <5>1. d.lc.phase = "Preparing" => PassOf(d.lc).aos \in Int
          BY <2>1, PhaseFacts
        <5> QED BY <2>1, <3>1, <4>1, <5>1 DEF OffRoute
      <4>3. PICK r \in d.lc.recovery : TRUE
        BY <2>1, <4>2, PhaseFacts
      <4>4. r.deadline \in Nat /\ now < r.deadline /\ r.deadline <= t + RecoveryLimit
        BY <2>1, <2>2, <3>1, <3>2 DEF Dated
      <4> QED BY <2>1, <4>1, <4>4, RecoveryLimitIsPositive
    <3> QED BY <3>1, <3>2
  <2> QED BY <2>2, <2>3 DEF RecoveryIsBounded
<1> QED BY <1>1, Invariance, PTL

-----------------------------------------------------------------------------
(* The refinement of RunPromise.                                           *)

\* The end of an episode, once and for all.
LEMMA DueFacts ==
  ASSUME NEW lc, PolicyOK(lc), Dated(lc), lc.recovery # {}, NEW t \in Nat,
         \A r \in lc.recovery : r.deadline <= t + RecoveryLimit
  PROVE  \E u \in 0 .. t + RecoveryLimit : {r.deadline : r \in lc.recovery} = {u}
<1>1. PICK r \in lc.recovery : TRUE
  OBVIOUS
<1>2. lc.recovery = {r}
  BY DEF PolicyOK, Few
<1>3. r.deadline \in 0 .. t + RecoveryLimit
  BY RecoveryLimitIsPositive DEF Dated
<1> QED BY <1>2, <1>3

\* How a step looks to whoever watches the pass only.
LEMMA StepPromised ==
  ASSUME IInv, StepOK
  PROVE  [Promise!Next]_(Promise!vars)
<1> DEFINE lc == d.lc
           u == d'.lc
<1>1. /\ now \in Nat /\ now' = now
      /\ PolicyOK(lc) /\ PolicyOK(u) /\ Dated(lc) /\ Dated(u)
      /\ \A r \in u.recovery : r.deadline <= now + RecoveryLimit
  BY DEF IInv, StepOK, Fit, Sound, DeviceOK
<1>2. /\ lc.mode \in {"Manual", "Tracking"} /\ u.mode \in {"Manual", "Tracking"}
      /\ lc.mode = "Manual" => lc.run = {} /\ lc.recovery = {}
      /\ u.mode = "Manual" => u.run = {} /\ u.recovery = {}
      /\ lc.run = {} => lc.recovery = {}
      /\ u.run = {} => u.recovery = {}
      /\ u.run # {} => u.plan # {}
      /\ u.phase = "Following" => u.recovery = {}
  BY <1>1 DEF PolicyOK, InPhase
<1>3. u.recovery # {} => \E t \in 0 .. now + RecoveryLimit : {r.deadline : r \in u.recovery} = {t}
  BY <1>1, DueFacts
<1>4. CASE u.mode = "Manual"
  <2>1. CASE lc.mode = "Manual"
    BY <1>1, <1>2, <1>4, <2>1 DEF Stage, Promise!vars
  <2>2. CASE lc.mode # "Manual"
    <3>1. Promise!End
      BY <1>1, <1>2, <1>4, <2>2 DEF Stage, Promise!End
    <3> QED BY <3>1 DEF Promise!Next
  <2> QED BY <2>1, <2>2
<1>5. ASSUME u.mode = "Tracking", u.run # {}, lc.run = {} PROVE Promise!Freeze
  BY <1>1, <1>2, <1>3, <1>5 DEF Stage, Promise!Freeze, Promise!Episode
<1>6. CASE u.mode = "Tracking" /\ lc.run = {} /\ u.run # {}
  BY <1>5, <1>6 DEF Promise!Next
<1>7. CASE u.mode = "Tracking" /\ lc.run = {} /\ u.run = {}
  <2>1. CASE lc.mode = "Manual"
    <3>1. Promise!Arm
      BY <1>1, <1>2, <1>7, <2>1 DEF Stage, Promise!Arm
    <3> QED BY <3>1 DEF Promise!Next
  <2>2. CASE lc.mode = "Tracking"
    BY <1>1, <1>2, <1>7, <2>2 DEF Stage, Promise!vars
  <2> QED BY <1>2, <2>1, <2>2
<1>8. CASE u.mode = "Tracking" /\ lc.run # {}
  <2>1. lc.mode = "Tracking" /\ u.run = lc.run /\ u.plan = lc.plan
    BY <1>2, <1>8 DEF StepOK, Stays
  <2>2. CASE lc.recovery = {} /\ u.recovery = {}
    BY <1>1, <1>2, <1>8, <2>1, <2>2 DEF Stage, Promise!vars
  <2>3. CASE lc.recovery = {} /\ u.recovery # {}
    <3>1. Promise!Lose
      BY <1>1, <1>2, <1>3, <1>8, <2>1, <2>3 DEF Stage, Promise!Lose, Promise!Episode
    <3> QED BY <3>1 DEF Promise!Next
  <2>4. CASE lc.recovery # {} /\ u.recovery = lc.recovery
    BY <1>1, <1>2, <1>8, <2>1, <2>4 DEF Stage, Promise!vars
  <2>5. CASE lc.recovery # {} /\ u.recovery # lc.recovery
    <3>1. u.recovery = {} /\ \A r \in lc.recovery : now < r.deadline
      BY <1>2, <1>8, <2>1, <2>5 DEF StepOK, Stays
    <3>2. Promise!Rejoin
      BY <1>1, <1>2, <1>8, <2>1, <2>5, <3>1 DEF Stage, Promise!Rejoin
    <3> QED BY <3>2 DEF Promise!Next
  <2> QED BY <2>2, <2>3, <2>4, <2>5
<1> QED BY <1>2, <1>4, <1>6, <1>7, <1>8

\* RunsAsPromised: an armed pass runs once, on the plan that was frozen when it
\* began, with the end of every episode fixed at its start, and only arming
\* leads out of Manual mode (lifecycle.rs, the whole policy).
THEOREM TrackingRefinesRunPromise == Spec => RunsAsPromised
<1>1. ASSUME Init PROVE Promise!Init
  <2>1. PolicyOK(d.lc) /\ now \in Nat
    BY <1>1, InitHolds DEF IInv, Sound, DeviceOK
  <2>2. /\ d.lc.mode \in {"Manual", "Tracking"}
        /\ d.lc.mode = "Manual" => d.lc.run = {} /\ d.lc.recovery = {}
        /\ d.lc.run = {} => d.lc.recovery = {}
        /\ d.lc.run # {} => d.lc.plan # {}
    BY <2>1 DEF PolicyOK, InPhase
  <2> QED BY <2>1, <2>2 DEF Promise!Init, Stage
<1>2. ASSUME IInv, [Next]_vars PROVE [Promise!Next]_(Promise!vars)
  <2>1. CASE StepOK
    BY <1>2, <2>1, StepPromised
  <2>2. CASE Ticks
    <3>1. d' = d /\ now' = now + 1 /\ now \in Nat
      BY <1>2, <2>2 DEF Ticks, IInv
    <3>2. Promise!Pass
      BY <3>1 DEF Promise!Pass, Stage
    <3> QED BY <3>2 DEF Promise!Next
  <2>3. CASE UNCHANGED vars
    BY <2>3 DEF vars, Stage, Promise!vars
  <2> QED BY <1>2, <2>1, <2>2, <2>3, NextKeeps
<1> QED BY <1>1, <1>2, Invariance, PTL DEF Spec, RunsAsPromised, Promise!Spec

-----------------------------------------------------------------------------
(* What an operator sees, and the revision.                                *)

Legible(lc) == Has(lc, PolicyFields) /\ lc.revision \in Nat

SeenFields == {"selection", "ticket", "plan", "status", "mode"}
Alike(lc, u) == \A f \in SeenFields : u[f] = lc[f]

\* Whoever knows the revision can tell whether what is seen has changed.
Tells(lc, u) ==
  Legible(u) /\ (lc.revision < u.revision \/ (u.revision = lc.revision /\ Alike(lc, u)))

\* What is not told is as it was.
LEMMA TellsTwice ==
  ASSUME NEW lc, Legible(lc), NEW u, Tells(lc, u), NEW v, Tells(u, v)
  PROVE  Tells(lc, v)
  BY DEF Tells, Legible, Alike

\* No change.
LEMMA TellsStill ==
  ASSUME NEW lc, Legible(lc)
  PROVE  Tells(lc, lc)
  BY DEF Tells, Alike

\* A new revision.
LEMMA BumpedTells ==
  ASSUME NEW lc, Legible(lc)
  PROVE  LET u == Bumped(lc) IN Legible(u) /\ u.revision = lc.revision + 1
<1> DEFINE n == lc.revision + 1
           u == [lc EXCEPT !.revision = n]
<1>1. n \in Nat
  BY DEF Legible
<1> HIDE DEF n
<1>2. Has(u, PolicyFields) /\ u.revision = n
  BY DEF Legible, Has, PolicyFields
<1>3. Bumped(lc) = u
  BY DEF Bumped, n
<1> HIDE DEF u
<1> QED BY <1>1, <1>2, <1>3 DEF Legible, n

\* A new serial alone is not a new revision.
LEMMA NumberedTells ==
  ASSUME NEW lc, Legible(lc)
  PROVE  LET u == Numbered(lc) IN Legible(u) /\ u.revision = lc.revision
<1> DEFINE n == lc.serial + 1
           u == [lc EXCEPT !.serial = n]
<1> HIDE DEF n
<1>2. Has(u, PolicyFields) /\ u.revision = lc.revision
  BY DEF Legible, Has, PolicyFields
<1>3. Numbered(lc) = u
  BY DEF Numbered, n
<1> HIDE DEF u
<1> QED BY <1>2, <1>3 DEF Legible

\* The two at once.
LEMMA RenumberedTells ==
  ASSUME NEW lc, Legible(lc)
  PROVE  LET u == Bumped(Numbered(lc)) IN Legible(u) /\ u.revision = lc.revision + 1
<1> DEFINE v == Numbered(lc)
<1>1. Legible(v) /\ v.revision = lc.revision
  BY NumberedTells
<1> HIDE DEF v
<1> QED BY <1>1, BumpedTells DEF v

\* What keeps the new revision is told.
LEMMA NewerTells ==
  ASSUME NEW lc, Legible(lc), NEW u, Legible(u), u.revision = lc.revision + 1
  PROVE  Tells(lc, u)
  BY DEF Tells, Legible

\* What changes nothing that is seen need not be told.
LEMMA UnseenTells ==
  ASSUME NEW lc, Legible(lc), NEW u, Has(u, PolicyFields),
         \A f \in SeenFields \cup {"revision"} : u[f] = lc[f]
  PROVE  Tells(lc, u)
  BY DEF Tells, Legible, Alike

\* The command box is not seen.
LEMMA BoxTells ==
  ASSUME NEW lc, Legible(lc), NEW box
  PROVE  LET u == [lc EXCEPT !.box = box]
         IN  Legible(u) /\ Tells(lc, u) /\ u.revision = lc.revision
<1> DEFINE u == [lc EXCEPT !.box = box]
<1>1. Has(u, PolicyFields) /\ \A f \in SeenFields \cup {"revision"} : u[f] = lc[f]
  BY DEF Legible, Has, PolicyFields, SeenFields
<1> HIDE DEF u
<1> QED BY <1>1, UnseenTells DEF u, Tells

\* An inhibition is a command.
LEMMA InhibitedTells ==
  ASSUME NEW lc, Legible(lc)
  PROVE  LET u == Inhibited(lc)
         IN  Legible(u) /\ Tells(lc, u) /\ u.revision = lc.revision
  BY BoxTells DEF Inhibited

\* A stop by itself keeps the revision, which its caller moves.
LEMMA StoppedTells ==
  ASSUME NEW lc, Legible(lc), NEW reason
  PROVE  LET u == Stopped(lc, reason) IN Legible(u) /\ u.revision = lc.revision
<1> DEFINE ended == {[event |-> {s.id : s \in lc.selection}, run |-> lc.run, reason |-> reason]}
           phase == TerminalPhase(reason)
           v == [lc EXCEPT
                  !.ended = ended, !.mode = "Manual", !.phase = phase,
                  !.run = {}, !.recovery = {}, !.handled = FALSE, !.armedBy = {},
                  !.ticket = {}, !.plan = {}, !.status = "Unplanned", !.timing = "Scheduled"]
<1>1. Stopped(lc, reason) = Inhibited(v)
  BY DEF Stopped
<1> HIDE DEF ended, phase
<1>2. Has(v, PolicyFields) /\ v.revision = lc.revision
  BY Zenon DEF Legible, Has, PolicyFields
<1> HIDE DEF v
<1>3. Legible(v)
  BY <1>2 DEF Legible
<1> QED BY <1>1, <1>2, <1>3, InhibitedTells

\* An interruption is told (lifecycle.rs interrupt).
LEMMA InterruptedTells ==
  ASSUME NEW lc, Legible(lc), NEW reason
  PROVE  LET u == Interrupted(lc, reason)
         IN  Legible(u) /\ Tells(lc, u) /\ u.revision = lc.revision + 1
<1> DEFINE v == Bumped(lc)
<1>1. Legible(v) /\ v.revision = lc.revision + 1
  BY BumpedTells
<1>2. Interrupted(lc, reason) = Stopped(v, reason)
  BY DEF Interrupted
<1> HIDE DEF v
<1> QED BY <1>1, <1>2, StoppedTells, NewerTells

\* A dropped preview is told (lifecycle.rs invalidate_inputs).
LEMMA InvalidatedTells ==
  ASSUME NEW lc, Legible(lc)
  PROVE  Tells(lc, Invalidated(lc))
<1> DEFINE v == Bumped(lc)
           u == [v EXCEPT !.plan = {}, !.ticket = {}, !.status = "Inputs"]
<1>1. Legible(v) /\ v.revision = lc.revision + 1
  BY BumpedTells
<1>2. Invalidated(lc) = u
  BY DEF Invalidated
<1> HIDE DEF v
<1>3. Has(u, PolicyFields) /\ u.revision = v.revision
  BY <1>1 DEF Legible, Has, PolicyFields
<1> HIDE DEF u
<1>4. Legible(u) /\ u.revision = lc.revision + 1
  BY <1>1, <1>3 DEF Legible
<1> QED BY <1>2, <1>4, NewerTells

\* A new planning job is told (lifecycle.rs start_job).
LEMMA JobStartedTells ==
  ASSUME NEW lc, Legible(lc)
  PROVE  LET u == JobStarted(lc) IN Legible(u) /\ u.revision = lc.revision + 1
<1> DEFINE next == Bumped(Numbered(lc))
           event == CHOOSE e \in UNION {s.current : s \in lc.selection} : TRUE
           revs == CHOOSE r \in lc.revs : TRUE
           ticket == {[serial |-> next.serial, pass |-> event, revs |-> revs,
                       timing |-> lc.timing]}
           u == [next EXCEPT !.ticket = ticket, !.plan = {}, !.status = "Planning"]
<1>1. Legible(next) /\ next.revision = lc.revision + 1
  BY RenumberedTells
<1>2. JobStarted(lc) = u
  BY DEF JobStarted
<1> HIDE DEF ticket, next
<1>3. Has(u, PolicyFields) /\ u.revision = next.revision
  BY <1>1 DEF Legible, Has, PolicyFields
<1> HIDE DEF u
<1> QED BY <1>1, <1>2, <1>3 DEF Legible

\* A selection is told (lifecycle.rs apply).
LEMMA SelectedTells ==
  ASSUME NEW lc, Legible(lc), NEW event
  PROVE  Tells(lc, Selected(lc, event))
<1> DEFINE next == Bumped(Numbered(lc))
           stopped == Stopped(next, "Replaced")
           ended == IF lc.mode = "Tracking" THEN stopped.ended ELSE lc.ended
           chosen == {[id |-> next.serial, original |-> event, current |-> {event}]}
           revs == {[r EXCEPT !.orbit = 0] : r \in stopped.revs}
           u == [stopped EXCEPT !.ended = ended, !.selection = chosen, !.revs = revs]
<1>1. Legible(next) /\ next.revision = lc.revision + 1
  BY RenumberedTells
<1>2. Selected(lc, event) = u
  BY DEF Selected
<1> HIDE DEF next
<1>3. Legible(stopped) /\ stopped.revision = lc.revision + 1
  BY <1>1, StoppedTells
<1> HIDE DEF ended, chosen, revs, stopped
<1>4. Has(u, PolicyFields) /\ u.revision = stopped.revision
  BY <1>3 DEF Legible, Has, PolicyFields
<1> HIDE DEF u
<1>5. Legible(u) /\ u.revision = lc.revision + 1
  BY <1>3, <1>4 DEF Legible
<1> QED BY <1>2, <1>5, NewerTells

\* An arming is told (lifecycle.rs apply).
LEMMA ArmedTells ==
  ASSUME NEW lc, Legible(lc), NEW t
  PROVE  Tells(lc, Armed(lc, t).lc)
<1> DEFINE v == Bumped(lc)
           by == {PlanDeadline(Theplan(lc))}
           w == [v EXCEPT !.mode = "Tracking", !.phase = "Armed", !.armedBy = by]
           able == ~(lc.mode # "Manual" \/ ~Armable(lc, t))
<1>1. Legible(v) /\ v.revision = lc.revision + 1
  BY BumpedTells
<1>2. Armed(lc, t).lc = IF ~able THEN lc ELSE Inhibited(w)
  BY DEF Armed, Refused, Done
<1> HIDE DEF v, by, able
<1>3. Has(w, PolicyFields) /\ w.revision = v.revision
  BY <1>1 DEF Legible, Has, PolicyFields
<1> HIDE DEF w
<1>4. Legible(w) /\ w.revision = lc.revision + 1
  BY <1>1, <1>3 DEF Legible
<1>5. Tells(lc, Inhibited(w))
  BY <1>4, InhibitedTells, NewerTells
<1> QED BY <1>2, <1>5, TellsStill

\* A preparation at once is told (lifecycle.rs apply).
LEMMA PreparedNowTells ==
  ASSUME NEW lc, Legible(lc)
  PROVE  Tells(lc, PreparedNow(lc).lc)
<1> DEFINE v == [lc EXCEPT !.timing = "Immediate"]
<1>1. Has(v, PolicyFields) /\ v.revision = lc.revision
  BY DEF Legible, Has, PolicyFields
<1>2. PreparedNow(lc).lc = lc \/ PreparedNow(lc).lc = JobStarted(v)
  BY DEF PreparedNow, Refused, Done
<1> HIDE DEF v
<1>3. Legible(v)
  BY <1>1 DEF Legible
<1>4. Tells(lc, JobStarted(v))
  BY <1>1, <1>3, JobStartedTells, NewerTells
<1> QED BY <1>2, <1>4, TellsStill

\* What is applied is told, and applied towards a pass only at the revision
\* that its request expects (lifecycle.rs apply).
LEMMA AppliedTells ==
  ASSUME NEW lc, Legible(lc), NEW q, RequestOK(q), NEW t
  PROVE  LET a == Applied(lc, q, t)
         IN  /\ Tells(lc, a.lc)
             /\ (a.error = "none" /\ q.action \notin {"Cancel", "Manual"})
                  => q.expected = lc.revision
<1> DEFINE a == Applied(lc, q, t)
           stale == q.action \notin {"Cancel", "Manual"} /\ q.expected # lc.revision
<1>1. CASE stale
  <2>1. a = Refused(lc, "StateRevision")
    BY <1>1 DEF Applied
  <2> QED BY <2>1, TellsStill DEF Refused
<1>2. CASE ~stale
  <2>1. q.action \in {"Select", "Arm", "PrepareNow", "Cancel", "Manual"}
    BY DEF RequestOK
  <2>2. \/ a.lc = Selected(lc, q.event) \/ a = Armed(lc, t) \/ a = PreparedNow(lc)
        \/ a.lc = Interrupted(lc, "Cancelled") \/ a.lc = Interrupted(lc, "ManualMode")
    BY <1>2, <2>1 DEF Applied, Done
  <2> HIDE DEF a
  <2>3. Tells(lc, a.lc)
    BY <2>2, SelectedTells, ArmedTells, PreparedNowTells, InterruptedTells
  <2> QED BY <1>2, <2>3 DEF a
<1> QED BY <1>1, <1>2

\* A request that leaves a new answer was made from the policy it met, unless it
\* only ends what there is (lifecycle.rs request and apply).
LEMMA RequestedTells ==
  ASSUME NEW lc, Legible(lc), NEW q, RequestOK(q), NEW t
  PROVE  LET a == Requested(lc, q, t)
         IN  /\ Tells(lc, a.lc)
             /\ (/\ \A r \in lc.receipt : r.request # q
                 /\ a.result.error = "none" /\ q.action \notin {"Cancel", "Manual"})
                  => q.expected = lc.revision
<1> DEFINE done == Applied(lc, q, t)
           result == Answer(done.error, IF done.error = "none" THEN done.lc.revision ELSE 0)
           receipt == {[request |-> q, result |-> result]}
           u == [done.lc EXCEPT !.receipt = receipt]
           problem == RequestProblem(lc, q)
           refused == Answer(problem, 0)
           a == Requested(lc, q, t)
<1>1. Tells(lc, done.lc) /\ ((done.error = "none" /\ q.action \notin {"Cancel", "Manual"})
                               => q.expected = lc.revision)
  BY AppliedTells
<1>2. result.error = done.error /\ refused.error = problem
  BY DEF Answer
<1>3. \/ a = [lc |-> lc, result |-> refused] /\ problem # "none"
      \/ a.lc = lc /\ \E r \in lc.receipt : r.request = q
      \/ a = [lc |-> u, result |-> result]
  <2>1. CASE problem # "none"
    BY <2>1 DEF Requested
  <2>2. CASE problem = "none" /\ Repeated(lc, q) # {}
    <3>1. a.lc = lc
      BY <2>2 DEF Requested
    <3>2. \E r \in lc.receipt : r.request = q
      BY <2>2 DEF Repeated, Receipts
    <3> QED BY <3>1, <3>2
  <2>3. CASE problem = "none" /\ Repeated(lc, q) = {}
    <3>1. a = Receipted(q, done)
      BY <2>3 DEF Requested
    <3> QED BY <3>1 DEF Receipted
  <2> QED BY <2>1, <2>2, <2>3
<1> HIDE DEF done, result, receipt, refused, problem
<1>4. Has(u, PolicyFields) /\ \A f \in SeenFields \cup {"revision"} : u[f] = done.lc[f]
  BY <1>1 DEF Tells, Legible, Has, PolicyFields, SeenFields
<1> HIDE DEF u, a
<1>5. Tells(lc, u)
  BY <1>1, <1>4, UnseenTells, TellsTwice DEF Tells
<1>6. CASE a = [lc |-> lc, result |-> refused] /\ problem # "none"
  BY <1>2, <1>6, TellsStill DEF a
<1>7. CASE a.lc = lc /\ \E r \in lc.receipt : r.request = q
  BY <1>7, TellsStill DEF a
<1>8. CASE a = [lc |-> u, result |-> result]
  BY <1>1, <1>2, <1>5, <1>8 DEF a
<1> QED BY <1>3, <1>6, <1>7, <1>8

\* An operator's grant is not seen.
LEMMA OwnedTells ==
  ASSUME NEW lc, Legible(lc), NEW token
  PROVE  LET u == [lc EXCEPT !.token = token]
         IN  Tells(lc, u) /\ Tells(lc, Inhibited(u))
<1> DEFINE u == [lc EXCEPT !.token = token]
<1>1. Has(u, PolicyFields) /\ \A f \in SeenFields \cup {"revision"} : u[f] = lc[f]
  BY DEF Legible, Has, PolicyFields, SeenFields
<1> HIDE DEF u
<1>2. Tells(lc, u) /\ Legible(u)
  BY <1>1, UnseenTells DEF Tells
<1>3. Tells(u, Inhibited(u))
  BY <1>2, InhibitedTells
<1> QED BY <1>2, <1>3, TellsTwice DEF u

\* Operators come and go unseen (lifecycle.rs claim and release).
LEMMA GrantTells ==
  ASSUME NEW lc, Legible(lc)
  PROVE  Tells(lc, Unowned(lc)) /\ \A token : Tells(lc, Claimed(lc, token))
  BY OwnedTells DEF Unowned, Claimed

\* A selected event found again is told (lifecycle.rs refresh).
LEMMA AssociatedTells ==
  ASSUME NEW lc, Legible(lc), NEW events
  PROVE  LET u == Associate(lc, events) IN Legible(u) /\ u.revision = lc.revision
<1> DEFINE selection == {[s EXCEPT !.current = events] : s \in lc.selection}
           u == [lc EXCEPT !.selection = selection]
<1>1. Associate(lc, events) = u
  BY DEF Associate
<1> HIDE DEF selection
<1>2. Has(u, PolicyFields) /\ u.revision = lc.revision
  BY DEF Legible, Has, PolicyFields
<1> HIDE DEF u
<1> QED BY <1>1, <1>2 DEF Legible

\* So is one that has moved or gone.
LEMMA ReconciledTells ==
  ASSUME NEW lc, Legible(lc), NEW matching, NEW changed
  PROVE  Tells(lc, Reconciled(lc, matching, changed))
<1> DEFINE blocked == EventProblem(matching)
           v == Associate(lc, matching)
           w == Associate(Bumped(lc), {})
           x == [w EXCEPT !.ticket = {}, !.plan = {}, !.status = blocked]
<1>1. \/ Reconciled(lc, matching, changed) = lc
      \/ Reconciled(lc, matching, changed) = JobStarted(v)
      \/ Reconciled(lc, matching, changed) = x
  BY DEF Reconciled
<1>2. Tells(lc, JobStarted(v))
  <2>1. Legible(v) /\ v.revision = lc.revision
    BY AssociatedTells
  <2> HIDE DEF v
  <2> QED BY <2>1, JobStartedTells, NewerTells
<1>3. Tells(lc, x)
  <2> DEFINE b == Bumped(lc)
  <2>1. Legible(b) /\ b.revision = lc.revision + 1
    BY BumpedTells
  <2> HIDE DEF b
  <2>2. Legible(w) /\ w.revision = lc.revision + 1
    BY <2>1, AssociatedTells DEF b
  <2> HIDE DEF w, blocked
  <2>3. Has(x, PolicyFields) /\ x.revision = w.revision
    BY <2>2 DEF Legible, Has, PolicyFields
  <2> HIDE DEF x
  <2>4. Legible(x) /\ x.revision = lc.revision + 1
    BY <2>2, <2>3 DEF Legible
  <2> QED BY <2>4, NewerTells
<1> HIDE DEF v, x
<1> QED BY <1>1, <1>2, <1>3, TellsStill

\* A refresh is told (lifecycle.rs refresh).
LEMMA RefreshedTells ==
  ASSUME NEW lc, Legible(lc), NEW forecast, NEW revs
  PROVE  Tells(lc, Refreshed(lc, forecast, revs))
<1> DEFINE noted == [lc EXCEPT !.revs = {revs}]
           matching == UNION {Matching(s.original, forecast) : s \in lc.selection}
           changed == lc.revs # {revs}
<1>1. \/ Refreshed(lc, forecast, revs) = lc \/ Refreshed(lc, forecast, revs) = noted
      \/ Refreshed(lc, forecast, revs) = Reconciled(noted, matching, changed)
  BY DEF Refreshed
<1>2. Has(noted, PolicyFields) /\ \A f \in SeenFields \cup {"revision"} : noted[f] = lc[f]
  BY DEF Legible, Has, PolicyFields, SeenFields
<1> HIDE DEF noted, matching, changed
<1>3. Tells(lc, noted) /\ Legible(noted)
  BY <1>2, UnseenTells DEF Tells
<1>4. Tells(lc, Reconciled(noted, matching, changed))
  BY <1>3, ReconciledTells, TellsTwice
<1> QED BY <1>1, <1>3, <1>4, TellsStill

\* A plan is told, whether it is found, accepted or neither (lifecycle.rs
\* publish_plan).
LEMMA PlannedTells ==
  ASSUME NEW lc, Legible(lc), NEW found, NEW t
  PROVE  Tells(lc, Planned(lc, found, t))
<1> DEFINE bounded == {[p EXCEPT !.freezeBefore = Earlier(@, PlanDeadline(p))] : p \in found}
           problem == PlanProblem(bounded, t)
           p == CHOOSE p \in bounded : TRUE
           v == Bumped(lc)
           by == IF lc.phase = "Armed" THEN {PlanDeadline(p)} ELSE v.armedBy
           status == IF p.gap = {} THEN "Supported" ELSE "SupportedPartial"
           x == [v EXCEPT !.status = problem]
           y == [v EXCEPT !.plan = bounded, !.armedBy = by, !.status = status]
<1>1. Planned(lc, found, t) = IF problem # "none" THEN x ELSE y
  BY DEF Planned
<1>2. Legible(v) /\ v.revision = lc.revision + 1
  BY BumpedTells
<1> HIDE DEF bounded, problem, p, v, by, status
<1>3. Has(x, PolicyFields) /\ x.revision = v.revision
  BY <1>2 DEF Legible, Has, PolicyFields
<1>4. Has(y, PolicyFields) /\ y.revision = v.revision
  BY <1>2 DEF Legible, Has, PolicyFields
<1> HIDE DEF x, y
<1>5. Legible(x) /\ Legible(y) /\ x.revision = lc.revision + 1 /\ y.revision = lc.revision + 1
  BY <1>2, <1>3, <1>4 DEF Legible
<1> QED BY <1>1, <1>5, NewerTells

\* An episode's begin is told (lifecycle.rs enter_reacquisition).
LEMMA EnteredTells ==
  ASSUME NEW lc, Legible(lc), NEW cause, NEW due, NEW t
  PROVE  LET u == Entered(lc, cause, due, t)
         IN  Legible(u) /\ Tells(lc, u) /\ u.revision = lc.revision + 1
<1> DEFINE next == Bumped(Numbered(lc))
           recovery == {[serial |-> next.serial, started |-> due, cause |-> cause,
                         deadline |-> Earlier(due + RecoveryLimit, PassOf(lc).los)]}
           v == [next EXCEPT !.recovery = recovery, !.phase = "Reacquiring"]
<1>1. Entered(lc, cause, due, t) = Inhibited(v)
  BY DEF Entered
<1>2. Legible(next) /\ next.revision = lc.revision + 1
  BY RenumberedTells
<1> HIDE DEF recovery, next
<1>3. Has(v, PolicyFields) /\ v.revision = next.revision
  BY <1>2 DEF Legible, Has, PolicyFields
<1> HIDE DEF v
<1>4. Legible(v) /\ v.revision = lc.revision + 1
  BY <1>2, <1>3 DEF Legible
<1> QED BY <1>1, <1>4, InhibitedTells, NewerTells

\* So is a preparation that its AOS overtakes.
LEMMA OvertakenTells ==
  ASSUME NEW lc, Legible(lc), NEW t
  PROVE  Tells(lc, Overtaken(lc, t))
  BY EnteredTells, TellsStill DEF Overtaken

\* So is a planned gap.
LEMMA GapEnteredTells ==
  ASSUME NEW lc, Legible(lc), NEW t
  PROVE  Tells(lc, GapEntered(lc, t))
<1> DEFINE gaps == {g \in Theplan(lc).gap : ~lc.handled /\ t >= g.recoveryAt}
           noted == [lc EXCEPT !.handled = TRUE]
           due == (CHOOSE g \in gaps : TRUE).recoveryAt
<1>1. \/ GapEntered(lc, t) = lc \/ GapEntered(lc, t) = noted
      \/ GapEntered(lc, t) = Entered(noted, "PlannedGap", due, t)
  BY DEF GapEntered
<1>2. Has(noted, PolicyFields) /\ \A f \in SeenFields \cup {"revision"} : noted[f] = lc[f]
  BY DEF Legible, Has, PolicyFields, SeenFields
<1> HIDE DEF noted, due, gaps
<1>3. Tells(lc, noted) /\ Legible(noted)
  BY <1>2, UnseenTells DEF Tells
<1>4. Tells(lc, Entered(noted, "PlannedGap", due, t))
  BY <1>3, EnteredTells, TellsTwice
<1> QED BY <1>1, <1>3, <1>4, TellsStill

\* A bump and a phase, or a plan given up.
LEMMA PhasedTells ==
  ASSUME NEW lc, Legible(lc), NEW phase
  PROVE  Tells(lc, [Bumped(lc) EXCEPT !.phase = phase])
<1> DEFINE v == Bumped(lc)
           u == [v EXCEPT !.phase = phase]
<1>1. Legible(v) /\ v.revision = lc.revision + 1
  BY BumpedTells
<1> HIDE DEF v
<1>2. Has(u, PolicyFields) /\ u.revision = v.revision
  BY <1>1 DEF Legible, Has, PolicyFields
<1> HIDE DEF u
<1>3. Legible(u) /\ u.revision = lc.revision + 1
  BY <1>1, <1>2 DEF Legible
<1> QED BY <1>3, NewerTells DEF u, v

\* A plan that can no longer be armed or executed is dropped, and told.
LEMMA DroppedTells ==
  ASSUME NEW lc, Legible(lc), NEW status
  PROVE  Tells(lc, [Bumped(lc) EXCEPT !.plan = {}, !.status = status])
<1> DEFINE v == Bumped(lc)
           u == [v EXCEPT !.plan = {}, !.status = status]
<1>1. Legible(v) /\ v.revision = lc.revision + 1
  BY BumpedTells
<1> HIDE DEF v
<1>2. Has(u, PolicyFields) /\ u.revision = v.revision
  BY <1>1 DEF Legible, Has, PolicyFields
<1> HIDE DEF u
<1>3. Legible(u) /\ u.revision = lc.revision + 1
  BY <1>1, <1>2 DEF Legible
<1> QED BY <1>3, NewerTells DEF u, v

\* The end of an episode or of a pass is told (lifecycle.rs tick).
LEMMA ConcludedTells ==
  ASSUME NEW lc, Legible(lc), NEW t
  PROVE  Tells(lc, Concluded(lc, t))
<1>1. \/ Concluded(lc, t) = lc \/ \E reason : Concluded(lc, t) = Interrupted(lc, reason)
      \/ Concluded(lc, t) = [Bumped(lc) EXCEPT !.phase = "Following"]
  <2> DEFINE reason1 == IF \E r \in {r \in lc.recovery : t >= r.deadline} :
                             r.deadline = PassOf(lc).los
                          THEN "ReacquisitionLossOfSignal" ELSE "ReacquisitionTimeout"
             reason2 == IF lc.phase = "Following" THEN "LossOfSignal" ELSE "LatePreparation"
  <2>1. \/ Concluded(lc, t) = lc \/ Concluded(lc, t) = Interrupted(lc, reason1)
        \/ Concluded(lc, t) = Interrupted(lc, reason2)
        \/ Concluded(lc, t) = [Bumped(lc) EXCEPT !.phase = "Following"]
    BY DEF Concluded
  <2> HIDE DEF reason1, reason2
  <2> QED BY <2>1
<1> QED BY <1>1, InterruptedTells, PhasedTells, TellsStill

\* A freeze is told (lifecycle.rs tick).
LEMMA FrozenTells ==
  ASSUME NEW lc, Legible(lc), NEW t
  PROVE  Tells(lc, Frozen(lc, t))
<1> DEFINE next == Bumped(Numbered(lc))
           run == [next EXCEPT !.run = {next.serial}, !.phase = "Preparing", !.status = "Frozen"]
           late == LateGap(Theplan(lc))
           handled == [run EXCEPT !.handled = TRUE]
           due == (CHOOSE g \in late : TRUE).recoveryAt
<1>1. Frozen(lc, t) = run \/ Frozen(lc, t) = Entered(handled, "LateAcquisition", due, t)
  BY DEF Frozen
<1>2. Legible(next) /\ next.revision = lc.revision + 1
  BY RenumberedTells
<1> HIDE DEF next, late, due
<1>3. Has(run, PolicyFields) /\ run.revision = next.revision
  BY <1>2 DEF Legible, Has, PolicyFields
<1> HIDE DEF run
<1>4. Legible(run) /\ Tells(lc, run)
  BY <1>2, <1>3, NewerTells DEF Legible
<1>5. Has(handled, PolicyFields) /\ \A f \in SeenFields \cup {"revision"} : handled[f] = run[f]
  BY <1>3 DEF Has, PolicyFields, SeenFields
<1> HIDE DEF handled
<1>6. Tells(run, handled) /\ Legible(handled)
  BY <1>4, <1>5, UnseenTells DEF Tells
<1>7. Tells(lc, handled)
  BY <1>4, <1>6, TellsTwice
<1>8. Tells(lc, Entered(handled, "LateAcquisition", due, t))
  BY <1>6, <1>7, EnteredTells, TellsTwice
<1> QED BY <1>1, <1>4, <1>8

\* Whatever ends an armed pass's or a preview's wait is told.
LEMMA WaitingTells ==
  ASSUME NEW lc, Legible(lc), NEW t
  PROVE  Tells(lc, Waiting(lc, t))
<1>1. \/ Waiting(lc, t) = lc \/ Waiting(lc, t) = Frozen(lc, t)
      \/ \E status : Waiting(lc, t) = [Bumped(lc) EXCEPT !.plan = {}, !.status = status]
  BY Zenon DEF Waiting
<1> QED BY <1>1, FrozenTells, DroppedTells, TellsStill, Zenon

\* Whatever time does to a policy is told (lifecycle.rs tick).
LEMMA TickedTells ==
  ASSUME NEW lc, Legible(lc), NEW t
  PROVE  Tells(lc, Ticked(lc, t)) /\ Legible(Ticked(lc, t))
<1> DEFINE v == Overtaken(lc, t)
           w == GapEntered(v, t)
<1>1. \/ Ticked(lc, t) = lc \/ Ticked(lc, t) = Interrupted(lc, "LatePreparation")
      \/ Ticked(lc, t) = Concluded(w, t) \/ Ticked(lc, t) = Waiting(lc, t)
  BY DEF Ticked
<1>2. Tells(lc, v) /\ Legible(v)
  BY OvertakenTells DEF Tells
<1> HIDE DEF v
<1>3. Tells(lc, w) /\ Legible(w)
  BY <1>2, GapEnteredTells, TellsTwice DEF Tells
<1> HIDE DEF w
<1>4. Tells(lc, Concluded(w, t))
  BY <1>3, ConcludedTells, TellsTwice
<1>5. Tells(lc, Ticked(lc, t))
  BY <1>1, <1>4, InterruptedTells, WaitingTells, TellsStill
<1> QED BY <1>5 DEF Tells

\* Readiness is told (lifecycle.rs preparation_ready).
LEMMA MadeReadyTells ==
  ASSUME NEW lc, Legible(lc), NEW run
  PROVE  Tells(lc, MadeReady(lc, run))
  BY PhasedTells, TellsStill DEF MadeReady

\* A deviation is told (lifecycle.rs begin_reacquisition).
LEMMA BegunTells ==
  ASSUME NEW lc, Legible(lc), NEW run, NEW t
  PROVE  Tells(lc, Begun(lc, run, t))
  BY EnteredTells, TellsStill DEF Begun

\* A rejoined route is told (lifecycle.rs finish_reacquisition).
LEMMA RejoinedTells ==
  ASSUME NEW lc, Legible(lc), NEW recovery
  PROVE  Tells(lc, Rejoined(lc, recovery))
<1> DEFINE v == Bumped(lc)
           u == [v EXCEPT !.phase = "Following", !.recovery = {}]
<1>1. Legible(v) /\ v.revision = lc.revision + 1
  BY BumpedTells
<1>2. Rejoined(lc, recovery) = lc \/ Rejoined(lc, recovery) = Inhibited(u)
  BY DEF Rejoined
<1> HIDE DEF v
<1>3. Has(u, PolicyFields) /\ u.revision = v.revision
  BY <1>1 DEF Legible, Has, PolicyFields
<1> HIDE DEF u
<1>4. Legible(u) /\ u.revision = lc.revision + 1
  BY <1>1, <1>3 DEF Legible
<1> QED BY <1>2, <1>4, InhibitedTells, NewerTells, TellsStill

\* A run's commands are not seen (lifecycle.rs tracking_command).
LEMMA CommandedTells ==
  ASSUME NEW lc, Legible(lc), NEW of, NEW e, NEW t
  PROVE  Tells(lc, RecoveryCommanded(lc, of, e, t)) /\ Tells(lc, TrackingCommanded(lc, of, e, t))
<1> DEFINE box == Submitted(lc.box, e)
           u == [lc EXCEPT !.box = box]
<1>1. /\ RecoveryCommanded(lc, of, e, t) \in {lc, u}
      /\ TrackingCommanded(lc, of, e, t) \in {lc, u}
  BY DEF RecoveryCommanded, TrackingCommanded
<1> HIDE DEF box
<1>2. Tells(lc, u)
  BY BoxTells
<1> QED BY <1>1, <1>2, TellsStill

\* A jog that makes a plan out of date is told (lifecycle.rs manual_command).
LEMMA ManuallyCommandedTells ==
  ASSUME NEW lc, Legible(lc), NEW token, NEW e, NEW t
  PROVE  Tells(lc, ManuallyCommanded(lc, token, e, t))
<1> DEFINE b == Bumped(lc)
           u == [b EXCEPT !.plan = {}, !.ticket = {}, !.status = "Unplanned"]
           v == Outdated(lc, e.command)
           box == Submitted(v.box, e)
           w == [v EXCEPT !.box = box]
<1>1. v = lc \/ v = u
  BY DEF Outdated
<1>2. ManuallyCommanded(lc, token, e, t) \in {lc, w}
  BY DEF ManuallyCommanded
<1>3. Legible(b) /\ b.revision = lc.revision + 1
  BY BumpedTells
<1> HIDE DEF b, v, box
<1>4. Has(u, PolicyFields) /\ u.revision = b.revision
  BY <1>3 DEF Legible, Has, PolicyFields
<1> HIDE DEF u
<1>5. Legible(u) /\ u.revision = lc.revision + 1
  BY <1>3, <1>4 DEF Legible
<1>6. Tells(lc, v) /\ Legible(v)
  BY <1>1, <1>5, NewerTells, TellsStill
<1>7. Tells(v, w)
  BY <1>6, BoxTells
<1> HIDE DEF w
<1> QED BY <1>2, <1>6, <1>7, TellsStill, TellsTwice

-----------------------------------------------------------------------------
(* The device of an operator's view.                                       *)

Clear(x) == Has(x, DeviceFields) /\ Legible(x.lc)
Shows(x, y) == Has(y, DeviceFields) /\ Tells(x.lc, y.lc)

\* No change.
LEMMA ShowsStill ==
  ASSUME NEW x, Clear(x)
  PROVE  Shows(x, x)
  BY TellsStill DEF Clear, Shows

\* What is shown can be shown again.
LEMMA ShownIsClear ==
  ASSUME NEW x, NEW y, Shows(x, y)
  PROVE  Clear(y)
  BY DEF Clear, Shows, Tells

\* Two changes are one.
LEMMA ShowsTwice ==
  ASSUME NEW x, Clear(x), NEW y, Shows(x, y), NEW z, Shows(y, z)
  PROVE  Shows(x, z)
  BY TellsTwice DEF Clear, Shows

\* A change of the policy.
LEMMA PolicyShows ==
  ASSUME NEW x, Clear(x), NEW u, Tells(x.lc, u)
  PROVE  /\ Shows(x, [x EXCEPT !.lc = u])
         /\ \A exec : Shows(x, [x EXCEPT !.exec = exec, !.lc = u])
<1>1. ASSUME NEW y, Has(y, DeviceFields), y.lc = u PROVE Shows(x, y)
  BY <1>1 DEF Shows
<1> DEFINE y == [x EXCEPT !.lc = u]
<1>2. Has(y, DeviceFields) /\ y.lc = u
  BY DEF Clear, Has, DeviceFields
<1>3. ASSUME NEW exec
      PROVE  LET z == [x EXCEPT !.exec = exec, !.lc = u] IN Has(z, DeviceFields) /\ z.lc = u
  BY DEF Clear, Has, DeviceFields
<1> HIDE DEF y
<1> QED BY <1>1, <1>2, <1>3, Zenon DEF y

\* A change of anything else.
LEMMA OthersShow ==
  ASSUME NEW x, Clear(x), NEW v, NEW w
  PROVE  /\ Shows(x, [x EXCEPT !.exec = v]) /\ Shows(x, [x EXCEPT !.bound = v])
         /\ Shows(x, [x EXCEPT !.gate = v]) /\ Shows(x, [x EXCEPT !.clock = v])
         /\ Shows(x, [x EXCEPT !.startRev = v]) /\ Shows(x, [x EXCEPT !.identity = v])
         /\ Shows(x, [x EXCEPT !.healthy = v, !.sample = w])
         /\ Shows(x, [x EXCEPT !.out = v, !.applied = w])
<1>0. ASSUME NEW y, Has(y, DeviceFields), y.lc = x.lc PROVE Shows(x, y)
  BY <1>0, TellsStill DEF Shows, Clear
<1>1. LET y == [x EXCEPT !.exec = v] IN Has(y, DeviceFields) /\ y.lc = x.lc
  BY DEF Clear, Has, DeviceFields
<1>2. LET y == [x EXCEPT !.bound = v] IN Has(y, DeviceFields) /\ y.lc = x.lc
  BY DEF Clear, Has, DeviceFields
<1>3. LET y == [x EXCEPT !.gate = v] IN Has(y, DeviceFields) /\ y.lc = x.lc
  BY DEF Clear, Has, DeviceFields
<1>4. LET y == [x EXCEPT !.clock = v] IN Has(y, DeviceFields) /\ y.lc = x.lc
  BY DEF Clear, Has, DeviceFields
<1>5. LET y == [x EXCEPT !.startRev = v] IN Has(y, DeviceFields) /\ y.lc = x.lc
  BY DEF Clear, Has, DeviceFields
<1>6. LET y == [x EXCEPT !.identity = v] IN Has(y, DeviceFields) /\ y.lc = x.lc
  BY DEF Clear, Has, DeviceFields
<1>7. LET y == [x EXCEPT !.healthy = v, !.sample = w] IN Has(y, DeviceFields) /\ y.lc = x.lc
  BY DEF Clear, Has, DeviceFields
<1>8. LET y == [x EXCEPT !.out = v, !.applied = w] IN Has(y, DeviceFields) /\ y.lc = x.lc
  BY DEF Clear, Has, DeviceFields
<1> QED BY <1>0, <1>1, <1>2, <1>3, <1>4, <1>5, <1>6, <1>7, <1>8

\* An interruption (runtime.rs interrupt).
LEMMA InterruptShows ==
  ASSUME NEW x, Clear(x), NEW reason
  PROVE  Shows(x, Interrupt(x, reason))
<1> DEFINE u == Interrupted(x.lc, reason)
<1>1. Tells(x.lc, u)
  BY InterruptedTells DEF Clear
<1>2. Interrupt(x, reason) = [x EXCEPT !.lc = u]
  BY DEF Interrupt
<1> HIDE DEF u
<1>3. Shows(x, [x EXCEPT !.lc = u])
  BY <1>1, PolicyShows, Zenon
<1> QED BY <1>2, <1>3

\* An execution that follows its run (runtime.rs sync_execution).
LEMMA SyncedShows ==
  ASSUME NEW x, Clear(x)
  PROVE  Shows(x, Synced(x))
<1> DEFINE kept == {e \in x.exec : x.lc.run = {e.run}}
           exec == IF kept # {} THEN kept ELSE IF x.lc.run = {} THEN {} ELSE {NewExecution(x.lc)}
           v == {EpisodeSynced(e, x.lc) : e \in exec}
<1>1. Synced(x) = [x EXCEPT !.exec = v]
  BY DEF Synced
<1> HIDE DEF v
<1>2. Shows(x, [x EXCEPT !.exec = v])
  BY OthersShow, Zenon
<1> QED BY <1>1, <1>2

\* The two ways a run is given up.
LEMMA GivenUpShows ==
  ASSUME NEW x, Clear(x), NEW reason
  PROVE  /\ Shows(x, Synced(Interrupt(x, reason)))
         /\ Shows(x, Synced([Interrupt(x, reason) EXCEPT !.bound = {}]))
<1> DEFINE v == Interrupt(x, reason)
           w == [v EXCEPT !.bound = {}]
<1>1. Shows(x, v)
  BY InterruptShows
<1> HIDE DEF v
<1>2. Shows(v, w)
  BY <1>1, ShownIsClear, OthersShow, Zenon
<1> HIDE DEF w
<1>3. Shows(x, w) /\ Clear(v) /\ Clear(w)
  BY <1>1, <1>2, ShownIsClear, ShowsTwice
<1>4. Shows(x, Synced(v)) /\ Shows(x, Synced(w))
  BY <1>1, <1>3, SyncedShows, ShowsTwice
<1> QED BY <1>4 DEF v, w

\* A preview that is dropped.
LEMMA DropShows ==
  ASSUME NEW x, Clear(x)
  PROVE  Shows(x, [x EXCEPT !.lc = Invalidated(x.lc)])
<1> DEFINE u == Invalidated(x.lc)
<1>1. Tells(x.lc, u)
  BY InvalidatedTells DEF Clear
<1> HIDE DEF u
<1> QED BY <1>1, PolicyShows, Zenon DEF u

\* Checked inputs (runtime.rs check_inputs).
LEMMA CheckedShows ==
  ASSUME NEW x, Clear(x), NEW t
  PROVE  Shows(x, Checked(x, t))
<1>1. \/ \E reason : Checked(x, t) = Synced([Interrupt(x, reason) EXCEPT !.bound = {}])
      \/ Checked(x, t) = x \/ Checked(x, t) = [x EXCEPT !.lc = Invalidated(x.lc)]
  BY DEF Checked
<1> QED BY <1>1, GivenUpShows, DropShows, ShowsStill

\* A tick of the policy.
LEMMA TickShows ==
  ASSUME NEW x, Clear(x), NEW t
  PROVE  Shows(x, Tick(x, t))
<1> DEFINE u == Ticked(x.lc, t)
           y == [x EXCEPT !.lc = u]
<1>1. Tells(x.lc, u)
  BY TickedTells DEF Clear
<1>2. Tick(x, t) = Synced(y)
  BY DEF Tick
<1> HIDE DEF u
<1>3. Shows(x, y)
  BY <1>1, PolicyShows, Zenon
<1> HIDE DEF y
<1> QED BY <1>2, <1>3, SyncedShows, ShownIsClear, ShowsTwice

\* A run's own deadlines (runtime.rs service).
LEMMA DeadlinesKeptShows ==
  ASSUME NEW x, Clear(x), NEW t
  PROVE  Shows(x, DeadlinesKept(x, t))
<1>1. \/ DeadlinesKept(x, t) = x
      \/ \E reason : DeadlinesKept(x, t) = Synced(Interrupt(x, reason))
  BY DEF DeadlinesKept
<1> QED BY <1>1, GivenUpShows, ShowsStill

\* An episode's own deadlines (runtime.rs check_recovery_schedule).
LEMMA ScheduleCheckedShows ==
  ASSUME NEW x, Clear(x), NEW t
  PROVE  Shows(x, ScheduleChecked(x, t))
<1> DEFINE missed == {r \in UNION {e.rec : e \in x.exec} : Missed(r, t)}
           exec == {[e EXCEPT !.rec = {Held(r, t) : r \in @}] : e \in x.exec}
           v == Ticked(x.lc, t)
           u == RecoveryCommanded(v, The(missed).episode, Stop, t)
<1>1. ScheduleChecked(x, t) = x \/ ScheduleChecked(x, t) = [x EXCEPT !.exec = exec, !.lc = u]
  BY DEF ScheduleChecked
<1>2. Tells(x.lc, v) /\ Legible(v)
  BY TickedTells DEF Clear
<1> HIDE DEF v, missed
<1>3. Tells(x.lc, u)
  BY <1>2, CommandedTells, TellsTwice DEF Clear
<1> HIDE DEF u, exec
<1>4. Shows(x, [x EXCEPT !.exec = exec, !.lc = u])
  BY <1>3, PolicyShows, Zenon
<1> QED BY <1>1, <1>4, ShowsStill

\* A service (runtime.rs service).
LEMMA ServicedShows ==
  ASSUME NEW x, Clear(x), NEW t
  PROVE  Shows(x, Serviced(x, t)) /\ Clear(Serviced(x, t))
<1> DEFINE a == Checked(x, t)
           b == Tick(a, t)
           c == DeadlinesKept(b, t)
           v == ScheduleChecked(c, t)
           y == Unbound(v)
<1>0. Serviced(x, t) = y
  BY DEF Serviced
<1>1. Shows(x, a) /\ Clear(a)
  BY CheckedShows, ShownIsClear
<1> HIDE DEF a
<1>2. Shows(x, b) /\ Clear(b)
  BY <1>1, TickShows, ShownIsClear, ShowsTwice
<1> HIDE DEF b
<1>3. Shows(x, c) /\ Clear(c)
  BY <1>2, DeadlinesKeptShows, ShownIsClear, ShowsTwice
<1> HIDE DEF c
<1>4. Shows(x, v) /\ Clear(v)
  BY <1>3, ScheduleCheckedShows, ShownIsClear, ShowsTwice
<1> HIDE DEF v
<1>5. Shows(v, y)
  BY <1>4, OthersShow, ShowsStill, Zenon DEF Unbound
<1> HIDE DEF y
<1> QED BY <1>0, <1>4, <1>5, ShowsTwice, ShownIsClear

\* A deviation, or its end (runtime.rs observe_tracking).
LEMMA DeviationActedShows ==
  ASSUME NEW x, Clear(x), NEW f, NEW s, NEW t
  PROVE  Shows(x, DeviationActed(x, f, s, t))
<1> DEFINE next == [x EXCEPT !.exec = {f}]
           v == Ticked(next.lc, t)
           r == The(f.rec).episode
<1>1. \/ DeviationActed(x, f, s, t) = next
      \/ DeviationActed(x, f, s, t) = [next EXCEPT !.lc = Begun(v, {f.run}, t)]
      \/ DeviationActed(x, f, s, t) = [next EXCEPT !.lc = Rejoined(v, r)]
  BY DEF DeviationActed
<1>2. Shows(x, next) /\ Clear(next)
  BY OthersShow, ShownIsClear, Zenon
<1> HIDE DEF next, r
<1>3. Tells(next.lc, v) /\ Legible(v)
  BY <1>2, TickedTells DEF Clear
<1> HIDE DEF v
<1> DEFINE begun == Begun(v, {f.run}, t)
           rejoined == Rejoined(v, r)
<1>4. Tells(next.lc, begun) /\ Tells(next.lc, rejoined)
  BY <1>2, <1>3, BegunTells, RejoinedTells, TellsTwice DEF Clear
<1>5. \/ DeviationActed(x, f, s, t) = next
      \/ DeviationActed(x, f, s, t) = [next EXCEPT !.lc = begun]
      \/ DeviationActed(x, f, s, t) = [next EXCEPT !.lc = rejoined]
  BY <1>1
<1> HIDE DEF begun, rejoined
<1>6. Shows(next, [next EXCEPT !.lc = begun]) /\ Shows(next, [next EXCEPT !.lc = rejoined])
  BY <1>2, <1>4, PolicyShows, Zenon
<1> QED BY <1>2, <1>5, <1>6, ShowsTwice

\* An observed run, once its execution is known.
LEMMA WatchedShows ==
  ASSUME NEW x, Clear(x), NEW e, NEW t
  PROVE  Shows(x, Watched(x, e, t))
<1> DEFINE s == The(x.sample)
           rec == {[r EXCEPT !.follower = OutputSeen(@, Moving(x.out), t)] : r \in e.rec}
           noted == [e EXCEPT !.seen = {s}, !.rec = rec]
           problem == ObservationProblem(x, e, t)
           m == Monitored(noted, s)
           z == DeviationActed(x, m, s, t)
           exec == {noted}
<1>1. Watched(x, e, t) \in {Synced(Interrupt(x, problem)), [x EXCEPT !.exec = exec], Synced(z)}
  BY DEF Watched
<1> HIDE DEF s, m, noted, problem, exec
<1>2. Shows(x, z)
  BY DeviationActedShows
<1> HIDE DEF z
<1>3. Shows(x, Synced(z))
  BY <1>2, SyncedShows, ShownIsClear, ShowsTwice
<1>4. Shows(x, [x EXCEPT !.exec = exec])
  BY OthersShow, Zenon
<1>5. Shows(x, Synced(Interrupt(x, problem)))
  BY GivenUpShows
<1> QED BY <1>1, <1>3, <1>4, <1>5

\* An observed run (runtime.rs observe_tracking).
LEMMA ObservedRunShows ==
  ASSUME NEW x, Clear(x), NEW t
  PROVE  Shows(x, ObservedRun(x, t)) /\ Clear(ObservedRun(x, t))
<1> DEFINE a == Checked(x, t)
           live == Tick(a, t)
           v == ScheduleChecked(live, t)
           e == The(v.exec)
<1>1. Shows(x, a) /\ Clear(a)
  BY CheckedShows, ShownIsClear
<1> HIDE DEF a
<1>2. Shows(x, live) /\ Clear(live)
  BY <1>1, TickShows, ShownIsClear, ShowsTwice
<1>3. ObservedRun(x, t) \in {x, live, v, Watched(v, e, t)}
  BY DEF ObservedRun, ObservedLive, WatchedRun, a
<1> HIDE DEF live
<1>4. Shows(x, v) /\ Clear(v)
  BY <1>2, ScheduleCheckedShows, ShownIsClear, ShowsTwice
<1> HIDE DEF v, e
<1>5. Shows(x, Watched(v, e, t))
  BY <1>4, WatchedShows, ShowsTwice
<1> QED BY <1>2, <1>3, <1>4, <1>5, ShowsStill, ShownIsClear

\* A lost network (coordination.rs revoke_network_motion).
LEMMA NetworkRevokedShows ==
  ASSUME NEW x, Clear(x), NEW t
  PROVE  Shows(x, NetworkRevoked(x, t))
<1> DEFINE a == Serviced(x, t)
           u == Unowned(a.lc)
           b == [a EXCEPT !.lc = u]
           v == IF x.lc.token = {} THEN x ELSE b
<1>0. NetworkRevoked(x, t) = Serviced(v, t)
  BY DEF NetworkRevoked
<1>1. Shows(x, a) /\ Clear(a)
  BY ServicedShows
<1> HIDE DEF a
<1>2. Tells(a.lc, u)
  BY <1>1, GrantTells DEF Clear
<1> HIDE DEF u
<1>3. Shows(x, b)
  BY <1>1, <1>2, PolicyShows, ShowsTwice, Zenon
<1> HIDE DEF b
<1>4. Shows(x, v) /\ Clear(v)
  BY <1>3, ShowsStill, ShownIsClear
<1> HIDE DEF v
<1> QED BY <1>0, <1>4, ServicedShows, ShowsTwice

\* An expired network (coordination.rs advance).
LEMMA AdvancedShows ==
  ASSUME NEW x, Clear(x), NEW t
  PROVE  Shows(x, Advanced(x, t)) /\ Clear(Advanced(x, t))
<1> DEFINE gate == Expire(x.gate, t)
           g == [x EXCEPT !.gate = gate]
<1>1. Advanced(x, t) = x \/ Advanced(x, t) = NetworkRevoked(g, t)
  BY DEF Advanced
<1> HIDE DEF gate
<1>2. Shows(x, g) /\ Clear(g)
  BY OthersShow, ShownIsClear, Zenon
<1> HIDE DEF g
<1>3. Shows(x, NetworkRevoked(g, t))
  BY <1>2, NetworkRevokedShows, ShowsTwice
<1> QED BY <1>1, <1>3, ShowsStill, ShownIsClear

-----------------------------------------------------------------------------
(* Observing, commanding and serving the output.                           *)

\* An observed output (runtime.rs observe_output).
LEMMA OutputObservedShows ==
  ASSUME NEW x, Clear(x), NEW t
  PROVE  Shows(x, OutputObserved(x, t))
<1> DEFINE seen(followers) == OutputSeen(followers, Moving(x.out), t)
           exec == {[e EXCEPT !.follower = seen(@), !.rec = {[r EXCEPT !.follower = seen(@)] : r \in @}]
                      : e \in x.exec}
<1>1. OutputObserved(x, t) = [x EXCEPT !.exec = exec]
  BY DEF OutputObserved
<1> HIDE DEF exec
<1>2. Shows(x, [x EXCEPT !.exec = exec])
  BY OthersShow, Zenon
<1> QED BY <1>1, <1>2

\* A run's turn in an episode (runtime.rs execution_command).
LEMMA RecoveryTurnShows ==
  ASSUME NEW x, Clear(x), NEW e, NEW r, NEW want, NEW t
  PROVE  Shows(x, RecoveryTurn(x, e, r, want, t))
<1> DEFINE v == Ticked(x.lc, t)
<1>1. \E exec, envelope : RecoveryTurn(x, e, r, want, t)
                            = [x EXCEPT !.exec = exec, !.lc = RecoveryCommanded(v, r.episode, envelope, t)]
  BY Zenon DEF RecoveryTurn
<1>2. PICK exec, envelope : RecoveryTurn(x, e, r, want, t)
                            = [x EXCEPT !.exec = exec, !.lc = RecoveryCommanded(v, r.episode, envelope, t)]
  BY <1>1, Zenon
<1>3. Tells(x.lc, v) /\ Legible(v)
  BY TickedTells DEF Clear
<1> HIDE DEF v
<1> DEFINE u == RecoveryCommanded(v, r.episode, envelope, t)
<1>4. Tells(x.lc, u)
  BY <1>3, CommandedTells, TellsTwice DEF Clear
<1> HIDE DEF u
<1>5. Shows(x, [x EXCEPT !.exec = exec, !.lc = u])
  BY <1>4, PolicyShows, Zenon
<1> QED BY <1>2, <1>5 DEF u

\* A run's turn on its route.
LEMMA FollowerTurnShows ==
  ASSUME NEW x, Clear(x), NEW e, NEW want, NEW t
  PROVE  Shows(x, FollowerTurn(x, e, want, t))
<1> DEFINE s == The(x.sample)
           follower == IF e.follower = {} THEN NewFollower ELSE The(e.follower)
           seen == FollowerSaw(follower, Moving(x.out), t)
           preparing == x.lc.phase \in {"Preparing", "Ready"}
           steered == [e EXCEPT !.follower = {FollowerAsked(seen, want, s.at)}, !.control = {t}]
           next == IF preparing THEN Readied(steered, Acquired(x, s, t), s.at) ELSE steered
           exec == {next}
           by == [run |-> x.lc.run, sampled |-> s.at, launch |-> {}]
           envelope == RunEnvelope(Asks(seen, want, s.at), t + MovementLease, by)
           a == Ticked(x.lc, t)
           b == MadeReady(a, x.lc.run)
           p == IF preparing /\ ReadyDwelt(steered, next, s.at) THEN b ELSE x.lc
           v == Ticked(p, t)
           u == TrackingCommanded(v, x.lc.run, envelope, t)
<1>1. FollowerTurn(x, e, want, t) = [x EXCEPT !.exec = exec, !.lc = u]
  BY DEF FollowerTurn
<1>2. p = x.lc \/ p = b
  OBVIOUS
<1>3. Tells(x.lc, a) /\ Legible(a)
  BY TickedTells DEF Clear
<1> HIDE DEF a
<1>4. Tells(x.lc, b)
  BY <1>3, MadeReadyTells, TellsTwice DEF Clear
<1> HIDE DEF b, p, exec, envelope
<1>5. Tells(x.lc, p) /\ Legible(p)
  BY <1>2, <1>4, TellsStill DEF Clear, Tells
<1>6. Tells(x.lc, v) /\ Legible(v)
  BY <1>5, TickedTells, TellsTwice DEF Clear
<1> HIDE DEF v
<1>7. Tells(x.lc, u)
  BY <1>6, CommandedTells, TellsTwice DEF Clear
<1> HIDE DEF u
<1>8. Shows(x, [x EXCEPT !.exec = exec, !.lc = u])
  BY <1>7, PolicyShows, Zenon
<1> QED BY <1>1, <1>8

\* A run's turn.
LEMMA TurnShows ==
  ASSUME NEW x, Clear(x), NEW want, NEW t
  PROVE  Shows(x, Turn(x, want, t))
<1> DEFINE e == The(x.exec)
           exec == {[e EXCEPT !.follower = {}, !.control = {t}]}
           r == The(e.rec)
<1>1. Turn(x, want, t) \in {x, [x EXCEPT !.exec = exec], RecoveryTurn(x, e, r, want, t),
                            FollowerTurn(x, e, want, t)}
  BY DEF Turn
<1> HIDE DEF e, exec, r
<1>2. Shows(x, [x EXCEPT !.exec = exec])
  BY OthersShow, Zenon
<1>3. Shows(x, x) /\ Shows(x, RecoveryTurn(x, e, r, want, t)) /\ Shows(x, FollowerTurn(x, e, want, t))
  BY ShowsStill, RecoveryTurnShows, FollowerTurnShows
<1> QED BY <1>1, <1>2, <1>3

\* A whole execution (runtime.rs execution_command).
LEMMA ExecutedShows ==
  ASSUME NEW x, Clear(x), NEW want, NEW t
  PROVE  Shows(x, Executed(x, want, t))
<1> DEFINE a == ObservedRun(x, t)
           b == Serviced(a, t)
           c == ObservedRun(b, t)
           y == Turn(c, want, t)
<1>0. Executed(x, want, t) = y
  BY DEF Executed
<1>1. Shows(x, a) /\ Clear(a)
  BY ObservedRunShows
<1> HIDE DEF a
<1>2. Shows(x, b) /\ Clear(b)
  BY <1>1, ServicedShows, ShowsTwice
<1> HIDE DEF b
<1>3. Shows(x, c) /\ Clear(c)
  BY <1>2, ObservedRunShows, ShowsTwice
<1> HIDE DEF c
<1>4. Shows(c, y)
  BY <1>3, TurnShows
<1> HIDE DEF y
<1> QED BY <1>0, <1>3, <1>4, ShowsTwice

\* A drained command (runtime.rs take_command).
LEMMA CommandTakenShows ==
  ASSUME NEW x, Clear(x), NEW t
  PROVE  Shows(x, CommandTaken(x, t)) /\ Clear(CommandTaken(x, t))
<1> DEFINE exec == {[e EXCEPT !.rec = {[r EXCEPT !.pending = FALSE] : r \in @}] : e \in x.exec}
           v == Ticked(x.lc, t)
           u == [v EXCEPT !.box = {}]
<1>1. CommandTaken(x, t) = [x EXCEPT !.lc = u, !.exec = exec]
  BY DEF CommandTaken
<1>2. Tells(x.lc, v) /\ Legible(v)
  BY TickedTells DEF Clear
<1> HIDE DEF v, exec
<1>3. Tells(v, u)
  BY <1>2, BoxTells
<1> HIDE DEF u
<1>4. Tells(x.lc, u)
  BY <1>2, <1>3, TellsTwice DEF Clear
<1>5. Shows(x, [x EXCEPT !.exec = exec, !.lc = u])
  BY <1>4, PolicyShows, Zenon
<1>6. [x EXCEPT !.exec = exec, !.lc = u] = [x EXCEPT !.lc = u, !.exec = exec]
  OBVIOUS
<1> QED BY <1>1, <1>5, <1>6, ShownIsClear

\* A start that has changed (runtime.rs invalidate_start).
LEMMA StartChangedShows ==
  ASSUME NEW x, Clear(x)
  PROVE  Shows(x, StartChanged(x))
<1> DEFINE n == x.startRev + 1
           noted == [x EXCEPT !.startRev = n]
           y == [noted EXCEPT !.lc = Invalidated(noted.lc)]
<1>1. StartChanged(x) = noted \/ StartChanged(x) = y
  BY DEF StartChanged
<1> HIDE DEF n
<1>2. Shows(x, noted) /\ Clear(noted)
  BY OthersShow, ShownIsClear, Zenon
<1> HIDE DEF noted
<1>3. Shows(noted, y)
  BY <1>2, DropShows
<1> HIDE DEF y
<1> QED BY <1>1, <1>2, <1>3, ShowsTwice

\* A recorded output (coordination.rs record_actuator).
LEMMA RecordedShows ==
  ASSUME NEW x, Clear(x), NEW out, NEW t
  PROVE  Shows(x, Recorded(x, out, t))
<1> DEFINE w == [x EXCEPT !.out = out, !.applied = t]
           next == OutputObserved(w, t)
           identity == Identity(next, t)
           noted == [next EXCEPT !.identity = identity]
           y == StartChanged(noted)
<1>1. Recorded(x, out, t) = next \/ Recorded(x, out, t) = y
  BY DEF Recorded, Identified
<1>2. Shows(x, w) /\ Clear(w)
  BY OthersShow, ShownIsClear, Zenon
<1> HIDE DEF w
<1>3. Shows(x, next) /\ Clear(next)
  BY <1>2, OutputObservedShows, ShowsTwice, ShownIsClear
<1> HIDE DEF next, identity
<1>4. Shows(next, noted) /\ Clear(noted)
  BY <1>3, OthersShow, ShownIsClear, Zenon
<1> HIDE DEF noted
<1>5. Shows(noted, y)
  BY <1>4, StartChangedShows
<1> HIDE DEF y
<1>6. Shows(x, y)
  BY <1>3, <1>4, <1>5, ShowsTwice
<1> QED BY <1>1, <1>3, <1>6

\* A serviced output.
LEMMA OutputServicedShows ==
  ASSUME NEW x, Clear(x), NEW faulty, NEW t
  PROVE  Shows(x, OutputServiced(x, faulty, t))
<1> DEFINE v == CommandTaken(x, t)
           out == OutputStep(v, Drained(x, t), faulty, t)
           y == Recorded(v, out, t)
<1>1. OutputServiced(x, faulty, t) = y
  BY DEF OutputServiced, Applying
<1>2. Shows(x, v) /\ Clear(v)
  BY CommandTakenShows
<1> HIDE DEF v, out
<1>3. Shows(v, y)
  BY <1>2, RecordedShows
<1> HIDE DEF y
<1> QED BY <1>1, <1>2, <1>3, ShowsTwice

\* What precedes a drained command (coordination.rs take_actuator_input).
LEMMA InputTakenShows ==
  ASSUME NEW x, Clear(x), NEW t
  PROVE  Shows(x, InputTaken(x, t)) /\ Clear(InputTaken(x, t))
<1> DEFINE live == Advanced(x, t)
<1>1. Shows(x, live) /\ Clear(live)
  BY AdvancedShows
<1>2. InputTaken(x, t) = ObservedRun(live, t)
  BY DEF InputTaken
<1> HIDE DEF live
<1> QED BY <1>1, <1>2, ObservedRunShows, ShowsTwice

-----------------------------------------------------------------------------
(* Requests, refreshes, plans and publications.                            *)

\* An answered request.
LEMMA RequestDoneShows ==
  ASSUME NEW x, Clear(x), NEW a, Tells(x.lc, a.lc), NEW t
  PROVE  Shows(x, RequestDone(x, a, t).d)
<1> DEFINE u == a.lc
           next == [x EXCEPT !.lc = u]
           bound == {x.gate.generation}
           b == [next EXCEPT !.bound = bound]
           d1 == RequestDone(x, a, t).d
<1>1. d1 \in {next, Serviced(next, t), Serviced(b, t)}
  BY DEF RequestDone
<1> HIDE DEF u, d1, bound
<1>2. Tells(x.lc, u)
  BY DEF u
<1>3. Shows(x, next) /\ Clear(next)
  BY <1>2, PolicyShows, ShownIsClear, Zenon
<1> HIDE DEF next
<1>4. Shows(next, b) /\ Clear(b)
  BY <1>3, OthersShow, ShownIsClear, Zenon
<1> HIDE DEF b
<1>5. Shows(x, b)
  BY <1>3, <1>4, ShowsTwice
<1>6. Shows(x, Serviced(next, t)) /\ Shows(x, Serviced(b, t))
  BY <1>3, <1>4, <1>5, ServicedShows, ShowsTwice
<1> QED BY <1>1, <1>3, <1>6 DEF d1

\* A request is shown, and succeeds towards a pass only at the revision it
\* expects (runtime.rs request).
LEMMA RuntimeRequestedShows ==
  ASSUME NEW x, Clear(x), NEW q, RequestOK(q), NEW t
  PROVE  LET done == RuntimeRequested(x, q, t)
         IN  /\ Shows(x, done.d)
             /\ (/\ \A r \in x.lc.receipt : r.request # q
                 /\ done.result.error = "none" /\ q.action \notin {"Cancel", "Manual"})
                  => q.expected = x.lc.revision
<1>1. CASE q.action = "Arm" /\ ~Ready(x.gate, t)
  BY <1>1, ShowsStill DEF RuntimeRequested, Answer
<1>2. CASE q.action # "Arm" \/ Ready(x.gate, t)
  <2> DEFINE a == Requested(x.lc, q, t)
             done == RequestDone(x, a, t)
  <2>1. RuntimeRequested(x, q, t) = done
    BY <1>2 DEF RuntimeRequested
  <2>2. /\ Tells(x.lc, a.lc)
        /\ (/\ \A r \in x.lc.receipt : r.request # q
            /\ a.result.error = "none" /\ q.action \notin {"Cancel", "Manual"})
             => q.expected = x.lc.revision
    BY RequestedTells DEF Clear
  <2> HIDE DEF a
  <2>3. done.result = a.result
    BY DEF RequestDone
  <2>4. Shows(x, done.d)
    BY <2>2, RequestDoneShows
  <2> QED BY <2>1, <2>2, <2>3, <2>4
<1> QED BY <1>1, <1>2

\* A new policy that is serviced.
LEMMA PolicyServicedShows ==
  ASSUME NEW x, Clear(x), NEW u, Tells(x.lc, u), NEW t
  PROVE  Shows(x, Serviced([x EXCEPT !.lc = u], t))
<1> DEFINE y == [x EXCEPT !.lc = u]
<1>1. Shows(x, y) /\ Clear(y)
  BY PolicyShows, ShownIsClear, Zenon
<1> HIDE DEF y
<1>2. Shows(x, Serviced(y, t))
  BY <1>1, ServicedShows, ShowsTwice
<1> QED BY <1>2 DEF y

\* A refresh (runtime.rs refresh).
LEMMA RuntimeRefreshedShows ==
  ASSUME NEW x, Clear(x), NEW forecast, NEW revs, NEW t
  PROVE  Shows(x, RuntimeRefreshed(x, forecast, revs, t))
<1> DEFINE u == Refreshed(x.lc, forecast, revs)
<1>1. RuntimeRefreshed(x, forecast, revs, t) \in {x, Serviced([x EXCEPT !.lc = u], t)}
  BY DEF RuntimeRefreshed
<1>2. Tells(x.lc, u)
  BY RefreshedTells DEF Clear
<1> HIDE DEF u
<1>3. Shows(x, Serviced([x EXCEPT !.lc = u], t))
  BY <1>2, PolicyServicedShows
<1> QED BY <1>1, <1>3, ShowsStill

\* Rejected inputs (runtime.rs reject_inputs).
LEMMA InputsRejectedShows ==
  ASSUME NEW x, Clear(x), NEW ticket, NEW t
  PROVE  Shows(x, InputsRejected(x, ticket, t))
<1> DEFINE u == Invalidated(x.lc)
<1>1. InputsRejected(x, ticket, t) \in {x, Serviced([x EXCEPT !.lc = u], t)}
  BY DEF InputsRejected
<1>2. Tells(x.lc, u)
  BY InvalidatedTells DEF Clear
<1> HIDE DEF u
<1>3. Shows(x, Serviced([x EXCEPT !.lc = u], t))
  BY <1>2, PolicyServicedShows
<1> QED BY <1>1, <1>3, ShowsStill

\* A published plan (runtime.rs publish_plan).
LEMMA PlanPublishedShows ==
  ASSUME NEW x, Clear(x), NEW inputs, NEW found, NEW t
  PROVE  Shows(x, PlanPublished(x, inputs, found, t))
<1> DEFINE u == Planned(x.lc, found, t)
<1>1. PlanPublished(x, inputs, found, t)
        \in {x, [x EXCEPT !.lc = Invalidated(x.lc)], Serviced([x EXCEPT !.lc = u], t)}
  BY DEF PlanPublished
<1>2. Tells(x.lc, u)
  BY PlannedTells DEF Clear
<1> HIDE DEF u
<1>3. Shows(x, Serviced([x EXCEPT !.lc = u], t))
  BY <1>2, PolicyServicedShows
<1> QED BY <1>1, <1>3, DropShows, ShowsStill

\* A jog (runtime.rs manual_command).
LEMMA RuntimeJoggedShows ==
  ASSUME NEW x, Clear(x), NEW token, NEW e, NEW t
  PROVE  Shows(x, RuntimeJogged(x, token, e, t))
<1> DEFINE v == Ticked(x.lc, t)
           u == ManuallyCommanded(v, token, e, t)
<1>1. RuntimeJogged(x, token, e, t) \in {x, [x EXCEPT !.lc = u]}
  BY DEF RuntimeJogged
<1>2. Tells(x.lc, v) /\ Legible(v)
  BY TickedTells DEF Clear
<1> HIDE DEF v
<1>3. Tells(x.lc, u)
  BY <1>2, ManuallyCommandedTells, TellsTwice DEF Clear
<1> HIDE DEF u
<1>4. Shows(x, [x EXCEPT !.lc = u])
  BY <1>3, PolicyShows, Zenon
<1> QED BY <1>1, <1>4, ShowsStill

\* A network report (coordination.rs publish_network).
LEMMA NetworkPublishedShows ==
  ASSUME NEW x, Clear(x), NEW ready, NEW t
  PROVE  Shows(x, NetworkPublished(x, ready, t))
<1> DEFINE gate == Observe(x.gate, ready, t)
           y == [x EXCEPT !.gate = gate]
<1>1. NetworkPublished(x, ready, t) \in {y, NetworkRevoked(y, t)}
  BY DEF NetworkPublished
<1> HIDE DEF gate
<1>2. Shows(x, y) /\ Clear(y)
  BY OthersShow, ShownIsClear, Zenon
<1> HIDE DEF y
<1>3. Shows(x, NetworkRevoked(y, t))
  BY <1>2, NetworkRevokedShows, ShowsTwice
<1> QED BY <1>1, <1>2, <1>3

\* A clock sample (coordination.rs publish_clock).
LEMMA ClockPublishedShows ==
  ASSUME NEW x, Clear(x), NEW clock, NEW t
  PROVE  Shows(x, ClockPublished(x, clock, t))
<1> DEFINE y == [x EXCEPT !.clock = clock]
<1>1. Shows(x, y) /\ Clear(y)
  BY OthersShow, ShownIsClear, Zenon
<1>2. ClockPublished(x, clock, t) = Serviced(y, t)
  BY DEF ClockPublished
<1> HIDE DEF y
<1> QED BY <1>1, <1>2, ServicedShows, ShowsTwice

\* A feedback sample (coordination.rs publish_feedback).
LEMMA FeedbackPublishedShows ==
  ASSUME NEW x, Clear(x), NEW healthy, NEW sample, NEW t
  PROVE  Shows(x, FeedbackPublished(x, healthy, sample, t))
<1> DEFINE y == [x EXCEPT !.healthy = healthy, !.sample = sample]
           z == StartChanged(y)
<1>1. FeedbackPublished(x, healthy, sample, t) \in {ObservedRun(y, t), ObservedRun(z, t)}
  BY DEF FeedbackPublished
<1>2. Shows(x, y) /\ Clear(y)
  BY OthersShow, ShownIsClear, Zenon
<1> HIDE DEF y
<1>3. Shows(x, z) /\ Clear(z)
  BY <1>2, StartChangedShows, ShowsTwice, ShownIsClear
<1> HIDE DEF z
<1>4. Shows(x, ObservedRun(y, t)) /\ Shows(x, ObservedRun(z, t))
  BY <1>2, <1>3, ObservedRunShows, ShowsTwice
<1> QED BY <1>1, <1>4

-----------------------------------------------------------------------------
(* The worker.                                                             *)

\* What precedes a refresh and a result.
LEMMA AdvancedCheckedShows ==
  ASSUME NEW x, Clear(x)
  PROVE  LET y == Checked(Advanced(x, now), now) IN Shows(x, y) /\ Clear(y)
<1> DEFINE a == Advanced(x, now)
           y == Checked(a, now)
<1>1. Shows(x, a) /\ Clear(a)
  BY AdvancedShows
<1> HIDE DEF a
<1>2. Shows(a, y)
  BY <1>1, CheckedShows
<1> HIDE DEF y
<1>3. Shows(x, y) /\ Clear(y)
  BY <1>1, <1>2, ShowsTwice, ShownIsClear
<1> QED BY <1>3 DEF y, a

\* The worker's refresh (firmware tracking.rs refresh_inputs).
LEMMA InputsRefreshedShows ==
  ASSUME NEW x, Clear(x), NEW sources
  PROVE  Shows(x, InputsRefreshed(x, sources))
<1> DEFINE publication == sources[The(x.lc.selection).original.sat]
           live == Advanced(x, now)
           forecast == publication.events
           revs == Revisions(live, publication)
           c == Checked(live, now)
<1>1. InputsRefreshed(x, sources) \in {x, RuntimeRefreshed(c, forecast, revs, now)}
  BY DEF InputsRefreshed, RefreshedFrom
<1>2. Shows(x, c) /\ Clear(c)
  BY AdvancedCheckedShows
<1> HIDE DEF c, forecast, revs
<1>3. Shows(x, RuntimeRefreshed(c, forecast, revs, now))
  BY <1>2, RuntimeRefreshedShows, ShowsTwice
<1> QED BY <1>1, <1>3, ShowsStill

\* A captured job (firmware tracking.rs start_job).
LEMMA JobTriedShows ==
  ASSUME NEW x, Clear(x), NEW ticket, NEW jobs
  PROVE  Shows(x, JobTried(x, ticket, jobs).d)
<1> DEFINE c == Checked(x, now)
           job == The(jobs)
           a == InputsRejected(c, ticket, now)
           b == PlanPublished(c, job.inputs, {}, now)
<1>1. JobTried(x, ticket, jobs).d \in {a, b, x}
  BY DEF JobTried
<1>2. Shows(x, c) /\ Clear(c)
  BY CheckedShows, ShownIsClear
<1> HIDE DEF c, job
<1>3. Shows(c, a) /\ Shows(c, b)
  BY <1>2, InputsRejectedShows, PlanPublishedShows
<1> HIDE DEF a, b
<1>4. Shows(x, a) /\ Shows(x, b)
  BY <1>2, <1>3, ShowsTwice
<1> QED BY <1>1, <1>4, ShowsStill

\* A job (firmware tracking.rs start_job).
LEMMA JobBegunShows ==
  ASSUME NEW x, Clear(x), NEW ticket
  PROVE  Shows(x, JobBegun(x, ticket).d)
<1> DEFINE live == Advanced(x, now)
           jobs == UNION {Jobs(x, ticket, a) : a \in x.clock}
           tried == JobTried(live, ticket, jobs)
<1>1. JobBegun(x, ticket).d \in {x, tried.d}
  BY DEF JobBegun
<1> HIDE DEF jobs
<1>2. Shows(x, live) /\ Clear(live)
  BY AdvancedShows
<1> HIDE DEF live
<1>3. Shows(x, tried.d)
  BY <1>2, JobTriedShows, ShowsTwice
<1> QED BY <1>1, <1>3, ShowsStill

\* The end of a search (runtime.rs step_reacquisition).
LEMMA SearchDoneShows ==
  ASSUME NEW x, Clear(x), NEW join
  PROVE  Shows(x, SearchDone(x, join))
<1> DEFINE exec == {[e EXCEPT !.rec = {SearchEnded(r, join, now) : r \in @}] : e \in x.exec}
<1>1. SearchDone(x, join) = [x EXCEPT !.exec = exec]
  BY DEF SearchDone
<1> HIDE DEF exec
<1>2. Shows(x, [x EXCEPT !.exec = exec])
  BY OthersShow, Zenon
<1> QED BY <1>1, <1>2

\* A poll of the worker.
LEMMA PollShows ==
  ASSUME Clear(d), Poll
  PROVE  Shows(d, d')
<1>1. PICK refreshed \in {d, InputsRefreshed(d, source)} :
        \E dev \in {Serviced(Advanced(refreshed, now), now)} :
          LET ticket == PlanningTicket(refreshed.lc)
          IN  GoesOn(dev, ticket) \/ FindsJoin(dev, ticket) \/ Plans(dev, ticket)
  BY DEF Poll
<1> DEFINE ticket == PlanningTicket(refreshed.lc)
           live == Advanced(refreshed, now)
           dev == Serviced(live, now)
<1>2. GoesOn(dev, ticket) \/ FindsJoin(dev, ticket) \/ Plans(dev, ticket)
  BY <1>1
<1>3. Shows(d, refreshed) /\ Clear(refreshed)
  BY <1>1, InputsRefreshedShows, ShowsStill, ShownIsClear
<1>4. Shows(d, live) /\ Clear(live)
  BY <1>3, AdvancedShows, ShowsTwice
<1> HIDE DEF live, ticket
<1>5. Shows(d, dev) /\ Clear(dev)
  BY <1>4, ServicedShows, ShowsTwice
<1> HIDE DEF dev
<1>6. \/ d' = dev \/ d' = JobBegun(dev, The(ticket)).d
      \/ \E join : d' = SearchDone(dev, join)
      \/ \E inputs, found : d' = PlanPublished(Checked(Advanced(dev, now), now), inputs, found, now)
  BY <1>2 DEF GoesOn, FindsJoin, Plans
<1>7. Shows(dev, JobBegun(dev, The(ticket)).d) /\ \A join : Shows(dev, SearchDone(dev, join))
  BY <1>5, JobBegunShows, SearchDoneShows
<1> DEFINE c == Checked(Advanced(dev, now), now)
<1>8. Shows(dev, c) /\ Clear(c)
  BY <1>5, AdvancedCheckedShows
<1> HIDE DEF c
<1>9. \A inputs, found : Shows(dev, PlanPublished(c, inputs, found, now))
  BY <1>5, <1>8, PlanPublishedShows, ShowsTwice
<1>10. Shows(dev, d')
  BY <1>5, <1>6, <1>7, <1>9, ShowsStill DEF c
<1> QED BY <1>5, <1>10, ShowsTwice

-----------------------------------------------------------------------------
(* The steps of the system.                                                *)

\* Half an output pass.
LEMMA PassShows ==
  ASSUME Clear(d), Pass
  PROVE  Shows(d, d')
<1>1. PICK faulty, want : PassBegins(faulty, want) \/ PassEnds(faulty)
  BY DEF Pass
<1> DEFINE a == InputTaken(d, now)
           b == Serviced(a, now)
           x == OutputServiced(b, faulty, now)
           live == Advanced(x, now)
           y == Executed(live, want, now)
<1>2. d' = x \/ d' = y
  BY <1>1 DEF PassBegins, PassEnds, TrackingExecuted, Taking
<1>3. Shows(d, a) /\ Clear(a)
  BY InputTakenShows
<1> HIDE DEF a
<1>4. Shows(d, b) /\ Clear(b)
  BY <1>3, ServicedShows, ShowsTwice
<1> HIDE DEF b
<1>5. Shows(d, x) /\ Clear(x)
  BY <1>4, OutputServicedShows, ShowsTwice, ShownIsClear
<1> HIDE DEF x
<1>6. Shows(d, live) /\ Clear(live)
  BY <1>5, AdvancedShows, ShowsTwice
<1> HIDE DEF live
<1>7. Shows(d, y)
  BY <1>6, ExecutedShows, ShowsTwice
<1> QED BY <1>2, <1>5, <1>7

\* An operator who comes, goes or jogs.
LEMMA OperatorShows ==
  ASSUME Clear(d), Take \/ Leave \/ Jog
  PROVE  Shows(d, d')
<1> DEFINE live == Advanced(d, now)
           x == Serviced(live, now)
           token == left["grants"]
           claimed == Claimed(x.lc, token)
           unowned == Unowned(x.lc)
<1>1. Shows(d, live) /\ Clear(live)
  BY AdvancedShows
<1>2. \/ d' = [x EXCEPT !.lc = claimed] \/ d' = [x EXCEPT !.lc = unowned]
      \/ \E t, e : d' = RuntimeJogged(x, t, e, now)
  BY DEF Take, Leave, Jog
<1> HIDE DEF live, token
<1>3. Shows(d, x) /\ Clear(x)
  BY <1>1, ServicedShows, ShowsTwice
<1> HIDE DEF x
<1>4. Tells(x.lc, claimed) /\ Tells(x.lc, unowned)
  BY <1>3, GrantTells DEF Clear
<1> HIDE DEF claimed, unowned
<1>5. Shows(x, [x EXCEPT !.lc = claimed]) /\ Shows(x, [x EXCEPT !.lc = unowned])
  BY <1>3, <1>4, PolicyShows, Zenon
<1>6. \A t, e : Shows(x, RuntimeJogged(x, t, e, now))
  BY <1>3, RuntimeJoggedShows
<1>7. Shows(x, d')
  BY <1>2, <1>5, <1>6
<1> QED BY <1>3, <1>7, ShowsTwice

\* Whatever else the device hears.
LEMMA EnvironmentShows ==
  ASSUME Clear(d), Environment
  PROVE  Shows(d, d')
<1>1. CASE Feedback \/ FeedbackFails
  <2>1. \E healthy, sample : d' = FeedbackPublished(d, healthy, sample, now)
    BY <1>1 DEF Feedback, FeedbackFails
  <2> QED BY <2>1, FeedbackPublishedShows
<1>2. CASE Network
  <2>1. \E ready : d' = NetworkPublished(d, ready, now)
    BY <1>2 DEF Network
  <2> QED BY <2>1, NetworkPublishedShows
<1>3. CASE Sync
  <2>1. \E clock : d' = ClockPublished(d, clock, now)
    BY <1>3 DEF Sync
  <2> QED BY <2>1, ClockPublishedShows
<1>4. CASE Publish
  <2>1. \E sources : d' = InputsRefreshed(d, sources)
    BY <1>4 DEF Publish
  <2> QED BY <2>1, InputsRefreshedShows
<1>5. CASE Ticks
  BY <1>5, ShowsStill DEF Ticks
<1> QED BY <1>1, <1>2, <1>3, <1>4, <1>5 DEF Environment

\* Who knew a policy knows what it becomes.
LEMMA KnowsStill ==
  ASSUME NEW lc, Legible(lc), NEW u, Tells(lc, u), NEW x, Knows(x, lc)
  PROVE  Knows(x, u)
<1>1. x.intent.expected \in Nat /\ lc.revision \in Nat /\ u.revision \in Nat
      /\ x.intent.expected <= lc.revision /\ lc.revision <= u.revision
  BY DEF Knows, Tells, Legible
<1>2. CASE x.intent.expected # u.revision
  BY <1>1, <1>2 DEF Knows
<1>3. CASE x.intent.expected = u.revision
  <2>1. lc.revision = u.revision /\ Alike(lc, u)
    BY <1>1, <1>3 DEF Tells
  <2>2. Seen(u) = Seen(lc)
    BY <2>1 DEF Alike, SeenFields, Seen
  <2> QED BY <1>1, <1>3, <2>1, <2>2 DEF Knows
<1> QED BY <1>2, <1>3

\* What a device that the operators know is.
LEMMA ClearFacts ==
  ASSUME IInv, ViewsOK
  PROVE  Clear(d)
  BY DEF IInv, ViewsOK, Sound, DeviceOK, PolicyOK, Clear, Legible

\* The messages of a wire.
Carried(messages) == {messages[i] : i \in DOMAIN messages}

\* A wire's tail carries nothing but what the wire did.
LEMMA TailCarries ==
  ASSUME NEW intents, NEW messages, WireOK(messages, intents), messages # <<>>
  PROVE  /\ Head(messages) \in Carried(messages)
         /\ \A i \in DOMAIN Tail(messages) : Tail(messages)[i] \in Carried(messages)
<1> DEFINE S == Carried(messages)
           T == Tail(messages)
<1>1. messages \in Seq(S) /\ \A i \in DOMAIN messages : messages[i] \in S
  BY DEF WireOK, Carried
<1> HIDE DEF S
<1>2. /\ Len(messages) \in Nat /\ DOMAIN messages = 1 .. Len(messages) /\ Len(messages) > 0
      /\ Head(messages) = messages[1]
      /\ T \in Seq(S) /\ Len(T) = Len(messages) - 1
  BY <1>1
<1> HIDE DEF T
<1>3. \A i \in DOMAIN T : T[i] \in S
  BY <1>2
<1> QED BY <1>1, <1>2, <1>3 DEF S, T

\* One message more is all that a longer wire carries.
LEMMA AppendCarries ==
  ASSUME NEW intents, NEW messages, WireOK(messages, intents), NEW m
  PROVE  /\ \A i \in DOMAIN Append(messages, m) : Append(messages, m)[i] \in Carried(messages) \cup {m}
         /\ messages # <<>> => Append(messages, m) # Tail(messages)
<1> DEFINE S == Carried(messages)
           T == Append(messages, m)
<1>1. messages \in Seq(S)
  BY DEF WireOK, Carried
<1> HIDE DEF S
<1>2. messages \in Seq(S \cup {m})
  BY <1>1
<1>3. T \in Seq(S \cup {m}) /\ Len(T) = Len(messages) + 1 /\ Len(messages) \in Nat
  BY <1>2
<1>4. messages # <<>> => Len(Tail(messages)) = Len(messages) - 1
  BY <1>2
<1> HIDE DEF T
<1>5. \A i \in DOMAIN T : T[i] \in S \cup {m}
  BY <1>3
<1> QED BY <1>3, <1>4, <1>5 DEF S, T

\* What a step that leaves the requests alone does to them.
LEMMA ShownViews ==
  ASSUME IInv, ViewsOK, Shows(d, d'), asked' = asked,
         \A i \in DOMAIN wire' : wire'[i] \in Carried(wire)
  PROVE  ViewsOK'
<1>1. Clear(d)
  BY ClearFacts
<1>2. \A x : Knows(x, d.lc) => Knows(x, d'.lc)
  BY <1>1, KnowsStill DEF Clear, Shows
<1>3. d'.lc.revision \in Nat
  BY DEF Shows, Tells, Legible
<1>4. \A x \in Carried(wire) : Knows(x, d.lc)
  BY DEF ViewsOK, Carried
<1>5. \A a \in asked' : Knows(a, d'.lc)
  BY <1>2 DEF ViewsOK
<1>6. \A i \in DOMAIN wire' : Knows(wire'[i], d'.lc)
  BY <1>2, <1>4
<1> QED BY <1>3, <1>5, <1>6 DEF ViewsOK

\* A message says what its request was made from.
LEMMA MessageKnows ==
  ASSUME NEW a, NEW lc, Knows(a, lc)
  PROVE  Knows(Message(a), lc)
  BY DEF Message, Knows

\* A new request is made from the policy of now.
LEMMA SendViews ==
  ASSUME IInv, ViewsOK, Send
  PROVE  ViewsOK'
<1>1. PICK intent \in Intents :
        LET a == [intent |-> intent, seen |-> Seen(d.lc)]
        IN  wire' = <<Message(a)>> /\ asked' = {a} /\ d' = d
  BY DEF Send
<1> DEFINE a == [intent |-> intent, seen |-> Seen(d.lc)]
<1>2. wire' = <<Message(a)>> /\ asked' = {a} /\ d' = d
  BY <1>1
<1>3. intent.expected = d.lc.revision
  BY DEF Intents
<1>4. Knows(a, d.lc)
  BY <1>3 DEF Knows, ViewsOK
<1> HIDE DEF a
<1>5. Knows(Message(a), d.lc)
  BY <1>4, MessageKnows
<1>6. \A i \in DOMAIN wire' : wire'[i] = Message(a)
  BY <1>2
<1> QED BY <1>2, <1>4, <1>5, <1>6 DEF ViewsOK

\* The same request once more is made from what it was made from before.
LEMMA ResendViews ==
  ASSUME IInv, ViewsOK, Resend
  PROVE  ViewsOK' /\ (wire # <<>> => wire' # Tail(wire))
<1>1. PICK a \in asked : wire' = Append(wire, Message(a)) /\ d' = d /\ asked' = asked
  BY DEF Resend
<1>2. /\ \A i \in DOMAIN wire' : wire'[i] \in Carried(wire) \cup {Message(a)}
      /\ wire # <<>> => wire' # Tail(wire)
  BY <1>1, AppendCarries DEF IInv, RequestsOK
<1>3. Knows(Message(a), d.lc)
  BY MessageKnows DEF ViewsOK
<1>4. \A x \in Carried(wire) : Knows(x, d.lc)
  BY DEF ViewsOK, Carried
<1>5. \A i \in DOMAIN wire' : Knows(wire'[i], d.lc)
  BY <1>2, <1>3, <1>4
<1> QED BY <1>1, <1>2, <1>5 DEF ViewsOK

\* A request arrives: what it changes is told, and it is carried out towards a
\* pass only on the revision that it was made from.
LEMMA DeliverShows ==
  ASSUME IInv, ViewsOK, Deliver
  PROVE  /\ Shows(d, d')
         /\ (/\ Head(wire).intent.action \in {"Select", "Arm", "PrepareNow"}
             /\ \E r \in d'.lc.receipt : /\ r.request = Head(wire).intent /\ r.result.error = "none"
                                         /\ r \notin d.lc.receipt)
              => Head(wire).seen = Seen(d.lc)
<1> DEFINE m == Head(wire)
           q == m.intent
           live == Advanced(d, now)
           c == Checked(live, now)
           done == RuntimeRequested(c, q, now)
<1>1. /\ wire # <<>>
      /\ d' = live \/ d' = done.d
  BY DEF Deliver, Answered
<1>2. now \in Nat /\ SourcesOK(source) /\ Fit(d, source, now) /\ RequestsOK
  BY InvariantFacts
<1>3. m \in Carried(wire) /\ q \in {a.intent : a \in asked}
  BY <1>1, <1>2, TailCarries, WireShrinks DEF RequestsOK
<1>4. RequestOK(q) /\ Knows(m, d.lc)
  BY <1>2, <1>3 DEF RequestsOK, ViewsOK, Carried
<1>5. Clear(d)
  BY ClearFacts
<1>6. Shows(d, live) /\ Clear(live)
  BY <1>5, AdvancedShows
<1>7. Leads(d, live, now) /\ DeviceOK(d) /\ DeviceOK(live)
  BY <1>2, AdvancedFacts DEF Fit, Sound, Leads
<1> HIDE DEF live
<1>8. Shows(d, c) /\ Clear(c)
  BY <1>5, <1>6, CheckedShows, ShowsTwice, ShownIsClear
<1>9. Leads(live, c, now)
  BY <1>2, <1>7, CheckedFacts
<1> HIDE DEF c
<1>10. Fit(c, source, now) /\ c.lc.receipt = d.lc.receipt
  <2>1. Leads(d, c, now)
    BY <1>2, <1>7, <1>9, LeadsTwice
  <2> QED BY <1>2, <2>1, LeadsMoves DEF Moves
<1>11. Answers(c.lc, done.d.lc, q, done.result)
  BY <1>2, <1>4, <1>10, RuntimeRequestedServes
<1>12. /\ Shows(c, done.d)
       /\ (/\ \A r \in c.lc.receipt : r.request # q
           /\ done.result.error = "none" /\ q.action \notin {"Cancel", "Manual"})
            => q.expected = c.lc.revision
  BY <1>4, <1>8, RuntimeRequestedShows
<1> HIDE DEF done
<1>13. Shows(d, d')
  BY <1>1, <1>5, <1>6, <1>8, <1>12, ShowsTwice
<1>14. ASSUME q.action \in {"Select", "Arm", "PrepareNow"},
              NEW r \in d'.lc.receipt, r.request = q, r.result.error = "none",
              r \notin d.lc.receipt
       PROVE  m.seen = Seen(d.lc)
  <2>1. d' = done.d
    BY <1>1, <1>7, <1>14 DEF Leads, Untouched
  <2>2. done.d.lc.receipt = {[request |-> q, result |-> done.result]} /\ \A o \in c.lc.receipt : o.request # q
    BY <1>10, <1>11, <1>14, <2>1 DEF Answers
  <2>3. done.result.error = "none"
    BY <1>14, <2>1, <2>2
  <2>4. q.expected = c.lc.revision
    BY <1>12, <1>14, <2>2, <2>3
  <2>5. Knows(m, c.lc) /\ q.expected <= d.lc.revision /\ d.lc.revision \in Nat /\ c.lc.revision \in Nat
        /\ (d.lc.revision < c.lc.revision \/ Alike(d.lc, c.lc)) /\ q.expected \in Nat
    BY <1>4, <1>5, <1>8, KnowsStill DEF Clear, Shows, Tells, Legible, Knows
  <2>6. Alike(d.lc, c.lc) /\ m.seen = Seen(c.lc)
    BY <2>4, <2>5 DEF Knows
  <2> QED BY <2>6 DEF Alike, SeenFields, Seen
<1> QED BY <1>13, <1>14

\* Every step keeps what the browser's requests were made from.
LEMMA NextViews ==
  ASSUME IInv, ViewsOK, Next
  PROVE  ViewsOK' /\ (wire' = wire \/ wire = <<>> \/ wire' # Tail(wire) \/ Deliver)
<1>1. Clear(d)
  BY ClearFacts
<1>2. \A i \in DOMAIN wire : wire[i] \in Carried(wire)
  BY DEF Carried
<1>3. CASE Poll \/ Pass \/ Environment \/ Take \/ Leave \/ Jog
  <2>1. Shows(d, d')
    BY <1>1, <1>3, PollShows, PassShows, EnvironmentShows, OperatorShows
  <2>2. wire' = wire /\ asked' = asked
    BY <1>3 DEF Poll, Pass, PassBegins, PassEnds, Environment, Feedback, FeedbackFails, Network,
                Sync, Publish, Ticks, Take, Leave, Jog
  <2> QED BY <1>2, <2>1, <2>2, ShownViews
<1>4. CASE Deliver
  <2>1. wire' = Tail(wire) /\ asked' = asked /\ wire # <<>>
    BY <1>4 DEF Deliver
  <2>2. \A i \in DOMAIN wire' : wire'[i] \in Carried(wire)
    BY <2>1, TailCarries DEF IInv, RequestsOK
  <2>3. Shows(d, d')
    BY <1>4, DeliverShows
  <2> QED BY <1>4, <2>1, <2>2, <2>3, ShownViews
<1>5. CASE Send
  <2>1. wire = <<>>
    BY <1>5 DEF Send
  <2> QED BY <1>5, <2>1, SendViews
<1>6. CASE Resend
  BY <1>6, ResendViews
<1> QED BY <1>3, <1>4, <1>5, <1>6 DEF Next, Browser

\* The system starts with the request that its receipt answers.
LEMMA InitViews ==
  ASSUME Init
  PROVE  ViewsOK
<1>1. PICK b \in Boots : d = b.d
  BY DEF Init
<1>2. d.lc.revision \in Nat /\ \A r \in d.lc.receipt : r.request.expected \in 0 .. d.lc.revision
  BY <1>1, BootsAreReachable
<1>3. asked = {[intent |-> r.request, seen |-> Seen(d.lc)] : r \in d.lc.receipt} /\ wire = <<>>
  BY DEF Init
<1>4. \A a \in asked : Knows(a, d.lc)
  BY <1>2, <1>3 DEF Knows
<1> QED BY <1>2, <1>3, <1>4 DEF ViewsOK

\* What the requests were made from (TrackingInvariant) is known in every state.
THEOREM ViewsAreKept == Spec => []ViewsOK
<1>1. Init => ViewsOK
  BY InitViews
<1>2. IInv /\ ViewsOK /\ [Next]_vars => ViewsOK'
  <2>1. ASSUME ViewsOK, UNCHANGED vars PROVE ViewsOK'
    BY <2>1 DEF vars, ViewsOK, Knows
  <2> QED BY <2>1, NextViews
<1> QED BY <1>1, <1>2, Invariance, PTL DEF Spec

\* A request towards a pass is carried out only on the selection, job and plan
\* that its sender was looking at (lifecycle.rs apply, the state revision).
THEOREM OnlyWhatWasSeenIsArmed == Spec => ArmsWhatWasSeen
<1>1. IInv /\ ViewsOK /\ [Next]_vars
        => [(/\ wire' # wire /\ wire # <<>> /\ wire' = Tail(wire)
             /\ Head(wire).intent.action \in {"Select", "Arm", "PrepareNow"}
             /\ \E r \in d'.lc.receipt : /\ r.request = Head(wire).intent /\ r.result.error = "none"
                                         /\ r \notin d.lc.receipt)
              => Head(wire).seen = Seen(d.lc)]_vars
  BY NextViews, DeliverShows
<1> QED BY <1>1, Invariance, ViewsAreKept, PTL DEF Spec, ArmsWhatWasSeen
=============================================================================
