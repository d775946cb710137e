-------------------------- MODULE TrackingInvariant --------------------------
(***************************************************************************)
(* What holds of every state of Tracking: its inductive invariant IInv,    *)
(* what is known of the views that requests were made from (ViewsOK), of a *)
(* launch that waits in the mailbox (LaunchesOK) and of a dwell near the   *)
(* route (MeasuresOK), and what the device, the publications and the       *)
(* instant a system starts from have to satisfy, which TLC checks of the   *)
(* devices it starts from.  TrackingProofs proves the first two invariant  *)
(* and RecoveryProofs the other two.                                       *)
(***************************************************************************)
EXTENDS Tracking, Integers

ASSUME TimesAreTyped ==
  /\ \A e \in Event : e.aos \in Nat /\ e.los \in Nat
  /\ Offsets \subseteq Int /\ Recoveries \subseteq Nat
  /\ Preparation \in Nat /\ PlanLead \in Nat /\ MaxTime \in Nat
ASSUME ForecastsAreOfEvents == \A f \in Forecasts : f \subseteq Event

PolicyFields == {"token", "revision", "serial", "mode", "phase", "selection", "revs", "timing",
                 "ticket", "plan", "status", "run", "recovery", "handled", "armedBy", "ended",
                 "receipt", "box"}
PlanFields == {"inputs", "start", "gap", "prepareAt", "preparation", "freezeBefore"}
ExecutionFields == {"run", "aos", "seen", "current", "above", "below", "follower", "control",
                    "since", "read", "rec"}
RecoveryFields == {"episode", "search", "intercept", "follower", "retryAt", "last", "pending"}
OutputFields == {"guard", "generation", "fault", "turned"}
DeviceFields == {"lc", "bound", "exec", "clock", "gate", "healthy", "sample", "out", "applied",
                 "startRev", "identity"}

\* A record with exactly these fields, whatever their values.
Has(x, fields) == x = [f \in fields |-> x[f]]

Few(S) == \A x, y \in S : x = y

Selection == [id : Nat, original : Event, current : SUBSET Event]
Revision == [orbit : Nat, clock : Nat, start : Nat]
Anchor == [rev : Nat, at : Nat, offset : Int]

\* A plan that may be accepted, but for its times.
PlanOK(p) ==
  /\ Has(p, PlanFields)
  /\ p.inputs.window.aos \in Int /\ p.inputs.window.los \in Int
  /\ p.prepareAt \in Int /\ p.preparation \in Nat /\ p.freezeBefore \in Int
  /\ p.freezeBefore <= p.inputs.window.los
  /\ Few(p.gap)
  /\ \A g \in p.gap : /\ g.late \in BOOLEAN /\ g.recoveryAt \in Int
                      /\ p.inputs.window.aos <= g.recoveryAt

EnvelopeOK(e) == e.command \in Command /\ e.until \in Nat

-----------------------------------------------------------------------------
(* The policy.                                                             *)

\* The phases of the policy, and what it holds in each.
InPhase(lc) ==
  \/ /\ lc.mode = "Manual" /\ lc.phase \in {"Idle", "Complete", "Cancelled", "Stopped"}
     /\ lc.run = {} /\ lc.recovery = {}
  \/ lc.mode = "Tracking" /\ lc.phase = "Armed" /\ lc.run = {} /\ lc.recovery = {}
  \/ /\ lc.mode = "Tracking" /\ lc.phase \in {"Preparing", "Ready", "Following"}
     /\ lc.run # {} /\ lc.recovery = {}
  \/ lc.mode = "Tracking" /\ lc.phase = "Reacquiring" /\ lc.run # {} /\ lc.recovery # {}

PolicyOK(lc) ==
  /\ Has(lc, PolicyFields)
  /\ InPhase(lc)
  /\ lc.run # {} => lc.plan # {} /\ lc.status = "Frozen"
  /\ Few(lc.token) /\ Few(lc.selection) /\ Few(lc.ticket) /\ Few(lc.plan) /\ Few(lc.run)
  /\ Few(lc.recovery) /\ Few(lc.box) /\ Few(lc.receipt)
  /\ lc.serial \in Nat
  /\ \A s \in lc.selection : s \in Selection
  /\ \A r \in lc.revs : r \in Revision
  /\ \A t \in lc.ticket : t.pass \in Event
  /\ \A p \in lc.plan : PlanOK(p) /\ ValidPlan(p)
  /\ \A r \in lc.recovery : r.deadline \in Int
  /\ \A t \in lc.armedBy : t \in Int
  /\ \A e \in lc.box : EnvelopeOK(e)

\* Nothing of the policy is due at an instant.
Quiet(lc, t) ==
  /\ lc.phase = "Armed" => \A a \in lc.armedBy : t < a
  /\ lc.run = {} => \A p \in lc.plan : /\ t < p.freezeBefore
                                       /\ lc.phase = "Armed" => t < p.prepareAt
  /\ lc.run # {} =>
       /\ t < PassOf(lc).los
       /\ \A r \in lc.recovery : t < r.deadline
       /\ lc.phase \in {"Preparing", "Ready"} => t < PassOf(lc).aos
       /\ lc.handled \/ \A g \in Theplan(lc).gap : t < g.recoveryAt

-----------------------------------------------------------------------------
(* The device.                                                             *)

ExecutionsOK(exec) == Few(exec) /\ \A e \in exec : Has(e, ExecutionFields)

\* A guard holds a lease whenever it moves or is going to, and none that is
\* longer than one granted at an instant.
OutputOK(out, at) ==
  /\ Has(out, OutputFields)
  /\ out.guard \in Guard
  /\ (IsActive(Actual(out.guard)) \/ IsActive(Target(out.guard))) <=> out.guard.lease # NoLease
  /\ out.guard.lease <= at + MovementLease

\* The end of every episode is known.
Dated(lc) == \A r \in lc.recovery : r.deadline \in Nat

DeviceOK(x) ==
  /\ Has(x, DeviceFields)
  /\ PolicyOK(x.lc) /\ Dated(x.lc)
  /\ ExecutionsOK(x.exec)
  /\ Few(x.clock) /\ x.clock \subseteq Anchor
  /\ Few(x.sample)
  /\ x.gate \in [observed : SUBSET Nat, generation : Nat]
  /\ x.applied \in Nat /\ x.startRev \in Nat
  /\ OutputOK(x.out, x.applied)

Originals(lc) == {s.original : s \in lc.selection}

\* A device among the publications s at the instant t: what the policy knows
\* of them is not newer than what there is.
Sound(x, s, t) ==
  /\ DeviceOK(x)
  /\ x.applied <= t
  /\ \A r \in x.lc.recovery : r.deadline <= t + RecoveryLimit
  /\ \A r \in x.lc.revs :
       /\ \A a \in x.clock : r.clock <= a.rev
       /\ r.start <= x.startRev
       /\ \A e \in Originals(x.lc) : r.orbit <= s[e.sat].rev

\* An armed pass is bound to the network generation of now, which has not been
\* lost.
Guarded(x) ==
  x.lc.mode = "Tracking" => x.bound = {x.gate.generation} /\ x.gate.observed # {}

\* A plan that can be armed is bound to no generation yet.
Free(x) == (x.lc.mode = "Manual" /\ x.lc.plan # {}) => x.bound = {}

\* A service of the output leaves nothing due.
Prompt(x, t) == x.applied = t => Quiet(x.lc, t)

-----------------------------------------------------------------------------
(* The system.                                                             *)

SourcesOK(s) ==
  /\ Sats \subseteq DOMAIN s
  /\ \A x \in Sats : s[x].rev \in Nat /\ s[x].events \subseteq Event
  /\ Sats # {} => \E x \in Sats : \A y \in Sats : s[y].rev <= s[x].rev

JobOK(w) ==
  /\ w.inputs.window.aos \in Int /\ w.inputs.window.los \in Int
  /\ w.inputs.anchor \in Anchor /\ w.start.at \in Nat

RequestOK(q) ==
  /\ q.action \in {"Select", "Arm", "PrepareNow", "Cancel", "Manual"}
  /\ q.action = "Select" => q.event \in Event

\* Whatever is on its way is the browser's last request, and its lasting reply
\* is in the policy's receipt.
WireOK(messages, intents) ==
  /\ messages \in Seq({messages[i] : i \in DOMAIN messages})
  /\ \A i \in DOMAIN messages : messages[i].intent \in intents

RequestsOK ==
  /\ Few(asked) /\ \A a \in asked : RequestOK(a.intent)
  /\ WireOK(wire, {a.intent : a \in asked})
  /\ replies # {} => \E a \in asked, r \in d.lc.receipt :
                       r.request = a.intent /\ replies = {r.result}

\* Since when a run has been off its route.
AstrayOK(x, since, t) ==
  /\ since # {} => OffRoute(x, t)
  /\ \A a \in since : /\ a \in Int /\ PassOf(x.lc).aos <= a /\ a <= t
                       /\ \A r \in x.lc.recovery : r.deadline <= a + RecoveryLimit

\* What a request was made from: a policy no newer than the one of now, and
\* the very same as far as an operator sees it if no revision has passed.
Knows(x, lc) ==
  /\ x.intent.expected \in Nat /\ x.intent.expected <= lc.revision
  /\ x.intent.expected = lc.revision => x.seen = Seen(lc)

ViewsOK ==
  /\ d.lc.revision \in Nat
  /\ \A a \in asked : Knows(a, d.lc)
  /\ \A i \in DOMAIN wire : Knows(wire[i], d.lc)

\* The envelopes that carry out a launch.
Launches(box) == {e \in box \ {Stop} : e.by.launch # {}}

\* The execution of an episode whose launch waits in the box: with the command
\* it would have to give up, it also takes back the command.
Awaited(ex, lc, i) ==
  /\ lc.run = {ex.run}
  /\ \E r \in ex.rec : ex.rec = {r} /\ r.pending /\ i \in r.intercept /\ lc.recovery = {r.episode}

\* A device that is about to carry out the launch i by the envelope e.
Launching(x, e, i) ==
  /\ x.lc.box = {e} /\ e.command.kind # "Inhibit"
  /\ x.lc.phase = "Reacquiring" /\ x.lc.plan # {}
  /\ \E ex \in x.exec : x.exec = {ex} /\ Awaited(ex, x.lc, i)

\* A dish that is as the intercept i assumed it at its launch.
InPlace(x, i) == x.out.turned = i.start.turned /\ {s.pose : s \in x.sample} = {i.start.pose}

\* Executions and their episodes are records.
Formed(exec) ==
  \A e \in exec : Has(e, ExecutionFields) /\ \A r \in e.rec : Has(r, RecoveryFields)

\* The launches of a device are those of one instant, to be taken up by now.
LaunchesAt(x, instant) ==
  /\ Formed(x.exec)
  /\ \A e \in Launches(x.lc.box) : \A i \in e.by.launch :
       instant = {i.launch} /\ Launching(x, e, i) /\ InPlace(x, i)

\* A launch only waits between the halves of the pass that began at its instant.
LaunchesOK == LaunchesAt(d, mid)

-----------------------------------------------------------------------------
(* Dwells.                                                                 *)

\* Every execution is the current run's.
InStep(x) == \A e \in x.exec : x.lc.run = {e.run}

\* What an execution's dwell near the route stands for: it began with a sample
\* of this pass, no earlier than the streak k of good ones, and the last sample
\* is good.
DwellOK(e, k) ==
  /\ Few(e.rec) /\ e.aos \in Int /\ \A s \in e.seen : s.at \in Int
  /\ \A b \in e.below : b \in Int /\ e.aos <= b /\ \E u \in k : u <= b
  /\ e.below # {} => e.seen # {}
  /\ \A s \in e.seen, b \in e.below : s.error = "good" /\ b <= s.at

\* Nothing dwells near a route that has not begun.
DwellsOK(x, k) ==
  \A e \in x.exec :
    x.lc.run = {e.run} =>
      DwellOK(e, k) /\ (e.below # {} => x.lc.phase \notin {"Preparing", "Ready"})

\* A good sample belongs to the streak k of good ones.
StreakOK(x, k) ==
  \A s \in x.sample :
    s.at \in Int /\ (x.healthy /\ s.error = "good" => \E u \in k : u <= s.at)

\* A device that knows at the instant t since when it has been near its route.
Measures(x, k, t) == k \subseteq 0 .. t /\ InStep(x) /\ DwellsOK(x, k) /\ StreakOK(x, k)

MeasuresOK == Measures(d, streak, now)

-----------------------------------------------------------------------------
(* The inductive invariant.                                                *)

IInv ==
  /\ now \in 0 .. MaxTime /\ mid \subseteq 0 .. now
  /\ SourcesOK(source)
  /\ Sound(d, source, now) /\ Guarded(d) /\ Free(d) /\ Prompt(d, now)
  /\ Few(work) /\ \A w \in work : JobOK(w)
  /\ RequestsOK
  /\ d.lc.mode = "Tracking" => pledged = {d.gate.generation}
  /\ AstrayOK(d, astray, now)

\* The devices to start from are ones the system can be in.
ASSUME BootsAreReachable ==
  \A b \in Boots :
    /\ b.now \in 0 .. MaxTime /\ SourcesOK(b.source)
    /\ Sound(b.d, b.source, b.now) /\ Guarded(b.d) /\ Free(b.d) /\ Prompt(b.d, b.now)
    /\ b.d.lc.revision \in Nat
    /\ Formed(b.d.exec) /\ Launches(b.d.lc.box) = {}
    /\ \A r \in b.d.lc.receipt :
         RequestOK(r.request) /\ r.request.expected \in 0 .. b.d.lc.revision

\* They count a dwell from their first instant, as streak does.
ASSUME BootsAreMeasured == \A b \in Boots : Measures(b.d, {b.now}, b.now)
=============================================================================
