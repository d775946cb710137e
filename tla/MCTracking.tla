----------------------------- MODULE MCTracking -----------------------------
(***************************************************************************)
(* Tracking on one axis, for TLC.                                          *)
(***************************************************************************)
EXTENDS TrackingInvariant

CONSTANTS az, s1, s2, First, Last

\* The pass under way, the same pass in a later forecast, and another
\* satellite's.
Mine == [sat |-> s1, aos |-> First, los |-> Last]
Moved == [sat |-> s1, aos |-> First + 1, los |-> Last]
Other == [sat |-> s2, aos |-> First, los |-> Last]

Passes == {Mine, Moved, Other}
OnePass == {Mine}
AnyForecast == {{}, {Moved}, {Mine, Moved}, {Other}}

Sources(others) == [s \in {s1, s2} |->
  [sat |-> s, rev |-> IF s = s1 THEN 2 ELSE 1, until |-> 40,
   events |-> IF s = s1 THEN {Mine} ELSE others]]
OneSource == Sources({})

None == [what \in Unusual |-> 0]

\* Everything begins at the device's last output pass.
From(devices, forecasts, budgets) ==
  {[d |-> dev, source |-> forecasts, now |-> dev.applied, left |-> budget] :
     dev \in devices, budget \in budgets}

\* A device with the pass selected, its plan accepted, and armed.
Ask(dev, seq, action) ==
  RuntimeRequested(Checked(dev, dev.applied),
                   [token |-> 0, seq |-> seq, expected |-> dev.lc.revision,
                    action |-> action, event |-> Mine], dev.applied).d
Chosen == Ask(Rest, 1, "Select")
PlannedOn(chosen, gaps) ==
  LET at == chosen.applied
      refreshed == RuntimeRefreshed(Checked(chosen, at), {Mine},
                     [orbit |-> 2, clock |-> 1, start |-> chosen.startRev], at)
      job == [inputs |-> InputsOf(The(refreshed.lc.ticket), OneSource[s1], The(refreshed.clock)),
              start |-> The(RestingStarts(refreshed, at))]
  IN  {PlanPublished(Checked(refreshed, at), job.inputs, found, at) :
         found \in {f \in Findings(job) \ {{}} : {g.late : g \in (The(f)).gap} = gaps}}
Planned1(gaps) == PlannedOn(Chosen, gaps)
Armed1(gaps) == {Ask(dev, 2, "Arm") : dev \in Planned1(gaps)}

\* The device with the pass selected whose feedback failed, and came back after
\* the output pass of the next unit: it is at rest, and not recorded to be.
Unrecorded ==
  LET failed == FeedbackPublished(Chosen, FALSE, Rest.sample, Coast)
      taking == Serviced(InputTaken(failed, Coast + 1), Coast + 1)
      passed == OutputServiced(taking, FALSE, Coast + 1)
  IN  FeedbackPublished(passed, TRUE, {[s EXCEPT !.at = Coast + 1] : s \in Rest.sample}, Coast + 1)

\* The network failed, and control with it.
Cut(devices) == {NetworkPublished(dev, FALSE, dev.applied) : dev \in devices}

\* Two requests of a device at rest, or one of a device that can be armed.
RequestBoots ==
  From({Rest}, Sources({Other}),
       {[None EXCEPT !["sends"] = 2, !["resends"] = 1],
        [None EXCEPT !["sends"] = 1, !["publications"] = 1]})
    \cup From(Planned1({}), OneSource,
              {[None EXCEPT !["sends"] = 1, !["resends"] = 1, !["publications"] = 1],
               [None EXCEPT !["sends"] = 1, !["resends"] = 1, !["grants"] = 2]})

FreezeBoots ==
  From(Armed1({}), OneSource,
       {[None EXCEPT !["publications"] = 1, !["poses"] = 1],
        [None EXCEPT !["syncs"] = 1],
        [None EXCEPT !["outages"] = 2],
        [None EXCEPT !["late"] = 1, !["gaps"] = 1],
        [None EXCEPT !["faults"] = 1, !["grants"] = 1, !["extras"] = 1]})
    \cup From(PlannedOn(Unrecorded, {}), OneSource,
              {[None EXCEPT !["sends"] = 1, !["jogs"] = 1]})
    \cup From(Cut(Planned1({})), OneSource,
              {[None EXCEPT !["sends"] = 1, !["grants"] = 1]})
    \cup From(Cut(PlannedOn(Unrecorded, {})), OneSource,
              {[None EXCEPT !["sends"] = 1, !["jogs"] = 1, !["grants"] = 1]})

\* A dish that is moved by hand after feedback was lost and found.
StartBoots == From(Planned1({}), OneSource, {[None EXCEPT !["gaps"] = 1, !["jogs"] = 1]})

\* A whole pass, one with a gap, and one that is joined late, with the
\* executor stalled for a unit in each.
RunBoots ==
  From(Armed1({}), OneSource, {[None EXCEPT !["stalls"] = 1]})
    \cup From(Armed1({FALSE}), OneSource, {[None EXCEPT !["slips"] = 1, !["stalls"] = 1]})
    \cup From(Armed1({TRUE}), OneSource, {[None EXCEPT !["stalls"] = 1]})

-----------------------------------------------------------------------------
(* Serial numbers and revisions are only compared for equality with the    *)
(* current ones, so a state is known by whether they are.  The last entries *)
(* are always TRUE: they make TLC evaluate the functions before it stores a *)
(* state.                                                                  *)

\* How far ahead an instant lies, and how far back up to what is ever asked.
Ahead(t) == IF t > now THEN t - now ELSE 0
Behind(t, most) == IF now - t < most THEN now - t ELSE most
Memory == Coast + RecoveryDwell + FeedbackMaxAge + 1
Ago(instants) == {Behind(t, Memory) : t \in instants}
Running == d.lc.run # {}
\* How far the newest sample and the clock are past an instant, up to a limit.
Past(t, most) ==
  <<Behind(t, most), {IF s.at < t THEN 0 ELSE IF s.at - t < most THEN s.at - t ELSE most
                        : s \in d.sample}>>
PastAll(instants, most) == {Past(t, most) : t \in instants}

RevsView(r) ==
  <<\E s \in d.lc.selection : r.orbit = source[s.original.sat].rev, r.orbit = 0,
    \E a \in d.clock : a.rev = r.clock, r.start = d.startRev>>
TicketView(t) == <<{t} = d.lc.ticket, t.pass, RevsView(t.revs), t.timing>>
InputsView(i) ==
  <<TicketView(i.ticket), i.orbit = source[i.ticket.pass.sat].rev, i.until, i.anchor.at,
    i.anchor.offset, {i.anchor} = d.clock>>
StartView(s) == <<s.at, s.sampled, s.pose, s.turned = d.out.turned, s.at >= s.turned + Coast,
                  s.sampled >= s.turned + Coast, s.generation = d.gate.generation>>
PlanView(p) ==
  <<InputsView(p.inputs), StartView(p.start), p.prepareAt, p.preparation, p.gap, p.freezeBefore>>
AnswerView(r) == <<r.error, r.revision = 0, r.revision = d.lc.revision>>
IntentView(m) == <<m.token \in d.lc.token, m.action, m.event, m.expected = d.lc.revision,
                   m \in {a.intent : a \in asked}>>
EnvelopeView(e) == IF e = Stop THEN <<>>
                   ELSE <<e.command, Ahead(e.until), e.by.run = d.lc.run,
                          e.by.sampled >= d.out.turned + Coast, {i.launch : i \in e.by.launch}>>
PolicyView ==
  LET lc == d.lc
  IN  <<lc.token = {}, lc.mode, lc.phase, {<<s.original, s.current>> : s \in lc.selection},
        {RevsView(r) : r \in lc.revs}, lc.timing, {TicketView(t) : t \in lc.ticket},
        {PlanView(p) : p \in lc.plan}, lc.status, lc.run # {},
        {<<r.started, r.deadline>> : r \in lc.recovery}, lc.handled, lc.armedBy,
        {<<IntentView(r.request), AnswerView(r.result)>> : r \in lc.receipt},
        {EnvelopeView(e) : e \in lc.box}>>
\* Of a search's start it only matters whether it still is the device's.
SearchView(s) ==
  <<s.launch, s.start.turned = d.out.turned, s.start.generation = d.gate.generation>>
StartPoses == UNION {{s.start.pose : s \in r.search \cup r.intercept} : r \in UNION {e.rec : e \in d.exec}}
SampleView(s) ==
  <<s.at, s.error, IF Running THEN s.pose \in StartPoses ELSE s.pose>>
FollowerView(fs) == {<<f.active, PastAll(f.stopped, Coast), f.releasing>> : f \in fs}
RecoveryView(r) ==
  <<r.episode \in d.lc.recovery, {SearchView(s) : s \in r.search},
    {<<SearchView(i), i.join>> : i \in r.intercept}, FollowerView(r.follower), Ahead(r.retryAt),
    {Behind(t, ControlStep + 1) : t \in r.last}, r.pending>>
ExecutionView(e) ==
  <<e.seen = d.sample, {SampleView(s) : s \in e.seen}, {Behind(t, FeedbackMaxAge + 1) : t \in e.current},
    IF d.lc.phase = "Reacquiring" THEN {} ELSE PastAll(e.above, RecoveryEnter),
    PastAll(e.below, RecoveryDwell), FollowerView(e.follower),
    {Behind(t, ControlStep + 1) : t \in e.control},
    IF d.lc.phase = "Preparing" THEN <<Ago(e.since), Ago(e.read)>> ELSE <<>>,
    {RecoveryView(r) : r \in e.rec}>>
GuardView(g) == [a \in Axis |->
  <<g.relay[a].target, g.relay[a].actual, g.relay[a].last, Ahead(g.relay[a].onUntil),
    Ahead(g.relay[a].offUntil), Ahead(g.relay[a].reverseUntil), Ahead(g.lease), g.lease = NoLease>>]
DeviceView ==
  <<PolicyView, d.bound = {d.gate.generation}, d.bound = {}, {ExecutionView(e) : e \in d.exec},
    {<<a.at, a.offset>> : a \in d.clock},
    {Earlier(t + NetworkTimeout, MaxTime + 1) : t \in d.gate.observed}, d.healthy, {SampleView(s) : s \in d.sample},
    GuardView(d.out.guard), d.out.fault, Past(d.out.turned, Coast + RecoveryDwell),
    d.out.generation = d.gate.generation,
    IF Running THEN <<d.applied = now>>
    ELSE <<d.applied, {<<i.pose, i.turned = d.out.turned,
                                i.generation = d.gate.generation>> : i \in d.identity}>>>>
WireView(m) ==
  <<IntentView(m.intent), m.until > now, m.generation = d.gate.generation, m.seen = Seen(d.lc)>>
Known ==
  <<DeviceView, now, acted, mid, left,
    {<<source[s].until, source[s].events>> : s \in DOMAIN source},
    {<<InputsView(w.inputs), StartView(w.start)>> : w \in work},
    [i \in DOMAIN wire |-> WireView(wire[i])],
    {<<IntentView(a.intent), a.seen = Seen(d.lc)>> : a \in asked},
    pledged = {d.gate.generation}, {AnswerView(r) : r \in replies}, astray, PastAll(streak, RecoveryDwell),
    d.out.guard \in Guard, \A e \in d.lc.box : e.command \in Command>>

\* When a run is over and nobody can ask for another, only the output is left.
Over == d.lc.mode # "Tracking" /\ d.lc.phase \in {"Complete", "Stopped"} /\ d.exec = {}
        /\ wire = <<>> /\ left["sends"] + left["resends"] + left["jogs"] = 0
KnownRun ==
  IF ~Over THEN Known
  ELSE <<d.lc.phase, d.lc.mode, {EnvelopeView(e) : e \in d.lc.box}, GuardView(d.out.guard),
         d.out.fault, now, acted, mid, left, d.out.guard \in Guard,
         \A e \in d.lc.box : e.command \in Command>>
=============================================================================
