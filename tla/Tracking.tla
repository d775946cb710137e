------------------------------ MODULE Tracking ------------------------------
(***************************************************************************)
(* One armed pass from its selection to its end: the device (Runtime), the *)
(* planning worker of crates/ezal-firmware/src/tracking.rs, the output     *)
(* task of drive.rs, the publications of prediction.rs, time.rs and the    *)
(* network supervisor, and one browser whose requests travel to it.        *)
(*                                                                         *)
(* The executor is cooperative: a task runs alone until it awaits, so a    *)
(* worker poll, a publication and each half of an output pass are one step *)
(* each.  Between the two halves of a pass only time can pass.  Feedback,  *)
(* network supervision and the output pass happen once in every unit of    *)
(* time; whatever is late, lost, wrong or repeated is paid for from        *)
(* `left`, the environment's budget for it.                                *)
(***************************************************************************)
EXTENDS Runtime, Sequences, FiniteSets

CONSTANTS
  Event,          \* the passes a forecast can hold: [sat, aos, los], in UTC
  Forecasts,      \* the sets of events a publication can carry
  Lifetimes,      \* until when published elements can be propagated, in UTC
  Offsets,        \* UTC minus uptime, as a time server may answer
  Errors,         \* how a measured pose compares with the target
  PlanLead,       \* the scheduled lead of a preparation before AOS
  Preparation,    \* how long a preparation takes
  Recoveries,     \* from AOS to a planned gap's recovery
  CommandMaxAge,  \* how long telemetry proves a request fresh
  Periodic,       \* the tasks that report once in every unit, or late
  Actions,        \* what a browser may ask for
  Boots,          \* what to start from, [d, source, now, left]: left is a budget,
                  \* how often the environment may do each unusual thing
  MaxTime         \* bound on now

VARIABLES
  d,        \* the device (Runtime)
  source,   \* satellite to its publication [sat, rev, until, events]
  work,     \* the worker's planner, {} or {[inputs, start]}
  wire,     \* requests on their way, in order
  now,
  acted,    \* the periodic tasks that ran in this unit of time
  mid,      \* between the halves of a pass: the instant it began, {} outside
  left,     \* what remains of the budget
  asked,    \* the browser's last request with what it saw, {} before
  pledged,  \* history: the network generation armed under, {} in Manual mode
  replies,  \* history: the lasting replies to the browser's last request
  astray,   \* history: since when a run has been off its route, {} on it
  streak    \* history: since when every sample was good, {} after another

hist == <<pledged, replies, astray, streak>>
vars == <<d, source, work, wire, now, acted, mid, left, asked, hist>>

\* syncs, publications, outages, faults and jogs are counts of those; poses of
\* a resting dish found elsewhere; gaps of feedback missed or failed; late of
\* output passes not begun in time, extras of such begun early, and slips of
\* such lasting into another unit; stalls of the whole executor for a unit;
\* sends, resends and grants of requests, repeated requests and changes of
\* operator.
Unusual == {"syncs", "publications", "outages", "poses", "gaps", "late", "slips", "stalls",
            "extras", "faults", "sends", "resends", "grants", "jogs"}

ASSUME PeriodicTasksExist == {"feedback", "pass"} \subseteq Periodic
                             /\ Periodic \subseteq {"feedback", "network", "pass"}
ASSUME ActionsExist == Actions \subseteq {"Select", "Arm", "PrepareNow", "Cancel", "Manual"}
ASSUME BudgetsAreNat == \A b \in Boots : b.left \in [Unusual -> Nat]

Sats == {e.sat : e \in Event}

Spend(what) == left[what] > 0 /\ left' = [left EXCEPT ![what] = @ - 1]

-----------------------------------------------------------------------------
(* History, which every step keeps and only some change otherwise.         *)

Since(e, at) == IF e = {} THEN {at} ELSE e

OffRoute(dev, at) ==
  dev.lc.phase \in {"Preparing", "Reacquiring"} /\ at >= PassOf(dev.lc).aos

Note ==
  /\ pledged' = IF d'.lc.mode = "Manual" THEN {}
                ELSE IF d.lc.mode = "Manual" THEN {d'.gate.generation} ELSE pledged
  /\ astray' = IF OffRoute(d', now') THEN Since(astray, now') ELSE {}
NoteOnly == Note /\ UNCHANGED <<replies, streak>>

-----------------------------------------------------------------------------
(* The planning worker.                                                    *)

\* The revisions the worker reports: the newest publication of the selected
\* satellite, the clock's sample and the start.
Revisions(live, publication) ==
  [orbit |-> publication.rev,
   clock |-> IF live.clock = {} THEN 0 ELSE The(live.clock).rev,
   start |-> live.startRev]

\* firmware refresh_inputs, after CoordinationState::advance.
RefreshedFrom(live, publication) ==
  RuntimeRefreshed(Checked(live, now), publication.events, Revisions(live, publication), now)

InputsRefreshed(dev, sources) ==
  IF dev.lc.selection = {} THEN dev
  ELSE RefreshedFrom(Advanced(dev, now), sources[The(dev.lc.selection).original.sat])

\* The plans a planner may complete: the whole pass, or what is left of it
\* after one recovery that can be measured before its episode ends.
Gaps(i) ==
  {g \in [late : BOOLEAN, recoveryAt : {i.window.aos + k : k \in Recoveries}] :
     g.recoveryAt + MeasuredRecovery + 1 < Earlier(g.recoveryAt + RecoveryLimit, i.window.los)}

Plan(job, gap) ==
  LET i == job.inputs
      lead == IF i.window.aos > PlanLead THEN i.window.aos - PlanLead ELSE 0
      scheduled == IF job.start.at > lead THEN job.start.at ELSE lead
      late == \E g \in gap : g.late
  IN  [inputs |-> i, start |-> job.start, gap |-> gap,
       prepareAt |-> IF late THEN (The(gap)).recoveryAt
                     ELSE IF i.ticket.timing = "Immediate" THEN job.start.at ELSE scheduled,
       preparation |-> IF late THEN 0 ELSE Preparation,
       freezeBefore |-> InputsDeadline(i)]

\* A pass that has begun can only be joined late.
Findings(job) ==
  {{}} \cup {{Plan(job, {g})} : g \in {g \in Gaps(job.inputs) :
                                         g.late \/ job.start.at < job.inputs.window.aos}}
       \cup (IF job.start.at < job.inputs.window.aos THEN {{Plan(job, {})}} ELSE {})

\* What start_job captures.
Jobs(dev, ticket, anchor) ==
  {[inputs |-> InputsOf(ticket, source[ticket.pass.sat], anchor), start |-> s] :
     s \in RestingStarts(dev, dev.applied)}

\* Planner::new refuses a start that was not measured after its coast, and a
\* pass that is over.
Plannable(job) == Settled(job.start) /\ job.start.at < job.inputs.window.los

\* start_job of what was captured, with its outcome: the device and the
\* worker's slot after it.
JobTried(live, ticket, jobs) ==
  LET job == The(jobs)
      captured == live.clock # {} /\ Captures(job.inputs, source[ticket.pass.sat], live.clock, now)
  IN  IF ~captured
        THEN [d |-> InputsRejected(Checked(live, now), ticket, now), work |-> {}]
      ELSE IF ~Plannable(job)
        THEN [d |-> PlanPublished(Checked(live, now), job.inputs, {}, now), work |-> {}]
      ELSE [d |-> live, work |-> jobs]

\* firmware start_job: without a dish at rest there is nothing to capture yet.
JobBegun(dev, ticket) ==
  IF RestingStarts(dev, dev.applied) = {} THEN [d |-> dev, work |-> {}]
  ELSE JobTried(Advanced(dev, now), ticket, UNION {Jobs(dev, ticket, a) : a \in dev.clock})

Searching(dev) == {r \in UNION {e.rec : e \in dev.exec} : r.search # {}}

\* step_reacquisition where it ends the search.
SearchDone(dev, join) ==
  [dev EXCEPT !.exec = {[e EXCEPT !.rec = {SearchEnded(r, join, now) : r \in @}] : e \in @}]

\* Only a job of the newest ticket is worked on.
Kept(ticket) == {w \in work : ticket = {w.inputs.ticket}}

\* A poll that leaves the search or the planner with more to do.
GoesOn(dev, ticket) ==
  IF Searching(dev) # {} \/ Kept(ticket) # {} \/ ticket = {}
    THEN d' = dev /\ work' = Kept(ticket)
    ELSE \E begun \in {JobBegun(dev, The(ticket))} : d' = begun.d /\ work' = begun.work

\* A poll whose unit ends the search, without or with a validated join.
FindsJoin(dev, ticket) ==
  /\ \E r \in Searching(dev) :
       \E join \in {{}} \cup {{j} : j \in Joins(r)} : d' = SearchDone(dev, join)
  /\ work' = Kept(ticket)

\* A poll whose unit completes the plan, which is then published.
Plans(dev, ticket) ==
  /\ Searching(dev) = {}
  /\ \E job \in Kept(ticket) :
       \E found \in Findings(job) :
         d' = PlanPublished(Checked(Advanced(dev, now), now), job.inputs, found, now)
  /\ work' = {}

\* One poll of firmware tracking.rs run: the refresh when it is due, the ticket
\* read then, and the service that precedes a step of a search.
Poll ==
  /\ mid = {}
  /\ \E refreshed \in {d, InputsRefreshed(d, source)} :
       \E dev \in {Serviced(Advanced(refreshed, now), now)} :
         LET ticket == PlanningTicket(refreshed.lc)
         IN  GoesOn(dev, ticket) \/ FindsJoin(dev, ticket) \/ Plans(dev, ticket)
  /\ UNCHANGED <<source, wire, acted, mid, left, asked, now>>
  /\ NoteOnly

-----------------------------------------------------------------------------
(* The output task.                                                        *)

\* The device once take_command has serviced it.
Taking == Serviced(InputTaken(d, now), now)

\* The first half of a pass: direction_task up to execute_tracking.
PassBegins(faulty, want) ==
  /\ mid = {}
  /\ IF "pass" \in acted THEN Spend("extras") ELSE UNCHANGED left
  /\ d' = TrackingExecuted(OutputServiced(Taking, faulty, now), want, now)
  /\ mid' = {now}
  /\ UNCHANGED <<source, work, wire, acted, asked, now>>
  /\ NoteOnly

\* The second half, at its own instant.
PassEnds(faulty) ==
  /\ mid # {}
  /\ d' = OutputServiced(Taking, faulty, now)
  /\ mid' = {}
  /\ acted' = IF mid = {now} THEN acted \cup {"pass"} ELSE acted
  /\ UNCHANGED <<source, work, wire, left, asked, now>>
  /\ NoteOnly

Pass ==
  \E faulty \in {FALSE} \cup {left["faults"] > 0}, want \in {FALSE} \cup {d.lc.run # {}} :
    PassBegins(faulty, want) \/ (~want /\ PassEnds(faulty))

-----------------------------------------------------------------------------
(* What else the device hears.                                             *)

\* The dish may have another pose than last measured while it moves or coasts,
\* or when something else moves it.
Swings == Moving(d.out) \/ now <= d.out.turned + Coast

\* The feedback task publishes a new sample.  How it compares with the target
\* matters to a run only.
Feedback ==
  \E pose \in 0 .. 1, error \in IF d.lc.run # {} THEN Errors ELSE {"good"} :
    LET s == [at |-> now, pose |-> pose, error |-> error]
    IN  /\ mid = {} /\ "feedback" \notin acted
        /\ IF Swings \/ {pose} = {x.pose : x \in d.sample} THEN UNCHANGED left
           ELSE Spend("poses")
        /\ d' = FeedbackPublished(d, TRUE, {s}, now)
        /\ streak' = IF error = "good" THEN Since(streak, now) ELSE {}
        /\ acted' = acted \cup {"feedback"}
        /\ UNCHANGED <<source, work, wire, mid, asked, now, replies>>
        /\ Note

\* A failed reading keeps the last valid sample.
FeedbackFails ==
  /\ mid = {} /\ "feedback" \notin acted /\ Spend("gaps")
  /\ d' = FeedbackPublished(d, FALSE, d.sample, now)
  /\ streak' = {}
  /\ acted' = acted \cup {"feedback"}
  /\ UNCHANGED <<source, work, wire, mid, asked, now, replies>>
  /\ Note

\* The network supervisor reports on the link and its address.
Network ==
  \E ready \in BOOLEAN :
    /\ mid = {} /\ "network" \in Periodic \ acted
    /\ IF ready THEN UNCHANGED left ELSE Spend("outages")
    /\ d' = NetworkPublished(d, ready, now)
    /\ acted' = acted \cup {"network"}
    /\ UNCHANGED <<source, work, wire, mid, asked, now>>
    /\ NoteOnly

\* firmware time.rs: a time server answered.
Sync ==
  \E offset \in Offsets :
    /\ mid = {} /\ Spend("syncs")
    /\ d' = ClockPublished(d, {[rev |-> a.rev + 1, at |-> now, offset |-> offset] :
                                 a \in d.clock}, now)
    /\ UNCHANGED <<source, work, wire, acted, mid, asked, now>>
    /\ NoteOnly

\* firmware prediction.rs: a catalog refresh replaces elements and forecast
\* together, and the inputs are refreshed from them at once.
Publish ==
  \E sat \in Sats, until \in Lifetimes, events \in Forecasts :
    LET newest == CHOOSE r \in {source[x].rev : x \in Sats} : \A x \in Sats : source[x].rev <= r
        next == [source EXCEPT ![sat] =
                  [sat |-> sat, rev |-> newest + 1, until |-> until, events |-> events]]
    IN  /\ mid = {} /\ Spend("publications")
        /\ \A e \in events : e.sat = sat
        /\ source' = next
        /\ d' = InputsRefreshed(d, next)
        /\ UNCHANGED <<work, wire, acted, mid, asked, now>>
        /\ NoteOnly

\* A pass that has been told everything due in this unit may end with it.  In
\* the middle of a pass only the pass itself can be what is slow.
Ticks ==
  LET missed == (IF mid = {} THEN Periodic ELSE Periodic \ {"pass"}) \ acted
      stalled == left["stalls"] > 0 /\ missed = Periodic
      cost(what) == IF stalled THEN IF what = "stalls" THEN 1 ELSE 0
                    ELSE IF what = "slips" /\ mid # {} THEN 1
                    ELSE IF what = "late" /\ "pass" \in missed THEN 1
                    ELSE IF what = "gaps" /\ "feedback" \in missed THEN 1
                    ELSE IF what = "outages" /\ "network" \in missed THEN 1 ELSE 0
  IN  /\ now < MaxTime
      /\ \A what \in DOMAIN left : cost(what) <= left[what]
      /\ left' = [what \in DOMAIN left |-> left[what] - cost(what)]
      /\ now' = now + 1
      /\ acted' = {}
      /\ d' = d
      /\ UNCHANGED <<source, work, wire, mid, asked>>
      /\ NoteOnly

-----------------------------------------------------------------------------
(* The browser.                                                            *)

\* What an operator sees of the device, and decides by.
Seen(lc) ==
  [selection |-> lc.selection, ticket |-> lc.ticket, plan |-> lc.plan, status |-> lc.status,
   mode |-> lc.mode]

\* Intents made from what the browser sees now: only a selection names an event.
Offered(action) == IF action = "Select" THEN UNION {source[s].events : s \in Sats}
                   ELSE {CHOOSE e \in Event : TRUE}

Intents ==
  UNION {{[token |-> t, seq |-> IF asked = {} THEN 1 ELSE The(asked).intent.seq + 1,
           expected |-> d.lc.revision, action |-> a, event |-> e] :
            t \in d.lc.token, e \in Offered(a)} : a \in Actions}

\* With each sending the page proves anew that it hears the device.
Message(a) ==
  [intent |-> a.intent, seen |-> a.seen,
   until |-> now + CommandMaxAge, generation |-> d.gate.generation]

Send ==
  \E intent \in Intents :
    LET a == [intent |-> intent, seen |-> Seen(d.lc)]
    IN  /\ mid = {} /\ wire = <<>> /\ Spend("sends")
        /\ wire' = <<Message(a)>>
        /\ asked' = {a}
        /\ replies' = {}
        /\ UNCHANGED <<d, source, work, acted, mid, now, streak>>
        /\ Note

\* The reply was lost, or is late: a client asks the same once more.  The
\* repository's own page never does, but the device cannot know that.
Resend ==
  \E a \in asked :
    /\ mid = {} /\ Len(wire) < 2 /\ Spend("resends")
    /\ wire' = Append(wire, Message(a))
    /\ UNCHANGED <<d, source, work, acted, mid, asked, now>>
    /\ NoteOnly

\* protocol/tracking.rs authorize: movement towards a pass needs a recent
\* observation, cancellation only the grant.
Authorized(m, dev) ==
  /\ m.intent.token \in dev.lc.token
  /\ m.intent.action \in {"Cancel", "Manual"} \/
       (now < m.until /\ m.generation = dev.gate.generation)

\* Refusals that leave no receipt may end differently another time.
Lasting(result) == result.error \notin {"Lease", "RequestOrder", "Network"}

Answered(asking) ==
  /\ d' = asking.d
  /\ replies' = IF Lasting(asking.result) THEN replies \cup {asking.result} ELSE replies

\* CoordinationState::request_tracking.
Deliver ==
  LET m == Head(wire)
      offered == m.intent.action # "Select" \/ m.intent.event \in source[m.intent.event.sat].events
  IN  /\ mid = {} /\ wire # <<>>
      /\ wire' = Tail(wire)
      /\ \E live \in {Advanced(d, now)} :
           IF Authorized(m, live) /\ offered
             THEN Answered(RuntimeRequested(Checked(live, now), m.intent, now))
             ELSE d' = live /\ replies' = replies
      /\ UNCHANGED <<source, work, acted, mid, left, asked, now, streak>>
      /\ Note

\* CoordinationState::take_control, where control is vacant.
Take ==
  /\ mid = {} /\ d.lc.token = {} /\ Ready(d.gate, now) /\ Spend("grants")
  /\ d' = [Serviced(Advanced(d, now), now) EXCEPT !.lc = Claimed(@, left["grants"])]
  /\ UNCHANGED <<source, work, wire, acted, mid, asked, now>>
  /\ NoteOnly

\* release_client, and a lease that is not renewed.
Leave ==
  /\ mid = {} /\ d.lc.token # {} /\ Spend("grants")
  /\ d' = [Serviced(Advanced(d, now), now) EXCEPT !.lc = Unowned(@)]
  /\ UNCHANGED <<source, work, wire, acted, mid, asked, now>>
  /\ NoteOnly

\* CoordinationState::accept_command, for a press.
Jog ==
  \E t \in d.lc.token :
    LET e == [command |-> [kind |-> "Jog", drive |-> [a \in Axis |-> "up"]],
              until |-> now + MovementLease,
              by |-> [run |-> {}, sampled |-> now, launch |-> {}]]
    IN  /\ mid = {} /\ Spend("jogs")
        /\ d' = RuntimeJogged(Serviced(Advanced(d, now), now), t, e, now)
        /\ UNCHANGED <<source, work, wire, acted, mid, asked, now>>
        /\ NoteOnly

-----------------------------------------------------------------------------

\* A device on which everything has been reported once and one browser has
\* control, with the coast since boot over.
Rest ==
  LET dev == [lc |-> [Boot EXCEPT !.token = {0}], bound |-> {}, exec |-> {},
              clock |-> {[rev |-> 1, at |-> 0, offset |-> 0]},
              gate |-> [observed |-> {Coast}, generation |-> 1],
              healthy |-> TRUE, sample |-> {[at |-> Coast, pose |-> 0, error |-> "good"]},
              out |-> [guard |-> NewGuard, generation |-> 1, fault |-> FALSE, turned |-> 0],
              applied |-> Coast, startRev |-> 2, identity |-> {}]
  IN  [dev EXCEPT !.identity = Identity(dev, Coast)]

Init ==
  /\ \E b \in Boots : d = b.d /\ source = b.source /\ now = b.now /\ left = b.left
  /\ work = {} /\ wire = <<>>
  /\ asked = {[intent |-> r.request, seen |-> Seen(d.lc)] : r \in d.lc.receipt}
  /\ acted = {} /\ mid = {}
  /\ pledged = IF d.lc.mode = "Manual" THEN {} ELSE {d.gate.generation}
  /\ replies = {}
  /\ astray = IF OffRoute(d, now) THEN {now} ELSE {}
  /\ streak = {now}

Environment == Feedback \/ FeedbackFails \/ Network \/ Sync \/ Publish \/ Ticks
Browser == Send \/ Resend \/ Deliver \/ Take \/ Leave \/ Jog

Next == Poll \/ Pass \/ Environment \/ Browser

Spec == Init /\ [][Next]_vars

-----------------------------------------------------------------------------
(* Properties.                                                             *)

\* The policy's parts go together: a run has its plan and executes it, movement
\* by hand has neither, and an episode belongs to the run's own phase.
TypeOK ==
  /\ d.lc.mode \in {"Manual", "Tracking"}
  /\ d.lc.phase \in {"Idle", "Armed", "Preparing", "Ready", "Following", "Reacquiring",
                     "Complete", "Cancelled", "Stopped"}
  /\ \A size \in {Cardinality(d.lc.token), Cardinality(d.lc.selection), Cardinality(d.lc.plan),
                  Cardinality(d.lc.ticket), Cardinality(d.lc.run), Cardinality(d.lc.recovery),
                  Cardinality(d.lc.box), Cardinality(d.exec), Cardinality(work)} : size <= 1
  /\ d.lc.run # {} => d.lc.mode = "Tracking" /\ d.lc.plan # {} /\ d.lc.status = "Frozen"
  /\ d.lc.mode = "Tracking" => d.bound # {} /\ (d.lc.phase = "Armed" <=> d.lc.run = {})
  /\ d.lc.recovery # {} <=> d.lc.phase = "Reacquiring"
  /\ \A e \in d.lc.box : e.command \in Command
  /\ d.out.guard \in Guard
  /\ now \in 0 .. MaxTime
  /\ mid \subseteq 0 .. now

\* What the output recorded of the dish: that it rests, and that it did so under
\* the permission of a network that has not failed since (start_identity).
RestRecorded(dev) == dev.identity # {}
RestRecordedSince(dev) == \E i \in dev.identity : i.generation = dev.gate.generation

\* A plan is frozen into a run only while everything it was made from still
\* holds, and only in time: the clock sample that timed it, the newest elements
\* published of its satellite, and sound feedback of the pose it starts from.
\* If the last output pass found the dish at rest, it rests with the duty the
\* plan starts from, and if it did so since the last outage, the plan was made
\* under this network generation.  Without such a record the plan may be older
\* than the dish's last move, as PreviewStartsHere shows, or than an outage that
\* no pass has recorded yet: a pass freezes first and records last.  Jobs,
\* publications and the dish race with the freeze (runtime.rs service,
\* check_inputs and invalidate_start; coordination.rs changed_start; lifecycle.rs
\* tick).
FrozenPlanIsCurrent ==
  [][(d.lc.run = {} /\ d'.lc.run # {}) =>
       LET p == Theplan(d'.lc)
       IN  /\ {p.inputs.anchor} = d'.clock
           /\ p.inputs.orbit = source'[p.inputs.ticket.pass.sat].rev
           /\ d'.healthy /\ {p.start.pose} = {x.pose : x \in d'.sample}
           /\ RestRecorded(d) => p.start.turned = d.out.turned /\ ~Moving(d.out)
           /\ RestRecordedSince(d) => p.start.generation = d'.gate.generation
           /\ IF LateGap(p) = {} THEN now + p.preparation < p.inputs.window.aos
              ELSE \A g \in p.gap : now <= g.recoveryAt]_vars

\* "A changed physical starting state invalidates preview work immediately"
\* (runtime.rs:133): while nothing runs, the plan on view starts from the duty
\* history that the output has now.
PreviewStartsHere == d.lc.run = {} => \A p \in d.lc.plan : p.start.turned = d.out.turned

\* A request that moves the device towards a pass is carried out only on the
\* selection, job and plan that its sender was looking at, however long it
\* travelled and whatever was published meanwhile (lifecycle.rs apply: every
\* change of those moves the revision).
ArmsWhatWasSeen ==
  [][(/\ wire' # wire /\ wire # <<>> /\ wire' = Tail(wire)
      /\ Head(wire).intent.action \in {"Select", "Arm", "PrepareNow"}
      /\ \E r \in d'.lc.receipt : /\ r.request = Head(wire).intent /\ r.result.error = "none"
                                  /\ r \notin d.lc.receipt)
       => Head(wire).seen = Seen(d.lc)]_vars

\* A request whose reply was lost can be repeated without its being applied
\* twice: once answered for good, it is answered the same (lifecycle.rs request
\* and its receipt).
RequestsApplyOnce == Cardinality(replies) <= 1

\* A pass armed under one network permission is never kept under another, so
\* an outage that nobody was awake to see still ends it (runtime.rs
\* check_inputs, network.rs observe).
OutageEndsRun == d.lc.mode = "Tracking" => pledged = {d.gate.generation}

\* The worker's refresh is never refused as older than what the policy knows,
\* which would leave a selection without a plan for good (lifecycle.rs refresh).
RefreshIsNeverStale ==
  \A s \in d.lc.selection, a \in d.clock :
    Follows([orbit |-> source[s.original.sat].rev, clock |-> a.rev, start |-> d.startRev],
            d.lc.revs)

\* A run has to be back on its route within the recovery limit of leaving it or
\* of the AOS it was not ready for, however late anybody noticed, and to end
\* with its pass: after any service of the output there is no other (lifecycle.rs
\* enter_reacquisition and tick).
RecoveryIsBounded ==
  /\ \A r \in d.lc.recovery, t \in astray : r.deadline <= t + RecoveryLimit
  /\ (d.lc.run # {} /\ d.applied = now) =>
       /\ now < PassOf(d.lc).los
       /\ \A t \in astray : now < t + RecoveryLimit

\* What the output task drains in a service of its actuator.
ServesOutput == mid' # mid
Sent == Drained(Taking, now)

\* A recovery's first step is applied at the instant its intercept was computed
\* for and to the dish it was computed for, or never, although the search, the
\* service before it and its command run at three different times (recovery.rs
\* service and command, drive.rs direction_task).
LaunchIsExact ==
  [][\A e \in d.lc.box \ {Stop} : \A i \in e.by.launch : (ServesOutput /\ e \in Sent) =>
         /\ now = i.launch
         /\ d.out.turned = i.start.turned
         /\ {i.start.pose} = {s.pose : s \in d.sample}]_vars

\* A run starts its motor only by a command made from a sample taken after the
\* coast of the last movement, across the hand-over between the followers of
\* the route and of an episode (runtime.rs sync_execution, controller.rs
\* AxisFollower).
MovesOnSettledFeedback ==
  [][(ServesOutput /\ d.lc.run # {} /\ ~Moving(d.out) /\ Moving(d'.out)) =>
       \E e \in Sent \ {Stop} : e.by.run = d.lc.run /\ e.by.sampled >= d.out.turned + Coast]_vars

\* An episode ends on the route only when every sample of a whole dwell after
\* the predicted join was near it (runtime.rs observe_tracking, deviation.rs).
RecoveryIsMeasured ==
  [][(d.lc.phase = "Reacquiring" /\ d'.lc.phase = "Following") =>
       \A s \in d'.sample, r \in UNION {e.rec : e \in d.exec} :
         /\ \E t \in streak' : s.at >= t + RecoveryDwell
         /\ \E i \in r.intercept : s.at >= i.join + RecoveryDwell]_vars

\* Preparation ends only when the dish was measured near the first target, at
\* rest and past its coast, for a whole dwell (runtime.rs Readiness).
ReadinessIsMeasured ==
  [][(d.lc.phase = "Preparing" /\ d'.lc.phase \in {"Ready", "Following"}) =>
       \A s \in d'.sample :
         /\ s.at >= d'.out.turned + Coast + RecoveryDwell
         /\ \E t \in streak' : s.at >= t + RecoveryDwell]_vars

\* What an armed pass is promised to be (RunPromise), whatever the device does.
Stage == IF d.lc.mode = "Manual" THEN "manual"
         ELSE IF d.lc.run = {} THEN "armed"
         ELSE IF d.lc.recovery = {} THEN "running" ELSE "recovering"

Promise ==
  INSTANCE RunPromise WITH
    Limit <- RecoveryLimit, stage <- Stage, clock <- now,
    plan <- IF d.lc.run = {} THEN {} ELSE d.lc.plan,
    due <- {r.deadline : r \in d.lc.recovery}

\* An armed pass runs once, on the plan that was frozen when it began, with the
\* end of every episode fixed at its start, and only arming leads out of Manual
\* mode (lifecycle.rs, the whole policy).
RunsAsPromised == Promise!Spec
=============================================================================
