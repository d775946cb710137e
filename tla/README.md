# Verification of ezal: TLA+ models, TLC runs and TLAPS proofs

ezal points a Yaesu G-5500 azimuth/elevation rotator at satellites. A `no_std`
Rust core (`src/crates/ezal-core`) decides, an Embassy firmware
(`src/crates/ezal-firmware`) runs it on a Pico 2 W with relays, an ADC and a
Wi-Fi dashboard. Paths below are relative to `src/crates/`; *core* and *firmware*
name the two crates. `PROJECT.json` maps every definition to the lines it
translates and lists components, runs, mutants, hazards, findings and theorems.

To run: `tlc -workers 2 -config MCDrive.cfg MCDrive` (one `.cfg` per run, the
module is its name's prefix: `MCDrive`, `MCOutput`, `MCManual`, `MCTracking`, `MCUplink`
or `MCMessages`); `tlapm RelayProofs.tla`, and
likewise each other module whose name ends in `Proofs`.

## 1. The system

```
 browser ── WebSocket ── run_session (firmware/web.rs, one task per connection)
                              │ claims, presses, holds, pongs, overrides
                              ▼
   Wi-Fi, DHCP ── readiness ─► Coordination (core/coordination.rs) ◄── worker plans
                              │ operator lease, mailbox, network permit, tracking
        feedback samples ────►│
   (firmware/feedback.rs)     ▼ one mailbox slot                     Signal: wake
                        direction_task (firmware/drive.rs) ◄─────────┘
                              │ passes: service, apply, record, track, service, apply, record, feed
                              ▼
                        Actuator::step (core/actuator.rs)
           interlock · motion · duty · network permit · relay timing and lease
                              ▼
                        four relays                 hardware watchdog
```

Everything runs on one cooperative executor in thread mode. A future is only
interrupted at an `await`, so what a task does between two awaits is one action,
and `Coordination` (behind a blocking mutex) is never seen half changed. The
interleavings that remain are those of tasks between awaits, of messages in
buffers, and of time. What can go wrong in between is the subject of the models.

### Inventory

| Component (core unless said) | State | Operations | Talks to | Hard | Correct when |
|---|---|---|---|---|---|
| Relay timing and movement lease, `drive.rs` | per axis target, output, on/off/reverse hold-offs; one lease | `command_until`, `update`, `inhibit`, `inhibit_axes`, `next_transition_ms` | called by the actuator | orders of calls, late refresh, three hold-offs | on and off times hold; no start without room for a pulse; expiry releases everything |
| Duty, `duty.rs` | used and idle time per axis, whether the history is known | `observe`, `applied`, `guard_drive`, `deadline_ms`, `override_startup_rest` | actuator | grants in advance, restoring by rest, lost at reset | motor work is bounded |
| Network permit, `network.rs` | last report of readiness, generation | `observe`, `ready`, `expire`, `deadline_ms`, `generation` | supervisor, actuator, sessions | an outage nobody saw | nothing survives an outage |
| Feedback interlock, `interlock.rs` | last sample | `publish`, `guard_drive`, `deadline_ms` | feedback task, actuator | ageing, end of travel | no drive into an end or on old feedback |
| Motion supervision, `motion.rs` | per axis progress budget, coasting, last sample | `observe`, `applied`, `deadline_ms` | actuator | progress seen late, budgets across pulses | a stalled, runaway or reversed axis stops and stays stopped |
| Actuator, `actuator.rs` | all of the above, a latched fault | `step`, `override_startup_rest` | output task | order of account, supervise, withdraw, revoke, obey, record | every permission is re-examined at every step |
| Output task and watchdog, firmware `drive.rs`, `watchdog.rs`, `main.rs`, `state.rs` | next service, last feed, latched wake | pass, sleep, wake, reset, parking | everything | sleep through an expiry, hang, reset | nothing expires unnoticed; a hang is bounded |
| Command mailbox, `tracking/mailbox.rs` | one slot | `submit`, `take` | sessions, output task | overwritten stops, stale commands | a stop is not lost |
| Operator lease, `operator.rs` | grant, expiry, generation | `claim`, `renew`, `release`, `advance` | sessions | takeover and late release | one owner, no inherited motion |
| Session freshness and heartbeat, `session.rs` | last three tokens, armed hold, outstanding ping | `issue`, `admit`, `reject`, `disarm`, `observe_network`; `acknowledge`, `proof_deadline` | sessions | delay, reordering, buffered input | no motion on stale proof |
| Coordination, `coordination.rs` | lease, mailbox, network, tracking, override request | one method per event | all tasks | stale reads between calls | the contract of `docs/CONTROL_CONTRACT.md` |
| Dashboard sessions, firmware `web.rs` | one session per socket | `run_session`, drop guard | coordination | cancelled at any await | a session that ends stops what it moved |
| WebSocket assembly, firmware `ws_receive.rs` | partial message, deadline | `next_message`, `assemble` | sessions | fragments, control frames | one deadline per message |
| Tracking lifecycle, `tracking/lifecycle.rs` | selection, plan, armed run, tickets, receipts, run | `request`, `ticket`, `publish_plan`, `tick`, `interrupt`, `begin_reacquisition`, `finish_reacquisition`, … | coordination, worker | stale results, repeated requests, coincident instants | one frozen plan per run; a run ends once |
| Tracking runtime, `tracking/runtime.rs` | run, network generation, follower, monitor | `refresh`, `service`, `execution_command`, `observe_output`, `step_reacquisition` | lifecycle, output task | two paths for one sample, brief outages | commands only inside the run |
| Recovery and deviation, `tracking/recovery.rs`, `tracking/deviation.rs` | episode, dwell | `step`, `service`, `command_taken`, `take_follower`; `observe` | runtime | exact instants, cadence | a launch counts only at its millisecond |
| Execution clock, `ntp.rs`, `tracking/clock.rs`, firmware `time.rs` | anchor, revision; server asked | `sample`, `synchronize`, `validate`, `admission_deadline_ms` | runtime | corrections during a run, silent servers | a plan is timed by the clock it was frozen with; the clock is set eventually |
| Catalog, `catalog.rs`; downloads and forecasts, firmware `prediction.rs` | entries, revision; next fetch, changed elements, published pair | `push`, `finish`, `commit`; `run`, `download` | servers, worker | partial, cut and stale downloads | newest epoch, all or nothing; sources and forecast go together |
| Planning worker, firmware `tracking.rs` | ticket in progress | `capture`, `start_job`, `refresh_inputs` | lifecycle | a job spans many yields | no plan for a changed world is frozen |
| Wi-Fi supervisor, firmware `wifi.rs` | join state, back-off | `supervise`, `associate_once`, `leave`, `hold_permission` | network permit | partial failure, back-off | a usable network is used eventually |
| Feedback acquisition, `feedback.rs`, firmware `feedback.rs` | latch of the bus, last sample | `read`, `read_permitted`, `complete`, `update` | interlock | cancelled bus transactions | no late result is believed |
| Position, orbit, passes, planner numerics, simulation, page, JSON | pure | – | – | floating point | tested directly by the repository |

`PROJECT.json` "hazards" lists what is hard to test in this code, at its line, with
the properties that watch it.

## 2. Modules

| Module | Models | Kind |
|---|---|---|
| `Relay` | `drive.rs`: `AxisRelay`, `RelayTiming`, `ActuatorGuard` | operators on records |
| `RelayDiscipline` | what the relays promise: off between on times, a reversal waits longer | abstract specification |
| `Drive` | the guard driven by every order of commands, services, withdrawals and time | state machine over `Relay` |
| `RelayProofs`, `DriveProofs` | lemmas on `Relay`; theorems on `Drive` | proofs |
| `OutputProofs` | lemmas on `Actuator` and the monitors under it; theorems on `Output` | proofs |
| `ManualProofs` | lemmas on `Coordination`, `Operator`, `Mailbox`; theorems on `Manual` | proofs |
| `Duty`, `Network`, `Interlock`, `Motion` | `duty.rs`, `network.rs`, `interlock.rs`, `motion.rs` | operators |
| `Actuator` | `actuator.rs` `Actuator::step` in the code's order | operators |
| `Mailbox` | `tracking/mailbox.rs` | operators |
| `Output` | `direction_task`, publishers, wake-ups, watchdog, parking, resets, and the motors as the world sees them | state machine over `Actuator`, `Network`, `Mailbox` |
| `Operator`, `Session` | `operator.rs`, `session.rs` | operators |
| `Coordination` | `coordination.rs` and `lifecycle.rs` as far as manual control goes | operators |
| `Manual` | one action per event of `run_session`, the network supervisor and the output task's pass | state machine over `Coordination`, `Session`, `Relay` |
| `Inputs` | `tracking/event.rs`, `clock.rs`, `inputs.rs`: for how long a plan's inputs hold | operators |
| `Lifecycle` | `tracking/lifecycle.rs`, every transition of the single-pass policy | operators over `Mailbox`, `Inputs` |
| `Recovery` | `tracking/controller.rs`, `recovery.rs`, the resting start | operators |
| `Runtime` | `tracking/runtime.rs`, `deviation.rs` and what `coordination.rs` does for them | operators over `Recovery`, `Network`, `Relay` |
| `RunPromise` | what an armed pass promises | abstract specification |
| `Tracking` | worker, output task, publications and one browser around a `Runtime` device | state machine |
| `Wifi` | firmware `wifi.rs` with core `wifi.rs` | state machine |
| `Catalog` | `catalog.rs`, the framing of `http.rs` | operators |
| `Uplink` | time task and prediction task, over `Wifi` and `Catalog` | state machine |
| `UplinkProofs` | theorems on `Uplink` | proofs |
| `TrackingInvariant` | what holds of every state of `Tracking`, and what the devices it starts from must satisfy | invariant and assumptions |
| `TrackingProofs` | lemmas on `Lifecycle`, `Recovery` and `Runtime`; theorems on `Tracking` | proofs |
| `RecoveryProofs` | lemmas and theorems on the episodes of `Tracking`, over `TrackingProofs` | proofs |
| `Messages` | firmware `ws_receive.rs` and the receive loop of `web.rs` | state machine |
| `MessagesProofs` | theorems on `Messages` | proofs |
| `MCDrive`, `MCOutput`, `MCManual`, `MCTracking`, `MCUplink`, `MCMessages` | the views and the values of the constants for TLC | model checking |

The code's own structure is kept: a method of a core type is an operator from a
record to a record (`CommandUntil(g, command, validUntil, t)` is
`ActuatorGuard::command_until`), and a task is what turns operators into actions.
A component's operators carry no variables, so that one definition serves every
composition: `Drive`, `Output`, `Manual` and `Tracking` all use `Relay`. An `Option` is a
set of at most one member.

### Drive

`guard` is the `ActuatorGuard` (a relay record per axis, and `lease`, 0 for
`None`); `now` the uptime; `call` names the last call, for the properties.
`Deliver` is `command_until` with any command and any expiry up to a lease away, or
already past; `Update` is `update`; `Withdraw` is `inhibit_axes`; `Tick` passes time.
`Command::Inhibit`, `Jog` and `Drive` differ as in the code: an inhibition opens at
once, a jog opens at once what it reverses or releases, a drive leaves a minimum
on-time to run out.

### Output

`act` is the `Actuator`; `feedback`, `network`, `pending` and `asked` are what
`Coordination` holds for it (the last sample, the readiness record, the mailbox and the
override request); `due` is the instant the task sleeps to, `fed` the watchdog's
last feed, `parked` what `main.rs` does after a watchdog reset. `motor` is no
variable of the code: it is the work, pause and stalled time each motor has really
lived through, which no reset clears. Only a full rest ends its `worked`, and only movement that is
seen its `stalled`; `boots` counts in how many boots it stalled since.

- `Step` is one pass from wake-up to feed. The pass
  `service → apply → record → track → service → apply → record → feed` has no await, and
  its second service is another `Step` at the same instant. A wake-up makes
  `due` the current instant; `publish_feedback` wakes only while outputs are active and
  `publish_network` only when permission is lost, as the code does.
- `Tick` lets time pass beyond `due` by no more than `Late`, and never beyond the watchdog.
- `WatchdogReset` and `Reset` lose RAM; duty history is then unknown and
  requires a full rest.

### Manual

`coord` is `Coordination` in Manual mode, `sess[c]` what `run_session` keeps for a
connection, `out` the guard with the network generation it obeys, `unrested` whether a
startup rest is still outstanding. `held`, `mover`, `outages` and `proven` are history: who
presses now, whose commands the output follows, how many outages there were, and the last
sign of life of the owner. Tokens and envelopes carry history fields too
(when a token was sent, whose connection and grant an envelope came from); no guard
reads them. Connections may die at any await, deliver pongs and commands of any age, and
name any token they ever received that the session still keeps; older ones are `Rejected`.
A message that stayed in a TCP buffer over an outage is one that names a token
from before it.

### Tracking

`d` is the device: `lc` the `TrackingLifecycle`, `exec` and `bound` the rest of
`TrackingRuntime`, `clock`, `gate`, `sample`, `healthy`, `startRev` and `identity` what
`Coordination` keeps, `out` the applied actuator reduced to its guard, fault latch, network
generation and last energised instant. `source` is what the prediction task published, `work` the
planner in the worker's slot, `wire` the requests under way.

- `Poll` is one poll of the planning worker up to its yield: refresh of the inputs when due,
  the ticket, then one unit of a recovery search, of a plan, or the capture of a new job.
- `PassBegins` and `PassEnds` are the halves of the output task's pass; each drains the mailbox
  and steps the actuator at its own instant, and the first makes the execution turn. No other
  task runs in between, but time may pass.
- `Feedback`, `FeedbackFails`, `Network`, `Sync` and `Publish` are the publications,
  `Ticks` is time. `Send`, `Resend`, `Deliver`, `Take`, `Leave` and `Jog` are the browser:
  a request is authorized by the proof it was sent with and may arrive late, twice or never.
- `Findings` is any plan the planner's result type allows for a job: the whole pass,
  one with a planned gap, or a late acquisition; `Joins` any join that the search may validate; `want`
  whether the follower's geometry asks for movement.
- `pledged`, `replies`, `astray` and `streak` are history for the properties; so is `by` in
  an envelope.

A request carries what its sender was looking at (`seen`), and a browser asks for what the dashboard
offers it then (`Offered`); a device that starts out with an answered request starts with that request asked.

`RunPromise` is the abstract specification: a pass is armed from Manual mode only, runs at most
once on one plan frozen when it begins, every episode has its end fixed at its beginning and
within the limit, and every end leads to Manual mode. `Stage` maps the policy to it. A pass that is
armed after its preparation should have begun starts to run in the very request that arms it (`request`
ends in `tick`), so freezing is a step from Manual mode as well.

### Uplink

`pc` names the await `supervise` is at, `retries` is `ConnectionRetries`, `led` the startup
flash with which a held network is joined; `radio`, `link`, `dhcp` and `lease` are the
station, the stack's view of it and its configuration; `permit` is how long the motion
permit still lasts. An await ends in its answer or its deadline, and a
disassociation that is not acknowledged may have happened or not. `fetching` is the prediction
task's place in its loop, `catalog` the entries it commits to, `sources` and `forecast`
the pair it publishes after a job, `server` the next NTP server. `calm` and `serving` say whether
radio, access point and servers are well; both change at will.

### Messages

`stage` is where the connection's task is, `arriving` a frame of which the first byte was read,
`text`, `parts` and `used` the partial message of `assemble` (how it began, its frames, its `length`),
`age` the time since `next_message` was called; `read`, `heard` and `ponged` record the connection for the
property. `Open`, `Ends` and `Said` define independently, over the whole history, which messages a peer has
sent, and `Fits` which the buffer can hold: frames fit if they can be laid out in it one after another. No sum
is taken there, so that the code's running `length` is compared with something else than itself.

## 3. Runs

| Run | Question | Shows |
|---|---|---|
| `drive` | Does the relay guard alone keep its promises under every order of calls? | `ExpiryIsNotErased`, `DeadlinesAnnounceChange`, `StartsCoverAPulse`, `OrdinaryReleaseKeepsMinimumOn`; `IsDisciplined`: `Drive` refines `RelayDiscipline` |
| `drive_expiry` | Does a lease always outlast the minimum on-time it started? | it does not: see section 6 |
| `output` | Can the output owner sleep, restart or be raced into keeping an output it should not have? | `SleepIsSafe`, `StartsAfterPause`, `FaultLatches`, `StopsAreNotOvertaken`, `OutagesStop` |
| `output_endpoint` | The same near an end of travel, where a sample refuses movement before it expires, and with minimum on-times that last | `SleepIsSafe`, `StartsCoverAPulse` |
| `output_late` | What if the executor runs late, up to a watchdog reset, and the board boots again? | `WorkIsBounded` over all boots, `StallIsBounded` for each boot |
| `manual` | Can a browser move the rotator without owning control, pressing, or fresh proof, and do older and newer tokens ever mix into a longer life? | `MotionDiesWithItsToken`, `OrphansAreStopped`, `OwnershipIsProven`, `MotionIsPressed`, `PressSawRecovery`, `OverrideIsStillWanted` |
| `tracking_requests` | Do requests that are late, repeated or outlived by what they were about do harm, and can refreshes go unheard? | `RequestsApplyOnce`, `ArmsWhatWasSeen`, `RefreshIsNeverStale` |
| `tracking_freeze` | Can a run begin on a plan whose inputs changed, or survive an outage nobody polled? | `FrozenPlanIsCurrent`, `OutageEndsRun`; `RunsAsPromised`, from arming to the freeze |
| `tracking_run` | Does a whole run, with gap, late acquisition, deviations, stalls and slipped passes, keep what it promises? | `RecoveryIsBounded`, `LaunchIsExact`, `MovesOnSettledFeedback`, `RecoveryIsMeasured`, `ReadinessIsMeasured`; `RunsAsPromised`: `Tracking` refines `RunPromise` |
| `tracking_start` | Does every plan that waits start where the rotator is? | it does not: see section 6 |
| `uplink` | Is the permit true, do captured elements only advance, and does everything come back after any storm? | `PermitIsBacked`, `PairAdvances`, `Recovers` (liveness) |
| `messages` | Does a session hear exactly the messages that were sent to it? | `HearsWhatIsSaid` |

Each property has a mutant in `PROJECT.json`: a definition changed the way a slip in
that code would change it (a dropped guard, a deadline counted afresh, two steps
swapped), for which TLC finds the property violated under the run's own configuration.

What the output properties say together: `SleepIsSafe` says that at every instant
at which the task has nothing due, each energised axis still has lease, network,
feedback, travel, duty, progress budget and no fault. It needs the deadlines of all
five supervisors and the selective wake-ups to leave no gap. `WorkIsBounded` and
`StallIsBounded` measure the motors and not the program's accounts of them, so that
accounts which are forgotten, restored too soon or granted twice would show. The two end differently at a reset.
A board that boots knows nothing of the duty before, and demands a full rest; of the progress budget
it knows nothing either, and grants it anew. So `WorkIsBounded` is one limit over all boots, and
`StallIsBounded` one limit for each boot since movement was last seen. A motor that cannot move may be
energised for a budget in every boot, each time after that rest or the operator's override of it.

What the tracking properties say together: a pass is armed as its sender saw it
(`ArmsWhatWasSeen`), begins only on a plan that is still true as far as anyone has recorded (`FrozenPlanIsCurrent`), drives only
on feedback from after its last coast (`MovesOnSettledFeedback`), leaves its route for a bounded time
(`RecoveryIsBounded`), and counts as prepared or back on its route only by a whole dwell of
measurements (`ReadinessIsMeasured`, `RecoveryIsMeasured`). The dwells are compared with
`streak`, the time since which every sample published was good, whether or not the runtime looked
at it, so a gap that the monitor overlooks would show. `RecoveryIsBounded` counts from `astray`,
when the run really left its route or missed its AOS, not from the episode's own
record.

`Recovers` has two parts. Once radio, access point and stack stay well, the supervisor reaches and keeps
its network and the permit is renewed for ever; once the servers stay well too, the clock is set,
every element set on offer is captured with the forecast, and the forecast is current again and
again.

`WorkLimit` is `Allowance` plus, and `StallLimit` is `ProgressTimeout + FeedbackMaxAge`
plus, the time a late or hung executor may add in one boot. The age of a sample enters the second
because the budget is reset at the instant a sample shows movement, which is up to that
much later than the movement.

### Bounds

| Model | Values | In the code |
|---|---|---|
| `MCDrive` | two axes, on 2, same-direction off 1, reverse off 2, lease 3 | on and off times below the lease in the same order |
| `MCOutput` (`output`) | one axis, on 1, off 1, reverse 2, lease 2, allowance 2, rest 2, readiness 2, feedback 1, coast 1, progress 2, service 3, watchdog 4, late 0 | every timeout is shorter than the service period, so a sleep can hide each of them |
| `MCOutput` (`output_endpoint`) | on 2, lease 3, allowance 3, service 4, watchdog 5; middle of travel, near an end, inside its band | pulses longer than one instant, samples that refuse after one instant or at once |
| `MCOutput` (`output_late`) | late 2, service 2, watchdog 3, otherwise as `output` without the reversing source | lateness up to a watchdog reset; small enough that stalls reach `StallLimit`, which would hide less of an error than a generous limit |
| `MCManual` | two browsers, two live tokens each, one direction, token life 2, operator lease 3, readiness 2, movement lease 2 | a takeover, an outage and an expiry fit into one lease; a command may name an older token than the last (the code keeps three) |
| `MCTracking` (all) | one axis; three rows of forecasts: the pass under way, the same pass shifted by one, another satellite's; feedback, network and pass once per unit or paid for; on 1, off 1, reverse 1, lease 2, feedback 2, coast 1, control step 1, launch lead 1 or 2, grid 1, retry 1 | the orders between the code's constants; coincidence of every two instants |
| (`tracking_requests`) | three units; two requests and a repeat, or one of each with a publication, or with two changes of operator, from a device at rest or one with a plan | |
| (`tracking_freeze`) | AOS at 5, five units; one publication and one moved pose, or a clock sample, two outages, a late pass with a feedback gap, a fault with an extra pass and a change of operator, a request by whoever takes control after an outage, and from a device whose feedback came back after the last output pass a request with a press, with and without the outage | the freeze (at 3), its admission deadline and AOS each coincide with each of these |
| (`tracking_run`) | AOS at 3, LOS at 10, recovery limit 6, dwell 1; a whole pass, one with a planned gap and a slipped output pass, one joined late, each with a stalled unit | preparation, AOS, gap, launch, join, deadline and LOS all lie inside; an episode can be retried |
| (`tracking_start`) | AOS at 4, four units; one feedback gap and one press, from a device with a plan | two readings, a press and a job around two passes |
| `MCUplink` | three addresses, two of them usable; groups of three joins; back-off limit 4; timeout 2; two satellites of two epochs, three publications; two time servers, one of which answers; scenes: radio storms without servers, and downloads with the internet and the lease coming and going | joins by group and back-off to their limits; partial, stale and cut downloads before and after newer ones |
| `MCMessages` | six frames of thirteen kinds, a buffer of two units, control frames of one, a deadline of two | a message of three fragments with a control frame between any two, every limit exceeded by one |

In `Tracking` everything unusual has a budget (`left`), and `Boots` lists from which device and with
which budgets a run begins: devices reached by the code's own operations (a selection, a refresh, a
job's result, an arming), so that TLC need not repeat the way there. `MaxTime` is reached there and ends the
exploration at or after the last instant that matters to the run's properties. `Known` identifies serial numbers
and revisions by whether they equal the current ones, and instants that are long past with each
other.

In `uplink` and `messages` deadlock is not checked: a connection that ended is at its end, and
publications are bounded, after which a network at rest may stay so.

The orders between durations are what the properties depend on; each is long enough for
every expiry to fall before, on and after every other instant that matters. Two axes
matter in `Drive` (a lease is shared, a withdrawal is not) and one is enough
in `Output` and `Manual`, whose further state is kept per axis and combined only by
"any axis is active".

Elsewhere `MaxTime` bounds the clock in the guard of `Tick` and is never reached: a `VIEW`
identifies states that differ only by a shift in time. It replaces each instant by its distance
from `now`, as far as a guard can tell (an age is counted up to the oldest that still
matters). Two states with the same view have the same futures up to views, and
every property reads distances only, so one representative decides for all, and
the explored graph covers every length of run. `MCManual` also treats the two browsers as
alike, and leaves out the tokens of a browser that does not own control, which taking control
rejects. History that no guard reads is kept only as far as the properties of the run ask for it
(the views `Now`, `Pauses` and `Efforts` of `MCOutput`, `WithTokens` of `MCManual`); `KnownRun`
keeps of a finished run only its output. Each view ends with an entry that is always true, which makes TLC evaluate
the functions it would otherwise store unevaluated.

### Fairness

Only `Uplink` assumes fairness, for `Recovers`; the instance is small because temporal
properties are checked on the whole graph, without a view. Assumed, each weakly:

- `Supervise` and `Predict`, the steps of the two tasks. Every await in them has a deadline
  (`with_timeout` around the association and DHCP, the download timeout, timers for back-off), so none lasts for
  ever. What the outcome is stays free: only while `calm` must it be the good one.
- `FlashEnds`: the startup flash has a deadline of its own.
- `LinkChanges` and `Leases`: the stack runs whenever its driver wakes it, and DHCP on a network
  that lasts answers. An answer after the timeout is not excluded while the network is not calm.
- `Synchronizes` and `SampleFails`, the time task: a request is answered or times out.
- `HeadArrives \/ DownloadCompletes`: servers answer who is online while they serve.
- `FetchFallsDue`: a timer fires.

Nothing is assumed about the radio, the access point, leases that end or servers that
change: `Recovers` is conditional on `<>[]calm`, or on `<>[](calm /\ serving)`, and says nothing
otherwise. While `calm` and `serving` hold, `ClockLapses` cannot happen, since a server that answers is asked
many times within the longest age of a sample.

In the other models no fairness is assumed: that a pass happens by its due time is a guard of `Tick`
(time does not pass beyond `due + Late`) or has a price (`Ticks`), which is a safety statement, and the
watchdog enforces the outer limit on hardware. What must happen there by an instant is stated as a
bound (`RecoveryIsBounded`, `StallIsBounded`).

## 4. Proofs

### The relay guard

`RelayProofs` and `DriveProofs` hold for any set of axes, any timing that meets
`RelayConfigIsValid` (the conditions of `RelayTiming::is_valid`, which include that a
lease covers a minimum on-time) and any bound `MaxTime`.

| Theorem (`DriveProofs`) | Property |
|---|---|
| `TypeCorrect` | `TypeOK` |
| `ExpiriesAreNotErased` | `ExpiryIsNotErased` |
| `MovementAlwaysLeased` | `MovementIsLeased`, part of the invariant |
| `StartsAlwaysCoverAPulse` | `StartsCoverAPulse` |
| `DriveImplementsDiscipline` | `IsDisciplined` (the refinement of `RelayDiscipline`) |
| `DeadlinesAnnounceEveryChange` | `DeadlinesAnnounceChange` |
| `OrdinaryReleasesKeepMinimumOn` | `OrdinaryReleaseKeepsMinimumOn` |

The argument has two layers. `RelayProofs` says what one call may do to one axis:
it stays, stops or starts (`AxisStep`), and a start is rested and covered by the limit it was
given; from there it derives what one call may do to the guard (`GuardStep`): each axis takes
such a step under the lease that the call leaves, and lease and movement agree again afterwards.
`DriveProofs` then needs only that every action is a guard step or a tick.

The inductive invariant is `IInv == TypeOK /\ MovementIsLeased /\ HoldsInv`. Typing and
leases need each other: a call keeps movement and lease together only if they were so
before it. `HoldsInv` says that both off-times of an axis were counted from the same release.
The abstract state has the instant of that release, which the code does not store; the
refinement mapping recovers it as `offUntil - SameOff`, and only `HoldsInv` makes that
the right instant for the reversal time as well.

### The output owner

`OutputProofs` holds for any set of axes, any installation whose configuration is
valid (the assumptions of `Relay`, `Duty`, `Interlock`, `Motion`, `Network` and `Output`, each a
condition of the code's `is_valid` functions or an order of its constants), any lateness, any
kinds of samples and commands, and any number of resets.

| Theorem (`OutputProofs`) | Property |
|---|---|
| `OutputTypeCorrect` | `TypeOK` |
| `SleepIsAlwaysSafe` | `SleepIsSafe` |
| `MotorsWorkBounded` | `WorkIsBounded` |
| `MotorsStallBounded` | `StallIsBounded` |
| `EveryStartCoversAPulse` | `StartsCoverAPulse` |
| `EveryStartFollowsAPause` | `StartsAfterPause`, if `ReverseOff <= Rest` |
| `FaultsLatch` | `FaultLatches` |
| `NoStopIsOvertaken` | `StopsAreNotOvertaken` |
| `OutagesAlwaysStop` | `OutagesStop` |

It follows `Actuator::step` in its order: each part of the step gets a lemma
(`ChargeFacts`, `EnforceFacts`, `RevokeFacts`, `ObeyFacts`, `AppliedFacts`) that says what it keeps, what it
may open and under which permissions something still runs. `StepFacts` puts them together: a step leaves a
`Sound` output, one that is in motion only with the network, without a fault and past no stop,
and serves every axis as `AxisServed` says, the relay by one `AxisStep` of `RelayProofs`.

None of the properties about motors is inductive, because the code does not store what they speak of. The
inductive invariant `IInv` therefore relates three things:

- `Lived`: what the motors lived through, against what the output remembers of it. `Paused`: a motor has paused
  for as long as the relay's holds and the idle time say, or longer; a board that has just booted has
  no holds, and its duty is used up until a rest that is at least as long. `Worked`: it has worked no more than was
  charged, unless it rested. `Stalled`: in this boot no more than its budget says, plus the age one sample hides, on top of what
  earlier boots may have let it stall.
- `Awake`: the output task is due before a running axis overruns its duty or its budget, counted
  from the last service. With the lateness that `Tick` allows, or the watchdog, that gives the limits;
  it survives a publication because a wake-up only makes the task due earlier.
- `Asleep`: while the task has nothing due, it is due no later than any other permission of a running
  axis ends. Each publisher either leaves what was permitted as it was or wakes the task.

`Seen` says that a sample which shows movement has reset the motor's history by its own instant, which is why
a reading may reset the budget whenever it is looked at. TLC checks `IInv` on the three configurations of
`MCOutput`.

`EveryStartFollowsAPause` has a hypothesis that `ActuatorConfig::is_valid` does not demand: that a full rest is at
least the off-time of a reversal. A reset forgets the holds and requires only the rest
(`DutyHistory::Unknown`), so without it the property is false. Every preset has it: 15 minutes of rest
(`ezal-core/src/duty.rs:23`, `:28`) against off-times of seconds (`drive.rs:42`, `:49`).

The guard's deadlines are written with explicit parentheses around `UNION`, since the two tools bind it differently.

### Manual control

`ManualProofs` holds for any number of browsers, any drives they may ask for, any number of
remembered tokens and any valid timing.

| Theorem (`ManualProofs`) | Property |
|---|---|
| `ManualTypeCorrect` | `TypeOK` |
| `SuccessorsInheritNoMotion` | `OrphansAreStopped` |
| `MotionOutlivesNoToken` | `MotionDiesWithItsToken` |
| `OwnersAreAlive` | `OwnershipIsProven` |
| `MotionIsAlwaysPressed` | `MotionIsPressed` |
| `PressesSawRecovery` | `PressSawRecovery` |
| `OverridesAreStillWanted` | `OverrideIsStillWanted` |

Its first part says of each operation of `Coordination` what it leaves of the grant, the permission and
the box; `Orderly` is what all of them have in common: a grant that ends, or a permission that is
lost, leaves a stop in the box, and a queued stop stays.

The properties speak of passes; `IInv` says what waits for one. `Pressed` is its core: unless a stop
waits, or an expiry or outage has not been serviced yet, every movement admitted is still wanted
(its browser owns control under the same grant and still presses, its token was issued since the last outage).
It leans on `Armed` (a hold that would be admitted follows a press), `Seen` (tokens of the present network
generation were issued since the last outage), `Quiet` (without a permission nothing waits) and `Shape`
(identities are not reused). `Alive` relates the age of a grant to the pings outstanding, `Lifetimes` the lease of
the guard to the tokens that moved it, and `Lag` orders the generations each part has seen.

### The uplink

`UplinkProofs` holds for any addresses, satellites, epochs, time servers, bounds and timeouts that meet the
assumptions `WifiConstants` and `UplinkConstants`.

| Theorem (`UplinkProofs`) | Property |
|---|---|
| `PermitIsAlwaysBacked` | `PermitIsBacked` |
| `PairAlwaysAdvances` | `PairAdvances` |

`PermitIsBacked` bounds what a permit still lasts plus how long it has been without its network.
By itself it is not inductive: a permit that exists outside the hold could outlive any number of
polls. `PermitInv` adds that only a held network has a permit and that none is longer than the timeout;
then each step either renews both from a network that is as granted, revokes, or lets
one grow by no more than the other shrinks (`SumsAreOrdered`).

`PairAdvances` compares what is captured before and after a publication, between which any number of
downloads may have committed. `SourceInv` says that the catalog has caught up with the published sources
in every satellite (`Catches`: an equal entry, or one no older with a later revision) and that no revision is ahead of
the catalog's own; `CommitAdvances` shows that a commit catches up with what it replaces,
`CatchesIsTransitive` carries that over several commits, and publishing copies the
catalog.

### Messages

`MessagesProofs` holds for any frames, any number of them, any buffer and any deadline that meet
`MessageConstants`, which asks that a control frame fits the buffer (125 bytes of 256,
`ezal-firmware/src/ws_receive.rs:19-22`): without it a lawful Ping would be refused.

| Theorem (`MessagesProofs`) | Property |
|---|---|
| `EveryMessageIsHeard` | `HearsWhatIsSaid` |

The property quantifies over the whole history, the code keeps three variables. `IInv` says what they stand
for: `parts` is the message that the frames read so far leave open (`OpenGrows` and `OpenKept` follow it
frame by frame), `used` is the least end at which its frames can be placed (`TightIn`), and the messages
heard are those said, by the place of their last frame among all last frames (`HeardIn`). The least end
replaces a sum over the history: `OneFrameMoreIsTight` shows that adding a frame's length to
a least end gives the next, so that `end > Buffer` refuses a message just when no layout of it
fits. That the places of the last frames number the messages without a gap is
`PlacesGrow` and `HeardInOrder`, on cardinalities.

### Tracking

`TrackingProofs` and `RecoveryProofs` hold for any passes, satellites, forecasts, plans and joins of the planner's result
types, clock samples, poses, requests, budgets and devices to start from, and any timing, that meet the
assumptions of `Lifecycle`, `Runtime`, `Relay` and `TrackingInvariant`: times are natural numbers, the
recovery limit is positive, a forecast lists events, and a device starts in a state that
satisfies the invariant, has answered only requests that exist, made from a revision it has had, and counts
no dwell from before its first instant, which is where `streak` begins (`BootsAreMeasured`). TLC evaluates them, the last two on
every device from which a run of `MCTracking` starts.

| Theorem (`TrackingProofs`; the last two in `RecoveryProofs`) | Property |
|---|---|
| `TypeCorrect` | `TypeOK` |
| `OutagesEndRuns` | `OutageEndsRun` |
| `RequestsAreAppliedOnce` | `RequestsApplyOnce` |
| `RefreshesAreNeverStale` | `RefreshIsNeverStale` |
| `RecoveriesAreBounded` | `RecoveryIsBounded` |
| `TrackingRefinesRunPromise` | `RunsAsPromised` (the refinement of `RunPromise`) |
| `OnlyWhatWasSeenIsArmed` | `ArmsWhatWasSeen` |
| `LaunchesAreExact` | `LaunchIsExact` |
| `RecoveriesAreMeasured` | `RecoveryIsMeasured` |

One action of the device is a chain of calls at one instant: a pass of the output task services, ticks,
observes, begins or ends an episode, executes, and may interrupt after any of them. So each operation of
`Lifecycle` and `Runtime` has a lemma of the same form, `Leads`: from a device that satisfies the
invariant to one that does, with what may have become of a run in between. A run that goes on is the same
run on the same plan, an episode that goes on has the same end, one that begins ends within the limit, and one
that stops leaves Manual mode. A whole chain is then
at most one step of `RunPromise`, and two facts make it so:

- `Quiet`: after a tick nothing of the policy is due at its instant, and no later call of the chain makes
  anything due, so the chain cannot freeze, recover and end a run one after another.
- `Firm`: a run that came back to its route in the chain cannot leave it again before another sample has
  arrived, since the sample it came back on is the one the monitor has read.

`IInv` (in `TrackingInvariant`) consists of

- `PolicyOK`: what the policy holds in each phase (`InPhase`). A run has a frozen plan, and an
  episode belongs to a run; no property says that, and every transition relies on it.
- `Guarded` and `Free`: an armed pass is bound to the network generation of now, and a plan that
  can be armed to none. The second is what makes arming bind it to the present one. With `pledged`
  they give `OutageEndsRun`.
- `Sound`: what the policy knows of elements, clock and start is not newer than what there is, which is
  `RefreshIsNeverStale` once every source is known to be no newer than the newest.
- `Prompt`: a service of the output leaves nothing due, and `AstrayOK`: a run that is off its route since some
  instant has an episode that ends within the limit of that instant, or none yet. Neither is
  `RecoveryIsBounded` alone: the deadline is fixed when the episode is noticed, and `astray` counts from
  when it should have been.
- `RequestsOK`: whatever is on its way is the browser's last request, and its lasting answer is
  the receipt.

`ArmsWhatWasSeen` rests on the state revision, which `apply` compares with the one a request was made from. That
is enough only if nothing an operator sees ever changes without it, and no transition may forget to move it. `Tells`
says so of a transition: the revision grows, or selection, job, plan, status and mode are what they were. Every
operation of `Lifecycle` has its lemma (`SelectedTells`, `TickedTells`, ...), every operation of `Runtime` carries
it on (`Shows`), and `ViewsOK`, the invariant, says of each request kept or on its way that it was made from
a revision no newer than the device's, and from this very view if it is the same one (`ViewsAreKept`).

`LaunchIsExact` compares the sample at which a recovery's first step is applied with the sample its intercept
was computed from, which no variable remembers. `LaunchesOK` says what stands for it. Such a step waits in the
mailbox only between the two halves of the pass that computed it (`LaunchesAt` its instant), with the episode
still pending (`Awaited`) and the dish where the intercept assumed it (`InPlace`). Between the halves other tasks
may run: a request, a refresh, an outage, an operator. `LaunchInvariant` goes through all of them; each either
leaves the episode and the box as they were, or leaves a stop in the mailbox in place of the step. The
second half then takes it at the same instant, or does not take it, and afterwards nothing is pending.
A turn of the executor computes it only from the sample that it has just observed, and `StartUnchanged`
then yields instant, pose and turn.

`RecoveryIsMeasured` compares the end of an episode with `streak`, which remembers since when every sample
published was good. The execution itself knows only since when it has been near its route (`below`), and the policy
only that the episode is over. `MeasuresOK` connects the two: a dwell that is counted began within the pass and no earlier than
some instant of the streak, its last sample was good (`DwellOK`), and nothing is counted before a run
has begun to follow (`DwellsOK`). `MeasureInvariant` needs it at every call of a chain, although
the streak changes only with a reading and the execution hears of it later in the same step. So its lemmas carry what the step
has heard: `Minds` holds between two calls, with the old streak until the sample is observed (`ObservedRunMinds`)
and with the new one after; it also says that the route being followed is one the step began with (`Traced`), and that an
episode not proved to be over is still open (`Home`). A turn of the executor, a search or a press may
set out on a new route. Each is the last call of its chain, and `Closes` is what it leaves.

TLC finds `IInv`, `ViewsOK`, `LaunchesOK` and `MeasuresOK` to hold on the four configurations of `MCTracking`. The proof of the refinement is also why `RunPromise` lets a pass be
armed and frozen in one step: the refinement failed without it, since `request` ends in `tick`. The run
`tracking_freeze` reaches that step, and `WaitingUnarmed` is its mutant.

### Model-checked only

Of `Tracking`, three action properties:

- `FrozenPlanIsCurrent` promises the clock sample, the elements, the feedback and the timing of every frozen
  plan. Of the rotator's duty and of the network it promises no more than the output has recorded:
  that the dish rests (`RestRecorded`), and that it has done so since the last outage
  (`RestRecordedSince`). Both conditions are needed, and the scenes of `tracking_freeze` reach the freezes
  they except: without the first TLC finds a plan captured in the gap that the finding on
  `tracking_start` describes, armed while a press moves the dish, and frozen before the next pass records a rest; without the second
  one that is armed after an outage and frozen by the very pass that would record it, since a pass
  services the policy first and records last. Both are asked of the record before the step for that
  reason.
- `MovesOnSettledFeedback` and `ReadinessIsMeasured` hold for the installation's order of constants: off-times
  no longer than the coast, feedback no older than a control step when it is looked at. With other constants,
  which the assumptions of the proofs admit, a target that had to wait could be started by a service
  without a new command, and a bad sample between two passes could be overlooked.

Out of the prover's reach, and left to TLC for good: `Recovers`
(liveness), `ENABLED`, and what recursive definitions compute for every input.

## 5. Abstractions

- A position is the age at which the sample must begin to refuse movement towards each
  end (`refusal_age_ms`); movement is what a new sample says of it: still, moved, wrong.
  Which fault is reported when several coincide is not distinguished.
- The executor's clock is monotonic: branches for uptime that runs backwards, and for
  counters that run out, are left out.
- Sequence numbers: a message whose number is not newer is a `Rejected` input.
- After a watchdog reset the pads stay isolated by latches; only "parked, outputs low, until a
  reset" is kept of that.
- In `Manual` a pass may happen at any instant and may withhold movement for any
  reason the actuator has (`withheld`); when passes are due is the question of `Output`.
  Telemetry that follows a claim in the same handler comes after an await, and is an action of its own.
- The next service is never later than now plus the tracking period; the model allows a
  `Step` at any time, which covers every earlier one.
- In `Tracking` one axis stands for both (they step alike and inhibit together), a pose is told apart from
  another by equality, a sample's comparison with the target is good, fair or bad, and the duty
  history of a start is known by when it was last added to. The actuator there is that of a rested
  motor far from the ends of travel, whose monitors may latch a fault at any step; `Output` has the rest of it.
- A lease that expires is an operator who leaves (`Leave`). Serial numbers and revisions do not run
  out. The clock has samples of one uncertainty, and none that contradicts an earlier one: with a single
  sampling task and a monotonic uptime, anchors do not go backwards.
- A catalog's commits come from one task with the uptime of the moment, so the order that
  `commit` checks (`SourceOrder`) is that of its calls. Delays have no length in `Uplink`, except for the permit.

Behaviour worth knowing, which no document contradicts: a job whose start was sampled before the coast of
the last movement had ended is published as blocked (`Planning`) and keeps its ticket, so it is
planned again only when a revision changes.

### Not modelled

The planner's search, the simulated rotator, orbit propagation, pass finding and the conversion
of voltages are floating-point numerics, beyond TLC and the provers here; what they may return is a choice in
`Findings`, `Joins`, `want` and `Feedback`. HTTP, TLE and JSON text, NTP packets and the page's script are pure
conversions that no property here is about. Radio, I2C and GPIO transfers are I/O; the latch of
`feedback.rs` after a cancelled transaction is a single Boolean. Telemetry snapshots and deviation metrics
are only displayed.

## 6. Findings

`drive_expiry`: the comment on `ActuatorGuard` (`ezal-core/src/drive.rs:329-331`) says that
expiry never shortens a minimum on-time, because an output starts only under a lease with
room for it. But `command_until` (369-373) replaces the lease by the deadline of the latest
active command even when that is earlier, and sessions accept any of the three
latest tokens, so a second command may bring an earlier deadline. The run shows a start
under a long lease, a shorter lease, and an expiry inside the minimum on-time. The
movement never outlasts its proof; it is the pulse that is cut.

`tracking_start`: the comments on `invalidate_start` (`ezal-core/src/tracking/runtime.rs:133-135`) and
`start_revision` (`coordination.rs:351-352`) say that a changed pose or history invalidates preview work at once.
But `record_actuator` (378-386) compares the resting start only with the one it recorded last, and
`publish_feedback` (139-157) leaves that record alone. After a pass on failed feedback the record is `None`;
a good reading then makes a start available while `None` is still recorded, a job may be captured from it, and a
movement that was queued just before makes the next record `None` again: nothing changed, and the plan
from before the movement stays on offer until the dish has rested. The run shows this order of two passes,
two readings, a hold and a job. The gap lasts from a reading to the next pass. Nor is the freeze always
later than the news: `tracking_freeze` reaches a plan that is frozen from such a start, and
one that is frozen after an outage which the output has not recorded yet, although the comment promises the invalidation
"before a simultaneous preparation deadline can freeze it". `FrozenPlanIsCurrent` excepts just these.

## 7. Plan

Built, the most safety-critical first: relay timing and lease, the output owner and manual control; tracking, from
the request to the end of a run, with its refinement of `RunPromise`; the network, the clock and the
catalog, with liveness; message assembly; all of these checked and proved.

Left, in this order:

1. conditions on the constants under which `MovesOnSettledFeedback` and `ReadinessIsMeasured` hold (section 4),
   and their proofs;
2. the period of execution turns in `Output`, so that sleep and tracking meet in one model;
3. the latch of feedback acquisition and the limit on sockets.
