------------------------------- MODULE Output -------------------------------
(***************************************************************************)
(* The output owner at work: direction_task of crates/ezal-firmware/src/   *)
(* drive.rs servicing the actuator, the publishers of state.rs that feed   *)
(* it and wake it, the hardware watchdog, and the reset button.            *)
(*                                                                         *)
(* direction_task sleeps until the earliest deadline of its last step, its *)
(* next periodic service or a wake-up, whichever comes first: due holds    *)
(* that instant.  The executor may start it up to Late past due.  Whatever *)
(* Late is, a pass that has not run for Watchdog ends in a watchdog reset, *)
(* which leaves the board parked with its outputs low.                     *)
(*                                                                         *)
(* Commands come from any source here: the mailbox's discipline is         *)
(* modelled, the admission of commands into it is not.  Where a revoked    *)
(* permission makes the command owner queue an inhibition only in some     *)
(* modes, it may.                                                          *)
(*                                                                         *)
(* motor is what the relay box and the motors live through, which no reset *)
(* forgets: for each axis the energised time since its last full rest, the *)
(* time since it was last energised, the direction it last ran, and the    *)
(* energised time since movement was last seen, with the number of boots   *)
(* since then, the one that saw it included.                               *)
(***************************************************************************)
EXTENDS Actuator, Mailbox, Integers, FiniteSetsExt

CONSTANTS
  Late,           \* how far past due the executor may start the output task
  ServicePeriod,  \* SERVICE_PERIOD
  Watchdog,       \* WATCHDOG_TIMEOUT
  Places,         \* the refusal ages readings may have, a subset of Place
  Senses,         \* what readings may say of an axis, a subset of Sense
  Sources,        \* the commands sources send, a subset of Command
  MaxTime         \* bound on the clock

ASSUME OutputConfigIsValid ==
  /\ Late \in Nat /\ ServicePeriod \in Nat \ {0} /\ Watchdog \in Nat \ {0}
  /\ ServicePeriod < Watchdog /\ FeedbackMaxAge >= 1  \* the latency of a sample
  /\ Places \subseteq Place /\ Senses \subseteq Sense /\ Sources \subseteq Command /\ MaxTime \in Nat

VARIABLES
  act,       \* the actuator, owned by direction_task
  feedback,  \* the latest published interlock sample
  network,   \* the network gate
  pending,   \* CommandMailbox: at most one envelope
  asked,     \* whether a startup-rest override awaits the next service
  due,       \* when the output task is to run next
  fed,       \* when the watchdog was started or last fed
  parked,    \* after a watchdog reset
  motor,     \* history: what each motor has lived through
  now

vars == <<act, feedback, network, pending, asked, due, fed, parked, motor, now>>

Slack == IF Late < Watchdog THEN Late ELSE Watchdog
FullPause == IF Rest < ReverseOff THEN ReverseOff ELSE Rest
WorkLimit == Allowance + Slack
StallLimit == ProgressTimeout + FeedbackMaxAge + Slack

Motor == [worked : Nat, pause : 0 .. FullPause, dir : Direction,
          stalled : Nat, boots : Nat \ {0}]

Booted ==
  {[worked |-> w, pause |-> 0, dir |-> d, stalled |-> n * StallLimit, boots |-> n + 1] :
     w \in {0, WorkLimit}, d \in Direction, n \in {0, 1}}

Sample == [usable : BOOLEAN, at : Nat, place : [Axis -> Place], sense : [Axis -> Sense]]

\* A board that boots knows nothing of its motors, so they may have worked up
\* to their limit, stalled through a whole boot, and stopped this instant.
Init ==
  /\ act = NewActuator
  /\ feedback = NoFeedback
  /\ network = NewNetwork
  /\ pending = {}
  /\ asked = FALSE
  /\ due = 0
  /\ fed = 0
  /\ parked = FALSE
  /\ motor \in [Axis -> Booted]
  /\ now = 0

-----------------------------------------------------------------------------
(* The publishers.                                                         *)

Running == ~parked /\ now < fed + Watchdog

Wake(changed) == due' = IF changed /\ now < due THEN now ELSE due

\* Mutant of FeedbackWakes: new feedback never wakes the output task.
FeedbackNeverWakes == FALSE

\* Idle outputs are not woken: an activation is checked when it happens.
FeedbackWakes == IsActive(Output(act))

\* A conversion of both channels that started now or, at most one latency ago,
\* before; or one that failed.
PublishFeedback(sample) ==
  /\ Running
  /\ feedback' = sample
  /\ motor' = [a \in Axis |->
       IF sample.usable /\ sample.sense[a] = "moved"
         THEN [motor[a] EXCEPT !.stalled = IF @ < now - sample.at THEN @ ELSE now - sample.at,
                               !.boots = 1]
         ELSE motor[a]]
  /\ Wake(FeedbackWakes)
  /\ UNCHANGED <<act, network, pending, asked, fed, parked, now>>

Samples ==
  {[usable |-> TRUE, at |-> t, place |-> p, sense |-> s] :
      t \in {t \in {now - 1, now} : t >= 0 /\ t > feedback.at},
      p \in [Axis -> Places], s \in [Axis -> Senses]}
    \cup {[NoFeedback EXCEPT !.at = feedback.at]}

\* Losing the network may revoke an operator or a run, which queues a stop.
ObserveNetwork(ready) ==
  /\ Running
  /\ network' = Observe(network, ready, now)
  /\ pending' \in IF Lost(network, ready, now)
                    THEN {pending, Submitted(pending, Stop)} ELSE {pending}
  /\ Wake(Lost(network, ready, now))
  /\ UNCHANGED <<act, feedback, asked, fed, parked, motor, now>>

Submit(envelope) ==
  /\ Running
  /\ pending' = Submitted(pending, envelope)
  /\ Wake(TRUE)
  /\ UNCHANGED <<act, feedback, network, asked, fed, parked, motor, now>>

\* Inhibitions have no expiry of their own.
Envelopes ==
  {e \in [command : Sources, until : now + 1 .. now + MovementLease] :
     e.command.kind # "Inhibit"}
    \cup {Stop : c \in Sources \cap {Inhibition}}

\* request_startup_rest_override, admitted: it queues a stop as well.
AskOverride ==
  /\ Running
  /\ MayOverride(act) /\ ~asked
  /\ asked' = TRUE
  /\ pending' = Submitted(pending, Stop)
  /\ Wake(TRUE)
  /\ UNCHANGED <<act, feedback, network, fed, parked, motor, now>>

-----------------------------------------------------------------------------
(* The output task.                                                        *)

\* service_actuator: granted is its second check of the override request.
Served(granted) ==
  LET gate == Expire(network, now)
      next == ActuatorStep(act, feedback, gate, Taken(pending, now), now)
  IN  IF asked /\ granted /\ MayOverride(next)
        THEN ActuatorStep(OverrideStartupRest(next), feedback, gate, {Stop}, now)
        ELSE next

Overridden(granted) ==
  /\ asked /\ granted
  /\ MayOverride(ActuatorStep(act, feedback, Expire(network, now), Taken(pending, now), now))

\* What the motors see of a new output; an operator who overrides the startup
\* rest asserts that the motors have had theirs, which only a board that has not
\* run them since it booted can believe.
MotorAfter(a, out, rested) ==
  LET m == IF rested THEN [motor[a] EXCEPT !.worked = 0, !.pause = FullPause] ELSE motor[a]
  IN  IF out[a] = Off THEN m ELSE [m EXCEPT !.pause = 0, !.dir = out[a]]

\* One pass: service, apply, feed the watchdog, sleep.
Step(granted) ==
  /\ Running
  /\ act' = Served(granted)
  /\ network' = Expire(network, now)
  /\ pending' = {}
  /\ asked' = FALSE
  /\ due' = Min(Deadlines(act', feedback, network', now) \cup {now + ServicePeriod})
  /\ fed' = now
  /\ motor' = [a \in Axis |-> MotorAfter(a, Output(act'),
                Overridden(granted) /\ \A b \in Axis : act.motion[b].last = Off)]
  /\ UNCHANGED <<feedback, parked, now>>

Worn(m) == [m EXCEPT !.worked = @ + 1, !.stalled = @ + 1]

Rests(m) ==
  LET pause == IF m.pause < FullPause THEN m.pause + 1 ELSE FullPause
  IN  [m EXCEPT !.pause = pause, !.worked = IF pause >= Rest THEN 0 ELSE @]

Tick ==
  /\ now < MaxTime
  /\ parked \/ (now < due + Late /\ now < fed + Watchdog)
  /\ now' = now + 1
  /\ motor' = [a \in Axis |-> IF Output(act)[a] = Off THEN Rests(motor[a]) ELSE Worn(motor[a])]
  /\ UNCHANGED <<act, feedback, network, pending, asked, due, fed, parked>>

\* RAM is lost, the progress budgets with it, and every output opens.
Boot ==
  /\ act' = NewActuator
  /\ feedback' = [NoFeedback EXCEPT !.at = feedback.at]
  /\ network' = NewNetwork
  /\ pending' = {}
  /\ asked' = FALSE
  /\ due' = now
  /\ fed' = now
  /\ motor' = [a \in Axis |-> [motor[a] EXCEPT !.boots = @ + 1]]
  /\ UNCHANGED now

WatchdogReset == ~parked /\ now >= fed + Watchdog /\ parked' = TRUE /\ Boot

\* The reset button or a power cycle: the only way out of parking.
Reset == parked' = FALSE /\ Boot

Next ==
  \/ \E sample \in Samples : PublishFeedback(sample)
  \/ \E ready \in BOOLEAN : ObserveNetwork(ready)
  \/ \E envelope \in Envelopes : Submit(envelope)
  \/ AskOverride
  \/ \E granted \in BOOLEAN : Step(granted)
  \/ Tick
  \/ WatchdogReset
  \/ Reset

Spec == Init /\ [][Next]_vars

-----------------------------------------------------------------------------
(* Invariants.                                                             *)

TypeOK ==
  /\ act \in ActuatorState
  /\ feedback \in Sample
  /\ network.observed \in Instant /\ network.generation \in Nat
  /\ pending \subseteq Envelope /\ AtMostOne(pending)
  /\ asked \in BOOLEAN /\ parked \in BOOLEAN
  /\ due \in Nat /\ fed \in Nat /\ now \in 0 .. MaxTime
  /\ motor \in [Axis -> Motor]

\* Everything the energised axis a depends on still holds at this instant.
StillAllowed(a) ==
  LET sinceServed == Elapsed(act, now)
  IN  /\ now < act.guard.lease
      /\ Ready(network, now) /\ act.generation = network.generation
      /\ Current(feedback, now)
      /\ Age(feedback, now) < feedback.place[a][Output(act)[a]]
      /\ ~act.faulted
      /\ act.duty[a].used + sinceServed < Allowance
      /\ \A s \in act.motion[a].spent : s + sinceServed < ProgressTimeout
      /\ act.motion[a].spent # {}

\* Whenever the output task has nothing due, every energised axis has a live
\* lease, a ready network of the generation it started under, current feedback
\* that does not refuse its direction, duty left, a progress budget that is not
\* used up, and no fault: the deadlines a step returns and the wake-ups of the
\* publishers together leave nothing out, so that no task but the sleeping one
\* is needed to notice an expiry (actuator.rs step, state.rs wake_if).
SleepIsSafe ==
  ~parked /\ now < due => \A a \in Axis : Output(act)[a] # Off => StillAllowed(a)

\* No motor works longer between two full rests than its allowance, however its
\* work is cut into pulses and whoever commands them, resets and power cycles
\* in between included ("Per-axis energized/rest accounting shared by every
\* source", actuator.rs ActuatorConfig::duty; DutyHistory::Unknown).
WorkIsBounded == \A a \in Axis : motor[a].worked <= WorkLimit

\* Since movement was last seen no boot energises a motor longer than the
\* progress budget and the age of a sample, however it is cut into pulses and
\* reversals (CONTROL_CONTRACT.md "Repeated short jogs and reversals do not reset
\* accumulated no-progress time").  The budget itself is lost with RAM, so each
\* boot without movement in sight grants the motor another one.
StallIsBounded == \A a \in Axis : motor[a].stalled <= motor[a].boots * StallLimit

-----------------------------------------------------------------------------
(* What a step may never do.                                               *)

Starts(a) == Output(act)[a] = Off /\ Output(act')[a] # Off

\* An axis starts only with a whole minimum pulse left both on its lease and
\* in its duty allowance, and never on old feedback (AxisRelay::update,
\* DutyMonitor::guard_drive, FeedbackInterlock::guard_drive).
StartsCoverAPulse ==
  [][\A a \in Axis : Starts(a) =>
       /\ now + MinActive <= act'.guard.lease
       /\ Remaining(act'.duty[a]) >= MinActive
       /\ Current(feedback, now)]_vars

\* An axis starts only after its motor has paused for the off-time of its
\* direction, resets included: a reset forgets the relay holds but requires a
\* full rest first, unless an operator asserts that the motors had theirs.
StartsAfterPause ==
  [][\A a \in Axis : Starts(a) =>
       IF Output(act')[a] = motor[a].dir
         THEN motor[a].pause >= SameOff
         ELSE motor[a].pause >= ReverseOff]_vars

\* A latched motion fault leaves nothing energised or waiting, in the step that
\* latches it and ever after, and only a reset clears it
\* (CONTROL_CONTRACT.md "Latch both axes off", "Board reset").
FaultLatches ==
  [][/\ act'.faulted => ~IsActive(Output(act')) /\ ~IsActive(Target(act'.guard))
     /\ act.faulted /\ ~act'.faulted => act' = NewActuator]_vars

\* Once a stop is queued, the next thing the output does is stop: no later
\* command overtakes it (CommandMailbox: "unconsumed inhibition cannot be
\* overwritten").
StopsAreNotOvertaken ==
  [][(\E e \in pending : e.command.kind = "Inhibit")
     => \/ pending' = pending
        \/ ~IsActive(Output(act')) /\ ~IsActive(Target(act'.guard))]_vars

\* Nothing moves again after a gap in the network, however short, without a
\* command consumed since ("Even a brief outage": NetworkGate's generation).
OutagesStop ==
  [][act'.generation # act.generation /\ pending = {} => ~IsActive(Output(act'))]_vars
=============================================================================
