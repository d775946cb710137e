------------------------------- MODULE Drive -------------------------------
(***************************************************************************)
(* The output guard of drive.rs driven by every command its callers may    *)
(* send it, at every instant: one command source, one clock, both axes.    *)
(* The guard is serviced late or early, so these properties hold however   *)
(* the output task is scheduled.                                           *)
(*                                                                         *)
(* validUntil is the command's own expiry (CommandEnvelope).  Sources      *)
(* assign one at most a lease ahead at admission, and it may have passed   *)
(* at delivery: now stands for every expiry that has.                      *)
(***************************************************************************)
EXTENDS Relay, Integers

CONSTANT MaxTime   \* bound on the clock

ASSUME MaxTimeIsNat == MaxTime \in Nat

VARIABLES
  guard,  \* ActuatorGuard
  now,    \* the monotonic clock
  call    \* history: the call that made the last step

vars == <<guard, now, call>>

Call == [kind : {"Drive", "Jog", "Inhibit", "Update", "Withdraw", "Tick"},
         drive : DriveCommand]
Quiet(kind) == [kind |-> kind, drive |-> Idle]

Init == guard = NewGuard /\ now = 0 /\ call = Quiet("Tick")

\* A command is delivered to the guard.
Deliver(command, validUntil) ==
  /\ guard' = CommandUntil(guard, command, now, validUntil)
  /\ call' = command
  /\ UNCHANGED now

\* A service instant without a command.
Update == guard' = UpdateGuard(guard, now) /\ call' = Quiet("Update") /\ UNCHANGED now

\* Feedback, limits or duty withdraw some axes.
Withdraw(axes) ==
  /\ guard' = InhibitAxes(guard, axes, now)
  /\ call' = Quiet("Withdraw")
  /\ UNCHANGED now

Tick == now < MaxTime /\ now' = now + 1 /\ call' = Quiet("Tick") /\ UNCHANGED guard

Expiry == now .. now + MovementLease

Next ==
  \/ \E command \in Command, validUntil \in Expiry : Deliver(command, validUntil)
  \/ Update
  \/ \E axes \in SUBSET Axis : Withdraw(axes)
  \/ Tick

Spec == Init /\ [][Next]_vars

-----------------------------------------------------------------------------
(* Invariants.                                                             *)

TypeOK == guard \in Guard /\ now \in 0 .. MaxTime /\ call \in Call

\* A guard serviced only at the deadlines it announces misses nothing: while
\* none of them is reached, servicing it at any later instant changes no
\* output (ActuatorGuard::next_transition_ms, which the firmware sleeps on).
DeadlinesAnnounceChange ==
  \A t \in Expiry :
    (\A d \in GuardDeadlines(guard, now) : t < d)
      => Actual(UpdateGuard(guard, t)) = Actual(guard)

\* drive.rs: "An output starts only when its lease leaves at least
\* OUTPUT_MIN_ACTIVE_MS [...] Expiry therefore never shortens a minimum
\* on-time": the lease of an energised axis lasts until its minimum on-time is
\* over.
ExpiryKeepsMinimumOn ==
  \A a \in Axis :
    guard.relay[a].actual # Off => guard.relay[a].onUntil <= guard.lease

-----------------------------------------------------------------------------
(* What a step may never do.                                               *)

Energised(a) == guard.relay[a].actual # Off
Starts(a) == guard.relay[a].actual = Off /\ guard'.relay[a].actual # Off
Opens(a) == Energised(a) /\ guard'.relay[a].actual # guard.relay[a].actual

\* An axis starts only under a lease that still covers a whole minimum pulse,
\* and stays inside it: a stalled command stream cannot click the relay
\* (AxisRelay::update with activation_limit_ms).
StartsCoverAPulse ==
  [][\A a \in Axis : Starts(a) =>
       /\ guard'.relay[a].onUntil = now + MinActive
       /\ guard'.relay[a].onUntil <= guard'.lease]_vars

\* "A late refresh must not erase an expiry" (ActuatorGuard::command_until): once
\* the lease has run out, the next service or command opens whatever is still
\* energised, even a command that asks for the same movement under a new lease.
ExpiryIsNotErased ==
  [][/\ guard.lease # NoLease /\ guard.lease <= now
     /\ call'.kind \in {"Drive", "Jog", "Inhibit", "Update"}
     => \A a \in Axis : Energised(a) => guard'.relay[a].actual = Off]_vars

\* While its lease lives, neither a service instant nor a drive command opens
\* an axis before its minimum on-time, whatever the command wants instead
\* (Command::Drive: "released after its minimum on-time").  A drive command
\* that arrives late is an inhibition and may.
OrdinaryReleaseKeepsMinimumOn ==
  [][/\ ~LeaseExpired(guard, now)
     /\ \/ call'.kind = "Update"
        \/ call'.kind = "Drive" /\ Target(guard') = call'.drive
     => \A a \in Axis : Opens(a) => guard.relay[a].onUntil <= now]_vars

\* The guard implements RelayDiscipline: the instant of an axis's last release
\* is recovered from the off-time recorded for it.
Released(r) == IF r.last = Off THEN 0 ELSE r.offUntil - SameOff

Discipline == INSTANCE RelayDiscipline WITH
  on <- Actual(guard),
  last <- [a \in Axis |-> guard.relay[a].last],
  since <- [a \in Axis |-> Released(guard.relay[a])],
  clock <- now

IsDisciplined == Discipline!Spec
=============================================================================
