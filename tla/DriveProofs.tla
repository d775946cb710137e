---------------------------- MODULE DriveProofs ----------------------------
(***************************************************************************)
(* What the output guard promises, for every set of axes, every valid      *)
(* timing and every sequence of commands: Drive's type invariant, the      *)
(* equivalence of movement and lease, the expiry no refresh erases, the    *)
(* pulse every start has room for, and the refinement of RelayDiscipline.  *)
(*                                                                         *)
(* IInv is the inductive invariant.  TypeOK and MovementIsLeased hold      *)
(* after every call only if they held before it; the refinement needs to   *)
(* know in addition that both off-times of an axis were counted from the   *)
(* same release, so that the instant of that release can be recovered.     *)
(***************************************************************************)
EXTENDS Drive, RelayProofs

HoldsInv == \A a \in Axis : HoldsAgree(guard.relay[a])

\* Nothing is energised or waiting to be energised without a lease, an idle
\* guard owns none, and no lease outlives one movement lease from now
\* (drive.rs command_until, expire_lease, clear_idle_lease): abandoned
\* movement, delayed activations included, always has an instant at which it
\* ends.
MovementIsLeased ==
  /\ (IsActive(Actual(guard)) \/ IsActive(Target(guard))) <=> guard.lease # NoLease
  /\ guard.lease <= now + MovementLease

IInv == TypeOK /\ MovementIsLeased /\ HoldsInv

\* The same, in the words of the lemmas about guards.
LEMMA LeasedIsMovementIsLeased ==
  MovementIsLeased <=> Leased(guard) /\ guard.lease <= now + MovementLease
  BY DEF MovementIsLeased, Leased, InMotion

\* The off-times an axis had agree with those any call leaves it.
LEMMA HoldsPreserved ==
  ASSUME NEW r \in AxisRelay, NEW u \in AxisRelay, NEW t \in Nat, NEW limit \in Nat,
         HoldsAgree(r), AxisStep(r, u, t, limit)
  PROVE  HoldsAgree(u)
<1>1. CASE AxisStays(r, u)
  BY <1>1 DEF AxisStays, HoldsAgree
<1>2. CASE AxisStops(r, u, t)
  BY <1>2, RelayConfigIsValid DEF AxisStops, HoldsAgree
<1>3. CASE AxisStarts(r, u, t, limit)
  BY <1>3 DEF AxisStarts, HoldsAgree
<1> QED BY <1>1, <1>2, <1>3 DEF AxisStep

\* A new guard holds nothing and runs nothing.
LEMMA InitIInv == Init => IInv
<1> SUFFICES ASSUME Init PROVE IInv
  OBVIOUS
<1>1. NewRelay \in AxisRelay /\ NewRelay.actual = Off /\ NewRelay.target = Off
      /\ HoldsAgree(NewRelay)
  BY DEF NewRelay, AxisRelay, HoldsAgree, Off
<1>2. /\ guard \in Guard /\ guard.lease = NoLease
      /\ \A a \in Axis : guard.relay[a] = NewRelay
  BY <1>1 DEF Init, NewGuard, Guard, NoLease
<1>3. TypeOK
  BY <1>2, MaxTimeIsNat DEF Init, TypeOK, Call, Quiet, DriveCommand, Idle
<1>4. MovementIsLeased
  <2>1. ~InMotion(guard)
    BY <1>1, <1>2, InMotionFacts
  <2> QED
    BY <2>1, <1>2, RelayConfigIsValid, LeasedIsMovementIsLeased
       DEF Leased, Init, NoLease
<1> QED
  BY <1>1, <1>2, <1>3, <1>4 DEF IInv, HoldsInv

\* Every call is a step of the guard, and no call leaves it a longer lease than
\* a movement lease from now.
LEMMA CallIsGuardStep ==
  ASSUME IInv,
         \/ \E command \in Command, validUntil \in Expiry : Deliver(command, validUntil)
         \/ Update
         \/ \E axes \in SUBSET Axis : Withdraw(axes)
  PROVE  /\ GuardStep(guard, guard', now)
         /\ guard'.lease <= now + MovementLease
         /\ now' = now /\ call' \in Call
<1>0. /\ guard \in Guard /\ now \in Nat /\ Leased(guard)
      /\ guard.lease <= now + MovementLease /\ guard.lease \in Nat
  BY LeasedIsMovementIsLeased, MaxTimeIsNat DEF IInv, TypeOK, Guard
<1>q. \A kind \in {"Update", "Withdraw", "Tick"} : Quiet(kind) \in Call
  BY DEF Quiet, Call, DriveCommand, Idle
<1>1. ASSUME NEW command \in Command, NEW validUntil \in Expiry, Deliver(command, validUntil)
      PROVE  /\ GuardStep(guard, guard', now)
             /\ guard'.lease <= now + MovementLease
             /\ now' = now /\ call' \in Call
  <2>1. validUntil \in Nat
    BY <1>0, RelayConfigIsValid DEF Expiry
  <2>2. command \in Call
    BY DEF Command, Call, DriveCommand, Idle
  <2> QED
    BY <1>0, <1>1, <2>1, <2>2, CommandUntilFacts DEF Deliver
<1>2. ASSUME Update
      PROVE  /\ GuardStep(guard, guard', now)
             /\ guard'.lease <= now + MovementLease
             /\ now' = now /\ call' \in Call
  BY <1>0, <1>q, <1>2, UpdateGuardFacts, RelayConfigIsValid DEF Update, NoLease
<1>3. ASSUME NEW axes \in SUBSET Axis, Withdraw(axes)
      PROVE  /\ GuardStep(guard, guard', now)
             /\ guard'.lease <= now + MovementLease
             /\ now' = now /\ call' \in Call
  BY <1>0, <1>q, <1>3, InhibitAxesFacts, RelayConfigIsValid DEF Withdraw, NoLease
<1> QED BY <1>1, <1>2, <1>3

\* Every call keeps the invariant.
LEMMA NextIInv == IInv /\ [Next]_vars => IInv'
<1> SUFFICES ASSUME IInv, [Next]_vars PROVE IInv'
  OBVIOUS
<1>1. CASE \/ \E command \in Command, validUntil \in Expiry : Deliver(command, validUntil)
           \/ Update
           \/ \E axes \in SUBSET Axis : Withdraw(axes)
  <2>1. /\ GuardStep(guard, guard', now) /\ guard'.lease <= now + MovementLease
        /\ now' = now /\ call' \in Call
    BY <1>1, CallIsGuardStep
  <2>2. TypeOK'
    BY <2>1 DEF IInv, TypeOK, GuardStep
  <2>3. MovementIsLeased'
    BY <2>1 DEF GuardStep, MovementIsLeased, Leased, InMotion
  <2>4. HoldsInv'
    <3> SUFFICES ASSUME NEW a \in Axis PROVE HoldsAgree(guard'.relay[a])
      BY DEF HoldsInv
    <3>1. /\ guard.relay[a] \in AxisRelay /\ guard'.relay[a] \in AxisRelay
          /\ guard'.lease \in Nat /\ now \in Nat
      BY <2>1, MaxTimeIsNat DEF IInv, TypeOK, GuardStep, Guard
    <3>2. HoldsAgree(guard.relay[a]) /\ AxisStep(guard.relay[a], guard'.relay[a], now, guard'.lease)
      BY <2>1 DEF IInv, HoldsInv, GuardStep
    <3> QED BY <3>1, <3>2, HoldsPreserved
  <2> QED BY <2>2, <2>3, <2>4 DEF IInv
<1>2. CASE Tick
  <2>1. guard' = guard /\ now' = now + 1 /\ now < MaxTime /\ call' \in Call
    BY <1>2 DEF Tick, Quiet, Call, DriveCommand, Idle
  <2>2. TypeOK'
    BY <2>1, MaxTimeIsNat DEF IInv, TypeOK
  <2>3. MovementIsLeased'
    <3>1. guard.lease \in Nat /\ now \in Nat
      BY MaxTimeIsNat DEF IInv, TypeOK, Guard
    <3> QED
      BY <2>1, <3>1, RelayConfigIsValid DEF IInv, MovementIsLeased
  <2>4. HoldsInv'
    BY <2>1 DEF IInv, HoldsInv
  <2> QED BY <2>2, <2>3, <2>4 DEF IInv
<1>3. CASE UNCHANGED vars
  BY <1>3 DEF vars, IInv, TypeOK, MovementIsLeased, HoldsInv, Actual, Target, IsActive
<1> QED BY <1>1, <1>2, <1>3 DEF Next

\* So it holds in every reachable state.
LEMMA IInvHolds == Spec => []IInv
  BY InitIInv, NextIInv, PTL DEF Spec

-----------------------------------------------------------------------------

\* TypeOK: the guard, the clock and the last call are what they are declared
\* to be in every reachable state.
THEOREM TypeCorrect == Spec => []TypeOK
<1>1. IInv => TypeOK
  BY DEF IInv
<1> QED BY <1>1, IInvHolds, PTL

\* MovementIsLeased: drive.rs never leaves an output energised or waiting
\* without a lease, nor an idle guard with one, nor grants a lease longer than
\* MOVEMENT_LEASE_MS.
THEOREM MovementAlwaysLeased == Spec => []MovementIsLeased
<1>1. IInv => MovementIsLeased
  BY DEF IInv
<1> QED BY <1>1, IInvHolds, PTL

\* DeadlinesAnnounceChange: ActuatorGuard::next_transition_ms leaves nothing
\* out.  Until the deadlines it returns no service instant changes an output,
\* so the output task may sleep.
THEOREM DeadlinesAnnounceEveryChange == Spec => []DeadlinesAnnounceChange
<1>1. ASSUME IInv PROVE DeadlinesAnnounceChange
  <2> SUFFICES ASSUME NEW t \in Expiry, \A d \in GuardDeadlines(guard, now) : t < d
               PROVE  Actual(UpdateGuard(guard, t)) = Actual(guard)
    BY DEF DeadlinesAnnounceChange
  <2>1. guard \in Guard /\ now \in Nat /\ t \in Nat /\ now <= t
    BY <1>1, MaxTimeIsNat, RelayConfigIsValid DEF IInv, TypeOK, Expiry
  <2>2. \A a \in Axis : UpdateGuard(guard, t).relay[a] = guard.relay[a]
    BY <2>1, DeadlinesCoverUpdates
  <2> QED BY <2>2 DEF Actual
<1> QED BY <1>1, IInvHolds, PTL

\* ExpiryIsNotErased: no command, however it renews the lease, keeps an axis
\* energised over the end of the lease it was energised under
\* (ActuatorGuard::command_until).
THEOREM ExpiriesAreNotErased == Spec => ExpiryIsNotErased
<1> DEFINE A == /\ guard.lease # NoLease /\ guard.lease <= now
                /\ call'.kind \in {"Drive", "Jog", "Inhibit", "Update"}
                => \A a \in Axis : Energised(a) => guard'.relay[a].actual = Off
<1>1. IInv /\ [Next]_vars => [A]_vars
  <2> SUFFICES ASSUME IInv, Next, guard.lease # NoLease, guard.lease <= now,
                      call'.kind \in {"Drive", "Jog", "Inhibit", "Update"},
                      NEW a \in Axis, Energised(a)
               PROVE  guard'.relay[a].actual = Off
    OBVIOUS
  <2>1. guard \in Guard /\ now \in Nat /\ Leased(guard) /\ LeaseExpired(guard, now)
    BY MaxTimeIsNat, LeasedIsMovementIsLeased DEF IInv, TypeOK, LeaseExpired
  <2>2. guard.relay[a].actual # Off
    BY DEF Energised
  <2>3. ASSUME NEW command \in Command, NEW validUntil \in Expiry, Deliver(command, validUntil)
        PROVE  guard'.relay[a].actual = Off
    <3>1. guard' = CommandUntil(guard, command, now, validUntil) /\ validUntil \in Nat
      BY <2>1, <2>3, RelayConfigIsValid DEF Deliver, Expiry
    <3> QED BY <2>1, <2>2, <3>1, ExpiredGuardOpens
  <2>4. CASE Update
    BY <2>1, <2>2, <2>4, ExpiredGuardOpens DEF Update
  <2>5. CASE Tick \/ \E axes \in SUBSET Axis : Withdraw(axes)
    BY <2>5 DEF Tick, Withdraw, Quiet
  <2> QED BY <2>3, <2>4, <2>5 DEF Next
<1> QED BY <1>1, IInvHolds, PTL DEF Spec, ExpiryIsNotErased

\* OrdinaryReleaseKeepsMinimumOn: while its lease lives no service instant and
\* no drive command opens an axis before its minimum on-time (drive.rs
\* Command::Drive, AxisRelay::update).
THEOREM OrdinaryReleasesKeepMinimumOn == Spec => OrdinaryReleaseKeepsMinimumOn
<1> DEFINE A == /\ ~LeaseExpired(guard, now)
                /\ \/ call'.kind = "Update"
                   \/ call'.kind = "Drive" /\ Target(guard') = call'.drive
                => \A a \in Axis : Opens(a) => guard.relay[a].onUntil <= now
<1>1. IInv /\ [Next]_vars => [A]_vars
  <2> SUFFICES ASSUME IInv, Next, ~LeaseExpired(guard, now),
                      \/ call'.kind = "Update"
                      \/ call'.kind = "Drive" /\ Target(guard') = call'.drive,
                      NEW a \in Axis, Opens(a)
               PROVE  guard.relay[a].onUntil <= now
    BY DEF Opens
  <2>1. /\ guard \in Guard /\ now \in Nat /\ guard.lease \in Nat /\ Leased(guard)
        /\ guard.lease <= now + MovementLease /\ guard.relay[a] \in AxisRelay
    BY MaxTimeIsNat, LeasedIsMovementIsLeased DEF IInv, TypeOK, Guard
  <2>2. guard.relay[a].actual # Off /\ guard'.relay[a].actual # guard.relay[a].actual
    BY DEF Opens, Energised
  <2>3. ASSUME NEW command \in Command, NEW validUntil \in Expiry, Deliver(command, validUntil)
        PROVE  guard.relay[a].onUntil <= now
    <3>1. /\ guard' = CommandUntil(guard, command, now, validUntil) /\ call' = command
          /\ validUntil \in Nat
      BY <2>1, <2>3, RelayConfigIsValid DEF Deliver, Expiry
    <3>2. command.kind = "Drive" /\ Target(guard') = command.drive
      BY <3>1 DEF Command
    <3> QED BY <2>1, <2>2, <3>1, <3>2, DriveKeepsMinimumOn
  <2>4. CASE Update
    <3>1. guard'.relay[a] = UpdateAxis(guard.relay[a], now, guard.lease)
      BY <2>1, <2>4, UpdateGuardRelay DEF Update
    <3> QED BY <2>1, <2>2, <3>1, UpdateKeepsMinimumOn
  <2>5. CASE Tick \/ \E axes \in SUBSET Axis : Withdraw(axes)
    BY <2>5 DEF Tick, Withdraw, Quiet
  <2> QED BY <2>3, <2>4, <2>5 DEF Next
<1> QED BY <1>1, IInvHolds, PTL DEF Spec, OrdinaryReleaseKeepsMinimumOn

\* StartsCoverAPulse: AxisRelay::update energises an axis only under a lease
\* that covers a whole minimum on-time from that instant.
THEOREM StartsAlwaysCoverAPulse == Spec => StartsCoverAPulse
<1> DEFINE Covered == \A a \in Axis : Starts(a) =>
                        /\ guard'.relay[a].onUntil = now + MinActive
                        /\ guard'.relay[a].onUntil <= guard'.lease
<1>1. IInv /\ [Next]_vars => [Covered]_vars
  <2> SUFFICES ASSUME IInv, Next PROVE Covered
    OBVIOUS
  <2>1. CASE Tick
    BY <2>1 DEF Tick, Starts
  <2>2. CASE ~Tick
    <3>1. GuardStep(guard, guard', now)
      BY <2>2, CallIsGuardStep DEF Next
    <3> SUFFICES ASSUME NEW a \in Axis, Starts(a)
                 PROVE  /\ guard'.relay[a].onUntil = now + MinActive
                        /\ guard'.relay[a].onUntil <= guard'.lease
      OBVIOUS
    <3>2. AxisStarts(guard.relay[a], guard'.relay[a], now, guard'.lease)
      BY <3>1 DEF GuardStep, AxisStep, AxisStays, AxisStops, Starts
    <3> QED BY <3>2 DEF AxisStarts
  <2> QED BY <2>1, <2>2
<1> QED
  BY <1>1, IInvHolds, PTL DEF Spec, StartsCoverAPulse

\* IsDisciplined: the guard implements RelayDiscipline.  Every call is a step of
\* it that switches each axis at most once, every tick lets time pass, and
\* Released recovers the instant of the last release.
THEOREM DriveImplementsDiscipline == Spec => IsDisciplined
<1>1. Init => Discipline!Init
  BY DEF Init, NewGuard, NewRelay, Discipline!Init, Actual, Released, Off, Discipline!Off
<1>2. IInv /\ [Next]_vars => [Discipline!Next]_(Discipline!vars)
  <2> SUFFICES ASSUME IInv, [Next]_vars PROVE [Discipline!Next]_(Discipline!vars)
    OBVIOUS
  <2>1. CASE /\ \/ \E command \in Command, validUntil \in Expiry : Deliver(command, validUntil)
                \/ Update
                \/ \E axes \in SUBSET Axis : Withdraw(axes)
    <3>1. GuardStep(guard, guard', now) /\ now' = now
      BY <2>1, CallIsGuardStep
    <3> SUFFICES ASSUME NEW a \in Axis
                 PROVE  \/ Discipline!Start(a) \/ Discipline!Stop(a) \/ Discipline!Stay(a)
      BY <3>1 DEF Discipline!Next, Discipline!Switch
    <3> DEFINE r == guard.relay[a]
               u == guard'.relay[a]
    <3>2. /\ r \in AxisRelay /\ u \in AxisRelay /\ now \in Nat /\ guard'.lease \in Nat
          /\ HoldsAgree(r) /\ AxisStep(r, u, now, guard'.lease)
      BY <3>1, MaxTimeIsNat DEF IInv, TypeOK, HoldsInv, GuardStep, Guard
    <3>3. /\ Actual(guard)[a] = r.actual /\ Actual(guard)'[a] = u.actual
          /\ [b \in Axis |-> guard.relay[b].last][a] = r.last
          /\ [b \in Axis |-> guard'.relay[b].last][a] = u.last
          /\ [b \in Axis |-> Released(guard.relay[b])][a] = Released(r)
          /\ [b \in Axis |-> Released(guard'.relay[b])][a] = Released(u)
      BY DEF Actual
    <3>4. CASE AxisStays(r, u)
      BY <3>2, <3>3, <3>4 DEF AxisStays, Discipline!Stay, Released
    <3>5. CASE AxisStops(r, u, now)
      <4>1. Released(u) = now
        BY <3>2, <3>5, RelayConfigIsValid DEF AxisStops, Released
      <4> QED
        BY <4>1, <3>2, <3>3, <3>5 DEF AxisStops, Discipline!Stop, Off, Discipline!Off
    <3>6. CASE AxisStarts(r, u, now, guard'.lease)
      <4>1. Released(u) = Released(r)
        BY <3>6 DEF AxisStarts, Released
      <4>2. r.last # Off =>
              now >= Released(r) + (IF u.actual = r.last THEN SameOff ELSE ReverseOff)
        BY <3>2, <3>6, RelayConfigIsValid
           DEF AxisStarts, RestedFor, Released, HoldsAgree, AxisRelay
      <4>3. Discipline!Rested(a, u.actual)
        BY <4>2, <3>3 DEF Discipline!Rested, Off, Discipline!Off
      <4> QED
        BY <4>1, <4>3, <3>3, <3>6
           DEF AxisStarts, Discipline!Start, Off, Discipline!Off, Direction, Discipline!Direction
    <3> QED BY <3>2, <3>4, <3>5, <3>6 DEF AxisStep
  <2>2. CASE Tick
    <3>1. guard' = guard /\ now' > now
      BY <2>2, MaxTimeIsNat DEF Tick, IInv, TypeOK
    <3> QED
      BY <3>1 DEF Discipline!Next, Discipline!Pass, Actual
  <2>3. CASE UNCHANGED vars
    BY <2>3 DEF vars, Discipline!vars, Actual
  <2> QED BY <2>1, <2>2, <2>3 DEF Next
<1> QED
  BY <1>1, <1>2, IInvHolds, PTL DEF Spec, IsDisciplined, Discipline!Spec
=============================================================================
