---------------------------- MODULE RelayProofs ----------------------------
(***************************************************************************)
(* Lemmas about the operators of Relay, for every set of axes and every    *)
(* valid timing: the types they preserve, and what one call may do to one  *)
(* axis.  DriveProofs rests on them.                                       *)
(***************************************************************************)
EXTENDS Relay, TLAPS

(***************************************************************************)
(* What an axis keeps: before its first release it has no holds, and from  *)
(* then on both holds were counted from the same release.                  *)
(***************************************************************************)
HoldsAgree(r) ==
  IF r.last = Off THEN r.offUntil = 0 /\ r.reverseUntil = 0
  ELSE r.offUntil >= SameOff /\ r.reverseUntil + SameOff = r.offUntil + ReverseOff

RestedFor(r, d, t) ==
  r.last = Off \/ (IF d = r.last THEN r.offUntil ELSE r.reverseUntil) <= t

\* The three things a call at t may do to an axis r, leaving it u.
AxisStays(r, u) ==
  /\ u.actual = r.actual /\ u.last = r.last
  /\ u.offUntil = r.offUntil /\ u.reverseUntil = r.reverseUntil
AxisStops(r, u, t) ==
  /\ r.actual # Off /\ u.actual = Off /\ u.last = r.actual
  /\ u.offUntil = t + SameOff /\ u.reverseUntil = t + ReverseOff
AxisStarts(r, u, t, limit) ==
  /\ r.actual = Off /\ u.actual \in Direction /\ u.last = r.last
  /\ u.offUntil = r.offUntil /\ u.reverseUntil = r.reverseUntil
  /\ RestedFor(r, u.actual, t)
  /\ u.onUntil = t + MinActive /\ t + MinActive <= limit
  /\ u.actual = u.target
AxisStep(r, u, t, limit) == AxisStays(r, u) \/ AxisStops(r, u, t) \/ AxisStarts(r, u, t, limit)

\* A release leaves the target alone, opens the axis, and is a stop or nothing.
LEMMA ReleaseFacts ==
  ASSUME NEW r \in AxisRelay, NEW t \in Nat
  PROVE  /\ Release(r, t) \in AxisRelay
         /\ Release(r, t).actual = Off
         /\ Release(r, t).target = r.target
         /\ r.actual = Off => Release(r, t) = r
         /\ r.actual # Off => AxisStops(r, Release(r, t), t)
<1>1. CASE r.actual = Off
  BY <1>1 DEF Release
<1>2. CASE r.actual # Off
  <2> DEFINE u == [r EXCEPT !.actual = Off, !.last = r.actual,
                            !.offUntil = t + SameOff, !.reverseUntil = t + ReverseOff]
  <2>1. Release(r, t) = u
    BY <1>2 DEF Release
  <2>2. t + SameOff \in Nat /\ t + ReverseOff \in Nat
    BY RelayConfigIsValid
  <2>3. u \in AxisRelay
    BY <2>2 DEF AxisRelay
  <2>4. /\ u.actual = Off /\ u.target = r.target /\ u.last = r.actual
        /\ u.offUntil = t + SameOff /\ u.reverseUntil = t + ReverseOff
    BY DEF AxisRelay
  <2> HIDE DEF u
  <2> QED
    BY <1>2, <2>1, <2>3, <2>4 DEF AxisStops
<1> QED BY <1>1, <1>2

\* So does an inhibition, which withdraws the target as well.
LEMMA InhibitFacts ==
  ASSUME NEW r \in AxisRelay, NEW t \in Nat
  PROVE  /\ Inhibit(r, t) \in AxisRelay
         /\ Inhibit(r, t).actual = Off
         /\ Inhibit(r, t).target = Off
         /\ r.actual = Off => AxisStays(r, Inhibit(r, t))
         /\ r.actual # Off => AxisStops(r, Inhibit(r, t), t)
<1> DEFINE q == [r EXCEPT !.target = Off]
<1>1. /\ q \in AxisRelay /\ q.actual = r.actual /\ q.last = r.last /\ q.target = Off
      /\ q.offUntil = r.offUntil /\ q.reverseUntil = r.reverseUntil
  BY DEF AxisRelay, Off
<1>2. Inhibit(r, t) = Release(q, t)
  BY DEF Inhibit
<1> HIDE DEF q
<1> QED
  BY <1>1, <1>2, ReleaseFacts DEF AxisStops, AxisStays

\* An activation starts the axis in its target direction, or does nothing.
LEMMA ActivateFacts ==
  ASSUME NEW r \in AxisRelay, NEW t \in Nat, NEW limit \in Nat
  PROVE  /\ Activate(r, t, limit) \in AxisRelay
         /\ Activate(r, t, limit).target = r.target
         /\ ~MayActivate(r, t, limit) => Activate(r, t, limit) = r
         /\ MayActivate(r, t, limit) => AxisStarts(r, Activate(r, t, limit), t, limit)
<1>1. CASE ~MayActivate(r, t, limit)
  BY <1>1 DEF Activate
<1>2. CASE MayActivate(r, t, limit)
  <2>1. /\ r.actual = Off /\ r.target \in Direction /\ t + MinActive <= limit
        /\ InactiveUntil(r) <= t
    BY <1>2 DEF MayActivate, AxisRelay
  <2>2. RestedFor(r, r.target, t)
    BY <2>1 DEF InactiveUntil, RestedFor
  <2>3. t + MinActive \in Nat
    BY RelayConfigIsValid
  <2> QED
    BY <1>2, <2>1, <2>2, <2>3 DEF Activate, AxisRelay, AxisStarts, RestedFor
<1> QED BY <1>1, <1>2

\* An axis that was just released cannot be activated in the same call: every
\* off-time is real.
LEMMA NoRestartOnRelease ==
  ASSUME NEW r \in AxisRelay, NEW u \in AxisRelay, NEW t \in Nat, NEW limit \in Nat,
         AxisStops(r, u, t)
  PROVE  ~MayActivate(u, t, limit)
<1>1. u.offUntil > t /\ u.reverseUntil > t
  BY RelayConfigIsValid DEF AxisStops
<1> QED
  BY <1>1 DEF MayActivate, InactiveUntil, AxisRelay

\* One update of an axis stays, stops or starts.
LEMMA UpdateAxisFacts ==
  ASSUME NEW r \in AxisRelay, NEW t \in Nat, NEW limit \in Nat
  PROVE  /\ UpdateAxis(r, t, limit) \in AxisRelay
         /\ UpdateAxis(r, t, limit).target = r.target
         /\ AxisStep(r, UpdateAxis(r, t, limit), t, limit)
<1> DEFINE q == ReleaseWhenDue(r, t)
<1>1. /\ q \in AxisRelay /\ q.target = r.target
      /\ q = r \/ AxisStops(r, q, t)
  BY ReleaseFacts DEF ReleaseWhenDue
<1>2. /\ Activate(q, t, limit) \in AxisRelay
      /\ Activate(q, t, limit).target = q.target
      /\ ~MayActivate(q, t, limit) => Activate(q, t, limit) = q
      /\ MayActivate(q, t, limit) => AxisStarts(q, Activate(q, t, limit), t, limit)
  BY <1>1, ActivateFacts
<1>3. AxisStops(r, q, t) => ~MayActivate(q, t, limit)
  BY <1>1, NoRestartOnRelease
<1>4. UpdateAxis(r, t, limit) = IF r.actual = r.target THEN r ELSE Activate(q, t, limit)
  BY DEF UpdateAxis
<1>5. AxisStays(r, r)
  BY DEF AxisStays
<1> HIDE DEF q
<1> QED
  BY <1>1, <1>2, <1>3, <1>4, <1>5 DEF AxisStep

-----------------------------------------------------------------------------
(* Both axes.                                                              *)

Opened(r, q, t) == AxisStays(r, q) \/ AxisStops(r, q, t)

\* An inhibition before an update adds nothing to what the update may do: what
\* it opened cannot start again at the same instant.
LEMMA OpenedThenStep ==
  ASSUME NEW r \in AxisRelay, NEW q \in AxisRelay, NEW u \in AxisRelay,
         NEW t \in Nat, NEW limit \in Nat,
         Opened(r, q, t), AxisStep(q, u, t, limit)
  PROVE  AxisStep(r, u, t, limit)
<1>1. CASE AxisStays(r, q)
  BY <1>1 DEF Opened, AxisStep, AxisStays, AxisStops, AxisStarts, RestedFor
<1>2. CASE AxisStops(r, q, t)
  <2>1. q.actual = Off /\ q.offUntil > t /\ q.reverseUntil > t /\ q.last # Off
    BY <1>2, RelayConfigIsValid DEF AxisStops
  <2>2. ~AxisStops(q, u, t) /\ ~AxisStarts(q, u, t, limit)
    BY <2>1, RelayConfigIsValid DEF AxisStops, AxisStarts, RestedFor, AxisRelay
  <2> QED
    BY <1>2, <2>2 DEF AxisStep, AxisStays, AxisStops
<1> QED BY <1>1, <1>2 DEF Opened

\* Inhibiting a set of axes opens exactly those.
LEMMA InhibitRelaysFacts ==
  ASSUME NEW relay \in [Axis -> AxisRelay], NEW axes, NEW t \in Nat, NEW a \in Axis
  PROVE  LET u == InhibitRelays(relay, axes, t)
         IN  /\ u \in [Axis -> AxisRelay]
             /\ Opened(relay[a], u[a], t)
             /\ a \in axes => u[a].target = Off /\ u[a].actual = Off
             /\ a \notin axes => u[a] = relay[a]
<1>1. \A b \in Axis : /\ Inhibit(relay[b], t) \in AxisRelay
                      /\ Inhibit(relay[b], t).target = Off
                      /\ Inhibit(relay[b], t).actual = Off
                      /\ Opened(relay[b], Inhibit(relay[b], t), t)
  BY InhibitFacts DEF Opened
<1>2. AxisStays(relay[a], relay[a])
  BY DEF AxisStays
<1> QED
  BY <1>1, <1>2 DEF InhibitRelays, Opened

\* A command carries a drive, and an inhibition an idle one.
LEMMA CommandTypes ==
  ASSUME NEW command \in Command
  PROVE  /\ command.drive \in DriveCommand
         /\ command.kind = "Inhibit" => command.drive = Idle
         /\ Inhibition \in Command /\ Inhibition.kind = "Inhibit" /\ Inhibition.drive = Idle
  BY DEF Command, DriveCommand, Idle, Inhibition

\* A command aims every axis, and stays, stops or starts it.
LEMMA SetTargetFacts ==
  ASSUME NEW relay \in [Axis -> AxisRelay], NEW command \in Command,
         NEW t \in Nat, NEW limit \in Nat, NEW a \in Axis
  PROVE  LET u == SetTarget(relay, command, t, limit)
         IN  /\ u \in [Axis -> AxisRelay]
             /\ AxisStep(relay[a], u[a], t, limit)
             /\ u[a].target = command.drive[a]
             /\ command.kind = "Inhibit" => u[a].actual = Off
<1>1. CASE command.kind = "Inhibit"
  <2>1. SetTarget(relay, command, t, limit) = InhibitRelays(relay, Axis, t)
    BY <1>1 DEF SetTarget
  <2>2. command.drive[a] = Off
    BY <1>1, CommandTypes DEF Idle
  <2> QED
    BY <2>1, <2>2, InhibitRelaysFacts DEF AxisStep, Opened
<1>2. CASE command.kind # "Inhibit"
  <2> DEFINE cut == IF command.kind # "Jog" THEN {}
                    ELSE {b \in Axis : /\ relay[b].actual # Off
                                       /\ relay[b].actual # command.drive[b]}
             kept == InhibitRelays(relay, cut, t)
             aimed == [b \in Axis |-> [kept[b] EXCEPT !.target = command.drive[b]]]
             u == [b \in Axis |-> UpdateAxis(aimed[b], t, limit)]
  <2>1. SetTarget(relay, command, t, limit) = u
    BY <1>2 DEF SetTarget
  <2>2. \A b \in Axis : kept[b] \in AxisRelay /\ Opened(relay[b], kept[b], t)
    <3> HIDE DEF cut
    <3> QED BY InhibitRelaysFacts
  <2>3. \A b \in Axis : command.drive[b] \in Direction \cup {Off}
    BY CommandTypes DEF DriveCommand
  <2>4. \A b \in Axis : /\ aimed[b] \in AxisRelay
                        /\ aimed[b].target = command.drive[b]
                        /\ Opened(relay[b], aimed[b], t)
    <3> HIDE DEF kept
    <3> SUFFICES ASSUME NEW b \in Axis
                 PROVE  /\ aimed[b] \in AxisRelay
                        /\ aimed[b].target = command.drive[b]
                        /\ Opened(relay[b], aimed[b], t)
      OBVIOUS
    <3>1. aimed[b] = [kept[b] EXCEPT !.target = command.drive[b]]
      OBVIOUS
    <3>2. /\ aimed[b] \in AxisRelay /\ aimed[b].target = command.drive[b]
          /\ aimed[b].actual = kept[b].actual /\ aimed[b].last = kept[b].last
          /\ aimed[b].offUntil = kept[b].offUntil
          /\ aimed[b].reverseUntil = kept[b].reverseUntil
      BY <3>1, <2>2, <2>3 DEF AxisRelay
    <3> QED
      BY <3>2, <2>2 DEF Opened, AxisStays, AxisStops
  <2>5. \A b \in Axis : /\ UpdateAxis(aimed[b], t, limit) \in AxisRelay
                        /\ UpdateAxis(aimed[b], t, limit).target = command.drive[b]
                        /\ AxisStep(aimed[b], UpdateAxis(aimed[b], t, limit), t, limit)
    <3> HIDE DEF aimed
    <3> QED BY <2>4, UpdateAxisFacts
  <2>6. \A b \in Axis : AxisStep(relay[b], UpdateAxis(aimed[b], t, limit), t, limit)
    <3> HIDE DEF aimed
    <3> QED BY <2>4, <2>5, OpenedThenStep
  <2> QED
    BY <1>2, <2>1, <2>5, <2>6
<1> QED BY <1>1, <1>2

-----------------------------------------------------------------------------
(* The guard and its lease.                                                *)

InMotion(g) == IsActive(Actual(g)) \/ IsActive(Target(g))
Leased(g) == InMotion(g) <=> g.lease # NoLease

\* What one call at t does to a guard g, leaving it h.
GuardStep(g, h, t) ==
  /\ h \in Guard
  /\ Leased(h)
  /\ \A a \in Axis : AxisStep(g.relay[a], h.relay[a], t, h.lease)

\* A guard is in motion when some axis runs or is aimed to.
LEMMA InMotionFacts ==
  ASSUME NEW g
  PROVE  InMotion(g) <=> \E a \in Axis : g.relay[a].actual # Off \/ g.relay[a].target # Off
  BY DEF InMotion, IsActive, Actual, Target

\* Dropping the lease of an idle guard is what keeps a lease and movement
\* together.
LEMMA ClearIdleLeaseFacts ==
  ASSUME NEW g \in Guard, NEW h \in Guard, NEW t \in Nat,
         InMotion(h) => h.lease # NoLease,
         \A a \in Axis : AxisStep(g.relay[a], h.relay[a], t, h.lease)
  PROVE  /\ GuardStep(g, ClearIdleLease(h), t)
         /\ ClearIdleLease(h).lease \in {h.lease, NoLease}
         /\ ClearIdleLease(h).relay = h.relay
<1> DEFINE k == ClearIdleLease(h)
<1>1. k.relay = h.relay /\ k \in Guard
  BY DEF ClearIdleLease, Guard, NoLease
<1>2. k.lease = IF InMotion(h) THEN h.lease ELSE NoLease
  BY DEF ClearIdleLease, InMotion, Guard
<1>3. InMotion(k) <=> InMotion(h)
  BY <1>1 DEF InMotion, Actual, Target
<1>4. \A a \in Axis : AxisStep(g.relay[a], k.relay[a], t, k.lease)
  <2> SUFFICES ASSUME NEW a \in Axis
               PROVE  AxisStep(g.relay[a], k.relay[a], t, k.lease)
    OBVIOUS
  <2>1. CASE InMotion(h)
    BY <1>1, <1>2, <2>1
  <2>2. CASE ~InMotion(h)
    <3>1. h.relay[a].actual = Off
      BY <2>2, InMotionFacts
    <3>2. ~AxisStarts(g.relay[a], h.relay[a], t, h.lease)
      BY <3>1 DEF AxisStarts, Direction, Off
    <3> QED
      BY <1>1, <3>2 DEF AxisStep
  <2> QED BY <2>1, <2>2
<1> HIDE DEF k
<1>5. GuardStep(g, k, t)
  BY <1>1, <1>2, <1>3, <1>4 DEF GuardStep, Leased
<1> QED
  BY <1>1, <1>2, <1>5 DEF k

\* Expiring a lease opens every axis, and leaves no movement without a lease.
LEMMA ExpireLeaseFacts ==
  ASSUME NEW g \in Guard, NEW t \in Nat, Leased(g)
  PROVE  LET h == ExpireLease(g, t)
         IN  /\ h \in Guard
             /\ h.lease \in {g.lease, NoLease}
             /\ InMotion(h) => h.lease # NoLease
             /\ \A a \in Axis : Opened(g.relay[a], h.relay[a], t)
<1>0. g.relay \in [Axis -> AxisRelay]
  BY DEF Guard
<1>1. CASE LeaseExpired(g, t)
  <2> DEFINE u == InhibitRelays(g.relay, Axis, t)
  <2>1. ExpireLease(g, t) = [relay |-> u, lease |-> NoLease]
    BY <1>1 DEF ExpireLease
  <2>2. \A a \in Axis : /\ Opened(g.relay[a], u[a], t)
                        /\ u[a].target = Off /\ u[a].actual = Off
    BY <1>0, InhibitRelaysFacts
  <2>3. u \in [Axis -> AxisRelay]
    <3>1. CASE Axis = {}
      BY <3>1 DEF InhibitRelays
    <3>2. CASE Axis # {}
      BY <3>2, <1>0, InhibitRelaysFacts
    <3> QED BY <3>1, <3>2
  <2> HIDE DEF u
  <2>4. [relay |-> u, lease |-> NoLease] \in Guard
    BY <2>3 DEF Guard, NoLease
  <2>5. ~InMotion([relay |-> u, lease |-> NoLease])
    BY <2>2, InMotionFacts
  <2> QED
    BY <2>1, <2>2, <2>4, <2>5
<1>2. CASE ~LeaseExpired(g, t)
  <2>1. ExpireLease(g, t) = g
    BY <1>2 DEF ExpireLease
  <2>2. \A a \in Axis : Opened(g.relay[a], g.relay[a], t)
    BY DEF Opened, AxisStays
  <2> QED
    BY <2>1, <2>2 DEF Leased
<1> QED BY <1>1, <1>2

\* No grant outlasts a movement lease.
LEMMA LeaseForFacts ==
  ASSUME NEW t \in Nat, NEW until \in Nat
  PROVE  LeaseFor(t, until) \in Nat /\ LeaseFor(t, until) <= t + MovementLease
  BY RelayConfigIsValid DEF LeaseFor

\* A command leaves each axis one step further, and the guard leased for no
\* longer than it was or than a movement lease from now.
LEMMA CommandUntilFacts ==
  ASSUME NEW g \in Guard, NEW command \in Command, NEW t \in Nat, NEW until \in Nat,
         Leased(g), g.lease <= t + MovementLease
  PROVE  LET k == CommandUntil(g, command, t, until)
         IN  GuardStep(g, k, t) /\ k.lease <= t + MovementLease
<1> DEFINE live == ExpireLease(g, t)
           moves == command.kind # "Inhibit" /\ IsActive(command.drive)
           late == moves /\ LeaseFor(t, until) <= t
           lease == IF moves /\ ~late THEN LeaseFor(t, until) ELSE live.lease
           meant == IF late THEN Inhibition ELSE command
           u == SetTarget(live.relay, meant, t, lease)
           h == [relay |-> u, lease |-> lease]
<1>1. CommandUntil(g, command, t, until) = ClearIdleLease(h)
  BY DEF CommandUntil, Commanded
<1>2. /\ live \in Guard /\ live.lease \in {g.lease, NoLease}
      /\ InMotion(live) => live.lease # NoLease
      /\ \A a \in Axis : Opened(g.relay[a], live.relay[a], t)
  BY ExpireLeaseFacts
<1> HIDE DEF live
<1>3. live.relay \in [Axis -> AxisRelay] /\ live.lease \in Nat
      /\ live.lease <= t + MovementLease
  BY <1>2, RelayConfigIsValid DEF Guard, NoLease
<1>4. lease \in Nat /\ lease <= t + MovementLease
  BY <1>3, LeaseForFacts
<1>5. meant \in Command
  BY CommandTypes
<1>6. (moves /\ ~late) => lease > 0
  BY LeaseForFacts
<1>7. ~(moves /\ ~late) => lease = live.lease /\ ~IsActive(meant.drive)
  <2>1. ASSUME NEW d PROVE IsActive(d) <=> \E a \in Axis : d[a] # Off
    BY DEF IsActive
  <2>2. ~IsActive(Idle)
    BY <2>1 DEF Idle
  <2>3. late => ~IsActive(meant.drive)
    BY <2>2, CommandTypes
  <2>4. ~moves => ~IsActive(command.drive)
    BY <2>2, CommandTypes
  <2> QED BY <2>3, <2>4
<1> HIDE DEF lease, meant
<1>8. \A a \in Axis : /\ u \in [Axis -> AxisRelay]
                      /\ AxisStep(live.relay[a], u[a], t, lease)
                      /\ u[a].target = meant.drive[a]
  BY <1>3, <1>4, <1>5, SetTargetFacts
<1>9. u \in [Axis -> AxisRelay]
  <2>1. CASE Axis = {}
    BY <2>1 DEF SetTarget, InhibitRelays
  <2>2. CASE Axis # {}
    BY <2>2, <1>8
  <2> QED BY <2>1, <2>2
<1> HIDE DEF u
<1>10. h \in Guard
  BY <1>9, <1>4 DEF Guard
<1>11. \A a \in Axis : AxisStep(g.relay[a], u[a], t, lease)
  <2> SUFFICES ASSUME NEW a \in Axis PROVE AxisStep(g.relay[a], u[a], t, lease)
    OBVIOUS
  <2>1. g.relay[a] \in AxisRelay /\ live.relay[a] \in AxisRelay /\ u[a] \in AxisRelay
    BY <1>3, <1>9 DEF Guard
  <2> QED
    BY <2>1, <1>2, <1>4, <1>8, OpenedThenStep
<1>12. ASSUME InMotion(h) PROVE h.lease # NoLease
  <2>1. CASE moves /\ ~late
    BY <2>1, <1>6 DEF NoLease
  <2>2. CASE ~(moves /\ ~late)
    <3>1. PICK a \in Axis : u[a].actual # Off \/ u[a].target # Off
      BY <1>12, InMotionFacts
    <3>2. u[a].target = Off
      BY <2>2, <1>7, <1>8 DEF IsActive
    <3>3. u[a].actual # Off
      BY <3>1, <3>2
    <3>4. live.relay[a].actual # Off
      BY <3>2, <3>3, <1>8 DEF AxisStep, AxisStays, AxisStops, AxisStarts
    <3>5. InMotion(live)
      BY <3>4, InMotionFacts
    <3> QED
      BY <3>5, <1>2, <1>7, <2>2
  <2> QED BY <2>1, <2>2
<1>13. h.relay = u /\ h.lease = lease
  OBVIOUS
<1> HIDE DEF h
<1>14. /\ GuardStep(g, ClearIdleLease(h), t)
       /\ ClearIdleLease(h).lease \in {h.lease, NoLease}
  BY <1>10, <1>11, <1>12, <1>13, ClearIdleLeaseFacts
<1>15. ClearIdleLease(h).lease <= t + MovementLease
  BY <1>14, <1>13, <1>4, RelayConfigIsValid DEF NoLease
<1> QED
  BY <1>1, <1>14, <1>15

\* So does a service instant.
LEMMA UpdateGuardFacts ==
  ASSUME NEW g \in Guard, NEW t \in Nat, Leased(g)
  PROVE  /\ GuardStep(g, UpdateGuard(g, t), t)
         /\ UpdateGuard(g, t).lease \in {g.lease, NoLease}
<1> DEFINE u == [a \in Axis |-> UpdateAxis(g.relay[a], t, g.lease)]
           h == [g EXCEPT !.relay = u]
<1>0. g.relay \in [Axis -> AxisRelay] /\ g.lease \in Nat
  BY DEF Guard
<1>1. CASE LeaseExpired(g, t)
  <2>1. UpdateGuard(g, t) = ClearIdleLease(ExpireLease(g, t))
    BY <1>1 DEF UpdateGuard
  <2>2. /\ ExpireLease(g, t) \in Guard /\ ExpireLease(g, t).lease \in {g.lease, NoLease}
        /\ InMotion(ExpireLease(g, t)) => ExpireLease(g, t).lease # NoLease
        /\ \A a \in Axis : AxisStep(g.relay[a], ExpireLease(g, t).relay[a], t,
                                    ExpireLease(g, t).lease)
    BY ExpireLeaseFacts DEF Opened, AxisStep
  <2> QED
    BY <2>1, <2>2, ClearIdleLeaseFacts
<1>2. CASE ~LeaseExpired(g, t)
  <2>1. UpdateGuard(g, t) = ClearIdleLease(h)
    BY <1>2 DEF UpdateGuard
  <2>2. \A a \in Axis : /\ u[a] \in AxisRelay
                        /\ u[a].target = g.relay[a].target
                        /\ AxisStep(g.relay[a], u[a], t, g.lease)
    BY <1>0, UpdateAxisFacts
  <2>3. u \in [Axis -> AxisRelay]
    BY <2>2
  <2> HIDE DEF u
  <2>4. h \in Guard /\ h.relay = u /\ h.lease = g.lease
    BY <2>3 DEF Guard
  <2> HIDE DEF h
  <2>5. ASSUME InMotion(h) PROVE InMotion(g)
    <3>1. PICK a \in Axis : u[a].actual # Off \/ u[a].target # Off
      BY <2>5, <2>4, InMotionFacts
    <3>2. g.relay[a].actual # Off \/ g.relay[a].target # Off
      BY <3>1, <2>2 DEF AxisStep, AxisStays, AxisStops, AxisStarts
    <3> QED BY <3>2, InMotionFacts
  <2>6. InMotion(h) => h.lease # NoLease
    BY <2>5, <2>4 DEF Leased
  <2> QED
    BY <2>1, <2>2, <2>4, <2>6, ClearIdleLeaseFacts
<1> QED BY <1>1, <1>2

\* And the withdrawal of some axes.
LEMMA InhibitAxesFacts ==
  ASSUME NEW g \in Guard, NEW axes, NEW t \in Nat, Leased(g)
  PROVE  /\ GuardStep(g, InhibitAxes(g, axes, t), t)
         /\ InhibitAxes(g, axes, t).lease \in {g.lease, NoLease}
<1> DEFINE u == InhibitRelays(g.relay, axes, t)
           h == [g EXCEPT !.relay = u]
<1>0. g.relay \in [Axis -> AxisRelay] /\ g.lease \in Nat
  BY DEF Guard
<1>1. InhibitAxes(g, axes, t) = ClearIdleLease(h)
  BY DEF InhibitAxes
<1>2. \A a \in Axis : /\ Opened(g.relay[a], u[a], t)
                      /\ (u[a].target = Off /\ u[a].actual = Off) \/ u[a] = g.relay[a]
  BY <1>0, InhibitRelaysFacts
<1>3. u \in [Axis -> AxisRelay]
  <2>1. CASE Axis = {}
    BY <2>1 DEF InhibitRelays
  <2>2. CASE Axis # {}
    BY <2>2, <1>0, InhibitRelaysFacts
  <2> QED BY <2>1, <2>2
<1> HIDE DEF u
<1>4. h \in Guard /\ h.relay = u /\ h.lease = g.lease
  BY <1>3 DEF Guard
<1> HIDE DEF h
<1>5. InMotion(h) => InMotion(g)
  BY <1>2, <1>4, InMotionFacts
<1>6. InMotion(h) => h.lease # NoLease
  BY <1>4, <1>5 DEF Leased
<1>7. \A a \in Axis : AxisStep(g.relay[a], h.relay[a], t, h.lease)
  BY <1>2, <1>4 DEF Opened, AxisStep
<1> QED
  BY <1>1, <1>4, <1>6, <1>7, ClearIdleLeaseFacts
\* What is inhibited is at rest, and a command for no axis moves nothing that
\* was not moving.  A command to move is under a lease of its own.
LEMMA CommandUntilLease ==
  ASSUME NEW g \in Guard, NEW command \in Command, NEW t \in Nat, NEW until \in Nat,
         Leased(g), g.lease <= t + MovementLease
  PROVE  LET k == CommandUntil(g, command, t, until)
             moves == command.kind # "Inhibit" /\ IsActive(command.drive)
         IN  /\ command.kind = "Inhibit" => ~InMotion(k)
             /\ ~moves => /\ k.lease \in {g.lease, NoLease}
                          /\ InMotion(k) => InMotion(g)
             /\ moves => k.lease <= until
<1> DEFINE live == ExpireLease(g, t)
           moves == command.kind # "Inhibit" /\ IsActive(command.drive)
           late == moves /\ LeaseFor(t, until) <= t
           lease == IF moves /\ ~late THEN LeaseFor(t, until) ELSE live.lease
           meant == IF late THEN Inhibition ELSE command
           u == SetTarget(live.relay, meant, t, lease)
           h == [relay |-> u, lease |-> lease]
           k == CommandUntil(g, command, t, until)
<1>1. k = ClearIdleLease(h)
  BY DEF CommandUntil, Commanded
<1>2. /\ live \in Guard /\ live.lease \in {g.lease, NoLease}
      /\ \A a \in Axis : Opened(g.relay[a], live.relay[a], t)
      /\ LeaseExpired(g, t) \/ live = g
  BY ExpireLeaseFacts DEF ExpireLease
<1> HIDE DEF live
<1>3. live.relay \in [Axis -> AxisRelay] /\ live.lease \in Nat
  BY <1>2 DEF Guard
<1>4. lease \in Nat /\ meant \in Command
  BY <1>3, LeaseForFacts, CommandTypes
<1>5. \A a \in Axis : /\ AxisStep(live.relay[a], u[a], t, lease)
                      /\ u[a].target = meant.drive[a]
                      /\ meant.kind = "Inhibit" => u[a].actual = Off
  <2> HIDE DEF lease, meant, k, h
  <2> SUFFICES ASSUME NEW a \in Axis
               PROVE  /\ AxisStep(live.relay[a], u[a], t, lease)
                      /\ u[a].target = meant.drive[a]
                      /\ meant.kind = "Inhibit" => u[a].actual = Off
    OBVIOUS
  <2> QED BY <1>3, <1>4, SetTargetFacts
<1>6. h.relay = u /\ h.lease = lease
  OBVIOUS
<1>7. /\ k.relay = u
      /\ k.lease = IF InMotion(h) THEN lease ELSE NoLease
      /\ InMotion(k) <=> InMotion(h)
  <2> HIDE DEF k, h
  <2> QED BY <1>1, <1>6 DEF ClearIdleLease, InMotion, Actual, Target
<1>8. ASSUME meant.kind = "Inhibit" PROVE ~InMotion(h)
  <2>1. \A a \in Axis : u[a].target = Off /\ u[a].actual = Off
    BY <1>4, <1>5, <1>8, CommandTypes DEF Idle
  <2> HIDE DEF h, u
  <2> QED BY <2>1, <1>6, InMotionFacts
<1>9. command.kind = "Inhibit" => ~InMotion(k)
  BY <1>7, <1>8
<1>10. ASSUME ~moves PROVE k.lease \in {g.lease, NoLease} /\ (InMotion(k) => InMotion(g))
  <2>1. lease = live.lease /\ meant = command
    BY <1>10
  <2>2. ASSUME InMotion(k) PROVE InMotion(g)
    <3>1. PICK a \in Axis : u[a].actual # Off \/ u[a].target # Off
      <4> HIDE DEF h, k, u
      <4> QED BY <2>2, <1>6, <1>7, InMotionFacts
    <3>2. u[a].target = Off
      BY <2>1, <1>5, <1>10, CommandTypes DEF IsActive, Idle
    <3>3. g.relay[a].actual # Off
      BY <1>2, <1>5, <3>1, <3>2 DEF Opened, AxisStep, AxisStays, AxisStops, AxisStarts
    <3> QED BY <3>3, InMotionFacts
  <2> HIDE DEF k, h
  <2> QED BY <1>2, <1>7, <2>1, <2>2
<1>11. ASSUME moves PROVE k.lease <= until
  <2>1. CASE late
    <3>1. ~InMotion(h)
      BY <2>1, <1>8, CommandTypes
    <3> HIDE DEF h, k
    <3> QED BY <1>7, <3>1 DEF NoLease
  <2>2. CASE ~late
    <3>1. lease <= until
      BY <2>2, <1>11, RelayConfigIsValid DEF LeaseFor
    <3> HIDE DEF h, k, lease
    <3> QED BY <1>7, <3>1 DEF NoLease
  <2> QED BY <2>1, <2>2
<1> QED
  BY <1>9, <1>10, <1>11

\* A service instant sets nothing in motion.
LEMMA UpdateGuardAtRest ==
  ASSUME NEW g \in Guard, NEW t \in Nat, ~InMotion(g)
  PROVE  ~InMotion(UpdateGuard(g, t))
<1>1. \A a \in Axis : g.relay[a].actual = Off /\ g.relay[a].target = Off
  BY InMotionFacts
<1>2. \A a \in Axis : g.relay[a] \in AxisRelay
  BY DEF Guard
<1>3. \A a \in Axis : /\ UpdateAxis(g.relay[a], t, g.lease) = g.relay[a]
                      /\ Inhibit(g.relay[a], t).actual = Off
                      /\ Inhibit(g.relay[a], t).target = Off
  BY <1>1, <1>2, InhibitFacts DEF UpdateAxis
<1>4. PICK h : /\ UpdateGuard(g, t) = ClearIdleLease(h)
               /\ \A a \in Axis : h.relay[a].actual = Off /\ h.relay[a].target = Off
  <2>1. CASE LeaseExpired(g, t)
    <3>1. UpdateGuard(g, t) = ClearIdleLease(ExpireLease(g, t))
      BY <2>1 DEF UpdateGuard
    <3>2. \A a \in Axis : ExpireLease(g, t).relay[a] = Inhibit(g.relay[a], t)
      BY <2>1 DEF ExpireLease, InhibitRelays
    <3> QED BY <3>1, <3>2, <1>3
  <2>2. CASE ~LeaseExpired(g, t)
    <3> DEFINE h == [g EXCEPT !.relay = [a \in Axis |-> UpdateAxis(g.relay[a], t, g.lease)]]
    <3>1. UpdateGuard(g, t) = ClearIdleLease(h)
      BY <2>2 DEF UpdateGuard
    <3>2. \A a \in Axis : h.relay[a] = g.relay[a]
      BY <1>3 DEF Guard
    <3> QED BY <3>1, <3>2, <1>1
  <2> QED BY <2>1, <2>2
<1>5. ~InMotion(h)
  BY <1>4, InMotionFacts
<1> QED
  BY <1>4, <1>5 DEF ClearIdleLease, InMotion, Actual, Target

\* Withdrawing the axes stops what they do and starts nothing on the others.
LEMMA InhibitAxesAtRest ==
  ASSUME NEW g \in Guard, NEW axes, NEW t \in Nat, Axis \subseteq axes \/ ~InMotion(g)
  PROVE  ~InMotion(InhibitAxes(g, axes, t))
<1> DEFINE u == InhibitRelays(g.relay, axes, t)
           h == [g EXCEPT !.relay = u]
<1>1. InhibitAxes(g, axes, t) = ClearIdleLease(h)
  BY DEF InhibitAxes
<1>2. g.relay \in [Axis -> AxisRelay]
  BY DEF Guard
<1>3. \A a \in Axis : u[a].actual = Off /\ u[a].target = Off
  <2> SUFFICES ASSUME NEW a \in Axis PROVE u[a].actual = Off /\ u[a].target = Off
    OBVIOUS
  <2>1. /\ a \in axes => u[a].target = Off /\ u[a].actual = Off
        /\ a \notin axes => u[a] = g.relay[a]
    BY <1>2, InhibitRelaysFacts
  <2>2. ~InMotion(g) => g.relay[a].actual = Off /\ g.relay[a].target = Off
    BY InMotionFacts
  <2> QED BY <2>1, <2>2
<1>4. h.relay = u
  BY DEF Guard
<1>5. ClearIdleLease(h).relay = u
  <2> HIDE DEF u
  <2>1. [h EXCEPT !.lease = NoLease].relay = h.relay
    BY DEF Guard
  <2> QED BY <1>4, <2>1 DEF ClearIdleLease
<1> HIDE DEF u, h
<1> QED BY <1>1, <1>3, <1>5, InMotionFacts

-----------------------------------------------------------------------------
(* What an update may open or start, and when that is announced.           *)

\* An update opens an axis only after its minimum on-time.
LEMMA UpdateKeepsMinimumOn ==
  ASSUME NEW r \in AxisRelay, NEW t \in Nat, NEW limit \in Nat,
         r.actual # Off, UpdateAxis(r, t, limit).actual # r.actual
  PROVE  r.onUntil <= t
<1>1. CASE t < r.onUntil
  <2>1. ReleaseWhenDue(r, t) = r /\ ~MayActivate(r, t, limit)
    BY <1>1 DEF ReleaseWhenDue, MayActivate
  <2> QED BY <2>1 DEF UpdateAxis, Activate
<1>2. CASE ~(t < r.onUntil)
  <2>1. r.onUntil \in Nat
    BY DEF AxisRelay
  <2> QED BY <1>2, <2>1
<1> QED BY <1>1, <1>2

\* Before the transitions it announces an axis is updated without effect.
LEMMA TransitionsCoverUpdates ==
  ASSUME NEW r \in AxisRelay, NEW t \in Nat, NEW u \in Nat, NEW limit \in Nat, t <= u,
         \A d \in AxisTransition(r, t, limit) : u < d
  PROVE  UpdateAxis(r, u, limit) = r
<1>1. /\ r.onUntil \in Nat /\ r.offUntil \in Nat /\ r.reverseUntil \in Nat
      /\ InactiveUntil(r) \in Nat
  BY DEF AxisRelay, InactiveUntil
<1>2. CASE r.actual = r.target
  BY <1>2 DEF UpdateAxis
<1>3. CASE r.actual # r.target /\ r.actual # Off
  <2>1. u < (IF r.onUntil > t THEN r.onUntil ELSE t)
    BY <1>3 DEF AxisTransition
  <2>2. u < r.onUntil
    BY <1>1, <2>1
  <2>3. ReleaseWhenDue(r, u) = r /\ ~MayActivate(r, u, limit)
    BY <1>3, <2>2 DEF ReleaseWhenDue, MayActivate
  <2> QED BY <2>3 DEF UpdateAxis, Activate
<1>4. CASE r.actual # r.target /\ r.actual = Off
  <2>1. ReleaseWhenDue(r, u) = r
    BY <1>4 DEF ReleaseWhenDue, Release
  <2>2. ~MayActivate(r, u, limit)
    <3> SUFFICES ASSUME InactiveUntil(r) <= u, u + MinActive <= limit PROVE FALSE
      BY DEF MayActivate
    <3> DEFINE start == IF InactiveUntil(r) > t THEN InactiveUntil(r) ELSE t
    <3>1. start \in Nat /\ start <= u
      BY <1>1
    <3>2. AxisTransition(r, t, limit) = {x \in {start} : x + MinActive <= limit}
      BY <1>4 DEF AxisTransition
    <3> HIDE DEF start
    <3>3. start + MinActive <= limit
      BY <3>1, RelayConfigIsValid
    <3> QED BY <3>1, <3>2, <3>3
  <2> QED BY <2>1, <2>2 DEF UpdateAxis, Activate
<1> QED BY <1>2, <1>3, <1>4

\* Dropping an idle lease leaves the relays alone.
LEMMA ClearIdleLeaseRelay ==
  ASSUME NEW h \in Guard
  PROVE  ClearIdleLease(h).relay = h.relay
  BY DEF ClearIdleLease, Guard

\* An update without an expiry is one update of each axis.
LEMMA UpdateGuardRelay ==
  ASSUME NEW g \in Guard, NEW t \in Nat, ~LeaseExpired(g, t)
  PROVE  \A a \in Axis : UpdateGuard(g, t).relay[a] = UpdateAxis(g.relay[a], t, g.lease)
<1> DEFINE u == [a \in Axis |-> UpdateAxis(g.relay[a], t, g.lease)]
           h == [g EXCEPT !.relay = u]
<1>1. UpdateGuard(g, t) = ClearIdleLease(h)
  BY DEF UpdateGuard
<1>2. u \in [Axis -> AxisRelay]
  <2> SUFFICES ASSUME NEW a \in Axis PROVE UpdateAxis(g.relay[a], t, g.lease) \in AxisRelay
    OBVIOUS
  <2>1. g.relay[a] \in AxisRelay /\ g.lease \in Nat
    BY DEF Guard
  <2> QED BY <2>1, UpdateAxisFacts
<1>3. \A a \in Axis : u[a] = UpdateAxis(g.relay[a], t, g.lease)
  OBVIOUS
<1> HIDE DEF u
<1>4. h \in Guard /\ h.relay = u
  BY <1>2 DEF Guard
<1> HIDE DEF h
<1>5. UpdateGuard(g, t).relay = u
  BY <1>1, <1>4, ClearIdleLeaseRelay
<1> QED BY <1>3, <1>5

\* Once the lease has run out, a service or a command opens what is energised:
\* no command starts again at the same instant what the expiry has stopped.
LEMMA ExpiredGuardOpens ==
  ASSUME NEW g \in Guard, NEW t \in Nat, Leased(g), LeaseExpired(g, t),
         NEW a \in Axis, g.relay[a].actual # Off
  PROVE  /\ UpdateGuard(g, t).relay[a].actual = Off
         /\ \A command \in Command, until \in Nat :
              CommandUntil(g, command, t, until).relay[a].actual = Off
<1> DEFINE live == ExpireLease(g, t)
<1>1. live.relay = InhibitRelays(g.relay, Axis, t) /\ g.relay \in [Axis -> AxisRelay]
  BY DEF ExpireLease, Guard
<1>2. live.relay[a].actual = Off
  BY <1>1, InhibitRelaysFacts
<1>3. /\ live \in Guard /\ live.relay \in [Axis -> AxisRelay] /\ live.lease \in Nat
      /\ AxisStops(g.relay[a], live.relay[a], t)
  BY <1>2, ExpireLeaseFacts DEF Guard, Opened, AxisStays
<1>4. UpdateGuard(g, t).relay[a].actual = Off
  BY <1>2, <1>3, ClearIdleLeaseRelay DEF UpdateGuard
<1> HIDE DEF live
<1>5. ASSUME NEW command \in Command, NEW until \in Nat
      PROVE  CommandUntil(g, command, t, until).relay[a].actual = Off
  <2> DEFINE moves == command.kind # "Inhibit" /\ IsActive(command.drive)
             late == moves /\ LeaseFor(t, until) <= t
             lease == IF moves /\ ~late THEN LeaseFor(t, until) ELSE live.lease
             meant == IF late THEN Inhibition ELSE command
             u == SetTarget(live.relay, meant, t, lease)
             h == [relay |-> u, lease |-> lease]
  <2>1. CommandUntil(g, command, t, until) = ClearIdleLease(h)
    BY DEF CommandUntil, Commanded, live
  <2>2. lease \in Nat /\ meant \in Command
    BY <1>3, LeaseForFacts, CommandTypes
  <2> HIDE DEF lease, meant
  <2>3. u \in [Axis -> AxisRelay] /\ AxisStep(live.relay[a], u[a], t, lease)
    BY <1>3, <2>2, SetTargetFacts
  <2> HIDE DEF u
  <2>4. live.relay[a].offUntil > t /\ live.relay[a].reverseUntil > t
        /\ live.relay[a].last # Off
    BY <1>3, RelayConfigIsValid DEF AxisStops
  <2>5. ~AxisStarts(live.relay[a], u[a], t, lease)
    BY <1>3, <2>4 DEF AxisStarts, RestedFor, AxisRelay
  <2>6. u[a].actual = Off
    BY <1>2, <2>3, <2>5 DEF AxisStep, AxisStays, AxisStops
  <2>7. h \in Guard /\ h.relay = u
    BY <2>2, <2>3 DEF Guard
  <2> HIDE DEF h
  <2> QED BY <2>1, <2>6, <2>7, ClearIdleLeaseRelay
<1> QED BY <1>4, <1>5

\* Before the deadlines it announces a guard is updated without effect.
LEMMA DeadlinesCoverUpdates ==
  ASSUME NEW g \in Guard, NEW t \in Nat, NEW u \in Nat, t <= u,
         \A d \in GuardDeadlines(g, t) : u < d
  PROVE  /\ ~LeaseExpired(g, u)
         /\ \A a \in Axis : UpdateGuard(g, u).relay[a] = g.relay[a]
<1>1. g.lease \in Nat /\ \A a \in Axis : g.relay[a] \in AxisRelay
  BY DEF Guard
<1>2. ~LeaseExpired(g, u)
  <2> SUFFICES ASSUME g.lease # NoLease, g.lease <= u PROVE FALSE
    BY DEF LeaseExpired
  <2>1. g.lease \in GuardDeadlines(g, t)
    BY DEF GuardDeadlines
  <2>2. u < g.lease
    BY <2>1
  <2> QED BY <1>1, <2>2
<1>3. \A a \in Axis : UpdateAxis(g.relay[a], u, g.lease) = g.relay[a]
  <2> SUFFICES ASSUME NEW a \in Axis PROVE UpdateAxis(g.relay[a], u, g.lease) = g.relay[a]
    OBVIOUS
  <2>1. \A d \in AxisTransition(g.relay[a], t, g.lease) : u < d
    BY DEF GuardDeadlines
  <2> QED BY <1>1, <2>1, TransitionsCoverUpdates
<1> QED BY <1>2, <1>3, UpdateGuardRelay

\* Nor does a drive command that comes in time open an axis before its minimum
\* on-time; one that comes too late aims at rest.
LEMMA DriveKeepsMinimumOn ==
  ASSUME NEW g \in Guard, NEW command \in Command, NEW t \in Nat, NEW until \in Nat,
         Leased(g), g.lease <= t + MovementLease, ~LeaseExpired(g, t),
         command.kind = "Drive",
         Target(CommandUntil(g, command, t, until)) = command.drive,
         NEW a \in Axis, g.relay[a].actual # Off,
         CommandUntil(g, command, t, until).relay[a].actual # g.relay[a].actual
  PROVE  g.relay[a].onUntil <= t
<1> DEFINE moves == command.kind # "Inhibit" /\ IsActive(command.drive)
           late == moves /\ LeaseFor(t, until) <= t
           lease == IF moves /\ ~late THEN LeaseFor(t, until) ELSE g.lease
           meant == IF late THEN Inhibition ELSE command
           u == SetTarget(g.relay, meant, t, lease)
           h == [relay |-> u, lease |-> lease]
<1>1. CommandUntil(g, command, t, until) = ClearIdleLease(h)
  BY DEF CommandUntil, Commanded, ExpireLease
<1>2. g.relay \in [Axis -> AxisRelay] /\ g.lease \in Nat
  BY DEF Guard
<1>3. lease \in Nat
  BY <1>2, RelayConfigIsValid DEF LeaseFor
<1>4. meant \in Command
  BY CommandTypes
<1> HIDE DEF lease, meant
<1>5. u \in [Axis -> AxisRelay] /\ \A b \in Axis : u[b].target = meant.drive[b]
  BY <1>2, <1>3, <1>4, SetTargetFacts
<1>6. h \in Guard /\ h.relay = u
  BY <1>3, <1>5 DEF Guard
<1>7. CommandUntil(g, command, t, until).relay = u
  BY <1>1, <1>6, ClearIdleLeaseRelay
<1>8. ~late
  <2> SUFFICES ASSUME late PROVE FALSE
    OBVIOUS
  <2>1. PICK b \in Axis : command.drive[b] # Off
    BY DEF IsActive
  <2>2. meant.drive[b] = Off
    BY DEF meant, Inhibition, Idle
  <2>3. Target(CommandUntil(g, command, t, until))[b] = u[b].target
    BY <1>7 DEF Target
  <2> QED BY <1>5, <2>1, <2>2, <2>3
<1>9. meant = command
  BY <1>8 DEF meant
<1> DEFINE q == [g.relay[a] EXCEPT !.target = command.drive[a]]
<1>10. u[a] = UpdateAxis(q, t, lease)
  <2>1. SetTarget(g.relay, command, t, lease)
          = [b \in Axis |-> UpdateAxis([InhibitRelays(g.relay, {}, t)[b]
                                          EXCEPT !.target = command.drive[b]], t, lease)]
    BY DEF SetTarget
  <2>2. InhibitRelays(g.relay, {}, t)[a] = g.relay[a]
    BY DEF InhibitRelays
  <2> QED BY <1>9, <2>1, <2>2
<1>11. /\ q \in AxisRelay /\ q.actual = g.relay[a].actual
       /\ q.onUntil = g.relay[a].onUntil
  <2>1. g.relay[a] \in AxisRelay /\ command.drive[a] \in Direction \cup {Off}
    BY <1>2, CommandTypes DEF DriveCommand
  <2> QED BY <2>1 DEF AxisRelay
<1> HIDE DEF q, u
<1> QED BY <1>3, <1>7, <1>10, <1>11, UpdateKeepsMinimumOn
=============================================================================
