------------------------------- MODULE Relay -------------------------------
(***************************************************************************)
(* Relay timing and the fail-safe movement lease of ezal's output guard:   *)
(* AxisRelay, RelayTiming and ActuatorGuard of                             *)
(* crates/ezal-core/src/drive.rs, as operators on values.  Drive turns     *)
(* them into a state machine of their own; Actuator puts them behind the   *)
(* permissions of the output boundary.                                     *)
(*                                                                         *)
(* Times are natural numbers of an arbitrary unit.  The code's saturating  *)
(* u64 arithmetic cannot saturate in 500 million years of uptime and is    *)
(* plain addition here.  A guard is a record                               *)
(*   relay : [Axis -> one AxisRelay record]                                *)
(*   lease : the lease deadline, or NoLease (Option<u64>::None).           *)
(* NoLease is 0: a granted deadline is later than the instant of its grant *)
(* and so never 0, and activation_limit_ms() reads None as 0 already.      *)
(***************************************************************************)
EXTENDS Naturals

CONSTANTS
  Axis,          \* the independently switched axes: azimuth and elevation
  MinActive,     \* RelayConfig::min_active_ms
  SameOff,       \* RelayConfig::same_direction_off_ms
  ReverseOff,    \* RelayConfig::reversal_off_ms
  MovementLease  \* MOVEMENT_LEASE_MS

\* RelayConfig::is_valid: the lease covers a pulse, and every off-time is real.
ASSUME RelayConfigIsValid ==
  /\ MinActive \in Nat \ {0}
  /\ SameOff \in Nat \ {0}
  /\ ReverseOff \in Nat
  /\ MovementLease \in Nat
  /\ MinActive <= MovementLease
  /\ SameOff <= ReverseOff

\* The two directions of an axis, named by increases_angle(); Off is None.
Direction == {"up", "down"}
Off == "off"
DriveCommand == [Axis -> Direction \cup {Off}]
Idle == [a \in Axis |-> Off]
IsActive(drive) == \E a \in Axis : drive[a] # Off

\* drive.rs Command.  The drive an inhibition carries is Idle and never read.
Command == [kind : {"Drive", "Jog"}, drive : DriveCommand]
             \cup [kind : {"Inhibit"}, drive : {Idle}]
Inhibition == [kind |-> "Inhibit", drive |-> Idle]

NoLease == 0

AxisRelay == [target : Direction \cup {Off},
              actual : Direction \cup {Off},
              last   : Direction \cup {Off},   \* direction last released
              onUntil : Nat, offUntil : Nat, reverseUntil : Nat]

Guard == [relay : [Axis -> AxisRelay], lease : Nat]

NewRelay == [target |-> Off, actual |-> Off, last |-> Off,
             onUntil |-> 0, offUntil |-> 0, reverseUntil |-> 0]
NewGuard == [relay |-> [a \in Axis |-> NewRelay], lease |-> NoLease]

-----------------------------------------------------------------------------
(* One axis.                                                               *)

\* Mutant of Release: the off-time is counted back from the release.
ReleaseBackdated(r, now) ==
  IF r.actual = Off THEN r
  ELSE [r EXCEPT !.actual = Off, !.last = r.actual,
                 !.offUntil = now - SameOff, !.reverseUntil = now - ReverseOff]

\* AxisRelay::release: the output opens and both off-times start.  An axis
\* that is already off keeps the holds it has.
Release(r, now) ==
  IF r.actual = Off THEN r
  ELSE [r EXCEPT !.actual = Off,
                 !.last = r.actual,
                 !.offUntil = now + SameOff,
                 !.reverseUntil = now + ReverseOff]

\* Mutant of InactiveUntil: a reversal waits no longer than a restart.
SameInactiveUntil(r) == r.offUntil

InactiveUntil(r) ==
  IF r.last # Off /\ r.target # r.last THEN r.reverseUntil ELSE r.offUntil

Inhibit(r, now) == Release([r EXCEPT !.target = Off], now)

\* Mutant of ReleaseWhenDue: the minimum on-time is not awaited.
ReleaseAtOnce(r, now) == Release(r, now)

\* The release half of AxisRelay::update: a target that differs waits for the
\* minimum on-time.
ReleaseWhenDue(r, now) == IF now < r.onUntil THEN r ELSE Release(r, now)

\* Mutant of MayActivate: the lease is not asked to cover the pulse.
MayActivateUnbounded(r, now, limit) ==
  r.actual = Off /\ r.target # Off /\ InactiveUntil(r) <= now

\* The activation half: off-time over, and the limit covers a whole pulse.
MayActivate(r, now, limit) ==
  /\ r.actual = Off
  /\ r.target # Off
  /\ InactiveUntil(r) <= now
  /\ now + MinActive <= limit

Activate(r, now, limit) ==
  IF MayActivate(r, now, limit)
    THEN [r EXCEPT !.actual = r.target, !.onUntil = now + MinActive]
    ELSE r

UpdateAxis(r, now, limit) ==
  IF r.actual = r.target THEN r
  ELSE Activate(ReleaseWhenDue(r, now), now, limit)

\* Mutant of AxisTransition: an activation that just fits is not announced.
StrictTransition(r, now, limit) ==
  LET start == IF InactiveUntil(r) > now THEN InactiveUntil(r) ELSE now
  IN  IF r.actual = r.target THEN {}
      ELSE IF r.actual # Off THEN {IF r.onUntil > now THEN r.onUntil ELSE now}
      ELSE {t \in {start} : t + MinActive < limit}

\* AxisRelay::next_transition_ms, as the set holding it, or {} for None.
AxisTransition(r, now, limit) ==
  LET start == IF InactiveUntil(r) > now THEN InactiveUntil(r) ELSE now
  IN  IF r.actual = r.target THEN {}
      ELSE IF r.actual # Off THEN {IF r.onUntil > now THEN r.onUntil ELSE now}
      ELSE {t \in {start} : t + MinActive <= limit}

-----------------------------------------------------------------------------
(* Both axes and the lease.                                                *)

Target(g) == [a \in Axis |-> g.relay[a].target]
Actual(g) == [a \in Axis |-> g.relay[a].actual]

InhibitRelays(relay, axes, now) ==
  [a \in Axis |-> IF a \in axes THEN Inhibit(relay[a], now) ELSE relay[a]]

\* RelayTiming::set_target_until: a jog opens at once every energised axis it
\* releases or reverses, a drive leaves it to the minimum on-time.
SetTarget(relay, command, now, limit) ==
  LET cut == IF command.kind # "Jog" THEN {}
             ELSE {a \in Axis : /\ relay[a].actual # Off
                                /\ relay[a].actual # command.drive[a]}
      kept == InhibitRelays(relay, cut, now)
      aimed == [a \in Axis |-> [kept[a] EXCEPT !.target = command.drive[a]]]
  IN  IF command.kind = "Inhibit" THEN InhibitRelays(relay, Axis, now)
      ELSE [a \in Axis |-> UpdateAxis(aimed[a], now, limit)]

LeaseExpired(g, now) == g.lease # NoLease /\ g.lease <= now

ExpireLease(g, now) ==
  IF LeaseExpired(g, now)
    THEN [relay |-> InhibitRelays(g.relay, Axis, now), lease |-> NoLease]
    ELSE g

ClearIdleLease(g) ==
  IF IsActive(Target(g)) \/ IsActive(Actual(g)) THEN g
  ELSE [g EXCEPT !.lease = NoLease]

\* The lease an active command would own: never later than its source allows.
LeaseFor(now, validUntil) ==
  IF now + MovementLease <= validUntil THEN now + MovementLease ELSE validUntil

\* A live guard obeys: expired movement is an inhibition.
Commanded(live, command, now, validUntil) ==
  LET moves == command.kind # "Inhibit" /\ IsActive(command.drive)
      late == moves /\ LeaseFor(now, validUntil) <= now
      lease == IF moves /\ ~late THEN LeaseFor(now, validUntil) ELSE live.lease
      meant == IF late THEN Inhibition ELSE command
  IN  ClearIdleLease([relay |-> SetTarget(live.relay, meant, now, lease),
                      lease |-> lease])

\* Mutant of CommandUntil: the command renews a lease that has run out.
CommandThenExpire(g, command, now, validUntil) ==
  ExpireLease(Commanded(g, command, now, validUntil), now)

\* ActuatorGuard::command_until: a late refresh first meets the expiry of the
\* lease it would renew.
CommandUntil(g, command, now, validUntil) ==
  Commanded(ExpireLease(g, now), command, now, validUntil)

\* ActuatorGuard::update: an expiry ends the update, so nothing it opened can
\* be energised by the same call.
UpdateGuard(g, now) ==
  ClearIdleLease(
    IF LeaseExpired(g, now) THEN ExpireLease(g, now)
    ELSE [g EXCEPT !.relay = [a \in Axis |-> UpdateAxis(g.relay[a], now, g.lease)]])

InhibitAxes(g, axes, now) ==
  ClearIdleLease([g EXCEPT !.relay = InhibitRelays(g.relay, axes, now)])

\* ActuatorGuard::next_transition_ms: the candidates it takes the minimum of.
GuardDeadlines(g, now) ==
  (UNION {AxisTransition(g.relay[a], now, g.lease) : a \in Axis})
    \cup ({g.lease} \ {NoLease})
=============================================================================
