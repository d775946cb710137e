-------------------------------- MODULE Duty --------------------------------
(***************************************************************************)
(* Energised-time accounting per axis: AxisDuty and DutyMonitor of         *)
(* crates/ezal-core/src/duty.rs.  An axis's record counts what it has used *)
(* of its allowance and how long it has been idle without interruption.    *)
(***************************************************************************)
EXTENDS Relay

CONSTANTS
  Allowance,  \* DutyConfig::energized_ms
  Rest        \* DutyConfig::rest_ms

\* DutyConfig::is_valid, and ActuatorConfig::is_valid's duty clause.
ASSUME DutyConfigIsValid ==
  Allowance \in Nat /\ Allowance >= MinActive /\ Rest \in Nat \ {0}

AxisDuty == [used : Nat, idle : Nat]

\* DutyHistory::Unknown spends the whole allowance of a board that has just
\* booted; DutyHistory::Known([0, 0]) none of it.
UnknownDuty == [a \in Axis |-> [used |-> Allowance, idle |-> 0]]
RestedDuty == [a \in Axis |-> [used |-> 0, idle |-> 0]]

Account(d, energised, elapsed) ==
  IF energised THEN [used |-> d.used + elapsed, idle |-> 0]
  ELSE [used |-> IF d.idle + elapsed >= Rest THEN 0 ELSE d.used,
        idle |-> d.idle + elapsed]

Remaining(d) == IF d.used < Allowance THEN Allowance - d.used ELSE 0

\* DutyMonitor::observe: what was applied since the last service, charged
\* before any permission can cut it.
ObserveDuty(duty, applied, elapsed) ==
  [a \in Axis |-> Account(duty[a], applied[a] # Off, elapsed)]

\* The rest that clears the startup requirement is a full one on every axis.
AllRested(duty) == \A a \in Axis : duty[a].idle >= Rest

\* Mutant of DutyPermits: any rest of the allowance starts a pulse.
DutyPermitsSome(duty, a, requested, actual) == Remaining(duty[a]) > 0

\* DutyMonitor::guard_drive: an energised axis may finish its allowance, a new
\* direction must have a whole minimum pulse left.
DutyPermits(duty, a, requested, actual) ==
  IF requested = actual THEN Remaining(duty[a]) > 0
  ELSE Remaining(duty[a]) >= MinActive

GuardDuty(duty, requested, actual) ==
  [a \in Axis |-> IF requested[a] = Off \/ DutyPermits(duty, a, requested[a], actual[a])
                    THEN requested[a] ELSE Off]

\* DutyMonitor::applied: a new pulse interrupts the rest at once.
DutyApplied(duty, output) ==
  [a \in Axis |-> IF output[a] = Off THEN duty[a] ELSE [duty[a] EXCEPT !.idle = 0]]

\* DutyMonitor::deadline_ms right after a service at `now`.  The rest of an
\* axis that can still pulse needs no wake-up.
DutyDeadlines(duty, output, now) ==
  {now + Remaining(duty[a]) : a \in {b \in Axis : output[b] # Off}}
    \cup {now + (IF duty[a].idle < Rest THEN Rest - duty[a].idle ELSE 0) :
            a \in {b \in Axis : output[b] = Off /\ Remaining(duty[b]) < MinActive}}
=============================================================================
