------------------------------- MODULE Motion -------------------------------
(***************************************************************************)
(* Physical-motion supervision per axis: AxisMonitor of                    *)
(* crates/ezal-core/src/motion.rs.  It watches whether feedback follows    *)
(* what the output applied, and reports at most one fault, latched by      *)
(* Actuator.                                                               *)
(*                                                                         *)
(* What a fresh reading says of an axis, compared with the positions the   *)
(* monitor remembers, is its sense:                                        *)
(*   "still"  too little displacement to count as progress                 *)
(*   "moved"  progress, not against the applied direction                  *)
(*   "wrong"  displacement against it, beyond the noise                    *)
(*   "fast"   displacement no speed of the installation explains           *)
(* The remembered positions (extreme, speed anchor, progress anchor) are   *)
(* abstracted into that sense; the conditions under which each is          *)
(* consulted are not.                                                      *)
(***************************************************************************)
EXTENDS Interlock

CONSTANTS
  Coast,           \* AxisTravel::coast_ms
  ProgressTimeout  \* MotionConfig::progress_timeout_ms

\* ActuatorConfig::is_valid: a reversal waits until motion and readings in the
\* old direction are over.
ASSUME MotionConfigIsValid ==
  Coast \in Nat /\ ProgressTimeout \in Nat \ {0} /\ ReverseOff >= Coast + FeedbackMaxAge

Sense == {"still", "moved", "wrong", "fast"}
AtMostOne(s) == \A x, y \in s : x = y
Instant == {s \in SUBSET Nat : AtMostOne(s)}   \* Option<u64>

AxisMonitor == [applied : Direction \cup {Off}, last : Direction \cup {Off},
                started : Nat, stopped : Instant, coasting : BOOLEAN,
                sampled : Instant, spent : Instant]

NewMonitor == [applied |-> Off, last |-> Off, started |-> 0, stopped |-> {},
               coasting |-> FALSE, sampled |-> {}, spent |-> {}]

\* What one axis reads from a sample: when it was taken and what it says.
Reading(sample, a, now) ==
  {[at |-> s.at, sense |-> s.sense[a]] : s \in {s \in {sample} : Current(s, now)}}

\* Readings the monitor has not seen.
News(m, reading) == {r \in reading : \A t \in m.sampled : r.at > t}

\* A reading is held against the last direction while it is applied, while it
\* coasts, and once more after the coast of a pulse.
Judged(m, at) ==
  \/ m.applied # Off
  \/ \E t \in m.stopped : at <= t + Coast
  \/ m.coasting /\ \E t \in m.stopped : at <= t + Coast + FeedbackMaxAge

\* The energised time charged against progress before any reading is heard.
Charged(m, elapsed) == {s + (IF m.applied = Off THEN 0 ELSE elapsed) : s \in m.spent}

\* Progress counts only when the reading was taken after the run began.
Progresses(m, r) == r.sense = "moved" /\ Judged(m, r.at) /\ r.at >= m.started

SpentAfter(m, elapsed, reading) ==
  IF \E r \in News(m, reading) : Progresses(m, r)
    THEN {0 : s \in m.spent} ELSE Charged(m, elapsed)

\* AxisMonitor::observe, its state; a fault freezes the monitor for good, so
\* what it would have kept is never read.
ObserveAxis(m, elapsed, reading) ==
  [m EXCEPT
    !.spent = SpentAfter(m, elapsed, reading),
    !.coasting = @ /\ ~\E r \in News(m, reading), t \in m.stopped : r.at >= t + Coast,
    !.sampled = IF News(m, reading) = {} THEN @ ELSE {r.at : r \in News(m, reading)}]

\* Speed is bounded at all times once the axis has run, direction only while
\* motion is expected.
Contradicted(m, reading) ==
  /\ m.last # Off
  /\ \E r \in News(m, reading) : \/ r.sense = "fast"
                                 \/ r.sense = "wrong" /\ Judged(m, r.at)

\* Mutant of Faults: the budget is only looked at when a reading comes.
FaultsWhenHeard(m, elapsed, reading) ==
  \/ Contradicted(m, reading)
  \/ /\ m.applied # Off /\ News(m, reading) # {}
     /\ \E s \in SpentAfter(m, elapsed, reading) : s >= ProgressTimeout

\* AxisMonitor::observe, its result: the budget was overrun before a reading
\* came, a reading contradicts the output, or the budget is used up.
Faults(m, elapsed, reading) ==
  \/ m.applied # Off /\ \E s \in Charged(m, elapsed) : s > ProgressTimeout
  \/ Contradicted(m, reading)
  \/ m.applied # Off /\ \E s \in SpentAfter(m, elapsed, reading) : s >= ProgressTimeout

\* AxisMonitor::applied: the budget opens with the first run that has a
\* reading to start from, and no later run resets it.
MonitorApplied(m, drive, now) ==
  IF m.applied = drive THEN m
  ELSE [m EXCEPT
         !.stopped = IF m.applied = Off THEN @ ELSE {now},
         !.coasting = @ \/ m.applied # Off,
         !.applied = drive,
         !.started = IF drive = Off THEN @ ELSE now,
         !.last = IF drive = Off THEN @ ELSE drive,
         !.spent = IF drive # Off /\ m.spent = {} THEN {0 : t \in m.sampled} ELSE @]

\* AxisMonitor::deadline_ms, counted from the last observation.
MonitorDeadlines(m, observed) ==
  {observed + (IF s < ProgressTimeout THEN ProgressTimeout - s ELSE 0) :
     s \in IF m.applied = Off THEN {} ELSE m.spent}
=============================================================================
