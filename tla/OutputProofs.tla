---------------------------- MODULE OutputProofs ----------------------------
(***************************************************************************)
(* What Output promises, for every set of axes, every valid installation,  *)
(* every lateness of the executor and every history of the motors: that    *)
(* the output task may sleep until its deadlines, that a fault, a stop or  *)
(* an outage leaves nothing in motion, and that no motor works, stalls or  *)
(* turns around longer or sooner than it may, resets included.             *)
(*                                                                         *)
(* First come the operators of Actuator and of the monitors under it, up   *)
(* to what one step makes of an output; then what the motors live through. *)
(***************************************************************************)
EXTENDS Output, RelayProofs, WellFoundedInduction

Gate == [observed : Instant, generation : Nat]

\* A guard as every step leaves it: leased when in motion, and not for long.
Held(g, t) == g \in Guard /\ Leased(g) /\ g.lease <= t + MovementLease

\* What the sample says for axis a running in a direction.
Clear(fb, a, direction, t) == Current(fb, t) /\ Age(fb, t) < fb.place[a][direction]

-----------------------------------------------------------------------------
(* The monitors.                                                           *)

\* A reading is the sample's, there whenever the sample is current.
LEMMA ReadingFacts ==
  ASSUME NEW fb, NEW a \in Axis, NEW t
  PROVE  /\ \A r \in Reading(fb, a, t) : /\ r.at = fb.at /\ r.sense = fb.sense[a]
                                         /\ Current(fb, t)
         /\ AtMostOne(Reading(fb, a, t))
         /\ Current(fb, t) => Reading(fb, a, t) # {}
<1> DEFINE r == [at |-> fb.at, sense |-> fb.sense[a]]
<1>1. CASE Current(fb, t)
  <2>1. Reading(fb, a, t) = {r}
    BY <1>1 DEF Reading
  <2> QED BY <1>1, <2>1 DEF AtMostOne
<1>2. CASE ~Current(fb, t)
  <2>1. Reading(fb, a, t) = {}
    BY <1>2 DEF Reading
  <2> QED BY <1>2, <2>1 DEF AtMostOne
<1> QED BY <1>1, <1>2

\* The energised time charged before a reading is heard.
LEMMA ChargedFacts ==
  ASSUME NEW m \in AxisMonitor, NEW e \in Nat
  PROVE  /\ Charged(m, e) \in Instant
         /\ m.applied = Off => Charged(m, e) = m.spent
         /\ m.spent = {} => Charged(m, e) = {}
         /\ \A s \in Charged(m, e) : \E u \in m.spent :
              s = u + (IF m.applied = Off THEN 0 ELSE e)
         /\ m.spent # {} => Charged(m, e) # {}
<1>1. m.spent \in SUBSET Nat /\ \A x, y \in m.spent : x = y
  BY DEF AxisMonitor, Instant, AtMostOne
<1>2. CASE m.spent = {}
  <2>1. Charged(m, e) = {}
    BY <1>2 DEF Charged
  <2> QED BY <1>2, <2>1 DEF Instant, AtMostOne
<1>3. CASE m.spent # {}
  <2>1. PICK u \in m.spent : m.spent = {u} /\ u \in Nat
    BY <1>1, <1>3
  <2> DEFINE s == u + (IF m.applied = Off THEN 0 ELSE e)
  <2>2. Charged(m, e) = {s}
    BY <2>1 DEF Charged
  <2>3. s \in Nat /\ (m.applied = Off => s = u)
    BY <2>1
  <2> QED BY <2>1, <2>2, <2>3 DEF Instant, AtMostOne
<1> QED BY <1>2, <1>3

\* What observing makes of a monitor: it keeps the applied direction and the
\* last one, the budget is reset by progress or charged, and a reading leaves
\* its mark.
AxisObserved(m, n, e, fb, a, t) ==
  /\ n \in AxisMonitor
  /\ n.applied = m.applied /\ n.last = m.last
  /\ n.spent = SpentAfter(m, e, Reading(fb, a, t))
  /\ m.spent = {} <=> n.spent = {}
  /\ \/ Current(fb, t) /\ fb.sense[a] = "moved" /\ \A s \in n.spent : s = 0
     \/ n.spent = Charged(m, e)
  /\ Current(fb, t) => n.sampled # {}

\* Observing does no more than that.
LEMMA ObserveAxisFacts ==
  ASSUME NEW m \in AxisMonitor, NEW e \in Nat, NEW fb, fb.at \in Nat,
         NEW a \in Axis, NEW t \in Nat
  PROVE  AxisObserved(m, ObserveAxis(m, e, Reading(fb, a, t)), e, fb, a, t)
<1> DEFINE r == Reading(fb, a, t)
           heard == News(m, r)
           n == ObserveAxis(m, e, r)
           spent == SpentAfter(m, e, r)
           coasting == m.coasting /\ ~\E q \in heard, s \in m.stopped : q.at >= s + Coast
           sampled == IF heard = {} THEN m.sampled ELSE {q.at : q \in heard}
<1>1. heard \subseteq r /\ \A q \in heard : q.at = fb.at /\ q.sense = fb.sense[a] /\ Current(fb, t)
  BY ReadingFacts DEF News
<1>2. m.spent \in Instant /\ m.sampled \in Instant
  BY DEF AxisMonitor
<1>3. /\ spent \in Instant
      /\ m.spent = {} <=> spent = {}
      /\ \/ Current(fb, t) /\ fb.sense[a] = "moved" /\ \A s \in spent : s = 0
         \/ spent = Charged(m, e)
  <2>1. CASE \E q \in heard : Progresses(m, q)
    <3>1. spent = {0 : s \in m.spent}
      BY <2>1 DEF SpentAfter
    <3>2. Current(fb, t) /\ fb.sense[a] = "moved"
      BY <1>1, <2>1 DEF Progresses
    <3> QED BY <3>1, <3>2 DEF Instant, AtMostOne
  <2>2. CASE ~\E q \in heard : Progresses(m, q)
    <3>1. spent = Charged(m, e)
      BY <2>2 DEF SpentAfter
    <3> QED BY <3>1, ChargedFacts
  <2> QED BY <2>1, <2>2
<1>4. sampled \in Instant /\ (Current(fb, t) => sampled # {})
  <2>1. CASE heard = {}
    <3>1. Current(fb, t) => m.sampled # {}
      <4> SUFFICES ASSUME Current(fb, t), m.sampled = {} PROVE FALSE
        OBVIOUS
      <4>1. PICK q \in r : TRUE
        BY ReadingFacts
      <4>2. q \in heard
        BY <4>1 DEF News
      <4> QED BY <2>1, <4>2
    <3> QED BY <1>2, <2>1, <3>1
  <2>2. CASE heard # {}
    <3>1. sampled = {fb.at}
      BY <1>1, <2>2
    <3> QED BY <3>1 DEF Instant, AtMostOne
  <2> QED BY <2>1, <2>2
<1>5. n = [m EXCEPT !.spent = spent, !.coasting = coasting, !.sampled = sampled]
  BY DEF ObserveAxis
<1>6. coasting \in BOOLEAN
  BY DEF AxisMonitor
<1> HIDE DEF spent, coasting, sampled
<1>7. /\ n \in AxisMonitor /\ n.applied = m.applied /\ n.last = m.last
      /\ n.spent = spent /\ n.sampled = sampled
  BY <1>3, <1>4, <1>5, <1>6 DEF AxisMonitor
<1>8. spent = SpentAfter(m, e, r)
  BY DEF spent
<1> HIDE DEF n, r
<1> QED BY <1>3, <1>4, <1>7, <1>8 DEF AxisObserved, n, r

\* Telling a monitor what is applied keeps its budget, which opens, fresh, with
\* the first direction after a reading.
LEMMA MonitorAppliedFacts ==
  ASSUME NEW m \in AxisMonitor, NEW d \in Direction \cup {Off}, NEW t \in Nat
  PROVE  LET n == MonitorApplied(m, d, t)
         IN  /\ n \in AxisMonitor
             /\ n.applied = d
             /\ d = Off => n.last = m.last /\ n.spent = m.spent
             /\ m.spent # {} => n.spent = m.spent
             /\ m.spent = {} => \A s \in n.spent : s = 0
             /\ m.sampled # {} /\ m.applied = Off /\ d # Off => n.spent # {}
<1>1. CASE m.applied = d
  BY <1>1 DEF MonitorApplied
<1>2. CASE m.applied # d
  <2> DEFINE n == MonitorApplied(m, d, t)
             stopped == IF m.applied = Off THEN m.stopped ELSE {t}
             coasting == m.coasting \/ m.applied # Off
             started == IF d = Off THEN m.started ELSE t
             last == IF d = Off THEN m.last ELSE d
             spent == IF d # Off /\ m.spent = {} THEN {0 : u \in m.sampled} ELSE m.spent
  <2>1. n = [m EXCEPT !.stopped = stopped, !.coasting = coasting, !.applied = d,
                      !.started = started, !.last = last, !.spent = spent]
    BY <1>2 DEF MonitorApplied
  <2>2. m.stopped \in Instant /\ m.spent \in Instant /\ {t} \in Instant
    BY DEF AxisMonitor, Instant, AtMostOne
  <2>3. {0 : u \in m.sampled} \in Instant
    BY DEF Instant, AtMostOne
  <2>4. stopped \in Instant /\ spent \in Instant
    BY <2>2, <2>3
  <2>5. coasting \in BOOLEAN /\ started \in Nat /\ last \in Direction \cup {Off}
    BY DEF AxisMonitor
  <2>6. /\ d = Off => last = m.last /\ spent = m.spent
        /\ m.spent # {} => spent = m.spent
        /\ m.spent = {} => \A s \in spent : s = 0
        /\ m.sampled # {} /\ m.applied = Off /\ d # Off => spent # {}
    OBVIOUS
  <2> HIDE DEF stopped, coasting, started, last, spent
  <2>7. n \in AxisMonitor /\ n.applied = d /\ n.last = last /\ n.spent = spent
    BY <2>1, <2>4, <2>5 DEF AxisMonitor
  <2> HIDE DEF n
  <2> QED BY <2>6, <2>7 DEF n
<1> QED BY <1>1, <1>2

\* Energised time is charged in full, and only a whole rest forgives it.
LEMMA AccountFacts ==
  ASSUME NEW d \in AxisDuty, NEW energised \in BOOLEAN, NEW e \in Nat
  PROVE  LET n == Account(d, energised, e)
         IN  /\ n \in AxisDuty
             /\ energised => n.used = d.used + e /\ n.idle = 0
             /\ ~energised => n.idle = d.idle + e
             /\ ~energised /\ d.idle + e < Rest => n.used = d.used
             /\ ~energised /\ d.idle + e >= Rest => n.used = 0
<1>1. d.used \in Nat /\ d.idle \in Nat
  BY DEF AxisDuty
<1>2. Rest \in Nat
  BY DutyConfigIsValid
<1> QED BY <1>1, <1>2 DEF Account, AxisDuty

\* The time since the last service is a length of time.
LEMMA ElapsedFacts ==
  ASSUME NEW o \in ActuatorState, NEW t \in Nat, \A s \in o.served : s <= t
  PROVE  /\ Elapsed(o, t) \in Nat
         /\ o.served = {} => Elapsed(o, t) = 0
         /\ \A s \in o.served : Elapsed(o, t) = t - s
<1>1. o.served \in SUBSET Nat /\ \A x, y \in o.served : x = y
  BY DEF ActuatorState, Instant, AtMostOne
<1>2. CASE o.served = {}
  BY <1>2 DEF Elapsed
<1>3. CASE o.served # {}
  <2>1. PICK s \in o.served : o.served = {s} /\ s \in Nat /\ s <= t
    BY <1>1, <1>3
  <2>2. (CHOOSE x \in o.served : TRUE) = s
    BY <2>1
  <2>3. Elapsed(o, t) = t - s
    BY <1>3, <2>2 DEF Elapsed
  <2> QED BY <2>1, <2>3
<1> QED BY <1>2, <1>3

-----------------------------------------------------------------------------
(* The parts of a step.                                                    *)

\* The output that existed until now is charged to the monitors; relays and
\* permissions are left alone.
LEMMA ChargeFacts ==
  ASSUME NEW o \in ActuatorState, NEW fb, fb.at \in Nat, NEW t \in Nat,
         \A s \in o.served : s <= t
  PROVE  LET c == Charge(o, fb, t)
             e == Elapsed(o, t)
         IN  /\ c \in ActuatorState
             /\ c.guard = o.guard /\ c.generation = o.generation /\ c.served = {t}
             /\ \A a \in Axis :
                  c.duty[a] = Account(o.duty[a], o.guard.relay[a].actual # Off, e)
             /\ c.unrested => o.unrested
             /\ o.faulted => c.faulted
             /\ \A a \in Axis : c.motion[a] \in {o.motion[a],
                                  ObserveAxis(o.motion[a], e, Reading(fb, a, t))}
             /\ ~c.faulted => \A a \in Axis :
                  /\ c.motion[a] = ObserveAxis(o.motion[a], e, Reading(fb, a, t))
                  /\ ~Faults(o.motion[a], e, Reading(fb, a, t))
<1> DEFINE e == Elapsed(o, t)
           duty == [a \in Axis |-> Account(o.duty[a], o.guard.relay[a].actual # Off, e)]
           faults == \E a \in Axis : Faults(o.motion[a], e, Reading(fb, a, t))
           unrested == o.unrested /\ ~AllRested(duty)
           motion == IF o.faulted THEN o.motion
                     ELSE [a \in Axis |-> ObserveAxis(o.motion[a], e, Reading(fb, a, t))]
           faulted == o.faulted \/ faults
           c == Charge(o, fb, t)
<1>1. e \in Nat
  BY ElapsedFacts
<1>2. /\ o.duty \in [Axis -> AxisDuty] /\ o.motion \in [Axis -> AxisMonitor]
      /\ o.unrested \in BOOLEAN /\ o.faulted \in BOOLEAN
  BY DEF ActuatorState
<1>3. ObserveDuty(o.duty, Output(o), e) = duty
  BY DEF ObserveDuty, Output, Actual
<1>4. c = [o EXCEPT !.duty = duty, !.unrested = unrested, !.motion = motion,
                    !.faulted = faulted, !.served = {t}]
  BY <1>3 DEF Charge
<1>5. duty \in [Axis -> AxisDuty]
  BY <1>1, <1>2, AccountFacts
<1>6. \A a \in Axis : ObserveAxis(o.motion[a], e, Reading(fb, a, t)) \in AxisMonitor
  BY <1>1, <1>2, ObserveAxisFacts DEF AxisObserved
<1>7. motion \in [Axis -> AxisMonitor]
  BY <1>2, <1>6
<1>8. unrested \in BOOLEAN /\ faulted \in BOOLEAN /\ {t} \in Instant
  BY <1>2 DEF Instant, AtMostOne
<1>9. \A a \in Axis : duty[a] = Account(o.duty[a], o.guard.relay[a].actual # Off, e)
  OBVIOUS
<1>10. \A a \in Axis : motion[a] \in {o.motion[a], ObserveAxis(o.motion[a], e, Reading(fb, a, t))}
  OBVIOUS
<1>11. ~faulted => \A a \in Axis :
         /\ motion[a] = ObserveAxis(o.motion[a], e, Reading(fb, a, t))
         /\ ~Faults(o.motion[a], e, Reading(fb, a, t))
  OBVIOUS
<1>12. (unrested => o.unrested) /\ (o.faulted => faulted)
  OBVIOUS
<1> HIDE DEF duty, unrested, motion, faulted
<1>13. /\ c \in ActuatorState
       /\ c.guard = o.guard /\ c.generation = o.generation /\ c.served = {t}
       /\ c.duty = duty /\ c.unrested = unrested /\ c.motion = motion /\ c.faulted = faulted
  BY <1>4, <1>5, <1>7, <1>8 DEF ActuatorState
<1> HIDE DEF c, e
<1> QED BY <1>9, <1>10, <1>11, <1>12, <1>13 DEF c, e

\* Opening axes opens them, and leaves the others as they were.
LEMMA InhibitAxesOpens ==
  ASSUME NEW g, NEW axes, NEW t \in Nat, Held(g, t)
  PROVE  LET h == InhibitAxes(g, axes, t)
         IN  /\ Held(h, t)
             /\ \A a \in Axis : Opened(g.relay[a], h.relay[a], t)
             /\ \A a \in Axis \cap axes : h.relay[a].target = Off /\ h.relay[a].actual = Off
             /\ \A a \in Axis \ axes : h.relay[a] = g.relay[a]
<1> DEFINE u == InhibitRelays(g.relay, axes, t)
           k == [g EXCEPT !.relay = u]
           h == InhibitAxes(g, axes, t)
<1>1. g.relay \in [Axis -> AxisRelay] /\ g.lease \in Nat /\ g \in Guard /\ Leased(g)
  BY DEF Guard, Held
<1>2. /\ h \in Guard /\ Leased(h) /\ h.lease \in {g.lease, NoLease}
  BY <1>1, InhibitAxesFacts DEF GuardStep
<1>3. Held(h, t)
  <2> HIDE DEF h
  <2> QED BY <1>2, RelayConfigIsValid DEF Held, NoLease
<1>4. u \in [Axis -> AxisRelay]
  <2>1. CASE Axis = {}
    BY <2>1 DEF InhibitRelays
  <2>2. CASE Axis # {}
    <3>1. PICK a \in Axis : TRUE
      BY <2>2
    <3> QED BY <1>1, <3>1, InhibitRelaysFacts
  <2> QED BY <2>1, <2>2
<1>5. \A a \in Axis : /\ Opened(g.relay[a], u[a], t)
                      /\ a \in axes => u[a].target = Off /\ u[a].actual = Off
                      /\ a \notin axes => u[a] = g.relay[a]
  BY <1>1, InhibitRelaysFacts
<1> HIDE DEF u
<1>6. k \in Guard /\ k.relay = u
  BY <1>1, <1>4 DEF Guard
<1>7. h.relay = u
  BY <1>6, ClearIdleLeaseRelay DEF InhibitAxes, u
<1> QED BY <1>3, <1>5, <1>7

\* So does an inhibition, and it leaves nothing in motion.
LEMMA InhibitGuardOpens ==
  ASSUME NEW g, NEW t \in Nat, Held(g, t)
  PROVE  LET h == InhibitGuard(g, t)
         IN  /\ Held(h, t)
             /\ ~InMotion(h)
             /\ \A a \in Axis : Opened(g.relay[a], h.relay[a], t)
<1> DEFINE h == InhibitGuard(g, t)
<1>1. g \in Guard /\ Leased(g) /\ g.lease <= t + MovementLease
  BY DEF Held
<1>2. Inhibition \in Command /\ Inhibition.kind = "Inhibit"
  BY DEF Inhibition, Command
<1>3. GuardStep(g, h, t) /\ h.lease <= t + MovementLease /\ ~InMotion(h)
  BY <1>1, <1>2, CommandUntilFacts, CommandUntilLease DEF InhibitGuard
<1> HIDE DEF h
<1>4. \A a \in Axis : h.relay[a].actual = Off
  BY <1>3, InMotionFacts
<1>5. \A a \in Axis : Opened(g.relay[a], h.relay[a], t)
  BY <1>3, <1>4 DEF GuardStep, AxisStep, AxisStarts, Opened, Direction, Off
<1> QED BY <1>3, <1>5 DEF GuardStep, Held, h

\* Opening twice at one instant is opening once.
LEMMA OpenedTwice ==
  ASSUME NEW r, NEW q, NEW u, NEW t, Opened(r, q, t), Opened(q, u, t)
  PROVE  Opened(r, u, t)
  BY DEF Opened, AxisStays, AxisStops

\* What a permission leaves of a drive is clear of endpoints and has duty left,
\* a whole pulse of it for a direction that is not running yet.
LEMMA PermitFacts ==
  ASSUME NEW duty, NEW fb, NEW drive, NEW output, NEW t, NEW a \in Axis,
         GuardDuty(duty, GuardFeedback(fb, drive, t), output)[a] # Off
  PROVE  /\ GuardDuty(duty, GuardFeedback(fb, drive, t), output)[a] = drive[a]
         /\ Clear(fb, a, drive[a], t)
         /\ drive[a] = output[a] => Remaining(duty[a]) > 0
         /\ drive[a] # output[a] => Remaining(duty[a]) >= MinActive
<1> DEFINE d == GuardFeedback(fb, drive, t)
<1>1. d[a] # Off /\ DutyPermits(duty, a, d[a], output[a])
      /\ GuardDuty(duty, d, output)[a] = d[a]
  BY DEF GuardDuty
<1>2. d[a] = drive[a] /\ Clear(fb, a, drive[a], t)
  BY <1>1 DEF GuardFeedback, Clear
<1> HIDE DEF d
<1>3. /\ drive[a] = output[a] => Remaining(duty[a]) > 0
      /\ drive[a] # output[a] => Remaining(duty[a]) >= MinActive
  BY <1>1, <1>2 DEF DutyPermits
<1> QED BY <1>1, <1>2, <1>3 DEF d

\* Nothing runs or waits past a latched fault, and what still does is permitted.
LEMMA EnforceFacts ==
  ASSUME NEW c \in ActuatorState, NEW fb, NEW t \in Nat, Held(c.guard, t)
  PROVE  LET f == Enforce(c, fb, t)
         IN  /\ f \in ActuatorState /\ Held(f.guard, t)
             /\ f.duty = c.duty /\ f.unrested = c.unrested /\ f.motion = c.motion
             /\ f.faulted = c.faulted /\ f.served = c.served /\ f.generation = c.generation
             /\ c.faulted => ~InMotion(f.guard)
             /\ \A a \in Axis : LET r == c.guard.relay[a]
                                    u == f.guard.relay[a]
                                IN  /\ Opened(r, u, t)
                                    /\ u.actual # Off => /\ Clear(fb, a, u.actual, t)
                                                         /\ Remaining(c.duty[a]) > 0
                                    /\ u.target # Off /\ u.actual = Off =>
                                         /\ Clear(fb, a, u.target, t)
                                         /\ Remaining(c.duty[a]) >= MinActive
<1> DEFINE cut == Withdrawn(c, fb, t)
           h == InhibitAxes(c.guard, cut, t)
           g == IF c.faulted THEN InhibitGuard(h, t) ELSE h
           f == Enforce(c, fb, t)
<1>1. /\ Held(h, t)
      /\ \A a \in Axis : /\ Opened(c.guard.relay[a], h.relay[a], t)
                         /\ a \in cut => h.relay[a].target = Off /\ h.relay[a].actual = Off
                         /\ a \notin cut => h.relay[a] = c.guard.relay[a]
  BY InhibitAxesOpens
<1>2. /\ Held(g, t) /\ (c.faulted => ~InMotion(g)) /\ (~c.faulted => g = h)
      /\ \A a \in Axis : Opened(c.guard.relay[a], g.relay[a], t)
  <2>1. CASE c.faulted
    <3>1. g = InhibitGuard(h, t)
      BY <2>1
    <3> HIDE DEF h, g
    <3> QED BY <1>1, <2>1, <3>1, InhibitGuardOpens, OpenedTwice
  <2>2. CASE ~c.faulted
    BY <1>1, <2>2
  <2> QED BY <2>1, <2>2
<1>3. ASSUME NEW a \in Axis, a \notin cut
      PROVE  LET r == c.guard.relay[a]
             IN  /\ r.actual # Off => Clear(fb, a, r.actual, t) /\ Remaining(c.duty[a]) > 0
                 /\ r.target # Off /\ r.actual = Off =>
                      Clear(fb, a, r.target, t) /\ Remaining(c.duty[a]) >= MinActive
  <2> DEFINE out == Output(c)
             want == Target(c.guard)
  <2>1. /\ GuardDuty(c.duty, GuardFeedback(fb, out, t), out)[a] = out[a]
        /\ GuardDuty(c.duty, GuardFeedback(fb, want, t), out)[a] = want[a]
    BY <1>3 DEF Withdrawn
  <2>2. out[a] = c.guard.relay[a].actual /\ want[a] = c.guard.relay[a].target
    BY DEF Output, Actual, Target
  <2> HIDE DEF out, want
  <2>3. out[a] # Off => Clear(fb, a, out[a], t) /\ Remaining(c.duty[a]) > 0
    BY <2>1, PermitFacts
  <2>4. want[a] # Off /\ out[a] = Off =>
          Clear(fb, a, want[a], t) /\ Remaining(c.duty[a]) >= MinActive
    BY <2>1, PermitFacts
  <2> QED BY <2>2, <2>3, <2>4
<1>4. ASSUME NEW a \in Axis
      PROVE  LET u == g.relay[a]
             IN  /\ u.actual # Off => Clear(fb, a, u.actual, t) /\ Remaining(c.duty[a]) > 0
                 /\ u.target # Off /\ u.actual = Off =>
                      Clear(fb, a, u.target, t) /\ Remaining(c.duty[a]) >= MinActive
  <2> HIDE DEF cut, h, g
  <2>1. CASE c.faulted \/ a \in cut
    <3>1. g.relay[a].actual = Off /\ g.relay[a].target = Off
      BY <1>1, <1>2, <2>1, InMotionFacts
    <3> QED BY <3>1
  <2>2. CASE ~c.faulted /\ a \notin cut
    <3>1. g.relay[a] = c.guard.relay[a]
      BY <1>1, <1>2, <2>2
    <3> QED BY <1>3, <2>2, <3>1
  <2> QED BY <2>1, <2>2
<1>5. f = [c EXCEPT !.guard = g]
  BY DEF Enforce
<1> HIDE DEF cut, h, g
<1>6. /\ f \in ActuatorState /\ f.guard = g
      /\ f.duty = c.duty /\ f.unrested = c.unrested /\ f.motion = c.motion
      /\ f.faulted = c.faulted /\ f.served = c.served /\ f.generation = c.generation
  BY <1>2, <1>5 DEF ActuatorState, Held
<1> HIDE DEF f
<1> QED BY <1>2, <1>4, <1>6 DEF f

\* Only a ready network of the same generation leaves anything in motion.
LEMMA RevokeFacts ==
  ASSUME NEW f \in ActuatorState, NEW net \in Gate, NEW t \in Nat, Held(f.guard, t)
  PROVE  LET v == Revoke(f, net, t)
         IN  /\ v \in ActuatorState /\ Held(v.guard, t)
             /\ v.duty = f.duty /\ v.unrested = f.unrested /\ v.motion = f.motion
             /\ v.faulted = f.faulted /\ v.served = f.served
             /\ v.generation = net.generation
             /\ InMotion(v.guard) => /\ Ready(net, t) /\ f.generation = net.generation
                                     /\ v.guard = f.guard
             /\ \A a \in Axis : Opened(f.guard.relay[a], v.guard.relay[a], t)
<1> DEFINE kept == Ready(net, t) /\ f.generation = net.generation
           g == IF kept THEN f.guard ELSE InhibitGuard(f.guard, t)
           v == Revoke(f, net, t)
<1>1. /\ Held(g, t) /\ (InMotion(g) => kept /\ g = f.guard)
      /\ \A a \in Axis : Opened(f.guard.relay[a], g.relay[a], t)
  <2>1. CASE kept
    BY <2>1 DEF Opened, AxisStays
  <2>2. CASE ~kept
    <3>1. g = InhibitGuard(f.guard, t)
      BY <2>2
    <3> HIDE DEF g
    <3> QED BY <3>1, InhibitGuardOpens
  <2> QED BY <2>1, <2>2
<1>2. v = [f EXCEPT !.guard = g, !.generation = net.generation]
  BY DEF Revoke
<1>3. net.generation \in Nat
  BY DEF Gate
<1> HIDE DEF g
<1>4. /\ v \in ActuatorState /\ v.guard = g /\ v.generation = net.generation
      /\ v.duty = f.duty /\ v.unrested = f.unrested /\ v.motion = f.motion
      /\ v.faulted = f.faulted /\ v.served = f.served
  BY <1>1, <1>2, <1>3 DEF ActuatorState, Held
<1> HIDE DEF v
<1> QED BY <1>1, <1>4 DEF v

\* An update never aims anywhere new, and what it starts it was aimed at.
LEMMA UpdateAims ==
  ASSUME NEW g, NEW t \in Nat, Held(g, t)
  PROVE  LET h == UpdateGuard(g, t)
         IN  /\ Held(h, t)
             /\ InMotion(h) => InMotion(g)
             /\ \A a \in Axis : /\ AxisStep(g.relay[a], h.relay[a], t, h.lease)
                                /\ h.relay[a].target \in {g.relay[a].target, Off}
<1> DEFINE h == UpdateGuard(g, t)
<1>1. g \in Guard /\ Leased(g) /\ g.lease <= t + MovementLease /\ \A a \in Axis : g.relay[a] \in AxisRelay
  BY DEF Held, Guard
<1>2. GuardStep(g, h, t) /\ h.lease \in {g.lease, NoLease}
  BY <1>1, UpdateGuardFacts
<1>3. InMotion(h) => InMotion(g)
  BY <1>1, UpdateGuardAtRest
<1>4. Held(h, t)
  <2> HIDE DEF h
  <2> QED BY <1>1, <1>2, RelayConfigIsValid DEF Held, NoLease, GuardStep
<1>5. \A a \in Axis : h.relay[a].target \in {g.relay[a].target, Off}
  <2>1. CASE LeaseExpired(g, t)
    <3> DEFINE x == ExpireLease(g, t)
    <3>1. h = ClearIdleLease(x) /\ x.relay = InhibitRelays(g.relay, Axis, t)
      BY <2>1 DEF UpdateGuard, ExpireLease
    <3>2. x \in Guard
      BY <1>1, ExpireLeaseFacts
    <3>3. h.relay = InhibitRelays(g.relay, Axis, t)
      <4> HIDE DEF x
      <4> QED BY <3>1, <3>2, ClearIdleLeaseRelay
    <3>4. g.relay \in [Axis -> AxisRelay]
      BY <1>1 DEF Guard
    <3>5. \A a \in Axis : InhibitRelays(g.relay, Axis, t)[a].target = Off
      BY <3>4, InhibitRelaysFacts
    <3> QED BY <3>3, <3>5
  <2>2. CASE ~LeaseExpired(g, t)
    <3>1. g.lease \in Nat
      BY <1>1 DEF Guard
    <3>2. \A a \in Axis : h.relay[a] = UpdateAxis(g.relay[a], t, g.lease)
      BY <1>1, <2>2, UpdateGuardRelay
    <3>3. \A a \in Axis : UpdateAxis(g.relay[a], t, g.lease).target = g.relay[a].target
      BY <1>1, <3>1, UpdateAxisFacts
    <3> HIDE DEF h
    <3> QED BY <3>2, <3>3
  <2> QED BY <2>1, <2>2
<1> HIDE DEF h
<1> QED BY <1>2, <1>3, <1>4, <1>5 DEF GuardStep, h

\* A command aims where it says, or nowhere.
LEMMA CommandAims ==
  ASSUME NEW g, NEW t \in Nat, Held(g, t), NEW command \in Command, NEW until \in Nat
  PROVE  LET h == CommandUntil(g, command, t, until)
         IN  /\ Held(h, t)
             /\ command.kind = "Inhibit" => ~InMotion(h)
             /\ \A a \in Axis : /\ AxisStep(g.relay[a], h.relay[a], t, h.lease)
                                /\ h.relay[a].target \in {command.drive[a], Off}
<1> DEFINE h == CommandUntil(g, command, t, until)
           live == ExpireLease(g, t)
           moves == command.kind # "Inhibit" /\ IsActive(command.drive)
           late == moves /\ LeaseFor(t, until) <= t
           lease == IF moves /\ ~late THEN LeaseFor(t, until) ELSE live.lease
           meant == IF late THEN Inhibition ELSE command
           u == SetTarget(live.relay, meant, t, lease)
           k == [relay |-> u, lease |-> lease]
<1>1. g \in Guard /\ Leased(g) /\ g.lease <= t + MovementLease
  BY DEF Held
<1>2. GuardStep(g, h, t) /\ h.lease <= t + MovementLease /\ (command.kind = "Inhibit" => ~InMotion(h))
  BY <1>1, CommandUntilFacts, CommandUntilLease
<1>3. live \in Guard
  BY <1>1, ExpireLeaseFacts
<1>4. live.relay \in [Axis -> AxisRelay] /\ live.lease \in Nat
  BY <1>3 DEF Guard
<1>5. lease \in Nat
  BY <1>4, LeaseForFacts
<1>6. meant \in Command /\ \A a \in Axis : meant.drive[a] \in {command.drive[a], Off}
  BY CommandTypes DEF Idle
<1>7. h = ClearIdleLease(k)
  BY DEF CommandUntil, Commanded
<1> HIDE DEF live, lease, meant
<1>8. u \in [Axis -> AxisRelay] /\ \A a \in Axis : u[a].target = meant.drive[a]
  <2>1. CASE Axis = {}
    BY <2>1 DEF SetTarget, InhibitRelays
  <2>2. CASE Axis # {}
    BY <1>4, <1>5, <1>6, <2>2, SetTargetFacts
  <2> QED BY <2>1, <2>2
<1> HIDE DEF u
<1>9. k \in Guard /\ k.relay = u
  BY <1>5, <1>8 DEF Guard
<1> HIDE DEF k
<1>10. h.relay = u
  BY <1>7, <1>9, ClearIdleLeaseRelay
<1> HIDE DEF h
<1> QED BY <1>2, <1>6, <1>8, <1>10 DEF GuardStep, Held, h

\* A permitted command is a command, an inhibition unless the network is ready
\* and nothing has failed, and moves only as feedback and duty allow.
LEMMA PermittedFacts ==
  ASSUME NEW v \in ActuatorState, NEW fb, NEW net, NEW command \in Command, NEW t \in Nat
  PROVE  LET p == Permitted(v, fb, net, command, t)
         IN  /\ p \in Command
             /\ p.kind # "Inhibit" => /\ Ready(net, t) /\ ~v.faulted
                                      /\ command.kind # "Inhibit"
             /\ \A a \in Axis : p.drive[a] # Off =>
                  /\ Clear(fb, a, p.drive[a], t)
                  /\ Remaining(v.duty[a]) > 0
                  /\ p.drive[a] # v.guard.relay[a].actual => Remaining(v.duty[a]) >= MinActive
<1> DEFINE p == Permitted(v, fb, net, command, t)
           aimed == GuardFeedback(fb, command.drive, t)
           drive == GuardDuty(v.duty, aimed, Output(v))
<1>1. CASE p = Inhibition
  <2>1. p \in Command /\ p.kind = "Inhibit" /\ \A a \in Axis : p.drive[a] = Off
    BY <1>1, CommandTypes DEF Inhibition, Idle
  <2> HIDE DEF p
  <2> QED BY <2>1 DEF p
<1>2. CASE p # Inhibition
  <2>1. Ready(net, t) /\ ~v.faulted /\ command.kind # "Inhibit" /\ Current(fb, t)
    BY <1>2 DEF Permitted, GuardCommand, Inhibition
  <2>2. command = [kind |-> command.kind, drive |-> command.drive]
        /\ command.kind \in {"Drive", "Jog"} /\ command.drive \in DriveCommand
    BY <2>1 DEF Command
  <2>3. GuardCommand(fb, command, t) = [command EXCEPT !.drive = aimed]
    BY <2>1 DEF GuardCommand
  <2>4. GuardCommand(fb, command, t) = [kind |-> command.kind, drive |-> aimed]
    <3> HIDE DEF aimed
    <3> QED BY <2>2, <2>3
  <2>5. p = [kind |-> command.kind, drive |-> drive]
    <3> HIDE DEF aimed
    <3> QED BY <2>1, <2>2, <2>4 DEF Permitted
  <2>6. aimed \in DriveCommand
    BY <2>2 DEF GuardFeedback, DriveCommand
  <2>7. drive \in DriveCommand
    <3> HIDE DEF aimed
    <3> QED BY <2>6 DEF GuardDuty, DriveCommand
  <2>8. ASSUME NEW a \in Axis, drive[a] # Off
        PROVE  /\ Clear(fb, a, drive[a], t)
               /\ Remaining(v.duty[a]) > 0
               /\ drive[a] # v.guard.relay[a].actual => Remaining(v.duty[a]) >= MinActive
    <3>1. Output(v)[a] = v.guard.relay[a].actual
      BY DEF Output, Actual
    <3>2. /\ drive[a] = command.drive[a]
          /\ Clear(fb, a, command.drive[a], t)
          /\ command.drive[a] = Output(v)[a] => Remaining(v.duty[a]) > 0
          /\ command.drive[a] # Output(v)[a] => Remaining(v.duty[a]) >= MinActive
      BY <2>8, PermitFacts
    <3>3. Remaining(v.duty[a]) \in Nat
      BY DutyConfigIsValid DEF Remaining, ActuatorState, AxisDuty
    <3> HIDE DEF drive
    <3> QED BY <3>1, <3>2, <3>3, RelayConfigIsValid
  <2>9. p \in Command /\ p.kind # "Inhibit" /\ p.drive = drive
    <3> HIDE DEF drive
    <3> QED BY <2>2, <2>5, <2>7 DEF Command
  <2> HIDE DEF p, drive
  <2> QED BY <2>1, <2>8, <2>9 DEF p
<1> QED BY <1>1, <1>2

\* What runs is clear of endpoints and has duty left, and what waits could start.
Allowed(g, duty, fb, t) ==
  \A a \in Axis :
    /\ g.relay[a].actual # Off => Clear(fb, a, g.relay[a].actual, t) /\ Remaining(duty[a]) > 0
    /\ g.relay[a].target # Off /\ g.relay[a].actual = Off =>
         Clear(fb, a, g.relay[a].target, t) /\ Remaining(duty[a]) >= MinActive

\* What obeying makes of v: b, with the guard alone changed.
Obeyed(v, b, fb, net, box, t) ==
  /\ b \in ActuatorState /\ Held(b.guard, t)
  /\ b.duty = v.duty /\ b.unrested = v.unrested /\ b.motion = v.motion
  /\ b.faulted = v.faulted /\ b.served = v.served /\ b.generation = v.generation
  /\ InMotion(b.guard) => /\ Ready(net, t) /\ ~v.faulted
                          /\ \A e \in box : e.command.kind # "Inhibit"
                          /\ box = {} => InMotion(v.guard)
  /\ \A a \in Axis : LET r == v.guard.relay[a]
                         u == b.guard.relay[a]
                     IN  /\ AxisStep(r, u, t, b.guard.lease)
                         /\ u.actual # Off => /\ Clear(fb, a, u.actual, t)
                                              /\ Remaining(v.duty[a]) > 0
                         /\ u.actual # Off /\ r.actual = Off =>
                              Remaining(v.duty[a]) >= MinActive

\* Obeying a command, or none, leaves in motion only what is permitted; a stop
\* leaves nothing, and no command nothing new.
LEMMA ObeyFacts ==
  ASSUME NEW v \in ActuatorState, NEW fb, NEW net, NEW t \in Nat,
         NEW box \in SUBSET [command : Command, until : Nat], AtMostOne(box),
         Held(v.guard, t), Allowed(v.guard, v.duty, fb, t),
         InMotion(v.guard) => Ready(net, t) /\ ~v.faulted
  PROVE  Obeyed(v, Obey(v, fb, net, box, t), fb, net, box, t)
<1> DEFINE e == CHOOSE x \in box : TRUE
           p == Permitted(v, fb, net, e.command, t)
           g == IF box = {} THEN UpdateGuard(v.guard, t)
                ELSE CommandUntil(v.guard, p, t, e.until)
           b == Obey(v, fb, net, box, t)
<1>0. MinActive \in Nat \ {0}
  BY RelayConfigIsValid
<1>1. box # {} => e \in box /\ e.command \in Command /\ e.until \in Nat /\ \A x \in box : x = e
  BY DEF AtMostOne
<1>2. box # {} => /\ p \in Command
                  /\ p.kind # "Inhibit" => Ready(net, t) /\ ~v.faulted /\ e.command.kind # "Inhibit"
                  /\ \A a \in Axis : p.drive[a] # Off =>
                       /\ Clear(fb, a, p.drive[a], t)
                       /\ p.drive[a] # v.guard.relay[a].actual => Remaining(v.duty[a]) >= MinActive
  <2> SUFFICES ASSUME box # {}
               PROVE  /\ p \in Command
                      /\ p.kind # "Inhibit" => Ready(net, t) /\ ~v.faulted /\ e.command.kind # "Inhibit"
                      /\ \A a \in Axis : p.drive[a] # Off =>
                           /\ Clear(fb, a, p.drive[a], t)
                           /\ p.drive[a] # v.guard.relay[a].actual => Remaining(v.duty[a]) >= MinActive
    OBVIOUS
  <2> DEFINE command == e.command
  <2>1. command \in Command
    BY <1>1
  <2>2. p = Permitted(v, fb, net, command, t)
    OBVIOUS
  <2> HIDE DEF command, p
  <2>3. /\ p \in Command
        /\ p.kind # "Inhibit" => Ready(net, t) /\ ~v.faulted /\ command.kind # "Inhibit"
        /\ \A a \in Axis : p.drive[a] # Off =>
             /\ Clear(fb, a, p.drive[a], t)
             /\ p.drive[a] # v.guard.relay[a].actual => Remaining(v.duty[a]) >= MinActive
    BY ONLY v \in ActuatorState, t \in Nat, <2>1, <2>2, PermittedFacts
  <2> QED BY <2>3 DEF command
<1> HIDE DEF e, p
<1>3. /\ Held(g, t)
      /\ \A a \in Axis : AxisStep(v.guard.relay[a], g.relay[a], t, g.lease)
      /\ box = {} => /\ InMotion(g) => InMotion(v.guard)
                     /\ \A a \in Axis : g.relay[a].target \in {v.guard.relay[a].target, Off}
      /\ box # {} => /\ p.kind = "Inhibit" => ~InMotion(g)
                     /\ \A a \in Axis : g.relay[a].target \in {p.drive[a], Off}
  <2>1. CASE box = {}
    <3>1. g = UpdateGuard(v.guard, t)
      BY <2>1
    <3> HIDE DEF g
    <3> QED BY <2>1, <3>1, UpdateAims
  <2>2. CASE box # {}
    <3>1. g = CommandUntil(v.guard, p, t, e.until) /\ p \in Command /\ e.until \in Nat
      BY <1>1, <1>2, <2>2
    <3> DEFINE until == e.until
    <3>2. g = CommandUntil(v.guard, p, t, until) /\ until \in Nat
      BY <3>1
    <3> HIDE DEF g, until
    <3>3. /\ Held(g, t)
          /\ p.kind = "Inhibit" => ~InMotion(g)
          /\ \A a \in Axis : /\ AxisStep(v.guard.relay[a], g.relay[a], t, g.lease)
                             /\ g.relay[a].target \in {p.drive[a], Off}
      BY <3>1, <3>2, CommandAims
    <3> QED BY <2>2, <3>3
  <2> QED BY <2>1, <2>2
<1>4. b = [v EXCEPT !.guard = g]
  BY DEF Obey, e, p
<1> HIDE DEF g
<1>5. ASSUME InMotion(g)
      PROVE  /\ Ready(net, t) /\ ~v.faulted
             /\ \A x \in box : x.command.kind # "Inhibit"
             /\ box = {} => InMotion(v.guard)
  <2>1. CASE box = {}
    BY <1>3, <1>5, <2>1
  <2>2. CASE box # {}
    BY <1>1, <1>2, <1>3, <1>5, <2>2
  <2> QED BY <2>1, <2>2
<1>6. ASSUME NEW a \in Axis, g.relay[a].actual # Off
      PROVE  /\ Clear(fb, a, g.relay[a].actual, t)
             /\ Remaining(v.duty[a]) > 0
             /\ v.guard.relay[a].actual = Off => Remaining(v.duty[a]) >= MinActive
  <2> DEFINE r == v.guard.relay[a]
             u == g.relay[a]
  <2>1. AxisStays(r, u) \/ AxisStarts(r, u, t, g.lease)
    BY <1>3, <1>6 DEF AxisStep, AxisStops
  <2>2. CASE AxisStays(r, u)
    <3>1. u.actual = r.actual
      BY <2>2 DEF AxisStays
    <3> QED BY <1>6, <3>1 DEF Allowed
  <2>3. CASE AxisStarts(r, u, t, g.lease)
    <3>1. r.actual = Off /\ u.actual = u.target /\ u.target # Off
      BY <1>6, <2>3 DEF AxisStarts
    <3>2. Clear(fb, a, u.target, t) /\ Remaining(v.duty[a]) >= MinActive
      <4>1. CASE box = {}
        BY <1>3, <3>1, <4>1 DEF Allowed
      <4>2. CASE box # {}
        <5>1. u.target = p.drive[a]
          BY <1>3, <3>1, <4>2
        <5> QED BY <1>2, <3>1, <4>2, <5>1
      <4> QED BY <4>1, <4>2
    <3>3. Remaining(v.duty[a]) \in Nat
      BY DutyConfigIsValid DEF Remaining, ActuatorState, AxisDuty
    <3> QED BY <1>0, <3>1, <3>2, <3>3
  <2> QED BY <2>1, <2>2, <2>3
<1>7. /\ b \in ActuatorState /\ b.guard = g
      /\ b.duty = v.duty /\ b.unrested = v.unrested /\ b.motion = v.motion
      /\ b.faulted = v.faulted /\ b.served = v.served /\ b.generation = v.generation
  BY <1>3, <1>4 DEF ActuatorState, Held
<1> HIDE DEF b
<1> QED BY <1>3, <1>5, <1>6, <1>7 DEF Obeyed, b

\* The monitors are told what the step leaves applied.
LEMMA AppliedFacts ==
  ASSUME NEW b \in ActuatorState, NEW t \in Nat
  PROVE  LET n == Applied(b, t)
         IN  /\ n \in ActuatorState
             /\ n.guard = b.guard /\ n.generation = b.generation /\ n.served = b.served
             /\ n.faulted = b.faulted
             /\ n.unrested => b.unrested /\ ~IsActive(Output(b))
             /\ \A a \in Axis : LET d == b.guard.relay[a].actual
                                IN  /\ n.motion[a] = MonitorApplied(b.motion[a], d, t)
                                    /\ n.duty[a].used = b.duty[a].used
                                    /\ d = Off => n.duty[a].idle = b.duty[a].idle
<1> DEFINE motion == [a \in Axis |-> MonitorApplied(b.motion[a], b.guard.relay[a].actual, t)]
           duty == DutyApplied(b.duty, Output(b))
           unrested == b.unrested /\ ~IsActive(Output(b))
           n == Applied(b, t)
<1>1. \A a \in Axis : /\ Output(b)[a] = b.guard.relay[a].actual
                      /\ b.guard.relay[a].actual \in Direction \cup {Off}
                      /\ b.motion[a] \in AxisMonitor /\ b.duty[a] \in AxisDuty
  BY DEF Output, Actual, ActuatorState, Guard, AxisRelay
<1>2. \A a \in Axis : /\ duty[a] \in AxisDuty /\ duty[a].used = b.duty[a].used
                      /\ b.guard.relay[a].actual = Off => duty[a].idle = b.duty[a].idle
  <2> SUFFICES ASSUME NEW a \in Axis
               PROVE  /\ duty[a] \in AxisDuty /\ duty[a].used = b.duty[a].used
                      /\ b.guard.relay[a].actual = Off => duty[a].idle = b.duty[a].idle
    OBVIOUS
  <2>1. duty[a] = IF Output(b)[a] = Off THEN b.duty[a] ELSE [b.duty[a] EXCEPT !.idle = 0]
    BY DEF DutyApplied
  <2> HIDE DEF duty
  <2> QED BY <1>1, <2>1 DEF AxisDuty
<1>3. duty \in [Axis -> AxisDuty]
  BY <1>2 DEF DutyApplied
<1>4. \A a \in Axis : MonitorApplied(b.motion[a], b.guard.relay[a].actual, t) \in AxisMonitor
  BY <1>1, MonitorAppliedFacts
<1>5. motion \in [Axis -> AxisMonitor]
  BY <1>4
<1>6. unrested \in BOOLEAN
  BY DEF ActuatorState
<1>7. [a \in Axis |-> MonitorApplied(b.motion[a], Output(b)[a], t)] = motion
  BY <1>1
<1>8. n = [b EXCEPT !.motion = motion, !.duty = duty, !.unrested = unrested]
  BY <1>7 DEF Applied
<1>9. \A a \in Axis : motion[a] = MonitorApplied(b.motion[a], b.guard.relay[a].actual, t)
  OBVIOUS
<1>10. unrested => b.unrested /\ ~IsActive(Output(b))
  OBVIOUS
<1> HIDE DEF motion, duty, unrested
<1>11. /\ n \in ActuatorState
       /\ n.guard = b.guard /\ n.generation = b.generation /\ n.served = b.served
       /\ n.faulted = b.faulted /\ n.unrested = unrested /\ n.motion = motion /\ n.duty = duty
  BY <1>3, <1>5, <1>6, <1>8 DEF ActuatorState
<1> HIDE DEF n
<1> QED BY <1>2, <1>9, <1>10, <1>11 DEF n

-----------------------------------------------------------------------------
(* The whole step.                                                         *)

(***************************************************************************)
(* An output as every step at t or before leaves it: its guard leased, a   *)
(* fault at rest, the monitors told what is applied, and no axis run since *)
(* the board started as long as its startup rest is outstanding.           *)
(***************************************************************************)
Sound(o, t) ==
  /\ o \in ActuatorState
  /\ \A s \in o.served : s <= t
  /\ Held(o.guard, t)
  /\ o.faulted => ~InMotion(o.guard)
  /\ \A a \in Axis : o.motion[a].applied = o.guard.relay[a].actual
  /\ o.unrested => \A a \in Axis : o.motion[a].last = Off

\* What the step at t that leaves n makes of an axis: of its duty and monitor,
\* and of what it runs.
AxisServed(o, n, fb, a, t) ==
  LET e == Elapsed(o, t)
      r == o.guard.relay[a]
      u == n.guard.relay[a]
      account == Account(o.duty[a], r.actual # Off, e)
      reading == Reading(fb, a, t)
  IN  /\ AxisStep(r, u, t, n.guard.lease)
      /\ u.actual # Off => Clear(fb, a, u.actual, t) /\ Remaining(n.duty[a]) > 0
      /\ u.actual # Off /\ r.actual = Off => Remaining(n.duty[a]) >= MinActive
      /\ n.duty[a].used = account.used
      /\ u.actual = Off => n.duty[a].idle = account.idle
      /\ ~n.faulted =>
           /\ ~Faults(o.motion[a], e, reading)
           /\ n.motion[a] = MonitorApplied(ObserveAxis(o.motion[a], e, reading), u.actual, t)

\* A step leaves a sound output, in motion only with the network, without a
\* fault and past no stop, and serves every axis.
LEMMA StepFacts ==
  ASSUME NEW o, NEW t \in Nat, Sound(o, t), NEW fb, fb.at \in Nat, NEW net \in Gate,
         NEW box \in SUBSET [command : Command, until : Nat], AtMostOne(box)
  PROVE  LET n == ActuatorStep(o, fb, net, box, t)
         IN  /\ Sound(n, t)
             /\ n.served = {t} /\ n.generation = net.generation
             /\ o.faulted => n.faulted
             /\ n.unrested => o.unrested
             /\ InMotion(n.guard) =>
                  /\ Ready(net, t) /\ ~n.faulted
                  /\ \A e \in box : e.command.kind # "Inhibit"
                  /\ box = {} => o.generation = net.generation
             /\ \A a \in Axis : AxisServed(o, n, fb, a, t)
<1> DEFINE e == Elapsed(o, t)
           c == Charge(o, fb, t)
           f == Enforce(c, fb, t)
           v == Revoke(f, net, t)
           b == Obey(v, fb, net, box, t)
           n == ActuatorStep(o, fb, net, box, t)
<1>0. o \in ActuatorState /\ Held(o.guard, t) /\ \A s \in o.served : s <= t
  BY DEF Sound
<1>1. n = Applied(b, t)
  BY DEF ActuatorStep
<1>2. /\ c \in ActuatorState
      /\ c.guard = o.guard /\ c.generation = o.generation /\ c.served = {t}
      /\ \A a \in Axis : c.duty[a] = Account(o.duty[a], o.guard.relay[a].actual # Off, e)
      /\ c.unrested => o.unrested
      /\ o.faulted => c.faulted
      /\ \A a \in Axis : c.motion[a] \in {o.motion[a],
                                          ObserveAxis(o.motion[a], e, Reading(fb, a, t))}
      /\ ~c.faulted => \A a \in Axis :
           /\ c.motion[a] = ObserveAxis(o.motion[a], e, Reading(fb, a, t))
           /\ ~Faults(o.motion[a], e, Reading(fb, a, t))
  BY <1>0, ChargeFacts
<1>3. \A a \in Axis : c.motion[a].last = o.motion[a].last
  <2>1. ASSUME NEW a \in Axis
        PROVE  ObserveAxis(o.motion[a], e, Reading(fb, a, t)).last = o.motion[a].last
    <3> DEFINE m == o.motion[a]
    <3>1. m \in AxisMonitor /\ e \in Nat
      BY <1>0, ElapsedFacts DEF ActuatorState
    <3> HIDE DEF m, e
    <3>2. ObserveAxis(m, e, Reading(fb, a, t)).last = m.last
      BY <3>1, ObserveAxisFacts DEF AxisObserved
    <3> QED BY <3>2 DEF m
  <2> HIDE DEF c
  <2> QED BY <1>2, <2>1
<1> HIDE DEF c
<1>4. /\ f \in ActuatorState /\ Held(f.guard, t)
      /\ f.duty = c.duty /\ f.unrested = c.unrested /\ f.motion = c.motion
      /\ f.faulted = c.faulted /\ f.served = c.served /\ f.generation = c.generation
      /\ c.faulted => ~InMotion(f.guard)
      /\ \A a \in Axis : Opened(c.guard.relay[a], f.guard.relay[a], t)
      /\ Allowed(f.guard, c.duty, fb, t)
  <2>1. Held(c.guard, t)
    BY <1>0, <1>2
  <2> QED BY <1>2, <2>1, EnforceFacts DEF Allowed
<1> HIDE DEF f
<1>5. /\ v \in ActuatorState /\ Held(v.guard, t)
      /\ v.duty = c.duty /\ v.unrested = c.unrested /\ v.motion = c.motion
      /\ v.faulted = c.faulted /\ v.served = c.served /\ v.generation = net.generation
      /\ InMotion(v.guard) => /\ Ready(net, t) /\ o.generation = net.generation
                              /\ v.guard = f.guard
      /\ \A a \in Axis : Opened(f.guard.relay[a], v.guard.relay[a], t)
  BY <1>2, <1>4, RevokeFacts
<1> HIDE DEF v
<1>6. Allowed(v.guard, v.duty, fb, t) /\ (InMotion(v.guard) => ~v.faulted)
  <2>1. CASE InMotion(v.guard)
    BY <1>4, <1>5, <2>1
  <2>2. CASE ~InMotion(v.guard)
    BY <2>2, InMotionFacts DEF Allowed
  <2> QED BY <2>1, <2>2
<1>7. /\ b \in ActuatorState /\ Held(b.guard, t)
      /\ b.duty = v.duty /\ b.unrested = v.unrested /\ b.motion = v.motion
      /\ b.faulted = v.faulted /\ b.served = v.served /\ b.generation = v.generation
      /\ InMotion(b.guard) => /\ Ready(net, t) /\ ~v.faulted
                              /\ \A x \in box : x.command.kind # "Inhibit"
                              /\ box = {} => InMotion(v.guard)
      /\ \A a \in Axis : LET r == v.guard.relay[a]
                             u == b.guard.relay[a]
                         IN  /\ AxisStep(r, u, t, b.guard.lease)
                             /\ u.actual # Off => /\ Clear(fb, a, u.actual, t)
                                                  /\ Remaining(v.duty[a]) > 0
                             /\ u.actual # Off /\ r.actual = Off =>
                                  Remaining(v.duty[a]) >= MinActive
  <2>1. v \in ActuatorState /\ Held(v.guard, t) /\ Allowed(v.guard, v.duty, fb, t)
    BY <1>5, <1>6
  <2>2. InMotion(v.guard) => Ready(net, t) /\ ~v.faulted
    BY <1>5, <1>6
  <2>3. Obeyed(v, b, fb, net, box, t)
    BY <2>1, <2>2, ObeyFacts
  <2> HIDE DEF b
  <2> QED BY <2>3 DEF Obeyed
<1> HIDE DEF b, n
<1>8. /\ n \in ActuatorState
      /\ n.guard = b.guard /\ n.generation = b.generation /\ n.served = b.served
      /\ n.faulted = b.faulted
      /\ n.unrested => b.unrested /\ ~IsActive(Output(b))
      /\ \A a \in Axis : LET d == b.guard.relay[a].actual
                         IN  /\ n.motion[a] = MonitorApplied(b.motion[a], d, t)
                             /\ n.duty[a].used = b.duty[a].used
                             /\ d = Off => n.duty[a].idle = b.duty[a].idle
  BY ONLY <1>1, <1>7, t \in Nat, AppliedFacts
<1>9. ASSUME NEW a \in Axis
      PROVE  /\ n.motion[a].applied = n.guard.relay[a].actual
             /\ n.guard.relay[a].actual = Off => n.motion[a].last = o.motion[a].last
  <2> DEFINE d == b.guard.relay[a].actual
  <2>1. d \in Direction \cup {Off} /\ b.motion[a] \in AxisMonitor
    BY <1>7 DEF ActuatorState, Guard, AxisRelay
  <2>2. /\ MonitorApplied(b.motion[a], d, t).applied = d
        /\ d = Off => MonitorApplied(b.motion[a], d, t).last = b.motion[a].last
    <3> HIDE DEF d
    <3> QED BY ONLY <2>1, t \in Nat, MonitorAppliedFacts
  <2> QED BY <1>3, <1>5, <1>7, <1>8, <2>2
<1>10. Sound(n, t)
  <2>1. \A s \in n.served : s <= t
    BY <1>2, <1>5, <1>7, <1>8
  <2>2. n.faulted => ~InMotion(n.guard)
    BY <1>7, <1>8
  <2>3. ASSUME n.unrested, NEW a \in Axis PROVE n.motion[a].last = Off
    <3>1. n.guard.relay[a].actual = Off
      BY <1>8, <2>3 DEF IsActive, Output, Actual
    <3>2. o.unrested
      BY <1>2, <1>5, <1>7, <1>8, <2>3
    <3> QED BY <1>9, <3>1, <3>2 DEF Sound
  <2> QED BY <1>7, <1>8, <1>9, <2>1, <2>2, <2>3 DEF Sound
<1>11. ASSUME NEW a \in Axis PROVE AxisServed(o, n, fb, a, t)
  <2> DEFINE r == o.guard.relay[a]
             u == n.guard.relay[a]
             p == f.guard.relay[a]
             q == v.guard.relay[a]
  <2>1. r \in AxisRelay /\ q \in AxisRelay /\ u \in AxisRelay
    BY <1>0, <1>5, <1>7, <1>8 DEF Held, Guard
  <2>2. Opened(r, p, t) /\ Opened(p, q, t)
    BY <1>2, <1>4, <1>5
  <2>3. AxisStep(q, u, t, n.guard.lease)
    BY <1>7, <1>8
  <2>4. n.guard.lease \in Nat
    BY <1>7, <1>8 DEF Held, Guard
  <2>5. /\ u.actual # Off => Clear(fb, a, u.actual, t) /\ Remaining(c.duty[a]) > 0
        /\ u.actual # Off /\ q.actual = Off => Remaining(c.duty[a]) >= MinActive
    BY <1>5, <1>7, <1>8
  <2>6. Remaining(n.duty[a]) = Remaining(c.duty[a])
    BY <1>5, <1>7, <1>8 DEF Remaining
  <2>7. /\ n.duty[a].used = c.duty[a].used
        /\ u.actual = Off => n.duty[a].idle = c.duty[a].idle
    BY <1>5, <1>7, <1>8
  <2>8. ~n.faulted =>
          /\ ~Faults(o.motion[a], e, Reading(fb, a, t))
          /\ n.motion[a] = MonitorApplied(ObserveAxis(o.motion[a], e, Reading(fb, a, t)),
                                          u.actual, t)
    BY <1>2, <1>5, <1>7, <1>8
  <2> HIDE DEF r, u, p, q
  <2>9. Opened(r, q, t)
    BY <2>2, OpenedTwice
  <2>10. AxisStep(r, u, t, n.guard.lease)
    BY <2>1, <2>3, <2>4, <2>9, OpenedThenStep
  <2>11. r.actual = Off => q.actual = Off
    BY <2>9 DEF Opened, AxisStays, AxisStops
  <2>12. /\ u.actual # Off => Clear(fb, a, u.actual, t) /\ Remaining(n.duty[a]) > 0
         /\ u.actual # Off /\ r.actual = Off => Remaining(n.duty[a]) >= MinActive
    BY <2>5, <2>6, <2>11
  <2>13. c.duty[a] = Account(o.duty[a], r.actual # Off, e)
    BY <1>2 DEF r
  <2> QED
    BY <2>7, <2>8, <2>10, <2>12, <2>13 DEF AxisServed, r, u, e
<1>12. InMotion(n.guard) => /\ Ready(net, t) /\ ~n.faulted
                            /\ \A x \in box : x.command.kind # "Inhibit"
                            /\ box = {} => o.generation = net.generation
  BY <1>5, <1>7, <1>8
<1>13. /\ n.served = {t} /\ n.generation = net.generation
       /\ o.faulted => n.faulted
       /\ n.unrested => o.unrested
  BY <1>2, <1>5, <1>7, <1>8
<1> QED BY <1>10, <1>11, <1>12, <1>13 DEF n

\* An override leaves a sound output sound, and forgives what was used.
LEMMA OverrideFacts ==
  ASSUME NEW o, NEW t \in Nat, Sound(o, t), MayOverride(o)
  PROVE  LET n == OverrideStartupRest(o)
         IN  /\ Sound(n, t) /\ ~InMotion(n.guard)
             /\ n.guard = o.guard /\ n.generation = o.generation /\ n.served = o.served
             /\ n.motion = o.motion /\ n.faulted = o.faulted
             /\ ~n.unrested
             /\ \A a \in Axis : n.duty[a].used = 0 /\ n.duty[a].idle = o.duty[a].idle
<1> DEFINE duty == [a \in Axis |-> [o.duty[a] EXCEPT !.used = 0]]
           n == OverrideStartupRest(o)
<1>1. o \in ActuatorState /\ \A a \in Axis : o.duty[a] \in AxisDuty
  BY DEF Sound, ActuatorState
<1>2. \A a \in Axis : duty[a] \in AxisDuty /\ duty[a].used = 0 /\ duty[a].idle = o.duty[a].idle
  BY <1>1 DEF AxisDuty
<1>3. duty \in [Axis -> AxisDuty]
  BY <1>2
<1>4. [a \in Axis |-> [o.duty[a] EXCEPT !.used = 0]] = duty
  OBVIOUS
<1>5. n = [o EXCEPT !.unrested = FALSE, !.duty = duty]
  BY DEF OverrideStartupRest
<1> HIDE DEF duty
<1>6. /\ n \in ActuatorState
      /\ n.guard = o.guard /\ n.generation = o.generation /\ n.served = o.served
      /\ n.motion = o.motion /\ n.faulted = o.faulted
      /\ n.unrested = FALSE /\ n.duty = duty
  BY <1>1, <1>3, <1>5 DEF ActuatorState
<1> HIDE DEF n
<1>7. ~InMotion(o.guard)
  BY DEF MayOverride, InMotion, Output
<1> QED BY <1>2, <1>6, <1>7 DEF Sound, n

-----------------------------------------------------------------------------
(***************************************************************************)
(* What a motor has lived through, against what the output remembers: r is *)
(* the relay of its axis, d its duty record, m its monitor, x the motor    *)
(* and e the time since the last service at t.                             *)
(***************************************************************************)

\* The motor has paused for as long as the holds and the rest say, or longer.
Paused(r, d, x, e, t) ==
  /\ HoldsAgree(r)
  /\ r.actual # Off => x.dir = r.actual /\ x.pause = 0
  /\ r.actual = Off /\ r.last # Off =>
       x.dir = r.last /\ (x.pause = FullPause \/ t + SameOff <= r.offUntil + x.pause)
  /\ r.actual = Off /\ r.last = Off /\ ReverseOff <= Rest =>
       x.pause >= ReverseOff \/ d.used >= Allowance
  /\ r.actual = Off => x.pause = FullPause \/ d.idle + e <= x.pause

\* It has worked no longer than charged, unless nothing is left to be charged.
Worked(r, d, x, e) ==
  /\ x.pause >= Rest => x.worked = 0
  /\ r.actual = Off => d.used >= Allowance \/ x.worked <= d.used
  /\ r.actual # Off => d.used < Allowance /\ x.worked <= d.used + e

\* What the boots before this one may have let a motor stall.
Before(x) == (x.boots - 1) * StallLimit

\* It has stalled no longer than that, its budget says and one reading hides.
Stalled(r, m, x, e) ==
  /\ m.spent = {} => x.stalled <= Before(x) + FeedbackMaxAge /\ r.actual = Off
  /\ \A s \in m.spent :
       /\ s < ProgressTimeout
       /\ x.stalled <= Before(x) + s + FeedbackMaxAge + (IF r.actual = Off THEN 0 ELSE e)

Lived(o, x, t) ==
  \A a \in Axis :
    /\ Paused(o.guard.relay[a], o.duty[a], x[a], Elapsed(o, t), t)
    /\ Worked(o.guard.relay[a], o.duty[a], x[a], Elapsed(o, t))
    /\ ~o.faulted => Stalled(o.guard.relay[a], o.motion[a], x[a], Elapsed(o, t))

\* A sample that shows movement has shown it to the motor.
Seen(fb, x, t) ==
  /\ fb.at <= t
  /\ \A a \in Axis : fb.usable /\ fb.sense[a] = "moved" => x[a].stalled <= t - fb.at

\* The output task is due before a motor overruns its duty or its budget.
Awake ==
  /\ fed <= now
  /\ parked => ~InMotion(act.guard)
  /\ \A s \in act.served : s = fed
  /\ \A a \in Axis : act.guard.relay[a].actual # Off =>
       /\ act.served # {}
       /\ due <= fed + Remaining(act.duty[a])
       /\ \A s \in act.motion[a].spent : due + s <= fed + ProgressTimeout

\* And before any permission of an energised axis ends.
Asleep ==
  ~parked /\ now < due => \A a \in Axis : act.guard.relay[a].actual # Off =>
    /\ due <= act.guard.lease
    /\ act.generation = network.generation
    /\ \E t \in network.observed : t <= now /\ due <= t + NetworkTimeout
    /\ feedback.usable
    /\ due <= feedback.at + FeedbackMaxAge + 1
    /\ due <= feedback.at + feedback.place[a][act.guard.relay[a].actual]

(***************************************************************************)
(* The inductive invariant.  The bounds on work and stalls are not         *)
(* inductive: they follow from what the motors lived through and from the  *)
(* output task being due in time; neither is what Asleep says without the  *)
(* rest, since what an output may do depends on what it was left with.     *)
(***************************************************************************)
IInv ==
  /\ TypeOK /\ network \in Gate
  /\ Sound(act, now)
  /\ Lived(act, motor, now)
  /\ Seen(feedback, motor, now)
  /\ WorkIsBounded /\ StallIsBounded
  /\ Awake
  /\ Asleep

-----------------------------------------------------------------------------
(* Helpers.                                                                *)

\* A set of natural numbers has a least one.
LEMMA MinFacts ==
  ASSUME NEW S \in SUBSET Nat, S # {}
  PROVE  Min(S) \in S /\ \A y \in S : Min(S) <= y
<1>1. IsWellFoundedOn(OpToRel(<, Nat), Nat)
  BY NatLessThanWellFounded
<1>2. PICK x \in S : \A y \in S : ~(<<y, x>> \in OpToRel(<, Nat))
  BY <1>1, WFMin
<1>3. \A y \in S : x <= y
  <2> SUFFICES ASSUME NEW y \in S PROVE x <= y
    OBVIOUS
  <2>1. x \in Nat /\ y \in Nat
    OBVIOUS
  <2>2. ~(y < x)
    BY <1>2, <2>1 DEF OpToRel
  <2> QED BY <2>1, <2>2
<1> QED BY <1>3 DEF Min

\* The bounds of the installation are natural numbers.
LEMMA BoundsAreNat ==
  /\ SameOff \in Nat \ {0} /\ ReverseOff \in Nat /\ SameOff <= ReverseOff
  /\ MinActive \in Nat \ {0} /\ MovementLease \in Nat
  /\ Rest \in Nat \ {0} /\ Allowance \in Nat /\ FeedbackMaxAge \in Nat
  /\ ProgressTimeout \in Nat \ {0} /\ NetworkTimeout \in Nat \ {0}
  /\ FullPause \in Nat /\ Rest <= FullPause /\ ReverseOff <= FullPause
  /\ Slack \in Nat /\ Slack <= Late /\ Slack <= Watchdog
  /\ Slack = Late \/ Slack = Watchdog
  /\ Late \in Nat /\ Watchdog \in Nat /\ ServicePeriod \in Nat \ {0}
  /\ WorkLimit = Allowance + Slack /\ WorkLimit \in Nat
  /\ StallLimit = ProgressTimeout + FeedbackMaxAge + Slack /\ StallLimit \in Nat
  /\ FeedbackMaxAge >= 1
  BY RelayConfigIsValid, DutyConfigIsValid, MotionConfigIsValid, FeedbackMaxAgeIsNat,
     NetworkTimeoutIsPositive, OutputConfigIsValid
     DEF FullPause, Slack, WorkLimit, StallLimit

\* Every boot since movement was last seen counts for one limit.
LEMMA BeforeFacts ==
  ASSUME NEW x \in Motor
  PROVE  /\ x.boots \in Nat \ {0} /\ x.stalled \in Nat
         /\ Before(x) \in Nat
         /\ x.boots * StallLimit = Before(x) + StallLimit
         /\ x.boots = 1 => Before(x) = 0
<1> DEFINE b == x.boots
           limit == StallLimit
<1>1. b \in Nat \ {0} /\ x.stalled \in Nat
  BY DEF Motor
<1>2. limit \in Nat
  BY BoundsAreNat
<1> HIDE DEF b, limit
<1>3. b * limit = (b - 1) * limit + limit
  BY <1>1, <1>2
<1>4. (b - 1) * limit \in Nat
  <2>1. b - 1 \in Nat
    BY <1>1
  <2> QED BY <1>2, <2>1
<1>5. b = 1 => (b - 1) * limit = 0
  BY <1>2
<1> QED BY <1>1, <1>3, <1>4, <1>5 DEF Before, b, limit

-----------------------------------------------------------------------------
(* What a service and the passing of time mean for the motors.             *)

\* What a motor sees of what its axis runs.
Sees(x, direction) ==
  IF direction = Off THEN x ELSE [x EXCEPT !.pause = 0, !.dir = direction]

\* A service that steps an axis from r to u, and its duty from d to n, leaves
\* the motor paused and worked as remembered, and the time counts anew.
LEMMA ServiceKeepsPause ==
  ASSUME NEW r \in AxisRelay, NEW u \in AxisRelay, NEW d \in AxisDuty, NEW n \in AxisDuty,
         NEW x \in Motor, NEW e \in Nat, NEW t \in Nat, NEW limit \in Nat,
         AxisStep(r, u, t, limit),
         n.used = Account(d, r.actual # Off, e).used,
         u.actual = Off => n.idle = Account(d, r.actual # Off, e).idle,
         u.actual # Off => Remaining(n) > 0,
         Paused(r, d, x, e, t), Worked(r, d, x, e)
  PROVE  Paused(u, n, Sees(x, u.actual), 0, t) /\ Worked(u, n, Sees(x, u.actual), 0)
<1> DEFINE y == Sees(x, u.actual)
<1>0. /\ x.worked \in Nat /\ x.pause \in Nat /\ x.pause <= FullPause /\ d.used \in Nat /\ d.idle \in Nat
      /\ n.used \in Nat /\ n.idle \in Nat /\ r.offUntil \in Nat /\ r.reverseUntil \in Nat
      /\ u.offUntil \in Nat /\ u.reverseUntil \in Nat
  BY BoundsAreNat DEF Motor, AxisDuty, AxisRelay
<1>1. /\ r.actual # Off => n.used = d.used + e /\ (u.actual = Off => n.idle = 0)
      /\ r.actual = Off => /\ u.actual = Off => n.idle = d.idle + e
                           /\ d.idle + e < Rest => n.used = d.used
                           /\ d.idle + e >= Rest => n.used = 0
  BY AccountFacts
<1>2. u.actual # Off => n.used < Allowance
  BY <1>0, BoundsAreNat DEF Remaining
<1>3. /\ u.actual = Off => y = x
      /\ u.actual # Off => y.pause = 0 /\ y.dir = u.actual /\ y.worked = x.worked
  BY DEF Sees, Motor
<1> HIDE DEF y
<1>4. HoldsAgree(u)
  BY <1>0, BoundsAreNat DEF Paused, HoldsAgree, AxisStep, AxisStays, AxisStops, AxisStarts
<1>5. CASE u.actual # Off
  <2>1. Paused(u, n, y, 0, t)
    BY <1>3, <1>4, <1>5 DEF Paused
  <2>2. x.worked <= n.used
    <3>1. CASE r.actual # Off
      BY <1>1, <3>1 DEF Worked
    <3>2. CASE r.actual = Off
      <4>1. CASE d.idle + e < Rest
        BY <1>0, <1>1, <1>2, <1>5, <3>2, <4>1, BoundsAreNat DEF Worked
      <4>2. CASE d.idle + e >= Rest
        <5>1. x.pause >= Rest
          BY <1>0, <3>2, <4>2, BoundsAreNat DEF Paused
        <5> QED BY <1>0, <5>1 DEF Worked
      <4> QED BY <1>0, <4>1, <4>2, BoundsAreNat
    <3> QED BY <3>1, <3>2
  <2>3. Worked(u, n, y, 0)
    BY <1>0, <1>2, <1>3, <1>5, <2>2, BoundsAreNat DEF Worked
  <2> QED BY <2>1, <2>3 DEF y
<1>6. CASE u.actual = Off /\ r.actual # Off
  <2>1. AxisStops(r, u, t)
    BY <1>6 DEF AxisStep, AxisStays, AxisStarts
  <2>2. x.dir = r.actual /\ x.pause = 0 /\ u.last = r.actual /\ u.offUntil = t + SameOff
    BY <1>6, <2>1 DEF Paused, AxisStops
  <2>3. n.idle = 0 /\ n.used = d.used + e /\ y = x
    BY <1>1, <1>3, <1>6
  <2>4. Paused(u, n, y, 0, t)
    BY <1>4, <1>6, <2>2, <2>3, BoundsAreNat DEF Paused
  <2>5. Worked(u, n, y, 0)
    BY <1>0, <1>6, <2>3 DEF Worked
  <2> QED BY <2>4, <2>5 DEF y
<1>7. CASE u.actual = Off /\ r.actual = Off
  <2>1. u.last = r.last /\ u.offUntil = r.offUntil
    BY <1>7 DEF AxisStep, AxisStays, AxisStops, AxisStarts, Direction, Off
  <2>2. n.idle = d.idle + e /\ y = x
    BY <1>1, <1>3, <1>7
  <2>3. CASE d.idle + e < Rest
    <3>1. n.used = d.used
      BY <1>1, <1>7, <2>3
    <3>2. Paused(u, n, y, 0, t)
      BY <1>0, <1>4, <1>7, <2>1, <2>2, <3>1 DEF Paused
    <3>3. Worked(u, n, y, 0)
      BY <1>7, <2>2, <3>1 DEF Worked
    <3> QED BY <3>2, <3>3 DEF y
  <2>4. CASE d.idle + e >= Rest
    <3>1. n.used = 0
      BY <1>1, <1>7, <2>4
    <3>2. x.pause >= Rest
      BY <1>0, <1>7, <2>4, BoundsAreNat DEF Paused
    <3>3. x.worked = 0
      BY <3>2 DEF Worked
    <3>4. Paused(u, n, y, 0, t)
      BY <1>0, <1>4, <1>7, <2>1, <2>2, <3>2, BoundsAreNat DEF Paused
    <3>5. Worked(u, n, y, 0)
      BY <1>7, <2>2, <3>1, <3>3 DEF Worked
    <3> QED BY <3>4, <3>5 DEF y
  <2> QED BY <1>0, <2>3, <2>4, BoundsAreNat
<1> QED BY <1>5, <1>6, <1>7

\* A service that finds no fault leaves the motor stalled as remembered: the
\* budget is reset only by movement a current sample has shown.
LEMMA ServiceKeepsStall ==
  ASSUME NEW r \in AxisRelay, NEW u \in AxisRelay, NEW m \in AxisMonitor,
         NEW x \in Motor, NEW e \in Nat, NEW t \in Nat, NEW fb, fb.at \in Nat, NEW a \in Axis,
         m.applied = r.actual,
         ~Faults(m, e, Reading(fb, a, t)),
         u.actual # Off => Current(fb, t),
         fb.usable /\ fb.sense[a] = "moved" => x.stalled <= t - fb.at,
         Stalled(r, m, x, e)
  PROVE  Stalled(u, MonitorApplied(ObserveAxis(m, e, Reading(fb, a, t)), u.actual, t),
                 Sees(x, u.actual), 0)
<1> DEFINE k == ObserveAxis(m, e, Reading(fb, a, t))
           n == MonitorApplied(k, u.actual, t)
           y == Sees(x, u.actual)
<1>0. x.stalled \in Nat /\ m.spent \in SUBSET Nat /\ Before(x) \in Nat
  BY BeforeFacts DEF AxisMonitor, Instant
<1>1. AxisObserved(m, k, e, fb, a, t)
  BY ObserveAxisFacts
<1> HIDE DEF k
<1>2. /\ k \in AxisMonitor
      /\ k.applied = m.applied
      /\ k.spent = SpentAfter(m, e, Reading(fb, a, t))
      /\ m.spent = {} <=> k.spent = {}
      /\ \/ Current(fb, t) /\ fb.sense[a] = "moved" /\ \A s \in k.spent : s = 0
         \/ k.spent = Charged(m, e)
      /\ Current(fb, t) => k.sampled # {}
  BY <1>1 DEF AxisObserved
<1>3. u.actual \in Direction \cup {Off}
  BY DEF AxisRelay
<1>4. /\ n \in AxisMonitor
      /\ n.applied = u.actual
      /\ u.actual = Off => n.last = k.last /\ n.spent = k.spent
      /\ k.spent # {} => n.spent = k.spent
      /\ k.spent = {} => \A s \in n.spent : s = 0
      /\ k.sampled # {} /\ k.applied = Off /\ u.actual # Off => n.spent # {}
  BY <1>2, <1>3, MonitorAppliedFacts
<1> HIDE DEF n
<1>5. y.stalled = x.stalled /\ Before(y) = Before(x)
  BY DEF Sees, Motor, Before
<1> HIDE DEF y
<1>6. n.spent \in SUBSET Nat
  BY <1>4 DEF AxisMonitor, Instant
<1>7. CASE m.spent = {}
  <2>1. x.stalled <= Before(x) + FeedbackMaxAge /\ r.actual = Off /\ k.spent = {}
    BY <1>2, <1>7 DEF Stalled
  <2>2. n.spent = {} => u.actual = Off
    BY <1>2, <1>4, <2>1
  <2>3. \A s \in n.spent : s = 0
    BY <1>4, <2>1
  <2>4. Stalled(u, n, y, 0)
    BY <1>0, <1>5, <2>1, <2>2, <2>3, BoundsAreNat DEF Stalled
  <2> QED BY <2>4 DEF n, k, y
<1>8. CASE m.spent # {}
  <2>1. k.spent # {} /\ n.spent = k.spent
    BY <1>2, <1>4, <1>8
  <2>2. ASSUME NEW s \in k.spent
        PROVE  s < ProgressTimeout /\ x.stalled <= Before(x) + s + FeedbackMaxAge
    <3>1. CASE Current(fb, t) /\ fb.sense[a] = "moved" /\ \A z \in k.spent : z = 0
      <4>1. fb.usable /\ fb.at <= t /\ t - fb.at <= FeedbackMaxAge
        BY <3>1 DEF Current, Age
      <4>2. s = 0 /\ x.stalled <= t - fb.at
        BY <2>2, <3>1, <4>1
      <4> QED BY <1>0, <4>1, <4>2, BoundsAreNat
    <3>2. CASE k.spent = Charged(m, e)
      <4>1. PICK z \in m.spent : s = z + (IF m.applied = Off THEN 0 ELSE e)
        BY <2>2, <3>2, ChargedFacts
      <4>2. z \in Nat /\ z < ProgressTimeout
            /\ x.stalled <= Before(x) + z + FeedbackMaxAge + (IF r.actual = Off THEN 0 ELSE e)
        BY <1>0, <4>1 DEF Stalled
      <4>3. CASE r.actual = Off
        BY <1>0, <4>1, <4>2, <4>3, BoundsAreNat
      <4>4. CASE r.actual # Off
        <5>1. ~(s >= ProgressTimeout)
          BY <1>2, <2>2, <4>4 DEF Faults
        <5>2. s = z + e
          BY <4>1, <4>4
        <5> QED BY <1>0, <4>2, <4>4, <5>1, <5>2, BoundsAreNat
      <4> QED BY <4>3, <4>4
    <3> QED BY <1>2, <3>1, <3>2
  <2>3. \A s \in n.spent :
          s < ProgressTimeout /\ x.stalled <= Before(x) + s + FeedbackMaxAge + 0
    BY <1>0, <1>6, <2>1, <2>2, BoundsAreNat
  <2>4. Stalled(u, n, y, 0)
    BY <1>5, <2>1, <2>3 DEF Stalled
  <2> QED BY <2>4 DEF n, k, y
<1> QED BY <1>7, <1>8

SeesAll(x, o) == [a \in Axis |-> Sees(x[a], o.guard.relay[a].actual)]

\* The motors keep what they worked and stalled when an output is applied.
LEMMA SeesAllFacts ==
  ASSUME NEW x \in [Axis -> Motor], NEW o \in ActuatorState
  PROVE  /\ SeesAll(x, o) \in [Axis -> Motor]
         /\ \A a \in Axis : /\ SeesAll(x, o)[a].worked = x[a].worked
                            /\ SeesAll(x, o)[a].stalled = x[a].stalled
                            /\ SeesAll(x, o)[a].boots = x[a].boots
<1>1. ASSUME NEW a \in Axis
      PROVE  LET y == Sees(x[a], o.guard.relay[a].actual)
             IN  /\ y \in Motor /\ y.worked = x[a].worked
                 /\ y.stalled = x[a].stalled /\ y.boots = x[a].boots
  <2>1. o.guard.relay[a].actual \in Direction \cup {Off} /\ x[a] \in Motor
    BY DEF ActuatorState, Guard, AxisRelay
  <2> DEFINE z == x[a]
             d == o.guard.relay[a].actual
             y == Sees(z, d)
  <2> HIDE DEF z, d
  <2>2. CASE d = Off
    BY <2>1, <2>2 DEF Sees, z, d
  <2>3. CASE d # Off
    <3>1. z \in Motor /\ d \in Direction
      BY <2>1, <2>3 DEF z, d
    <3>2. y = [worked |-> z.worked, pause |-> 0, dir |-> d,
               stalled |-> z.stalled, boots |-> z.boots]
      BY <2>3, <3>1 DEF Sees, Motor
    <3>3. z.worked \in Nat /\ z.stalled \in Nat /\ z.boots \in Nat \ {0} /\ 0 \in 0 .. FullPause
      BY <3>1, BoundsAreNat DEF Motor
    <3>4. /\ y \in Motor /\ y.worked = z.worked
          /\ y.stalled = z.stalled /\ y.boots = z.boots
      BY <3>1, <3>2, <3>3 DEF Motor
    <3> QED BY <3>4 DEF z, d
  <2> QED BY <2>2, <2>3
<1> QED BY <1>1 DEF SeesAll

\* One step of the output keeps what the motors lived through in its memory.
LEMMA StepLives ==
  ASSUME NEW o, NEW n, NEW fb, fb.at \in Nat, NEW t \in Nat, NEW x \in [Axis -> Motor],
         Sound(o, t), Sound(n, t), n.served = {t}, o.faulted => n.faulted,
         \A a \in Axis : AxisServed(o, n, fb, a, t),
         Lived(o, x, t), Seen(fb, x, t)
  PROVE  Lived(n, SeesAll(x, n), t)
<1>1. o \in ActuatorState /\ n \in ActuatorState
  BY DEF Sound
<1>2. Elapsed(o, t) \in Nat /\ Elapsed(n, t) = 0
  BY <1>1, ElapsedFacts DEF Sound
<1> SUFFICES ASSUME NEW a \in Axis
             PROVE  LET y == Sees(x[a], n.guard.relay[a].actual)
                    IN  /\ Paused(n.guard.relay[a], n.duty[a], y, 0, t)
                        /\ Worked(n.guard.relay[a], n.duty[a], y, 0)
                        /\ ~n.faulted => Stalled(n.guard.relay[a], n.motion[a], y, 0)
  BY <1>2 DEF Lived, SeesAll
<1> DEFINE r == o.guard.relay[a]
           u == n.guard.relay[a]
           d == o.duty[a]
           w == n.duty[a]
           m == o.motion[a]
           k == n.motion[a]
           z == x[a]
           e == Elapsed(o, t)
           limit == n.guard.lease
<1>3. /\ r \in AxisRelay /\ u \in AxisRelay /\ d \in AxisDuty /\ w \in AxisDuty
      /\ m \in AxisMonitor /\ z \in Motor /\ limit \in Nat /\ e \in Nat
      /\ m.applied = r.actual
  BY <1>1, <1>2 DEF ActuatorState, Guard, Sound
<1>4. /\ AxisStep(r, u, t, limit)
      /\ u.actual # Off => Clear(fb, a, u.actual, t) /\ Remaining(w) > 0
      /\ w.used = Account(d, r.actual # Off, e).used
      /\ u.actual = Off => w.idle = Account(d, r.actual # Off, e).idle
      /\ ~n.faulted =>
           /\ ~Faults(m, e, Reading(fb, a, t))
           /\ k = MonitorApplied(ObserveAxis(m, e, Reading(fb, a, t)), u.actual, t)
  BY DEF AxisServed
<1>5. /\ Paused(r, d, z, e, t) /\ Worked(r, d, z, e)
      /\ ~n.faulted => Stalled(r, m, z, e)
      /\ fb.usable /\ fb.sense[a] = "moved" => z.stalled <= t - fb.at
  BY DEF Lived, Seen
<1> HIDE DEF r, u, d, w, m, k, z, e, limit
<1>6. Paused(u, w, Sees(z, u.actual), 0, t) /\ Worked(u, w, Sees(z, u.actual), 0)
  BY <1>3, <1>4, <1>5, ServiceKeepsPause
<1>7. ~n.faulted => Stalled(u, k, Sees(z, u.actual), 0)
  BY <1>3, <1>4, <1>5, ServiceKeepsStall DEF Clear
<1> QED BY <1>6, <1>7 DEF u, w, k, z

\* An operator's word that the motors are rested is taken of a board that has
\* not run them.
Rested(x) == [a \in Axis |-> [x[a] EXCEPT !.worked = 0, !.pause = FullPause]]

\* Once the operator has vouched for the motors, the override forgives what the
\* output remembered of them.
LEMMA OverrideLives ==
  ASSUME NEW o, NEW t \in Nat, NEW x \in [Axis -> Motor], Sound(o, t), MayOverride(o),
         Lived(o, x, t)
  PROVE  /\ Lived(OverrideStartupRest(o), Rested(x), t)
         /\ Rested(x) \in [Axis -> Motor]
         /\ \A a \in Axis : /\ Rested(x)[a].worked = 0 /\ Rested(x)[a].stalled = x[a].stalled
                            /\ Rested(x)[a].boots = x[a].boots
<1> DEFINE n == OverrideStartupRest(o)
           y == Rested(x)
<1>1. /\ n.guard = o.guard /\ n.served = o.served /\ n.motion = o.motion
      /\ n.faulted = o.faulted /\ ~InMotion(n.guard)
      /\ \A a \in Axis : n.duty[a].used = 0
  BY OverrideFacts
<1>2. Elapsed(n, t) = Elapsed(o, t)
  BY <1>1 DEF Elapsed
<1> HIDE DEF n
<1>3. ASSUME NEW a \in Axis
      PROVE  /\ y[a] \in Motor /\ y[a].worked = 0 /\ y[a].pause = FullPause
             /\ y[a].dir = x[a].dir /\ y[a].stalled = x[a].stalled /\ y[a].boots = x[a].boots
  <2> DEFINE z == x[a]
  <2>1. y[a] = [z EXCEPT !.worked = 0, !.pause = FullPause] /\ z \in Motor
    BY DEF Rested
  <2> HIDE DEF z, y
  <2>2. /\ y[a] \in Motor /\ y[a].worked = 0 /\ y[a].pause = FullPause
        /\ y[a].dir = z.dir /\ y[a].stalled = z.stalled /\ y[a].boots = z.boots
    <3>1. FullPause \in 0 .. FullPause
      BY BoundsAreNat
    <3>2. y[a] = [worked |-> 0, pause |-> FullPause, dir |-> z.dir,
                  stalled |-> z.stalled, boots |-> z.boots]
      BY <2>1 DEF Motor
    <3>3. z.dir \in Direction /\ z.stalled \in Nat /\ z.boots \in Nat \ {0}
      BY <2>1 DEF Motor
    <3> QED BY <3>1, <3>2, <3>3 DEF Motor
  <2> QED BY <2>2 DEF z
<1>4. y \in [Axis -> Motor]
  BY <1>3 DEF Rested
<1> HIDE DEF y
<1>5. ASSUME NEW a \in Axis
      PROVE  /\ Paused(n.guard.relay[a], n.duty[a], y[a], Elapsed(n, t), t)
             /\ Worked(n.guard.relay[a], n.duty[a], y[a], Elapsed(n, t))
             /\ ~n.faulted => Stalled(n.guard.relay[a], n.motion[a], y[a], Elapsed(n, t))
  <2>1. /\ Paused(o.guard.relay[a], o.duty[a], x[a], Elapsed(o, t), t)
        /\ ~o.faulted => Stalled(o.guard.relay[a], o.motion[a], x[a], Elapsed(o, t))
    BY DEF Lived
  <2>2. o.guard.relay[a].actual = Off
    BY <1>1, InMotionFacts
  <2>3. Paused(n.guard.relay[a], n.duty[a], y[a], Elapsed(n, t), t)
    BY <1>1, <1>2, <1>3, <2>1, <2>2, BoundsAreNat DEF Paused
  <2>4. Worked(n.guard.relay[a], n.duty[a], y[a], Elapsed(n, t))
    BY <1>1, <1>3, <2>2 DEF Worked
  <2>5. ~n.faulted => Stalled(n.guard.relay[a], n.motion[a], y[a], Elapsed(n, t))
    <3>1. Before(y[a]) = Before(x[a])
      BY <1>3 DEF Before
    <3> QED BY <1>1, <1>2, <1>3, <2>1, <3>1 DEF Stalled
  <2> QED BY <2>3, <2>4, <2>5
<1>6. Lived(n, y, t)
  BY <1>5 DEF Lived
<1> QED BY <1>3, <1>4, <1>6 DEF n, y

-----------------------------------------------------------------------------
(* One pass of the output task.                                            *)

\* The stop that other tasks queue is an envelope, and an inhibition.
LEMMA StopFacts == Stop \in Envelope /\ Stop.command.kind = "Inhibit"
<1>1. Inhibition \in Command /\ Inhibition.kind = "Inhibit"
  BY DEF Inhibition, Command
<1> QED BY <1>1 DEF Stop, Envelope

\* What is taken from the mailbox is one command at most, and a stop that waits
\* there is taken as a stop.
LEMMA TakenFacts ==
  ASSUME NEW box \in SUBSET Envelope, AtMostOne(box), NEW t \in Nat
  PROVE  /\ Taken(box, t) \in SUBSET [command : Command, until : Nat]
         /\ AtMostOne(Taken(box, t))
         /\ Taken(box, t) = {} <=> box = {}
         /\ (\E e \in box : e.command.kind = "Inhibit") =>
              \E e \in Taken(box, t) : e.command.kind = "Inhibit"
<1>1. Stop \in Envelope
  BY StopFacts
<1>2. CASE box = {}
  <2>1. Taken(box, t) = {}
    BY <1>2 DEF Taken
  <2> QED BY <1>2, <2>1 DEF AtMostOne
<1>3. CASE box # {}
  <2>1. PICK e \in box : box = {e}
    BY <1>3 DEF AtMostOne
  <2> DEFINE w == IF FreshCommand(e, t) THEN e ELSE Stop
  <2>2. Taken(box, t) = {w}
    BY <2>1 DEF Taken
  <2>3. w \in [command : Command, until : Nat]
    BY <1>1, <2>1 DEF Envelope
  <2>4. e.command.kind = "Inhibit" => w = e
    BY DEF FreshCommand
  <2> HIDE DEF w
  <2> QED BY <1>3, <2>1, <2>2, <2>3, <2>4 DEF AtMostOne
<1> QED BY <1>2, <1>3

\* Expiring the network gate leaves its readiness and its generation as they were.
LEMMA ExpireFacts ==
  ASSUME NEW gate \in Gate, NEW t \in Nat
  PROVE  /\ Expire(gate, t) \in Gate
         /\ Expire(gate, t).generation = gate.generation
         /\ Ready(Expire(gate, t), t) <=> Ready(gate, t)
         /\ Ready(gate, t) => Expire(gate, t) = gate
<1>1. {} \in Instant
  BY DEF Instant, AtMostOne
<1>2. CASE Lapsed(gate, t)
  <2>1. Expire(gate, t) = [gate EXCEPT !.observed = {}]
    BY <1>2 DEF Expire
  <2>2. /\ Expire(gate, t) \in Gate /\ Expire(gate, t).observed = {}
        /\ Expire(gate, t).generation = gate.generation
    BY <1>1, <2>1 DEF Gate
  <2> QED BY <1>2, <2>2 DEF Ready, Lapsed
<1>3. CASE ~Lapsed(gate, t)
  BY <1>3 DEF Expire
<1> QED BY <1>2, <1>3

\* A service keeps what a motor stalled, and adds nothing to what it worked.
Kept(x, y) == x.worked <= y.worked /\ x.stalled = y.stalled /\ x.boots = y.boots

(***************************************************************************)
(* What a service makes of the output and of the motors: n and x.          *)
(***************************************************************************)
Serviced(n, x) ==
  /\ Sound(n, now)
  /\ n.served = {now} /\ n.generation = network.generation
  /\ act.faulted => n.faulted
  /\ InMotion(n.guard) =>
       /\ Ready(network, now) /\ ~n.faulted
       /\ \A e \in pending : e.command.kind # "Inhibit"
       /\ pending = {} => act.generation = network.generation
  /\ \A a \in Axis : n.guard.relay[a].actual # Off =>
       LET r == act.guard.relay[a]
           u == n.guard.relay[a]
       IN  /\ Clear(feedback, a, u.actual, now)
           /\ Remaining(n.duty[a]) > 0
           /\ r.actual = Off => /\ AxisStarts(r, u, now, n.guard.lease)
                                /\ Remaining(n.duty[a]) >= MinActive
                                /\ n.duty[a].used
                                     = Account(act.duty[a], FALSE, Elapsed(act, now)).used
  /\ x \in [Axis -> Motor]
  /\ Lived(n, x, now)
  /\ \A a \in Axis : Kept(x[a], motor[a])

MotorsAfter(n, granted) ==
  [a \in Axis |-> MotorAfter(a, Output(n),
                    Overridden(granted) /\ \A b \in Axis : act.motion[b].last = Off)]

\* A service makes that of any state the invariant holds in, overridden or not.
LEMMA ServedFacts ==
  ASSUME IInv, NEW granted \in BOOLEAN
  PROVE  Serviced(Served(granted), MotorsAfter(Served(granted), granted))
<1> DEFINE gate == Expire(network, now)
           box == Taken(pending, now)
           o == act
           s == ActuatorStep(o, feedback, gate, box, now)
           n == Served(granted)
           x == MotorsAfter(n, granted)
<1>1. /\ now \in Nat /\ feedback.at \in Nat /\ network \in Gate /\ motor \in [Axis -> Motor]
      /\ pending \in SUBSET Envelope /\ AtMostOne(pending)
      /\ Sound(o, now) /\ Lived(o, motor, now) /\ Seen(feedback, motor, now)
  BY DEF IInv, TypeOK, Sample
<1>2. /\ gate \in Gate /\ gate.generation = network.generation
      /\ Ready(gate, now) <=> Ready(network, now)
  BY <1>1, ExpireFacts
<1>3. /\ box \in SUBSET [command : Command, until : Nat]
      /\ AtMostOne(box)
      /\ box = {} <=> pending = {}
      /\ (\E e \in pending : e.command.kind = "Inhibit") =>
           \E e \in box : e.command.kind = "Inhibit"
  BY <1>1, TakenFacts
<1> HIDE DEF gate, box
<1>4. /\ Sound(s, now)
      /\ s.served = {now} /\ s.generation = gate.generation
      /\ o.faulted => s.faulted
      /\ s.unrested => o.unrested
      /\ InMotion(s.guard) =>
           /\ Ready(gate, now) /\ ~s.faulted
           /\ \A e \in box : e.command.kind # "Inhibit"
           /\ box = {} => o.generation = gate.generation
      /\ \A a \in Axis : AxisServed(o, s, feedback, a, now)
  BY <1>1, <1>2, <1>3, StepFacts
<1> HIDE DEF o
<1> HIDE DEF s
<1>5. Lived(s, SeesAll(motor, s), now)
  BY <1>1, <1>4, StepLives
<1>6. /\ SeesAll(motor, s) \in [Axis -> Motor]
      /\ \A a \in Axis : /\ SeesAll(motor, s)[a].worked = motor[a].worked
                         /\ SeesAll(motor, s)[a].stalled = motor[a].stalled
                         /\ SeesAll(motor, s)[a].boots = motor[a].boots
  BY <1>1, <1>4, SeesAllFacts DEF Sound
<1>7. Overridden(granted) <=> asked /\ granted /\ MayOverride(s)
  BY DEF Overridden, s, gate, box, o
<1>8. CASE ~Overridden(granted)
  <2>1. n = s
    BY <1>7, <1>8 DEF Served, s, gate, box, o
  <2> HIDE DEF n
  <2>2. x = SeesAll(motor, n)
    BY <1>8 DEF MotorsAfter, SeesAll, Sees, MotorAfter, Output, Actual
  <2>3. ASSUME NEW a \in Axis, n.guard.relay[a].actual # Off
        PROVE  LET r == act.guard.relay[a]
                   u == n.guard.relay[a]
               IN  /\ Clear(feedback, a, u.actual, now)
                   /\ Remaining(n.duty[a]) > 0
                   /\ r.actual = Off => /\ AxisStarts(r, u, now, n.guard.lease)
                                        /\ Remaining(n.duty[a]) >= MinActive
                                        /\ n.duty[a].used
                                             = Account(act.duty[a], FALSE, Elapsed(act, now)).used
    <3> DEFINE r == act.guard.relay[a]
               u == n.guard.relay[a]
               e == Elapsed(act, now)
    <3>1. AxisServed(act, n, feedback, a, now)
      BY <1>4, <2>1 DEF o
    <3>2. /\ AxisStep(r, u, now, n.guard.lease)
          /\ Clear(feedback, a, u.actual, now) /\ Remaining(n.duty[a]) > 0
          /\ r.actual = Off => Remaining(n.duty[a]) >= MinActive
          /\ n.duty[a].used = Account(act.duty[a], r.actual # Off, e).used
      BY <2>3, <3>1 DEF AxisServed
    <3> HIDE DEF e
    <3>3. r.actual = Off => AxisStarts(r, u, now, n.guard.lease)
      BY <2>3, <3>2 DEF AxisStep, AxisStays, AxisStops
    <3>4. r.actual = Off => (r.actual # Off) = FALSE
      OBVIOUS
    <3> HIDE DEF r, u
    <3> QED BY <3>2, <3>3, <3>4 DEF r, u, e
  <2>4. \A a \in Axis : Kept(x[a], motor[a])
    <3> SUFFICES ASSUME NEW a \in Axis PROVE Kept(x[a], motor[a])
      OBVIOUS
    <3>1. motor[a].worked \in Nat
      BY <1>1 DEF Motor
    <3> QED BY <1>6, <2>1, <2>2, <3>1 DEF Kept
  <2>5. InMotion(n.guard) =>
          /\ Ready(network, now) /\ ~n.faulted
          /\ \A e \in pending : e.command.kind # "Inhibit"
          /\ pending = {} => act.generation = network.generation
    BY <1>2, <1>3, <1>4, <2>1 DEF o
  <2>6. Lived(n, x, now) /\ x \in [Axis -> Motor]
    BY <1>5, <1>6, <2>1, <2>2
  <2>7. /\ Sound(n, now) /\ n.served = {now} /\ n.generation = network.generation
        /\ act.faulted => n.faulted
    BY <1>2, <1>4, <2>1 DEF o
  <2> HIDE DEF x
  <2> QED BY <2>3, <2>4, <2>5, <2>6, <2>7 DEF Serviced, n, x
<1>9. CASE Overridden(granted)
  <2> DEFINE v == OverrideStartupRest(s)
             y == SeesAll(motor, s)
             z == Rested(y)
             stop == {Stop}
  <2>1. MayOverride(s)
    BY <1>7, <1>9
  <2>2. n = ActuatorStep(v, feedback, gate, stop, now)
    BY <1>7, <1>9 DEF Served, s, gate, box, o
  <2>3. stop \in SUBSET [command : Command, until : Nat] /\ AtMostOne(stop)
        /\ \E e \in stop : e.command.kind = "Inhibit"
    BY StopFacts DEF AtMostOne, Envelope
  <2>4. /\ Sound(v, now) /\ ~InMotion(v.guard)
        /\ v.served = {now} /\ v.faulted = s.faulted
    BY <1>1, <1>4, <2>1, OverrideFacts
  <2>5. /\ Lived(v, z, now) /\ z \in [Axis -> Motor]
        /\ \A a \in Axis : /\ z[a].worked = 0 /\ z[a].stalled = motor[a].stalled
                           /\ z[a].boots = motor[a].boots
    <3> HIDE DEF y
    <3>1. y \in [Axis -> Motor] /\ Lived(s, y, now)
          /\ \A a \in Axis : y[a].stalled = motor[a].stalled /\ y[a].boots = motor[a].boots
      BY <1>5, <1>6 DEF y
    <3> QED BY <1>1, <1>4, <2>1, <3>1, OverrideLives
  <2>6. Seen(feedback, z, now)
    BY <1>1, <2>5 DEF Seen
  <2> HIDE DEF n, v, stop
  <2>7. /\ Sound(n, now)
        /\ n.served = {now} /\ n.generation = gate.generation
        /\ v.faulted => n.faulted
        /\ ~InMotion(n.guard)
        /\ \A a \in Axis : AxisServed(v, n, feedback, a, now)
    BY ONLY <1>1, <1>2, <2>2, <2>3, <2>4, StepFacts
  <2>8. \A a \in Axis : n.guard.relay[a].actual = Off
    BY <2>7, InMotionFacts
  <2> HIDE DEF z
  <2>9. Lived(n, SeesAll(z, n), now)
    BY <1>1, <2>4, <2>5, <2>6, <2>7, StepLives
  <2>10. SeesAll(z, n) = z
    BY <2>5, <2>8 DEF SeesAll, Sees
  <2>11. x = z
    <3>1. \A a \in Axis : s.guard.relay[a].actual = Off
      BY <2>1 DEF MayOverride, IsActive, Output, Actual
    <3>2. y = motor
      BY <1>1, <3>1 DEF SeesAll, Sees
    <3>3. \A b \in Axis : act.motion[b].last = Off
      BY <1>1, <1>4, <2>1 DEF Sound, MayOverride, o
    <3>4. \A a \in Axis : MotorAfter(a, Output(n), TRUE)
                            = [motor[a] EXCEPT !.worked = 0, !.pause = FullPause]
      BY <2>8 DEF MotorAfter, Output, Actual
    <3> QED BY <1>9, <3>2, <3>3, <3>4 DEF MotorsAfter, z, Rested
  <2>12. \A a \in Axis : Kept(x[a], motor[a])
    <3> SUFFICES ASSUME NEW a \in Axis PROVE Kept(x[a], motor[a])
      OBVIOUS
    <3>1. motor[a].worked \in Nat
      BY <1>1 DEF Motor
    <3> QED BY <2>5, <2>11, <3>1 DEF Kept
  <2>13. act.faulted => n.faulted
    BY <1>4, <2>4, <2>7 DEF o
  <2> HIDE DEF x
  <2> QED BY <1>2, <2>5, <2>7, <2>8, <2>9, <2>10, <2>11, <2>12, <2>13 DEF Serviced, n, x
<1> QED BY <1>8, <1>9

\* What is left of an allowance is a span of time.
LEMMA RemainingFacts ==
  \A d \in AxisDuty : Remaining(d) \in Nat
<1> SUFFICES ASSUME NEW d \in AxisDuty PROVE Remaining(d) \in Nat
  OBVIOUS
<1>1. d.used \in Nat
  BY DEF AxisDuty
<1> QED BY <1>1, BoundsAreNat DEF Remaining

\* The deadlines of a sound output are instants, and every permission of an
\* energised axis is among them.
LEMMA DueFacts ==
  ASSUME NEW n, NEW t \in Nat, Sound(n, t), NEW fb \in Sample, NEW gate \in Gate
  PROVE  LET S == Deadlines(n, fb, gate, t) \cup {t + ServicePeriod}
         IN  /\ S \in SUBSET Nat /\ S # {}
             /\ \A a \in Axis : n.guard.relay[a].actual # Off /\ ~n.faulted =>
                  /\ n.guard.lease \in S
                  /\ t + Remaining(n.duty[a]) \in S
                  /\ \A s \in n.motion[a].spent :
                       s < ProgressTimeout => t + (ProgressTimeout - s) \in S
                  /\ Current(fb, t) => /\ fb.at + FeedbackMaxAge + 1 \in S
                                       /\ fb.at + fb.place[a][n.guard.relay[a].actual] \in S
                  /\ Ready(gate, t) => \A o \in gate.observed : o + NetworkTimeout \in S
<1> DEFINE out == Output(n)
           G == GuardDeadlines(n.guard, t)
           F == FeedbackDeadlines(fb, out, t)
           D == DutyDeadlines(n.duty, out, t)
           M == UNION {MonitorDeadlines(n.motion[a], t) : a \in Axis}
           W == IF Ready(gate, t) THEN NetworkDeadlines(gate) ELSE {}
           S == Deadlines(n, fb, gate, t) \cup {t + ServicePeriod}
<1>1. /\ n \in ActuatorState /\ n.guard \in Guard /\ Leased(n.guard)
      /\ \A a \in Axis : n.motion[a].applied = n.guard.relay[a].actual
  BY DEF Sound, Held
<1>2. \A a \in Axis : /\ n.guard.relay[a] \in AxisRelay /\ out[a] = n.guard.relay[a].actual
                      /\ out[a] \in Direction \cup {Off}
                      /\ n.duty[a] \in AxisDuty /\ n.motion[a] \in AxisMonitor
  BY <1>1 DEF ActuatorState, Guard, AxisRelay, Output, Actual
<1>3. n.guard.lease \in Nat
  BY <1>1 DEF Guard
<1>4. \A a \in Axis : Remaining(n.duty[a]) \in Nat
  <2>1. \A a \in Axis : n.duty[a] \in AxisDuty
    BY <1>2
  <2> QED BY <2>1, RemainingFacts
<1>5. G \subseteq Nat
  <2> SUFFICES ASSUME NEW d \in G PROVE d \in Nat
    OBVIOUS
  <2>1. CASE \E a \in Axis : d \in AxisTransition(n.guard.relay[a], t, n.guard.lease)
    BY <1>2, <2>1 DEF AxisTransition, InactiveUntil, AxisRelay
  <2>2. CASE d \in {n.guard.lease} \ {NoLease}
    BY <1>3, <2>2
  <2> QED BY <2>1, <2>2 DEF GuardDeadlines
<1>6. F \subseteq Nat
  <2> SUFFICES ASSUME NEW d \in F PROVE d \in Nat
    OBVIOUS
  <2>1. fb.at \in Nat /\ \A a \in Axis, b \in Direction : fb.place[a][b] \in Nat
    BY BoundsAreNat DEF Sample, Place
  <2>2. d = fb.at + FeedbackMaxAge + 1 \/ \E a \in Axis : out[a] # Off /\ d = fb.at + fb.place[a][out[a]]
    BY DEF FeedbackDeadlines
  <2> HIDE DEF out
  <2> QED BY <1>2, <2>1, <2>2, BoundsAreNat
<1>7. D \subseteq Nat
  <2> SUFFICES ASSUME NEW d \in D PROVE d \in Nat
    OBVIOUS
  <2>1. \/ \E a \in Axis : d = t + Remaining(n.duty[a])
        \/ \E a \in Axis : d = t + (IF n.duty[a].idle < Rest THEN Rest - n.duty[a].idle ELSE 0)
    BY DEF DutyDeadlines
  <2>2. \A a \in Axis : n.duty[a].idle \in Nat
    BY <1>2 DEF AxisDuty
  <2> QED BY <1>4, <2>1, <2>2, BoundsAreNat
<1>8. M \subseteq Nat
  <2> SUFFICES ASSUME NEW d \in M PROVE d \in Nat
    OBVIOUS
  <2>1. PICK a \in Axis : d \in MonitorDeadlines(n.motion[a], t)
    OBVIOUS
  <2>2. PICK s \in n.motion[a].spent :
          d = t + (IF s < ProgressTimeout THEN ProgressTimeout - s ELSE 0)
    BY <2>1 DEF MonitorDeadlines
  <2>3. s \in Nat
    BY <1>2 DEF AxisMonitor, Instant
  <2> QED BY <2>2, <2>3, BoundsAreNat
<1>9. W \subseteq Nat
  <2>1. gate.observed \in SUBSET Nat
    BY DEF Gate, Instant
  <2> QED BY <2>1, BoundsAreNat DEF NetworkDeadlines
<1>10. S = G \cup F \cup (IF n.faulted THEN {} ELSE D \cup M) \cup W \cup {t + ServicePeriod}
  BY DEF Deadlines
<1>11. S \in SUBSET Nat /\ S # {}
  <2> HIDE DEF G, F, D, M, W, S
  <2> QED BY <1>5, <1>6, <1>7, <1>8, <1>9, <1>10, BoundsAreNat
<1>12. ASSUME NEW a \in Axis, n.guard.relay[a].actual # Off, ~n.faulted
       PROVE  /\ n.guard.lease \in G
              /\ t + Remaining(n.duty[a]) \in D
              /\ \A s \in n.motion[a].spent :
                   s < ProgressTimeout => t + (ProgressTimeout - s) \in M
              /\ Current(fb, t) => /\ fb.at + FeedbackMaxAge + 1 \in F
                                   /\ fb.at + fb.place[a][n.guard.relay[a].actual] \in F
              /\ Ready(gate, t) => \A o \in gate.observed : o + NetworkTimeout \in W
  <2>1. out[a] # Off /\ out[a] = n.guard.relay[a].actual
    BY <1>2, <1>12
  <2>2. n.guard.lease # NoLease
    BY <1>1, <1>12, InMotionFacts DEF Leased
  <2>3. n.guard.lease \in G
    BY <2>2 DEF GuardDeadlines
  <2>4. t + Remaining(n.duty[a]) \in D
    <3> HIDE DEF out
    <3> QED BY <2>1 DEF DutyDeadlines
  <2>5. ASSUME NEW s \in n.motion[a].spent, s < ProgressTimeout
        PROVE  t + (ProgressTimeout - s) \in M
    <3>1. n.motion[a].applied # Off
      BY <1>1, <1>12
    <3>2. t + (ProgressTimeout - s) \in MonitorDeadlines(n.motion[a], t)
      BY <2>5, <3>1 DEF MonitorDeadlines
    <3> QED BY <3>2
  <2>6. ASSUME Current(fb, t)
        PROVE  /\ fb.at + FeedbackMaxAge + 1 \in F
               /\ fb.at + fb.place[a][n.guard.relay[a].actual] \in F
    <3> HIDE DEF out
    <3>1. IsActive(out)
      BY <2>1 DEF IsActive
    <3>2. F = {fb.at + FeedbackMaxAge + 1}
               \cup {fb.at + fb.place[b][out[b]] : b \in {c \in Axis : out[c] # Off}}
      BY <2>6, <3>1 DEF FeedbackDeadlines
    <3> QED BY <2>1, <3>2
  <2>7. Ready(gate, t) => \A o \in gate.observed : o + NetworkTimeout \in W
    BY DEF NetworkDeadlines
  <2> QED BY <2>3, <2>4, <2>5, <2>6, <2>7
<1> HIDE DEF G, F, D, M, W, S
<1> QED BY <1>10, <1>11, <1>12 DEF S

\* One pass keeps the invariant.
LEMMA StepInv ==
  ASSUME IInv, NEW granted \in BOOLEAN, Step(granted)
  PROVE  IInv'
<1> DEFINE n == Served(granted)
           x == MotorsAfter(n, granted)
           gate == Expire(network, now)
           S == Deadlines(n, feedback, gate, now) \cup {now + ServicePeriod}
<1>1. /\ Running
      /\ act' = n /\ network' = gate /\ pending' = {} /\ asked' = FALSE
      /\ due' = Min(S) /\ fed' = now
      /\ feedback' = feedback /\ parked' = parked /\ now' = now
  BY DEF Step
<1>2. motor' = x
  BY DEF Step, MotorsAfter
<1>3. /\ now \in Nat /\ feedback \in Sample /\ network \in Gate /\ motor \in [Axis -> Motor]
      /\ TypeOK
      /\ Seen(feedback, motor, now) /\ WorkIsBounded /\ StallIsBounded
  BY DEF IInv, TypeOK
<1>4. Serviced(n, x)
  BY ServedFacts
<1>5. /\ gate \in Gate /\ gate.generation = network.generation
      /\ Ready(gate, now) <=> Ready(network, now)
  BY <1>3, ExpireFacts
<1> HIDE DEF n, x, gate
<1>6. /\ Sound(n, now) /\ n.served = {now} /\ n.generation = network.generation
      /\ x \in [Axis -> Motor] /\ Lived(n, x, now)
      /\ \A a \in Axis : Kept(x[a], motor[a])
      /\ InMotion(n.guard) => Ready(network, now) /\ ~n.faulted
      /\ \A a \in Axis : n.guard.relay[a].actual # Off =>
           /\ Clear(feedback, a, n.guard.relay[a].actual, now)
           /\ Remaining(n.duty[a]) > 0
  BY <1>4 DEF Serviced
<1>7. n \in ActuatorState
  BY <1>6 DEF Sound
<1>8. /\ S \in SUBSET Nat /\ S # {}
      /\ \A a \in Axis : n.guard.relay[a].actual # Off /\ ~n.faulted =>
           /\ n.guard.lease \in S
           /\ now + Remaining(n.duty[a]) \in S
           /\ \A s \in n.motion[a].spent :
                s < ProgressTimeout => now + (ProgressTimeout - s) \in S
           /\ Current(feedback, now) =>
                /\ feedback.at + FeedbackMaxAge + 1 \in S
                /\ feedback.at + feedback.place[a][n.guard.relay[a].actual] \in S
           /\ Ready(gate, now) => \A o \in gate.observed : o + NetworkTimeout \in S
  BY <1>3, <1>5, <1>6, DueFacts
<1> HIDE DEF S
<1>9. due' \in Nat /\ \A d \in S : due' <= d
  BY <1>1, <1>8, MinFacts
<1>10. TypeOK'
  <2>1. {} \subseteq Envelope /\ AtMostOne({})
    BY DEF AtMostOne
  <2> QED BY <1>1, <1>2, <1>3, <1>5, <1>6, <1>7, <1>9, <2>1 DEF TypeOK, Gate
<1>11. Seen(feedback', motor', now')
  BY <1>1, <1>2, <1>3, <1>6 DEF Seen, Kept
<1>12. (WorkIsBounded /\ StallIsBounded)'
  <2> SUFFICES ASSUME NEW a \in Axis
               PROVE  x[a].worked <= WorkLimit /\ x[a].stalled <= x[a].boots * StallLimit
    BY <1>2 DEF WorkIsBounded, StallIsBounded
  <2>1. x[a].worked \in Nat /\ motor[a].worked \in Nat /\ motor[a].worked <= WorkLimit
        /\ motor[a].stalled <= motor[a].boots * StallLimit
    BY <1>3, <1>6 DEF Motor, WorkIsBounded, StallIsBounded
  <2>2. x[a].worked <= motor[a].worked /\ x[a].stalled = motor[a].stalled
        /\ x[a].boots = motor[a].boots
    BY <1>6 DEF Kept
  <2>3. x[a].worked <= WorkLimit
    BY <2>1, <2>2, BoundsAreNat
  <2> QED BY <2>1, <2>2, <2>3
<1>13. \A a \in Axis : n.guard.relay[a].actual # Off =>
         /\ ~n.faulted /\ Ready(network, now) /\ Current(feedback, now)
  BY <1>6, InMotionFacts DEF Clear
<1>14. Awake'
  <2> SUFFICES ASSUME NEW a \in Axis, n.guard.relay[a].actual # Off
               PROVE  /\ due' <= now + Remaining(n.duty[a])
                      /\ \A s \in n.motion[a].spent : due' + s <= now + ProgressTimeout
    BY <1>1, <1>3, <1>6 DEF Awake, Running
  <2>1. due' <= now + Remaining(n.duty[a])
    BY <1>8, <1>9, <1>13
  <2>2. ASSUME NEW s \in n.motion[a].spent PROVE due' + s <= now + ProgressTimeout
    <3>1. s < ProgressTimeout
      BY <1>6, <1>13 DEF Lived, Stalled
    <3>2. s \in Nat
      BY <1>7 DEF ActuatorState, AxisMonitor, Instant
    <3>3. due' <= now + (ProgressTimeout - s)
      BY <1>8, <1>9, <1>13, <3>1
    <3>4. due' \in Nat /\ now \in Nat /\ ProgressTimeout \in Nat
      BY <1>3, <1>9, BoundsAreNat
    <3> DEFINE d == due'
    <3> HIDE DEF d
    <3>5. d \in Nat /\ d <= now + (ProgressTimeout - s)
      BY <3>3, <3>4 DEF d
    <3>6. d + s <= now + ProgressTimeout
      BY ONLY <3>1, <3>2, <3>4, <3>5
    <3> QED BY <3>6 DEF d
  <2> QED BY <2>1, <2>2
<1>15. Asleep'
  <2> SUFFICES ASSUME NEW a \in Axis, n.guard.relay[a].actual # Off
               PROVE  /\ due' <= n.guard.lease
                      /\ n.generation = gate.generation
                      /\ \E t \in gate.observed : t <= now /\ due' <= t + NetworkTimeout
                      /\ feedback.usable
                      /\ due' <= feedback.at + FeedbackMaxAge + 1
                      /\ due' <= feedback.at + feedback.place[a][n.guard.relay[a].actual]
    BY <1>1 DEF Asleep
  <2>1. /\ due' <= n.guard.lease
        /\ due' <= feedback.at + FeedbackMaxAge + 1
        /\ due' <= feedback.at + feedback.place[a][n.guard.relay[a].actual]
    BY <1>8, <1>9, <1>13
  <2>2. Ready(gate, now)
    BY <1>5, <1>13
  <2>3. PICK t \in gate.observed : t <= now
    BY <2>2 DEF Ready
  <2>4. due' <= t + NetworkTimeout
    BY <1>8, <1>9, <1>13, <2>2, <2>3
  <2>5. feedback.usable
    BY <1>13 DEF Current
  <2> QED BY <1>5, <1>6, <2>1, <2>3, <2>4, <2>5
<1> QED
  BY <1>1, <1>2, <1>5, <1>6, <1>10, <1>11, <1>12, <1>14, <1>15 DEF IInv

-----------------------------------------------------------------------------
(* The publishers.                                                         *)

\* A wake-up leaves nothing to sleep for; either way the task is due no later.
LEMMA WakeFacts ==
  ASSUME now \in Nat, due \in Nat, NEW changed \in BOOLEAN, Wake(changed)
  PROVE  due' \in Nat /\ due' <= due /\ (changed => ~(now < due'))
<1> DEFINE d == IF changed /\ now < due THEN now ELSE due
<1>1. due' = d
  BY DEF Wake
<1>2. d \in Nat /\ d <= due /\ (changed => ~(now < d))
  OBVIOUS
<1> HIDE DEF d
<1> QED BY <1>1, <1>2

\* Being due earlier is being due in time.
LEMMA EarlierIsAwake ==
  ASSUME TypeOK, Awake, due' \in Nat, due' <= due,
         act' = act, fed' = fed, now' = now, parked' = parked
  PROVE  Awake'
<1> DEFINE d == due'
<1>1. /\ d \in Nat /\ d <= due /\ due \in Nat /\ fed \in Nat /\ act \in ActuatorState
  BY DEF TypeOK
<1> HIDE DEF d
<1>2. ASSUME NEW a \in Axis, act.guard.relay[a].actual # Off
      PROVE  /\ act.served # {}
             /\ d <= fed + Remaining(act.duty[a])
             /\ \A s \in act.motion[a].spent : d + s <= fed + ProgressTimeout
  <2>1. /\ act.served # {} /\ due <= fed + Remaining(act.duty[a])
        /\ \A s \in act.motion[a].spent : due + s <= fed + ProgressTimeout
    BY <1>2 DEF Awake
  <2>2. Remaining(act.duty[a]) \in Nat /\ act.motion[a].spent \in SUBSET Nat
    BY <1>1, RemainingFacts DEF ActuatorState, AxisMonitor, Instant
  <2> QED BY <1>1, <2>1, <2>2, BoundsAreNat
<1>3. /\ fed' <= now'
      /\ parked' => ~InMotion(act.guard)
      /\ \A s \in act.served : s = fed'
  BY DEF Awake
<1> QED BY <1>2, <1>3 DEF Awake, d

\* Having no feedback is a sample that permits nothing.
LEMMA NoFeedbackFacts ==
  NoFeedback \in Sample /\ ~NoFeedback.usable /\ NoFeedback.at = 0
<1> DEFINE p == [a \in Axis |-> [d \in Direction |-> 0]]
           s == [a \in Axis |-> "still"]
<1>1. p \in [Axis -> Place] /\ s \in [Axis -> Sense]
  BY BoundsAreNat DEF Place, Sense
<1>2. NoFeedback = [usable |-> FALSE, at |-> 0, place |-> p, sense |-> s]
  BY DEF NoFeedback
<1> HIDE DEF p, s
<1> QED BY <1>1, <1>2 DEF Sample

\* The published samples are samples, and none is ahead of the clock.
LEMMA SamplesFacts ==
  ASSUME TypeOK, feedback.at <= now, NEW sample \in Samples
  PROVE  /\ sample \in Sample /\ sample.at <= now
         /\ sample.usable => now - sample.at <= FeedbackMaxAge
<1>1. now \in Nat /\ feedback.at \in Nat
  BY DEF TypeOK, Sample
<1> DEFINE none == [NoFeedback EXCEPT !.at = feedback.at]
<1>2. CASE sample = none
  <2>1. none \in Sample /\ none.at = feedback.at /\ ~none.usable
    BY <1>1, NoFeedbackFacts DEF Sample
  <2> QED BY <1>1, <1>2, <2>1
<1>3. CASE sample # none
  <2>1. PICK t \in {now - 1, now}, p \in [Axis -> Places], s \in [Axis -> Senses] :
          t >= 0 /\ sample = [usable |-> TRUE, at |-> t, place |-> p, sense |-> s]
    BY <1>3 DEF Samples
  <2>2. t \in Nat /\ t <= now /\ now - t <= FeedbackMaxAge
    BY <1>1, <2>1, BoundsAreNat
  <2>3. p \in [Axis -> Place] /\ s \in [Axis -> Sense]
    BY OutputConfigIsValid
  <2> QED BY <2>1, <2>2, <2>3 DEF Sample
<1> QED BY <1>2, <1>3

\* A published sample keeps the invariant: it counts for the motor at once,
\* and for the output, which is woken if anything is energised, no later.
LEMMA PublishInv ==
  ASSUME IInv, NEW sample \in Samples, PublishFeedback(sample)
  PROVE  IInv'
<1> DEFINE x == [a \in Axis |->
                  IF sample.usable /\ sample.sense[a] = "moved"
                    THEN [motor[a] EXCEPT !.stalled = IF @ < now - sample.at THEN @ ELSE now - sample.at,
                                          !.boots = 1]
                    ELSE motor[a]]
<1>1. /\ Running /\ feedback' = sample /\ Wake(FeedbackWakes)
      /\ act' = act /\ network' = network /\ pending' = pending /\ asked' = asked
      /\ fed' = fed /\ parked' = parked /\ now' = now
  BY DEF PublishFeedback
<1>2. motor' = x
  BY DEF PublishFeedback
<1>3. /\ TypeOK /\ now \in Nat /\ due \in Nat /\ motor \in [Axis -> Motor] /\ network \in Gate
      /\ Sound(act, now) /\ Lived(act, motor, now) /\ Seen(feedback, motor, now)
      /\ WorkIsBounded /\ StallIsBounded /\ Awake
  BY DEF IInv, TypeOK
<1>4. /\ sample \in Sample /\ sample.at \in Nat /\ sample.at <= now
      /\ sample.usable => now - sample.at <= FeedbackMaxAge
  BY <1>3, SamplesFacts DEF Seen, Sample
<1>5. ASSUME NEW a \in Axis
      PROVE  /\ x[a] \in Motor
             /\ x[a].worked = motor[a].worked /\ x[a].pause = motor[a].pause
             /\ x[a].dir = motor[a].dir
             /\ \/ x[a].boots = 1 /\ x[a].stalled <= FeedbackMaxAge
                \/ x[a] = motor[a]
             /\ sample.usable /\ sample.sense[a] = "moved" => x[a].stalled <= now - sample.at
  <2> DEFINE z == motor[a]
             s == IF z.stalled < now - sample.at THEN z.stalled ELSE now - sample.at
  <2>1. z \in Motor /\ z.stalled \in Nat
    BY <1>3 DEF Motor
  <2>2. s \in Nat /\ s <= now - sample.at /\ (sample.usable => s <= FeedbackMaxAge)
    BY <1>3, <1>4, <2>1, BoundsAreNat
  <2>3. CASE sample.usable /\ sample.sense[a] = "moved"
    <3>1. x[a] = [z EXCEPT !.stalled = s, !.boots = 1]
      BY <2>3
    <3> HIDE DEF s, z, x
    <3>2. /\ x[a] \in Motor /\ x[a].worked = z.worked /\ x[a].pause = z.pause
          /\ x[a].dir = z.dir /\ x[a].stalled = s /\ x[a].boots = 1
      <4>1. x[a] = [worked |-> z.worked, pause |-> z.pause, dir |-> z.dir,
                    stalled |-> s, boots |-> 1]
        BY <2>1, <3>1 DEF Motor
      <4>2. z.worked \in Nat /\ z.pause \in 0 .. FullPause /\ z.dir \in Direction
        BY <2>1 DEF Motor
      <4>3. 1 \in Nat \ {0}
        OBVIOUS
      <4> QED BY <2>2, <4>1, <4>2, <4>3 DEF Motor
    <3> QED BY <2>2, <2>3, <3>2 DEF z
  <2>4. CASE ~(sample.usable /\ sample.sense[a] = "moved")
    <3>1. x[a] = z
      BY <2>4
    <3> HIDE DEF x
    <3> QED BY <2>1, <2>4, <3>1
  <2> QED BY <2>3, <2>4
<1>6. x \in [Axis -> Motor]
  BY <1>5
<1> HIDE DEF x
<1>7. FeedbackWakes \in BOOLEAN /\ (FeedbackWakes <=> \E a \in Axis : act.guard.relay[a].actual # Off)
  BY DEF FeedbackWakes, IsActive, Output, Actual
<1>8. due' \in Nat /\ due' <= due /\ (FeedbackWakes => ~(now < due'))
  BY <1>1, <1>3, <1>7, WakeFacts
<1>9. TypeOK'
  BY <1>1, <1>2, <1>3, <1>4, <1>6, <1>8 DEF TypeOK
<1>10. Lived(act, x, now)
  <2> SUFFICES ASSUME NEW a \in Axis
               PROVE  /\ Paused(act.guard.relay[a], act.duty[a], x[a], Elapsed(act, now), now)
                      /\ Worked(act.guard.relay[a], act.duty[a], x[a], Elapsed(act, now))
                      /\ ~act.faulted => Stalled(act.guard.relay[a], act.motion[a], x[a],
                                                 Elapsed(act, now))
    BY DEF Lived
  <2> DEFINE r == act.guard.relay[a]
             e == Elapsed(act, now)
  <2>1. /\ Paused(r, act.duty[a], motor[a], e, now) /\ Worked(r, act.duty[a], motor[a], e)
        /\ ~act.faulted => Stalled(r, act.motion[a], motor[a], e)
    BY <1>3 DEF Lived
  <2>2. e \in Nat /\ act.motion[a].spent \in SUBSET Nat
    BY <1>3, ElapsedFacts DEF Sound, ActuatorState, AxisMonitor, Instant
  <2>3. x[a].stalled \in Nat /\ motor[a].stalled \in Nat
    BY <1>3, <1>5 DEF Motor
  <2> HIDE DEF r, e
  <2>4. Paused(r, act.duty[a], x[a], e, now) /\ Worked(r, act.duty[a], x[a], e)
    BY <1>5, <2>1 DEF Paused, Worked
  <2>5. ~act.faulted => Stalled(r, act.motion[a], x[a], e)
    <3>1. CASE x[a].boots = 1 /\ x[a].stalled <= FeedbackMaxAge
      <4>1. Before(x[a]) = 0
        BY <1>5, <3>1, BeforeFacts
      <4> QED BY <2>1, <2>2, <2>3, <3>1, <4>1, BoundsAreNat DEF Stalled
    <3>2. CASE x[a] = motor[a]
      BY <2>1, <3>2
    <3> QED BY <1>5, <3>1, <3>2
  <2> QED BY <2>4, <2>5 DEF r, e
<1>11. Seen(sample, x, now)
  BY <1>4, <1>5 DEF Seen
<1>12. (WorkIsBounded /\ StallIsBounded)'
  <2> SUFFICES ASSUME NEW a \in Axis
               PROVE  x[a].worked <= WorkLimit /\ x[a].stalled <= x[a].boots * StallLimit
    BY <1>2 DEF WorkIsBounded, StallIsBounded
  <2>1. motor[a].worked <= WorkLimit /\ motor[a].stalled <= motor[a].boots * StallLimit
    BY <1>3 DEF WorkIsBounded, StallIsBounded
  <2>2. CASE x[a].boots = 1 /\ x[a].stalled <= FeedbackMaxAge
    <3>1. x[a].stalled \in Nat /\ x[a].boots * StallLimit = StallLimit
      BY <1>5, <2>2, BeforeFacts, BoundsAreNat
    <3> QED BY <1>5, <2>1, <2>2, <3>1, BoundsAreNat
  <2>3. CASE x[a] = motor[a]
    BY <2>1, <2>3
  <2> QED BY <1>5, <2>2, <2>3
<1>13. Awake'
  BY <1>1, <1>3, <1>8, EarlierIsAwake
<1>14. Asleep'
  BY <1>1, <1>7, <1>8 DEF Asleep
<1> QED BY <1>1, <1>2, <1>3, <1>9, <1>10, <1>11, <1>12, <1>13, <1>14 DEF IInv

\* Being woken with the rest as it was keeps the invariant.
LEMMA WokenInv ==
  ASSUME IInv, NEW changed \in BOOLEAN, Wake(changed),
         network' \in Gate,
         changed \/ network' = network \/ ~Ready(network, now)
           \/ (network'.generation = network.generation /\ network'.observed = {now}),
         pending' \subseteq Envelope, AtMostOne(pending'), asked' \in BOOLEAN,
         act' = act, feedback' = feedback, fed' = fed, parked' = parked,
         motor' = motor, now' = now
  PROVE  IInv'
<1>1. /\ TypeOK /\ now \in Nat /\ due \in Nat /\ feedback \in Sample /\ network \in Gate
      /\ Sound(act, now) /\ Lived(act, motor, now) /\ Seen(feedback, motor, now)
      /\ WorkIsBounded /\ StallIsBounded /\ Awake /\ Asleep
  BY DEF IInv, TypeOK
<1>2. due' \in Nat /\ due' <= due /\ (changed => ~(now < due'))
  BY <1>1, WakeFacts
<1>3. TypeOK'
  BY <1>1, <1>2 DEF TypeOK, Gate
<1>4. Awake'
  BY <1>1, <1>2, EarlierIsAwake
<1>5. Asleep'
  <2> DEFINE d == due'
  <2>1. d \in Nat /\ d <= due /\ (changed => ~(now < d))
    BY <1>2
  <2> HIDE DEF d
  <2> SUFFICES ASSUME ~parked, now < d,
                      NEW a \in Axis, act.guard.relay[a].actual # Off
               PROVE  /\ d <= act.guard.lease
                      /\ act.generation = network'.generation
                      /\ \E t \in network'.observed : t <= now /\ d <= t + NetworkTimeout
                      /\ feedback.usable
                      /\ d <= feedback.at + FeedbackMaxAge + 1
                      /\ d <= feedback.at + feedback.place[a][act.guard.relay[a].actual]
    BY DEF Asleep, d
  <2>2. now < due
    BY <1>1, <2>1
  <2>3. /\ due <= act.guard.lease
        /\ act.generation = network.generation
        /\ feedback.usable
        /\ due <= feedback.at + FeedbackMaxAge + 1
        /\ due <= feedback.at + feedback.place[a][act.guard.relay[a].actual]
    BY <1>1, <2>2 DEF Asleep
  <2>4. PICK t \in network.observed : t <= now /\ due <= t + NetworkTimeout
    BY <1>1, <2>2 DEF Asleep
  <2>5. t \in Nat
    BY <1>1 DEF Gate, Instant
  <2>6. Ready(network, now)
    BY <1>1, <2>2, <2>4, <2>5, BoundsAreNat DEF Ready
  <2>7. /\ act.generation = network'.generation
        /\ \E u \in network'.observed : u <= now /\ d <= u + NetworkTimeout
    <3>1. CASE network' = network
      BY <1>1, <2>1, <2>3, <2>4, <2>5, <3>1, BoundsAreNat
    <3>2. CASE network'.generation = network.generation /\ network'.observed = {now}
      <4>1. d <= now + NetworkTimeout
        BY <1>1, <2>1, <2>4, <2>5, BoundsAreNat
      <4> QED BY <1>1, <2>3, <3>2, <4>1
    <3> QED BY <2>1, <2>6, <3>1, <3>2
  <2>8. /\ d <= act.guard.lease
        /\ d <= feedback.at + FeedbackMaxAge + 1
        /\ d <= feedback.at + feedback.place[a][act.guard.relay[a].actual]
    <3>1. act.guard.lease \in Nat /\ feedback.at \in Nat
      BY <1>1 DEF Sound, ActuatorState, Guard, Sample
    <3>2. feedback.place[a][act.guard.relay[a].actual] \in Nat
      <4>1. act.guard.relay[a].actual \in Direction
        BY <1>1 DEF Sound, ActuatorState, Guard, AxisRelay
      <4>2. feedback.place[a] \in Place
        BY <1>1 DEF Sample
      <4> QED BY <4>1, <4>2, BoundsAreNat DEF Place
    <3> QED BY <1>1, <2>1, <2>3, <3>1, <3>2, BoundsAreNat
  <2> QED BY <2>3, <2>7, <2>8
<1>6. (WorkIsBounded /\ StallIsBounded)'
  BY <1>1 DEF WorkIsBounded, StallIsBounded
<1> QED BY <1>1, <1>3, <1>4, <1>5, <1>6 DEF IInv

\* What observing the network does to its gate: while it stays ready only the
\* instant of the observation changes, and whatever it loses it reports.
LEMMA ObserveFacts ==
  ASSUME NEW gate \in Gate, NEW ready \in BOOLEAN, NEW t \in Nat
  PROVE  LET n == Observe(gate, ready, t)
         IN  /\ n \in Gate
             /\ \/ Lost(gate, ready, t)
                \/ ~Ready(gate, t)
                \/ n.generation = gate.generation /\ n.observed = {t}
<1> DEFINE live == Expire(gate, t)
           n == Observe(gate, ready, t)
<1>1. /\ live \in Gate /\ live.generation = gate.generation
      /\ Ready(gate, t) => live = gate
  BY ExpireFacts
<1>2. Ready(gate, t) => gate.observed # {}
  BY DEF Ready
<1>3. {} \in Instant /\ {t} \in Instant
  BY DEF Instant, AtMostOne
<1>4. CASE ~ready
  <2>1. n = [live EXCEPT !.observed = {}]
    BY <1>4 DEF Observe
  <2>2. Lost(gate, ready, t) \/ ~Ready(gate, t)
    BY <1>2, <1>4 DEF Lost
  <2> HIDE DEF live, n
  <2>3. n \in Gate
    BY <1>1, <1>3, <2>1 DEF Gate
  <2> QED BY <2>2, <2>3 DEF n
<1>5. CASE ready
  <2> DEFINE g == IF live.observed = {} THEN live.generation + 1 ELSE live.generation
  <2>1. n = [observed |-> {t}, generation |-> g]
    BY <1>5 DEF Observe
  <2> HIDE DEF live, n
  <2>2. g \in Nat
    BY <1>1 DEF Gate
  <2>3. Ready(gate, t) => g = gate.generation
    BY <1>1, <1>2
  <2> HIDE DEF g
  <2>4. n \in Gate /\ n.observed = {t} /\ n.generation = g
    BY <1>3, <2>1, <2>2 DEF Gate
  <2> QED BY <2>3, <2>4 DEF n
<1> QED BY <1>4, <1>5

\* The mailbox holds one envelope at most, whatever is submitted.
LEMMA SubmittedFacts ==
  ASSUME NEW box \in SUBSET Envelope, AtMostOne(box), NEW e \in Envelope
  PROVE  Submitted(box, e) \in SUBSET Envelope /\ AtMostOne(Submitted(box, e))
  BY DEF Submitted, AtMostOne

\* An observation of the network keeps the invariant: a loss wakes the output
\* task, and nothing else takes a permission away.
LEMMA ObserveInv ==
  ASSUME IInv, NEW ready \in BOOLEAN, ObserveNetwork(ready)
  PROVE  IInv'
<1> DEFINE lost == Lost(network, ready, now)
<1>1. /\ network' = Observe(network, ready, now) /\ Wake(lost)
      /\ pending' \in (IF lost THEN {pending, Submitted(pending, Stop)} ELSE {pending})
      /\ act' = act /\ feedback' = feedback /\ asked' = asked /\ fed' = fed
      /\ parked' = parked /\ motor' = motor /\ now' = now
  BY DEF ObserveNetwork
<1>2. /\ now \in Nat /\ network \in Gate /\ asked \in BOOLEAN
      /\ pending \in SUBSET Envelope /\ AtMostOne(pending)
  BY DEF IInv, TypeOK
<1>3. pending' \subseteq Envelope /\ AtMostOne(pending')
  BY <1>1, <1>2, StopFacts, SubmittedFacts
<1>4. /\ Observe(network, ready, now) \in Gate
      /\ \/ lost \/ ~Ready(network, now)
         \/ /\ Observe(network, ready, now).generation = network.generation
            /\ Observe(network, ready, now).observed = {now}
  BY <1>2, ObserveFacts
<1>5. lost \in BOOLEAN
  BY DEF Lost, Lapsed, Ready
<1> HIDE DEF lost
<1>6. /\ network' \in Gate
      /\ \/ lost \/ network' = network \/ ~Ready(network, now)
         \/ network'.generation = network.generation /\ network'.observed = {now}
  BY <1>1, <1>4
<1>7. asked' \in BOOLEAN
  BY <1>1, <1>2
<1> QED BY ONLY IInv, <1>1, <1>3, <1>5, <1>6, <1>7, WokenInv

\* A command keeps the invariant: it only waits.
LEMMA SubmitInv ==
  ASSUME IInv, NEW envelope \in Envelopes, Submit(envelope)
  PROVE  IInv'
<1>1. /\ now \in Nat /\ network \in Gate /\ asked \in BOOLEAN
      /\ pending \in SUBSET Envelope /\ AtMostOne(pending)
  BY DEF IInv, TypeOK
<1>2. envelope \in Envelope
  BY <1>1, StopFacts, BoundsAreNat, OutputConfigIsValid DEF Envelopes, Envelope
<1>3. Submitted(pending, envelope) \in SUBSET Envelope /\ AtMostOne(Submitted(pending, envelope))
  BY <1>1, <1>2, SubmittedFacts
<1>4. /\ Wake(TRUE) /\ pending' = Submitted(pending, envelope)
      /\ act' = act /\ feedback' = feedback /\ network' = network /\ asked' = asked
      /\ fed' = fed /\ parked' = parked /\ motor' = motor /\ now' = now
  BY DEF Submit
<1> QED BY <1>1, <1>3, <1>4, WokenInv

\* So does the request to override the startup rest, with the stop it queues.
LEMMA AskInv ==
  ASSUME IInv, AskOverride
  PROVE  IInv'
<1>1. /\ now \in Nat /\ network \in Gate
      /\ pending \in SUBSET Envelope /\ AtMostOne(pending)
  BY DEF IInv, TypeOK
<1>2. Submitted(pending, Stop) \in SUBSET Envelope /\ AtMostOne(Submitted(pending, Stop))
  BY <1>1, StopFacts, SubmittedFacts
<1>3. /\ Wake(TRUE) /\ pending' = Submitted(pending, Stop) /\ asked' = TRUE
      /\ act' = act /\ feedback' = feedback /\ network' = network
      /\ fed' = fed /\ parked' = parked /\ motor' = motor /\ now' = now
  BY DEF AskOverride
<1> QED BY <1>1, <1>2, <1>3, WokenInv

-----------------------------------------------------------------------------
(* The passing of time.                                                    *)

\* What a unit of time does to a motor at rest, and to one at work.
LEMMA RestsFacts ==
  ASSUME NEW x \in Motor
  PROVE  /\ Rests(x) \in Motor
         /\ Rests(x).dir = x.dir /\ Rests(x).stalled = x.stalled /\ Rests(x).boots = x.boots
         /\ Rests(x).worked = IF Rests(x).pause >= Rest THEN 0 ELSE x.worked
         /\ x.pause <= Rests(x).pause
         /\ Rests(x).pause = FullPause \/ Rests(x).pause = x.pause + 1
         /\ x.pause = FullPause => Rests(x).pause = FullPause
<1> DEFINE p == IF x.pause < FullPause THEN x.pause + 1 ELSE FullPause
           w == IF p >= Rest THEN 0 ELSE x.worked
<1>1. x.pause \in Nat /\ x.pause <= FullPause /\ x.worked \in Nat
  BY BoundsAreNat DEF Motor
<1>2. /\ p \in 0 .. FullPause /\ x.pause <= p
      /\ p = FullPause \/ p = x.pause + 1
      /\ x.pause = FullPause => p = FullPause
  BY <1>1, BoundsAreNat
<1>3. w \in Nat
  BY <1>1
<1>4. Rests(x) = [x EXCEPT !.pause = p, !.worked = w]
  BY DEF Rests
<1> HIDE DEF p
<1>5. w = IF p >= Rest THEN 0 ELSE x.worked
  OBVIOUS
<1> HIDE DEF w
<1>6. /\ Rests(x) \in Motor /\ Rests(x).dir = x.dir
      /\ Rests(x).stalled = x.stalled /\ Rests(x).boots = x.boots
      /\ Rests(x).worked = w /\ Rests(x).pause = p
  BY <1>2, <1>3, <1>4 DEF Motor
<1> QED BY <1>2, <1>5, <1>6

\* A unit of work wears a motor by a unit.
LEMMA WornFacts ==
  ASSUME NEW x \in Motor
  PROVE  /\ Worn(x) \in Motor
         /\ Worn(x).dir = x.dir /\ Worn(x).pause = x.pause
         /\ Worn(x).worked = x.worked + 1 /\ Worn(x).stalled = x.stalled + 1
         /\ Worn(x).boots = x.boots
<1> DEFINE w == x.worked + 1
           s == x.stalled + 1
<1>1. w \in Nat /\ s \in Nat
  BY DEF Motor
<1>2. Worn(x) = [x EXCEPT !.worked = w, !.stalled = s]
  BY DEF Worn
<1> HIDE DEF w, s
<1>3. /\ Worn(x) \in Motor /\ Worn(x).dir = x.dir /\ Worn(x).pause = x.pause
      /\ Worn(x).worked = w /\ Worn(x).stalled = s /\ Worn(x).boots = x.boots
  BY <1>1, <1>2 DEF Motor
<1> QED BY <1>3 DEF w, s

\* Time passes for an axis as it does for the memory of it: e and f are the
\* times since the last service before and after, f being e if there was none.
LEMMA TickKeepsPause ==
  ASSUME NEW r \in AxisRelay, NEW d \in AxisDuty, NEW x \in Motor,
         NEW e \in Nat, NEW f \in Nat, NEW t \in Nat,
         f = e + 1 \/ (f = e /\ r.actual = Off),
         Paused(r, d, x, e, t), Worked(r, d, x, e)
  PROVE  LET y == IF r.actual = Off THEN Rests(x) ELSE Worn(x)
         IN  Paused(r, d, y, f, t + 1) /\ Worked(r, d, y, f)
<1>0. /\ x.worked \in Nat /\ x.pause \in Nat /\ x.pause <= FullPause /\ d.used \in Nat /\ d.idle \in Nat
      /\ r.offUntil \in Nat
  BY BoundsAreNat DEF Motor, AxisDuty, AxisRelay
<1>1. CASE r.actual = Off
  <2> DEFINE y == Rests(x)
  <2>1. /\ y \in Motor /\ y.dir = x.dir
        /\ y.worked = IF y.pause >= Rest THEN 0 ELSE x.worked
        /\ x.pause <= y.pause
        /\ y.pause = FullPause \/ y.pause = x.pause + 1
        /\ x.pause = FullPause => y.pause = FullPause
    BY RestsFacts
  <2> HIDE DEF y
  <2>2. y.pause \in Nat /\ y.worked \in Nat
    BY <2>1 DEF Motor
  <2>3. r.last # Off => /\ y.dir = r.last
                        /\ y.pause = FullPause \/ t + 1 + SameOff <= r.offUntil + y.pause
    BY <1>0, <1>1, <2>1, <2>2, BoundsAreNat DEF Paused
  <2>4. r.last = Off /\ ReverseOff <= Rest => y.pause >= ReverseOff \/ d.used >= Allowance
    BY <1>0, <1>1, <2>1, <2>2, BoundsAreNat DEF Paused
  <2>5. y.pause = FullPause \/ d.idle + f <= y.pause
    BY <1>0, <1>1, <2>1, <2>2, BoundsAreNat DEF Paused
  <2>6. Paused(r, d, y, f, t + 1)
    BY <1>1, <2>3, <2>4, <2>5 DEF Paused
  <2>7. Worked(r, d, y, f)
    BY <1>0, <1>1, <2>1, <2>2, BoundsAreNat DEF Worked
  <2> QED BY <1>1, <2>6, <2>7 DEF y
<1>2. CASE r.actual # Off
  <2> DEFINE y == Worn(x)
  <2>1. y.dir = x.dir /\ y.pause = x.pause /\ y.worked = x.worked + 1
    BY WornFacts
  <2> HIDE DEF y
  <2>2. x.pause = 0 /\ f = e + 1
    BY <1>2 DEF Paused
  <2>3. Paused(r, d, y, f, t + 1)
    BY <1>2, <2>1, <2>2 DEF Paused
  <2>4. Worked(r, d, y, f)
    BY <1>0, <1>2, <2>1, <2>2, BoundsAreNat DEF Worked
  <2> QED BY <1>2, <2>3, <2>4 DEF y
<1> QED BY <1>1, <1>2

\* The same for what a motor has stalled.
LEMMA TickKeepsStall ==
  ASSUME NEW r \in AxisRelay, NEW m \in AxisMonitor, NEW x \in Motor,
         NEW e \in Nat, NEW f \in Nat,
         f = e + 1 \/ (f = e /\ r.actual = Off),
         Stalled(r, m, x, e)
  PROVE  Stalled(r, m, IF r.actual = Off THEN Rests(x) ELSE Worn(x), f)
<1>0. x.stalled \in Nat /\ m.spent \in SUBSET Nat /\ Before(x) \in Nat
  BY BeforeFacts DEF AxisMonitor, Instant
<1>1. CASE r.actual = Off
  <2> DEFINE y == Rests(x)
  <2>1. y.stalled = x.stalled /\ Before(y) = Before(x)
    BY RestsFacts DEF Before
  <2> HIDE DEF y
  <2>2. Stalled(r, m, y, f)
    BY <1>1, <2>1 DEF Stalled
  <2> QED BY <1>1, <2>2 DEF y
<1>2. CASE r.actual # Off
  <2> DEFINE y == Worn(x)
  <2>1. y.stalled = x.stalled + 1 /\ Before(y) = Before(x)
    BY WornFacts DEF Before
  <2> HIDE DEF y
  <2>2. Stalled(r, m, y, f)
    BY <1>0, <1>2, <2>1, BoundsAreNat DEF Stalled
  <2> QED BY <1>2, <2>2 DEF y
<1> QED BY <1>1, <1>2

MotorsPassing == [a \in Axis |-> IF act.guard.relay[a].actual = Off
                                   THEN Rests(motor[a]) ELSE Worn(motor[a])]

\* A unit of time keeps the invariant: a motor at work reaches neither limit,
\* because the output task is due before and late by Late, or the watchdog
\* bites first.
LEMMA TickInv ==
  ASSUME IInv, Tick
  PROVE  IInv'
<1> DEFINE x == MotorsPassing
           e == Elapsed(act, now)
           f == Elapsed(act, now + 1)
<1>1. /\ now < MaxTime /\ now' = now + 1
      /\ parked \/ (now < due + Late /\ now < fed + Watchdog)
      /\ act' = act /\ feedback' = feedback /\ network' = network /\ pending' = pending
      /\ asked' = asked /\ due' = due /\ fed' = fed /\ parked' = parked
  BY DEF Tick
<1>2. motor' = x
  BY DEF Tick, MotorsPassing, Output, Actual
<1>3. /\ TypeOK /\ now \in Nat /\ due \in Nat /\ fed \in Nat /\ feedback.at \in Nat
      /\ motor \in [Axis -> Motor] /\ network \in Gate /\ act \in ActuatorState
      /\ MaxTime \in Nat /\ fed <= now
      /\ Sound(act, now) /\ Lived(act, motor, now) /\ Seen(feedback, motor, now)
      /\ WorkIsBounded /\ StallIsBounded /\ Awake /\ Asleep
  BY OutputConfigIsValid DEF IInv, TypeOK, Sample, Awake
<1>4. /\ e \in Nat /\ f \in Nat
      /\ act.served = {} => e = 0 /\ f = 0
      /\ act.served # {} => e = now - fed /\ f = now + 1 - fed /\ f = e + 1
  <2>1. CASE act.served = {}
    BY <2>1 DEF Elapsed
  <2>2. CASE act.served # {}
    <3>1. PICK s \in act.served : s = fed
      BY <1>3, <2>2 DEF Awake
    <3>2. \A z \in act.served : z <= now /\ z <= now + 1
      BY <1>3 DEF Awake
    <3>3. now + 1 \in Nat
      BY <1>3
    <3>4. e = now - fed /\ f = now + 1 - fed
      BY <1>3, <3>1, <3>2, <3>3, ElapsedFacts
    <3> HIDE DEF e, f
    <3> QED BY <1>3, <2>2, <3>4
  <2> QED BY <2>1, <2>2
<1> HIDE DEF e, f
<1>5. ASSUME NEW a \in Axis
      PROVE  /\ act.guard.relay[a] \in AxisRelay /\ act.duty[a] \in AxisDuty
             /\ act.motion[a] \in AxisMonitor /\ motor[a] \in Motor
             /\ x[a] = IF act.guard.relay[a].actual = Off THEN Rests(motor[a]) ELSE Worn(motor[a])
             /\ x[a] \in Motor
  BY <1>3, RestsFacts, WornFacts DEF ActuatorState, Guard, MotorsPassing
<1>6. x \in [Axis -> Motor]
  BY <1>5 DEF MotorsPassing
<1> HIDE DEF x
<1>7. TypeOK'
  BY <1>1, <1>2, <1>3, <1>6 DEF TypeOK
<1>8. Sound(act, now + 1)
  <2>1. act.guard.lease \in Nat /\ act.guard.lease <= now + MovementLease
    BY <1>3 DEF Sound, Held, Guard
  <2>2. act.guard.lease <= now + 1 + MovementLease
    BY <1>3, <2>1, BoundsAreNat
  <2>3. \A s \in act.served : s <= now + 1
    BY <1>3 DEF Awake
  <2> QED BY <1>3, <2>2, <2>3 DEF Sound, Held
<1>9. Lived(act, x, now + 1)
  <2> SUFFICES ASSUME NEW a \in Axis
               PROVE  /\ Paused(act.guard.relay[a], act.duty[a], x[a], f, now + 1)
                      /\ Worked(act.guard.relay[a], act.duty[a], x[a], f)
                      /\ ~act.faulted => Stalled(act.guard.relay[a], act.motion[a], x[a], f)
    BY DEF Lived, f
  <2> DEFINE r == act.guard.relay[a]
             d == act.duty[a]
             m == act.motion[a]
             z == motor[a]
  <2>1. /\ Paused(r, d, z, e, now) /\ Worked(r, d, z, e)
        /\ ~act.faulted => Stalled(r, m, z, e)
    BY <1>3 DEF Lived, e
  <2>2. /\ r \in AxisRelay /\ d \in AxisDuty /\ m \in AxisMonitor /\ z \in Motor
        /\ x[a] = IF r.actual = Off THEN Rests(z) ELSE Worn(z)
    BY <1>5
  <2>3. f = e + 1 \/ (f = e /\ r.actual = Off)
    BY <1>3, <1>4 DEF Awake
  <2> HIDE DEF r, d, m, z
  <2>4. Paused(r, d, x[a], f, now + 1) /\ Worked(r, d, x[a], f)
    BY <1>3, <1>4, <2>1, <2>2, <2>3, TickKeepsPause
  <2>5. ~act.faulted => Stalled(r, m, x[a], f)
    BY <1>4, <2>1, <2>2, <2>3, TickKeepsStall
  <2> QED BY <2>4, <2>5 DEF r, d, m
<1>10. Seen(feedback, x, now + 1)
  <2> SUFFICES ASSUME NEW a \in Axis, feedback.usable, feedback.sense[a] = "moved"
               PROVE  x[a].stalled <= now + 1 - feedback.at
    BY <1>3 DEF Seen
  <2>1. motor[a].stalled <= now - feedback.at
    BY <1>3 DEF Seen
  <2>2. motor[a].stalled \in Nat
    BY <1>5 DEF Motor
  <2>3. x[a].stalled = motor[a].stalled \/ x[a].stalled = motor[a].stalled + 1
    BY <1>5, RestsFacts, WornFacts
  <2> QED BY <1>3, <2>1, <2>2, <2>3
<1>11. ASSUME NEW a \in Axis
       PROVE  x[a].worked <= WorkLimit /\ x[a].stalled <= x[a].boots * StallLimit
  <2> DEFINE r == act.guard.relay[a]
             d == act.duty[a]
  <2>0. /\ x[a].worked \in Nat /\ x[a].stalled \in Nat /\ motor[a].worked \in Nat
        /\ motor[a].worked <= WorkLimit /\ motor[a].stalled <= motor[a].boots * StallLimit
        /\ d.used \in Nat /\ act.motion[a].spent \in SUBSET Nat
    BY <1>3, <1>5 DEF Motor, WorkIsBounded, StallIsBounded, AxisDuty, AxisMonitor, Instant
  <2>1. CASE r.actual = Off
    <3>1. /\ x[a].stalled = motor[a].stalled /\ x[a].boots = motor[a].boots
          /\ x[a].worked = 0 \/ x[a].worked = motor[a].worked
      BY <1>5, <2>1, RestsFacts
    <3>2. x[a].worked <= WorkLimit
      BY <2>0, <3>1, BoundsAreNat
    <3> QED BY <2>0, <3>1, <3>2
  <2>2. CASE r.actual # Off
    <3>1. InMotion(act.guard)
      BY <2>2, InMotionFacts
    <3>2. ~parked /\ ~act.faulted
      BY <1>3, <3>1 DEF Awake, Sound
    <3>3. now < due + Late /\ now < fed + Watchdog
      BY <1>1, <3>2
    <3>4. /\ f = now + 1 - fed
          /\ due <= fed + Remaining(d)
          /\ \A s \in act.motion[a].spent : due + s <= fed + ProgressTimeout
      BY <1>3, <1>4, <2>2 DEF Awake
    <3>5. /\ d.used < Allowance /\ x[a].worked <= d.used + f
          /\ act.motion[a].spent # {}
          /\ \A s \in act.motion[a].spent :
               s < ProgressTimeout /\ x[a].stalled <= Before(x[a]) + s + FeedbackMaxAge + f
      BY <1>9, <2>2, <3>2 DEF Lived, Worked, Stalled, f
    <3>6. x[a].worked <= WorkLimit
      <4>1. Remaining(d) = Allowance - d.used
        BY <3>5 DEF Remaining
      <4> HIDE DEF d
      <4>2. due <= fed + (Allowance - d.used)
        BY <3>4, <4>1
      <4>3. d.used + f <= Allowance + Late /\ d.used + f <= Allowance + Watchdog
        BY <1>3, <2>0, <3>3, <3>4, <3>5, <4>2, BoundsAreNat
      <4> QED BY <1>4, <2>0, <3>5, <4>3, BoundsAreNat
    <3>7. x[a].stalled <= x[a].boots * StallLimit
      <4>0. Before(x[a]) \in Nat /\ x[a].boots * StallLimit = Before(x[a]) + StallLimit
        BY <1>5, BeforeFacts
      <4>1. PICK s \in act.motion[a].spent : TRUE
        BY <3>5
      <4>2. /\ s \in Nat /\ s < ProgressTimeout /\ due + s <= fed + ProgressTimeout
            /\ x[a].stalled <= Before(x[a]) + s + FeedbackMaxAge + f
        BY <2>0, <3>4, <3>5
      <4>3. s + f <= ProgressTimeout + Late /\ s + f <= ProgressTimeout + Watchdog
        BY <1>3, <3>3, <3>4, <4>2, BoundsAreNat
      <4> QED BY <1>4, <2>0, <4>0, <4>2, <4>3, BoundsAreNat
    <3> QED BY <3>6, <3>7
  <2> QED BY <2>1, <2>2
<1>12. (WorkIsBounded /\ StallIsBounded)'
  BY <1>2, <1>11 DEF WorkIsBounded, StallIsBounded
<1>13. Awake'
  BY <1>1, <1>3 DEF Awake
<1>14. Asleep'
  <2>1. ~parked /\ now + 1 < due => now < due
    BY <1>3
  <2>2. \A t \in network.observed : t <= now => t <= now + 1
    BY <1>3 DEF Gate, Instant
  <2> QED BY <1>1, <1>3, <2>1, <2>2 DEF Asleep
<1> QED BY <1>1, <1>2, <1>3, <1>7, <1>8, <1>9, <1>10, <1>12, <1>13, <1>14 DEF IInv

-----------------------------------------------------------------------------
(* A board that boots.                                                     *)

BootsAgain(x) == [a \in Axis |-> [x[a] EXCEPT !.boots = @ + 1]]

\* A new actuator is sound and knows that it knows nothing: its duty is used
\* up until every motor has had a full rest, and nothing is energised.
LEMMA NewActuatorFacts ==
  /\ \A t \in Nat : Sound(NewActuator, t)
  /\ NewActuator.served = {} /\ ~NewActuator.faulted /\ NewActuator.guard = NewGuard
  /\ ~InMotion(NewGuard)
  /\ \A a \in Axis : NewActuator.guard.relay[a].actual = Off
  /\ \A a \in Axis : /\ NewActuator.guard.relay[a] = NewRelay
                     /\ NewActuator.duty[a] = [used |-> Allowance, idle |-> 0]
                     /\ NewActuator.motion[a] = NewMonitor
<1>1. NewRelay \in AxisRelay /\ NewRelay.actual = Off /\ NewRelay.target = Off
  BY DEF NewRelay, AxisRelay
<1>2. NewMonitor \in AxisMonitor /\ NewMonitor.applied = Off /\ NewMonitor.last = Off
  BY DEF NewMonitor, AxisMonitor, Instant, AtMostOne
<1>3. NewGuard \in Guard /\ NewGuard.lease = NoLease
      /\ \A a \in Axis : NewGuard.relay[a] = NewRelay
  BY <1>1 DEF NewGuard, Guard, NoLease
<1>4. UnknownDuty \in [Axis -> AxisDuty]
      /\ \A a \in Axis : UnknownDuty[a] = [used |-> Allowance, idle |-> 0]
  BY BoundsAreNat DEF UnknownDuty, AxisDuty
<1> DEFINE m == [a \in Axis |-> NewMonitor]
<1>5. m \in [Axis -> AxisMonitor] /\ \A a \in Axis : m[a] = NewMonitor
  BY <1>2
<1>6. NewActuator = [guard |-> NewGuard, duty |-> UnknownDuty, unrested |-> TRUE,
                     motion |-> m, faulted |-> FALSE, served |-> {}, generation |-> 0]
  BY DEF NewActuator
<1> HIDE DEF m
<1>7. {} \in Instant
  BY DEF Instant, AtMostOne
<1>8. NewActuator \in ActuatorState
  BY <1>3, <1>4, <1>5, <1>6, <1>7 DEF ActuatorState
<1>9. ~InMotion(NewGuard)
  BY <1>1, <1>3, InMotionFacts
<1>10. ASSUME NEW t \in Nat PROVE Held(NewGuard, t)
  BY <1>3, <1>9, BoundsAreNat DEF Held, Leased, NoLease
<1> QED
  BY <1>1, <1>2, <1>3, <1>4, <1>5, <1>6, <1>8, <1>9, <1>10 DEF Sound

\* What it believes of the motors holds for any that may have worked to their
\* limit and stopped this instant.
LEMMA NewActuatorLives ==
  ASSUME NEW x \in [Axis -> Motor], NEW t \in Nat,
         \A a \in Axis : /\ x[a].stalled <= Before(x[a])
                         /\ x[a].pause >= Rest => x[a].worked = 0
  PROVE  Lived(NewActuator, x, t)
<1> SUFFICES ASSUME NEW a \in Axis
             PROVE  /\ Paused(NewRelay, [used |-> Allowance, idle |-> 0], x[a], 0, t)
                    /\ Worked(NewRelay, [used |-> Allowance, idle |-> 0], x[a], 0)
                    /\ Stalled(NewRelay, NewMonitor, x[a], 0)
  BY NewActuatorFacts DEF Lived, Elapsed
<1>1. x[a].pause \in Nat
  BY BoundsAreNat DEF Motor
<1>2. Paused(NewRelay, [used |-> Allowance, idle |-> 0], x[a], 0, t)
  BY <1>1, BoundsAreNat DEF Paused, HoldsAgree, NewRelay
<1>3. Worked(NewRelay, [used |-> Allowance, idle |-> 0], x[a], 0)
  BY BoundsAreNat DEF Worked, NewRelay
<1>4. Stalled(NewRelay, NewMonitor, x[a], 0)
  <2>1. x[a].stalled <= Before(x[a]) + FeedbackMaxAge
    BY BeforeFacts, BoundsAreNat
  <2> QED BY <2>1 DEF Stalled, NewRelay, NewMonitor
<1> QED BY <1>2, <1>3, <1>4

\* Booting keeps the invariant, parked or not.
LEMMA BootInv ==
  ASSUME IInv, Boot, parked' \in BOOLEAN
  PROVE  IInv'
<1> DEFINE x == BootsAgain(motor)
           none == [NoFeedback EXCEPT !.at = feedback.at]
<1>1. /\ act' = NewActuator /\ feedback' = none /\ network' = NewNetwork /\ pending' = {}
      /\ asked' = FALSE /\ due' = now /\ fed' = now /\ now' = now
  BY DEF Boot
<1>2. motor' = x
  BY DEF Boot, BootsAgain
<1>3. /\ TypeOK /\ now \in Nat /\ now \in 0 .. MaxTime /\ feedback.at \in Nat
      /\ motor \in [Axis -> Motor] /\ Lived(act, motor, now)
      /\ feedback.at <= now /\ WorkIsBounded /\ StallIsBounded
  BY DEF IInv, TypeOK, Seen, Sample
<1>4. NewNetwork \in Gate
  BY DEF NewNetwork, Gate, Instant, AtMostOne
<1>5. none \in Sample /\ none.at = feedback.at /\ ~none.usable
  <2>1. NoFeedback \in Sample /\ ~NoFeedback.usable
    BY NoFeedbackFacts
  <2> QED BY <1>3, <2>1 DEF Sample
<1>6. ASSUME NEW a \in Axis
      PROVE  /\ x[a] \in Motor /\ x[a].stalled <= Before(x[a])
             /\ x[a].pause >= Rest => x[a].worked = 0
             /\ x[a].worked <= WorkLimit
  <2> DEFINE z == motor[a]
             b == z.boots + 1
  <2>1. z \in Motor /\ x[a] = [z EXCEPT !.boots = b]
    BY <1>3 DEF BootsAgain
  <2>2. /\ z.pause >= Rest => z.worked = 0
        /\ z.worked <= WorkLimit /\ z.stalled <= z.boots * StallLimit
    BY <1>3 DEF Lived, Worked, WorkIsBounded, StallIsBounded
  <2>3. b \in Nat \ {0} /\ b - 1 = z.boots
    BY <2>1 DEF Motor
  <2> HIDE DEF z, x, b
  <2>4. /\ x[a] \in Motor /\ x[a].stalled = z.stalled /\ x[a].worked = z.worked
        /\ x[a].pause = z.pause /\ x[a].boots = b
    BY <2>1, <2>3 DEF Motor
  <2>5. Before(x[a]) = z.boots * StallLimit
    BY <2>3, <2>4 DEF Before
  <2> QED BY <2>2, <2>4, <2>5
<1>7. x \in [Axis -> Motor]
  BY <1>6 DEF BootsAgain
<1> HIDE DEF x, none
<1>8. Lived(NewActuator, x, now)
  BY <1>3, <1>6, <1>7, NewActuatorLives
<1>9. TypeOK'
  <2>1. AtMostOne({})
    BY DEF AtMostOne
  <2> QED
    BY <1>1, <1>2, <1>3, <1>4, <1>5, <1>7, <2>1, NewActuatorFacts DEF TypeOK, Gate, Sound
<1>10. Seen(none, x, now)
  BY <1>3, <1>5 DEF Seen
<1>11. (WorkIsBounded /\ StallIsBounded)'
  <2>1. ASSUME NEW a \in Axis PROVE x[a].stalled <= x[a].boots * StallLimit
    BY <1>6, BeforeFacts, BoundsAreNat
  <2> QED BY <1>2, <1>6, <2>1 DEF WorkIsBounded, StallIsBounded
<1>12. \A a \in Axis : NewActuator.guard.relay[a].actual = Off
  BY NewActuatorFacts
<1>13. Awake'
  BY <1>1, <1>3, <1>12, NewActuatorFacts DEF Awake
<1>14. Asleep'
  BY <1>1, <1>12 DEF Asleep
<1> QED
  BY <1>1, <1>2, <1>3, <1>4, <1>8, <1>9, <1>10, <1>11, <1>13, <1>14, NewActuatorFacts DEF IInv

\* The first boot finds the motors like any other.
LEMMA InitIInv ==
  ASSUME Init
  PROVE  IInv
<1>1. /\ act = NewActuator /\ feedback = NoFeedback /\ network = NewNetwork /\ pending = {}
      /\ asked = FALSE /\ due = 0 /\ fed = 0 /\ parked = FALSE /\ now = 0
      /\ motor \in [Axis -> Booted]
  BY DEF Init
<1>2. NewNetwork \in Gate
  BY DEF NewNetwork, Gate, Instant, AtMostOne
<1>3. ASSUME NEW a \in Axis
      PROVE  /\ motor[a] \in Motor /\ motor[a].stalled = Before(motor[a]) /\ motor[a].pause = 0
             /\ motor[a].worked <= WorkLimit
  <2> DEFINE z == motor[a]
  <2>1. z \in Booted
    BY <1>1
  <2> HIDE DEF z
  <2>2. PICK w \in {0, WorkLimit}, d \in Direction, n \in {0, 1} :
          z = [worked |-> w, pause |-> 0, dir |-> d, stalled |-> n * StallLimit, boots |-> n + 1]
    BY <2>1 DEF Booted
  <2>3. n * StallLimit \in Nat /\ n + 1 \in Nat \ {0} /\ w \in Nat /\ w <= WorkLimit
        /\ 0 \in 0 .. FullPause
    BY BoundsAreNat
  <2>4. z \in Motor /\ z.stalled = n * StallLimit /\ z.pause = 0 /\ z.worked = w
        /\ z.boots = n + 1
    BY <2>2, <2>3 DEF Motor
  <2>5. (n + 1) - 1 = n
    OBVIOUS
  <2>6. z.stalled = Before(z)
    BY <2>4, <2>5 DEF Before
  <2> QED BY <2>3, <2>4, <2>6 DEF z
<1>4. motor \in [Axis -> Motor]
  BY <1>1, <1>3
<1>5. Lived(act, motor, now)
  <2>1. \A a \in Axis : Before(motor[a]) \in Nat
    BY <1>3, BeforeFacts
  <2> QED BY <1>1, <1>3, <1>4, <2>1, NewActuatorLives, BoundsAreNat
<1>6. TypeOK
  <2>1. AtMostOne({})
    BY DEF AtMostOne
  <2>2. act \in ActuatorState
    BY <1>1, NewActuatorFacts DEF Sound
  <2>3. feedback \in Sample
    BY <1>1, NoFeedbackFacts
  <2>4. now \in 0 .. MaxTime /\ due \in Nat /\ fed \in Nat
    BY <1>1, OutputConfigIsValid
  <2> QED BY <1>1, <1>2, <1>4, <2>1, <2>2, <2>3, <2>4 DEF TypeOK, Gate
<1>7. Seen(feedback, motor, now)
  BY <1>1, NoFeedbackFacts DEF Seen
<1>8. WorkIsBounded /\ StallIsBounded
  <2>1. ASSUME NEW a \in Axis PROVE motor[a].stalled <= motor[a].boots * StallLimit
    BY <1>3, BeforeFacts, BoundsAreNat
  <2> QED BY <1>3, <2>1 DEF WorkIsBounded, StallIsBounded
<1>9. \A a \in Axis : act.guard.relay[a].actual = Off
  <2>1. \A a \in Axis : NewActuator.guard.relay[a].actual = Off
    BY NewActuatorFacts
  <2> QED BY <1>1, <2>1
<1>10. Awake /\ Asleep
  BY <1>1, <1>9, NewActuatorFacts DEF Awake, Asleep
<1> QED
  BY <1>1, <1>2, <1>5, <1>6, <1>7, <1>8, <1>10, NewActuatorFacts DEF IInv

-----------------------------------------------------------------------------
(* The invariant, and what it entails.                                     *)

\* Every step keeps the invariant.
LEMMA NextIInv ==
  ASSUME IInv, [Next]_vars
  PROVE  IInv'
<1>1. CASE \E sample \in Samples : PublishFeedback(sample)
  BY <1>1, PublishInv
<1>2. CASE \E ready \in BOOLEAN : ObserveNetwork(ready)
  BY <1>2, ObserveInv
<1>3. CASE \E envelope \in Envelopes : Submit(envelope)
  BY <1>3, SubmitInv
<1>4. CASE AskOverride
  BY <1>4, AskInv
<1>5. CASE \E granted \in BOOLEAN : Step(granted)
  BY <1>5, StepInv
<1>6. CASE Tick
  BY <1>6, TickInv
<1>7. CASE WatchdogReset \/ Reset
  <2>1. Boot /\ parked' \in BOOLEAN
    BY <1>7 DEF WatchdogReset, Reset
  <2> QED BY <2>1, BootInv
<1>8. CASE UNCHANGED vars
  <2>1. /\ act' = act /\ feedback' = feedback /\ network' = network /\ pending' = pending
        /\ asked' = asked /\ due' = due /\ fed' = fed /\ parked' = parked
        /\ motor' = motor /\ now' = now
    BY <1>8 DEF vars
  <2>2. TypeOK' /\ Awake' /\ Asleep' /\ WorkIsBounded' /\ StallIsBounded'
    BY <2>1 DEF IInv, TypeOK, Awake, Asleep, WorkIsBounded, StallIsBounded
  <2> QED BY <2>1, <2>2 DEF IInv
<1> QED BY <1>1, <1>2, <1>3, <1>4, <1>5, <1>6, <1>7, <1>8 DEF Next

\* So it holds in every reachable state.
THEOREM IInvHolds == Spec => []IInv
<1>1. Init => IInv
  BY InitIInv
<1>2. IInv /\ [Next]_vars => IInv'
  BY NextIInv
<1> QED BY <1>1, <1>2, PTL DEF Spec

\* Every variable of the output keeps its type.
THEOREM OutputTypeCorrect == Spec => []TypeOK
<1>1. IInv => TypeOK
  BY DEF IInv
<1> QED BY <1>1, IInvHolds, PTL

\* No motor works longer between two full rests than its allowance and the
\* lateness of the executor, resets and power cycles included.
THEOREM MotorsWorkBounded == Spec => []WorkIsBounded
<1>1. IInv => WorkIsBounded
  BY DEF IInv
<1> QED BY <1>1, IInvHolds, PTL

\* Since movement was last seen no boot energises a motor longer than its
\* progress budget, the age of a sample and the lateness of the executor.
THEOREM MotorsStallBounded == Spec => []StallIsBounded
<1>1. IInv => StallIsBounded
  BY DEF IInv
<1> QED BY <1>1, IInvHolds, PTL

\* While the output task has nothing due, every permission of an energised
\* axis holds.
LEMMA IInvSleeps ==
  ASSUME IInv
  PROVE  SleepIsSafe
<1>1. /\ now \in Nat /\ due \in Nat /\ fed \in Nat /\ fed <= now
      /\ feedback \in Sample /\ network \in Gate
      /\ Sound(act, now) /\ Lived(act, motor, now) /\ Seen(feedback, motor, now)
      /\ Awake /\ Asleep
  BY DEF IInv, TypeOK, Awake
<1> SUFFICES ASSUME ~parked, now < due, NEW a \in Axis, Output(act)[a] # Off
             PROVE  StillAllowed(a)
  BY DEF SleepIsSafe
<1> DEFINE r == act.guard.relay[a]
           d == act.duty[a]
           e == Elapsed(act, now)
<1>2. r.actual # Off /\ Output(act)[a] = r.actual
  BY DEF Output, Actual
<1>3. /\ act \in ActuatorState /\ r.actual \in Direction /\ act.guard.lease \in Nat
      /\ d.used \in Nat /\ act.motion[a].spent \in SUBSET Nat
  BY <1>1, <1>2 DEF Sound, ActuatorState, Guard, AxisRelay, AxisDuty, AxisMonitor, Instant
<1>4. ~act.faulted
  BY <1>1, <1>2, InMotionFacts DEF Sound
<1>5. e = now - fed
  <2>1. PICK s \in act.served : s = fed
    BY <1>1, <1>2 DEF Awake
  <2>2. \A z \in act.served : z <= now
    BY <1>1 DEF Awake
  <2> QED BY <1>1, <1>3, <2>1, <2>2, ElapsedFacts
<1>6. /\ due <= act.guard.lease
      /\ act.generation = network.generation
      /\ feedback.usable
      /\ due <= feedback.at + FeedbackMaxAge + 1
      /\ due <= feedback.at + feedback.place[a][r.actual]
  BY <1>1, <1>2 DEF Asleep
<1>7. Ready(network, now)
  <2>1. PICK t \in network.observed : t <= now /\ due <= t + NetworkTimeout
    BY <1>1, <1>2 DEF Asleep
  <2>2. t \in Nat
    BY <1>1 DEF Gate, Instant
  <2> QED BY <1>1, <2>1, <2>2, BoundsAreNat DEF Ready
<1>8. now < act.guard.lease
  BY <1>1, <1>3, <1>6
<1>9. Current(feedback, now) /\ Age(feedback, now) < feedback.place[a][r.actual]
  <2>1. feedback.at \in Nat /\ feedback.at <= now
    BY <1>1 DEF Sample, Seen
  <2>2. feedback.place[a][r.actual] \in Nat
    BY <1>1, <1>3, BoundsAreNat DEF Sample, Place
  <2> QED BY <1>1, <1>6, <2>1, <2>2, BoundsAreNat DEF Current, Age
<1>10. d.used + e < Allowance
  <2>1. d.used < Allowance
    BY <1>1, <1>2 DEF Lived, Worked
  <2>2. due <= fed + Remaining(d)
    BY <1>1, <1>2 DEF Awake
  <2>3. Remaining(d) = Allowance - d.used
    BY <2>1 DEF Remaining
  <2> HIDE DEF d, e
  <2> QED BY <1>1, <1>3, <1>5, <2>1, <2>2, <2>3, BoundsAreNat
<1>11. \A s \in act.motion[a].spent : s + e < ProgressTimeout
  <2>1. \A s \in act.motion[a].spent : due + s <= fed + ProgressTimeout
    BY <1>1, <1>2 DEF Awake
  <2> HIDE DEF e
  <2> QED BY <1>1, <1>3, <1>5, <2>1, BoundsAreNat
<1>12. act.motion[a].spent # {}
  BY <1>1, <1>2, <1>4 DEF Lived, Stalled
<1> HIDE DEF e, d, r
<1> QED
  BY <1>2, <1>4, <1>6, <1>7, <1>8, <1>9, <1>10, <1>11, <1>12 DEF StillAllowed, e, d

\* The deadlines a step returns and the wake-ups of the publishers leave out
\* nothing that an energised axis depends on.
THEOREM SleepIsAlwaysSafe == Spec => []SleepIsSafe
<1>1. IInv => SleepIsSafe
  BY IInvSleeps
<1> QED BY <1>1, IInvHolds, PTL

-----------------------------------------------------------------------------
(* What a step may never do.                                               *)

\* The output changes by a pass of its task, or is made anew by a boot.
LEMMA OutputChanges ==
  ASSUME IInv, [Next]_vars
  PROVE  \/ act' = act
         \/ Boot
         \/ Serviced(act', motor')
<1>1. ASSUME NEW granted \in BOOLEAN, Step(granted)
      PROVE  Serviced(act', motor')
  <2>1. act' = Served(granted) /\ motor' = MotorsAfter(Served(granted), granted)
    BY <1>1 DEF Step, MotorsAfter
  <2>2. Serviced(Served(granted), MotorsAfter(Served(granted), granted))
    BY ServedFacts
  <2> QED BY <2>1, <2>2
<1> QED
  BY <1>1 DEF Next, PublishFeedback, ObserveNetwork, Submit, AskOverride, Tick,
              WatchdogReset, Reset, vars

\* After a boot nothing is energised.
LEMMA BootStops ==
  ASSUME Boot
  PROVE  /\ act' = NewActuator /\ ~act'.faulted
         /\ \A a \in Axis : Output(act')[a] = Off
         /\ ~IsActive(Output(act')) /\ ~IsActive(Target(act'.guard))
<1>1. act' = NewActuator
  BY DEF Boot
<1>2. /\ ~InMotion(NewActuator.guard) /\ ~NewActuator.faulted
      /\ \A a \in Axis : NewActuator.guard.relay[a].actual = Off
  BY NewActuatorFacts
<1>3. \A a \in Axis : Output(NewActuator)[a] = Off
  BY <1>2 DEF Output, Actual
<1>4. ~IsActive(Output(NewActuator)) /\ ~IsActive(Target(NewActuator.guard))
  BY <1>2 DEF InMotion, Output
<1> QED BY <1>1, <1>2, <1>3, <1>4

\* A latched motion fault leaves nothing energised or waiting, and only a
\* reset clears it.
THEOREM FaultsLatch == Spec => FaultLatches
<1> DEFINE L == /\ act'.faulted => ~IsActive(Output(act')) /\ ~IsActive(Target(act'.guard))
                /\ act.faulted /\ ~act'.faulted => act' = NewActuator
<1>1. IInv /\ [Next]_vars => L
  <2> SUFFICES ASSUME IInv, [Next]_vars PROVE L
    OBVIOUS
  <2>1. CASE act' = act
    <3>1. act.faulted => ~InMotion(act.guard)
      BY DEF IInv, Sound
    <3> QED BY <2>1, <3>1 DEF InMotion, Output
  <2>2. CASE Boot
    BY <2>2, BootStops
  <2>3. CASE Serviced(act', motor')
    <3>1. act.faulted => act'.faulted
      BY <2>3 DEF Serviced
    <3>2. InMotion(act'.guard) => ~act'.faulted
      BY <2>3 DEF Serviced
    <3> QED BY <3>1, <3>2 DEF InMotion, Output
  <2> QED BY <2>1, <2>2, <2>3, OutputChanges
<1>2. IInv /\ [Next]_vars => [L]_vars
  BY <1>1
<1> QED BY <1>2, IInvHolds, PTL DEF Spec, FaultLatches

\* Once a stop is queued, no later command overtakes it.
THEOREM NoStopIsOvertaken == Spec => StopsAreNotOvertaken
<1> DEFINE queued == \E e \in pending : e.command.kind = "Inhibit"
           L == queued => \/ pending' = pending
                          \/ ~IsActive(Output(act')) /\ ~IsActive(Target(act'.guard))
<1>1. IInv /\ [Next]_vars => L
  <2> SUFFICES ASSUME IInv, [Next]_vars, queued PROVE L
    OBVIOUS
  <2>1. \A e : Submitted(pending, e) = pending
    BY DEF Submitted
  <2>2. CASE \E granted \in BOOLEAN : Step(granted)
    <3>1. PICK granted \in BOOLEAN : Step(granted)
      BY <2>2
    <3>2. act' = Served(granted)
      BY <3>1 DEF Step
    <3>3. ~InMotion(Served(granted).guard)
      BY ServedFacts DEF Serviced
    <3> QED BY <3>2, <3>3 DEF InMotion, Output
  <2>3. CASE Boot
    BY <2>3, BootStops
  <2>4. CASE ~Boot /\ ~\E granted \in BOOLEAN : Step(granted)
    <3> HIDE DEF queued
    <3>1. pending' = pending
      BY <2>1, <2>4 DEF Next, PublishFeedback, ObserveNetwork, Submit, AskOverride, Tick,
                        WatchdogReset, Reset, vars
    <3> QED BY <3>1
  <2> QED BY <2>2, <2>3, <2>4
<1>2. IInv /\ [Next]_vars => [L]_vars
  BY <1>1
<1> QED BY <1>2, IInvHolds, PTL DEF Spec, StopsAreNotOvertaken

\* Nothing moves again after a gap in the network without a command consumed
\* since.
THEOREM OutagesAlwaysStop == Spec => OutagesStop
<1> DEFINE L == act'.generation # act.generation /\ pending = {} => ~IsActive(Output(act'))
<1>1. IInv /\ [Next]_vars => L
  <2> SUFFICES ASSUME IInv, [Next]_vars PROVE L
    OBVIOUS
  <2>1. CASE act' = act
    BY <2>1
  <2>2. CASE Boot
    BY <2>2, BootStops
  <2>3. CASE Serviced(act', motor')
    <3>1. InMotion(act'.guard) /\ pending = {} => act.generation = network.generation
      BY <2>3 DEF Serviced
    <3>2. act'.generation = network.generation
      BY <2>3 DEF Serviced
    <3> QED BY <3>1, <3>2 DEF InMotion, Output
  <2> QED BY <2>1, <2>2, <2>3, OutputChanges
<1>2. IInv /\ [Next]_vars => [L]_vars
  BY <1>1
<1> QED BY <1>2, IInvHolds, PTL DEF Spec, OutagesStop

\* An axis starts only in a pass of the output task, as that pass found it.
LEMMA StartFacts ==
  ASSUME IInv, [Next]_vars, NEW a \in Axis, Starts(a)
  PROVE  LET r == act.guard.relay[a]
             u == act'.guard.relay[a]
         IN  /\ r.actual = Off /\ u.actual = Output(act')[a] /\ u.actual # Off
             /\ AxisStarts(r, u, now, act'.guard.lease)
             /\ Current(feedback, now)
             /\ Remaining(act'.duty[a]) > 0 /\ Remaining(act'.duty[a]) >= MinActive
             /\ act'.duty[a].used = Account(act.duty[a], FALSE, Elapsed(act, now)).used
             /\ act' \in ActuatorState
<1>1. /\ act.guard.relay[a].actual = Off
      /\ act'.guard.relay[a].actual = Output(act')[a]
      /\ Output(act')[a] # Off
  BY DEF Starts, Output, Actual
<1>2. Serviced(act', motor')
  <2>1. ~(act' = act)
    BY DEF Starts
  <2>2. ~Boot
    BY BootStops DEF Starts
  <2> QED BY <2>1, <2>2, OutputChanges
<1> QED BY <1>1, <1>2 DEF Serviced, Clear, Sound

\* An axis starts only with a whole minimum pulse left both on its lease and in
\* its duty allowance, and never on old feedback.
THEOREM EveryStartCoversAPulse == Spec => StartsCoverAPulse
<1> DEFINE L == \A a \in Axis : Starts(a) =>
                  /\ now + MinActive <= act'.guard.lease
                  /\ Remaining(act'.duty[a]) >= MinActive
                  /\ Current(feedback, now)
<1>1. IInv /\ [Next]_vars => L
  BY StartFacts DEF AxisStarts
<1>2. IInv /\ [Next]_vars => [L]_vars
  BY <1>1
<1> QED BY <1>2, IInvHolds, PTL DEF Spec, StartsCoverAPulse

\* An axis starts only after its motor has paused for the off-time of its
\* direction, resets included, provided a full rest is at least the off-time of
\* a reversal.  ActuatorConfig::is_valid does not ask for that, but a reset
\* forgets the holds and requires only the rest, and every preset has it: rests
\* of fifteen minutes against reversal off-times of seconds.
THEOREM EveryStartFollowsAPause ==
  ASSUME ReverseOff <= Rest
  PROVE  Spec => StartsAfterPause
<1> DEFINE L == \A a \in Axis : Starts(a) =>
                  IF Output(act')[a] = motor[a].dir
                    THEN motor[a].pause >= SameOff
                    ELSE motor[a].pause >= ReverseOff
<1>1. IInv /\ [Next]_vars => L
  <2> SUFFICES ASSUME IInv, [Next]_vars, NEW a \in Axis, Starts(a)
               PROVE  IF Output(act')[a] = motor[a].dir
                        THEN motor[a].pause >= SameOff
                        ELSE motor[a].pause >= ReverseOff
    OBVIOUS
  <2> DEFINE r == act.guard.relay[a]
             u == act'.guard.relay[a]
             d == act.duty[a]
             w == act'.duty[a]
             x == motor[a]
             e == Elapsed(act, now)
             limit == act'.guard.lease
  <2>1. /\ r.actual = Off /\ u.actual = Output(act')[a] /\ u.actual # Off
        /\ AxisStarts(r, u, now, limit)
        /\ Remaining(w) > 0
        /\ w.used = Account(d, FALSE, e).used
        /\ act' \in ActuatorState
    BY StartFacts
  <2>2. /\ act \in ActuatorState /\ now \in Nat /\ \A s \in act.served : s <= now
        /\ motor \in [Axis -> Motor] /\ Paused(r, d, x, e, now)
    BY DEF IInv, TypeOK, Sound, Lived
  <2>3. /\ r \in AxisRelay /\ d \in AxisDuty /\ w \in AxisDuty /\ x \in Motor /\ e \in Nat
    BY <2>1, <2>2, ElapsedFacts DEF ActuatorState, Guard
  <2> HIDE DEF r, u, d, w, x, e, limit
  <2>4. /\ r.offUntil \in Nat /\ r.reverseUntil \in Nat /\ x.pause \in Nat /\ x.pause <= FullPause
        /\ d.used \in Nat /\ d.idle \in Nat /\ w.used \in Nat
    BY <2>3, BoundsAreNat DEF AxisRelay, AxisDuty, Motor
  <2>5. CASE r.last # Off
    <3>1. /\ x.dir = r.last
          /\ x.pause = FullPause \/ now + SameOff <= r.offUntil + x.pause
          /\ r.reverseUntil + SameOff = r.offUntil + ReverseOff
      BY <2>1, <2>2, <2>5 DEF Paused, HoldsAgree
    <3>2. CASE u.actual = r.last
      <4>1. r.offUntil <= now
        BY <2>1, <2>5, <3>2 DEF AxisStarts, RestedFor
      <4>2. x.pause >= SameOff
        BY <2>2, <2>4, <3>1, <4>1, BoundsAreNat
      <4> QED BY <2>1, <3>1, <3>2, <4>2 DEF x
    <3>3. CASE u.actual # r.last
      <4>1. r.reverseUntil <= now
        BY <2>1, <2>5, <3>3 DEF AxisStarts, RestedFor
      <4>2. x.pause >= ReverseOff
        BY <2>2, <2>4, <3>1, <4>1, BoundsAreNat
      <4> QED BY <2>1, <3>1, <3>3, <4>2 DEF x
    <3> QED BY <3>2, <3>3
  <2>6. CASE r.last = Off
    <3>1. x.pause >= ReverseOff
      <4>1. CASE d.used >= Allowance
        <5>1. w.used < Allowance
          <6>1. CASE ~(w.used < Allowance)
            <7>1. Remaining(w) = 0
              BY <6>1 DEF Remaining
            <7> QED BY <2>1, <7>1
          <6> QED BY <6>1
        <5>2. d.idle + e >= Rest
          BY <2>1, <2>3, <2>4, <4>1, <5>1, BoundsAreNat DEF Account
        <5>3. x.pause = FullPause \/ d.idle + e <= x.pause
          BY <2>1, <2>2 DEF Paused
        <5> QED BY <2>3, <2>4, <5>2, <5>3, BoundsAreNat
      <4>2. CASE ~(d.used >= Allowance)
        BY <2>1, <2>2, <2>6, <4>2 DEF Paused
      <4> QED BY <4>1, <4>2
    <3>2. x.pause >= SameOff
      BY <2>4, <3>1, BoundsAreNat
    <3> QED BY <3>1, <3>2 DEF x
  <2> QED BY <2>5, <2>6
<1>2. IInv /\ [Next]_vars => [L]_vars
  BY <1>1
<1> QED BY <1>2, IInvHolds, PTL DEF Spec, StartsAfterPause
=============================================================================
