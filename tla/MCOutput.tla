------------------------------ MODULE MCOutput ------------------------------
(***************************************************************************)
(* Output on one axis, for TLC.                                            *)
(*                                                                         *)
(* As in MCDrive, states are told apart by how far ahead or behind each    *)
(* time lies, as far as any guard can tell, so that the clock's bound is   *)
(* never reached: a time behind is counted up to the oldest age at which   *)
(* it still matters.  What a latched fault or a stale sample leaves behind *)
(* and nothing reads again is left out.  The last entry is always TRUE: it *)
(* makes TLC evaluate the actuator's functions before it stores a state.   *)
(***************************************************************************)
EXTENDS Output

CONSTANT az

Ahead(t) == IF t > now THEN t - now ELSE 0
Behind(t, most) == IF now - t < most THEN now - t ELSE most
AllBehind(times, most) == {Behind(t, most) : t \in times}

RelayView(r) ==
  <<r.target, r.actual, r.last,
    IF r.actual = Off THEN 0 ELSE Ahead(r.onUntil),
    Ahead(r.offUntil), Ahead(r.reverseUntil)>>

MonitorView(m) ==
  <<m.last, Behind(m.started, FeedbackMaxAge + 1),
    AllBehind(m.stopped, Coast + 2 * FeedbackMaxAge + 1), m.coasting,
    AllBehind(m.sampled, FeedbackMaxAge + 1), m.spent>>

DutyView(d) == <<d.used, IF d.idle < Rest THEN d.idle ELSE Rest>>

ActuatorView ==
  IF act.faulted THEN <<Elapsed(act, now)>>
  ELSE <<[a \in Axis |-> RelayView(act.guard.relay[a])],
         act.guard.lease # NoLease, Ahead(act.guard.lease),
         [a \in Axis |-> DutyView(act.duty[a])], act.unrested,
         [a \in Axis |-> MonitorView(act.motion[a])],
         AllBehind(act.served, Watchdog), act.generation = network.generation>>

FeedbackView ==
  <<Behind(feedback.at, FeedbackMaxAge + 1),
    IF Current(feedback, now)
      THEN <<feedback.place, [a \in Axis |->
               IF News(act.motion[a], Reading(feedback, a, now)) = {} THEN "still"
               ELSE feedback.sense[a]]>>
      ELSE <<>>>>

Now ==
  <<ActuatorView, FeedbackView, AllBehind(network.observed, NetworkTimeout),
    {<<e.command, Ahead(e.until)>> : e \in pending}, asked,
    Ahead(due), Behind(fed, Watchdog), parked, now < due, act \in ActuatorState>>

\* No guard reads what the motors lived through, so a run keeps of it what its
\* own properties are about; after a full pause the direction is free.
Pauses ==
  <<Now, [a \in Axis |-> LET m == motor[a]
                        IN  IF m.pause >= ReverseOff THEN <<>> ELSE <<m.pause, m.dir>>]>>
\* Of a stall only how far it is below its bound matters, which it has in hand
\* once that is a whole limit, and what a sample might leave of it.
StallView(m) ==
  LET left == m.boots * StallLimit - m.stalled
  IN  <<IF left <= StallLimit THEN left ELSE StallLimit + 1,
        IF m.stalled < FeedbackMaxAge THEN m.stalled ELSE FeedbackMaxAge>>
Efforts ==
  <<Now, [a \in Axis |-> <<motor[a].worked, motor[a].pause, StallView(motor[a])>>]>>

\* What the sources of the runs send, and where the antenna can be.
up == [a \in Axis |-> "up"]
down == [a \in Axis |-> "down"]
Commands == {[kind |-> "Drive", drive |-> up], [kind |-> "Jog", drive |-> down],
             Inhibition}
OneWay == {[kind |-> "Drive", drive |-> up], Inhibition}

At(upAge, downAge) == [d \in Direction |-> IF d = "up" THEN upAge ELSE downAge]
MidRange == {At(FeedbackMaxAge + 1, FeedbackMaxAge + 1)}
\* Mid-range, near the upper endpoint, and inside its band.
NearEnd == MidRange \cup {At(1, FeedbackMaxAge + 1), At(0, FeedbackMaxAge + 1)}
=============================================================================
