------------------------------- MODULE Network -------------------------------
(***************************************************************************)
(* Expiring permission to move while the network is observed ready:        *)
(* NetworkGate of crates/ezal-core/src/network.rs, and what the output     *)
(* step of actuator.rs makes of it.  observed is the set holding the       *)
(* instant of the last positive observation, {} for None.                  *)
(***************************************************************************)
EXTENDS Relay

CONSTANT NetworkTimeout   \* NETWORK_HEALTH_TIMEOUT_MS

ASSUME NetworkTimeoutIsPositive == NetworkTimeout \in Nat \ {0}

NewNetwork == [observed |-> {}, generation |-> 0]

\* Ready is exclusive at the deadline.
Ready(gate, now) == \E t \in gate.observed : t <= now /\ now < t + NetworkTimeout

NetworkDeadlines(gate) == {t + NetworkTimeout : t \in gate.observed}

\* NetworkGate::expire returns whether a permit was lost.
Lapsed(gate, now) == gate.observed # {} /\ ~Ready(gate, now)

Expire(gate, now) == IF Lapsed(gate, now) THEN [gate EXCEPT !.observed = {}] ELSE gate

\* NetworkGate::observe: the first positive observation after boot or an
\* outage, an unserviced expiry included, opens a new generation.
Observe(gate, ready, now) ==
  LET live == Expire(gate, now)
  IN  IF ~ready THEN [live EXCEPT !.observed = {}]
      ELSE [observed |-> {now},
            generation |-> IF live.observed = {} THEN live.generation + 1
                           ELSE live.generation]

Lost(gate, ready, now) == Lapsed(gate, now) \/ (~ready /\ gate.observed # {})

-----------------------------------------------------------------------------
(* What the output owner makes of it.                                      *)

InhibitGuard(g, now) == CommandUntil(g, Inhibition, now, now)

\* Mutant of Revoke: movement survives an outage that is over by now.
RevokeWhileDown(act, network, now) ==
  [act EXCEPT
    !.guard = IF Ready(network, now) THEN @ ELSE InhibitGuard(@, now),
    !.generation = network.generation]

\* Actuator::step, its network part: without the network, or after any gap in
\* it, everything stops.  An output is a record with at least a guard and the
\* network generation it was last served under.
Revoke(act, network, now) ==
  [act EXCEPT
    !.guard = IF Ready(network, now) /\ act.generation = network.generation
                THEN @ ELSE InhibitGuard(@, now),
    !.generation = network.generation]
=============================================================================
