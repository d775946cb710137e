-------------------------- MODULE RelayDiscipline --------------------------
(***************************************************************************)
(* What each axis of the relay box is promised, whatever commands it: its  *)
(* motor is never energised before the off-time since its last release is  *)
(* over, SameOff in the direction it last ran and ReverseOff in the other, *)
(* and never switches from one direction to the other without opening.     *)
(* "Minimum off-time before reusing the last energized direction" and      *)
(* "before energizing the opposite direction", drive.rs RelayConfig.       *)
(*                                                                         *)
(* Nothing is said of why it starts or stops: leases, feedback, duty and   *)
(* faults may open it at any time.  Drive and Actuator implement this.     *)
(***************************************************************************)
EXTENDS Naturals

CONSTANTS Axis, SameOff, ReverseOff

VARIABLES
  on,     \* the energised direction of each axis, or Off
  last,   \* the direction released last, or Off if none was
  since,  \* when it was released (0 if never)
  clock

vars == <<on, last, since, clock>>

Direction == {"up", "down"}
Off == "off"

Init ==
  /\ on = [a \in Axis |-> Off]
  /\ last = [a \in Axis |-> Off]
  /\ since = [a \in Axis |-> 0]
  /\ clock = 0

Rested(a, d) ==
  \/ last[a] = Off
  \/ clock >= since[a] + (IF d = last[a] THEN SameOff ELSE ReverseOff)

Start(a) ==
  /\ on[a] = Off
  /\ on'[a] \in {d \in Direction : Rested(a, d)}
  /\ last'[a] = last[a]
  /\ since'[a] = since[a]

Stop(a) ==
  /\ on[a] # Off
  /\ on'[a] = Off
  /\ last'[a] = on[a]
  /\ since'[a] = clock

Stay(a) == on'[a] = on[a] /\ last'[a] = last[a] /\ since'[a] = since[a]

\* One instant may switch both axes.
Switch == clock' = clock /\ \A a \in Axis : Start(a) \/ Stop(a) \/ Stay(a)

Pass == clock' > clock /\ UNCHANGED <<on, last, since>>

Next == Switch \/ Pass

Spec == Init /\ [][Next]_vars
=============================================================================
