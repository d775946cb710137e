---------------------------- MODULE ManualProofs ----------------------------
(***************************************************************************)
(* What Manual promises, for any number of browsers, any drives they ask   *)
(* for, any valid timing and any order of messages, publications, expiries *)
(* and passes of the output task.                                          *)
(*                                                                         *)
(* IInv is the inductive invariant.  The properties speak of what moves or *)
(* of what a pass does; what they need to know is what the mailbox, the    *)
(* connections and the pending request hold until a pass finds it:         *)
(* Pressed, for instance, says that unless a stop waits, or an expiry has  *)
(* not been serviced yet, an admitted movement is still wanted.            *)
(***************************************************************************)
EXTENDS Manual, RelayProofs, FiniteSetTheorems

-----------------------------------------------------------------------------
(* Lemmas about the operators of Coordination and of the leases and the    *)
(* mailbox under it, for any set of envelopes and of override requests:    *)
(* what each operation leaves of the grant, the network permission and the *)
(* box.                                                                    *)

Gate == [observed : SUBSET Nat, generation : Nat]

\* The coordination state over the envelopes and requests of a model.
Coordinations(Envelopes, Requests) ==
  [lease : Lease, network : Gate, box : SUBSET Envelopes, asked : SUBSET Requests]

GrantTokens(l) == {g.token : g \in l.grant}
IsCurrent(l, t) == l.grant = CurrentGrant(l, t)
StopIn(box) == \E e \in box : e.command.kind = "Inhibit"

(***************************************************************************)
(* What an operation that only takes control or permission away makes of c *)
(* at t: every grant that it ends leaves a stop in the box.                *)
(***************************************************************************)
Settles(c, d, t) ==
  /\ d.asked = c.asked
  /\ d.lease.generation = c.lease.generation
  /\ d.lease.grant \subseteq c.lease.grant
  /\ d.network \in {c.network, Expire(c.network, t)}
  /\ StopIn(c.box) => d.box = c.box
  /\ d.box \in {c.box, {Stop}}
  /\ \/ StopIn(d.box)
     \/ /\ d.box = c.box /\ d.lease = c.lease
        /\ Lapsed(c.network, t) /\ c.lease.grant # {} => d.network = c.network

(***************************************************************************)
(* What every operation promises, and the passing of time from t to u as   *)
(* well: no stop is lost, no permission comes back under its generation,   *)
(* and as long as no stop waits the owner and the permission that were     *)
(* there still are, or have not been serviced yet.                         *)
(***************************************************************************)
Orderly(c, d, t, u) ==
  /\ StopIn(c.box) => StopIn(d.box)
  /\ c.network.generation <= d.network.generation
  /\ Ready(d.network, u) /\ d.network.generation = c.network.generation => Ready(c.network, t)
  /\ \/ StopIn(d.box)
     \/ /\ GrantTokens(d.lease) = GrantTokens(c.lease)
        /\ IsCurrent(d.lease, u) => IsCurrent(c.lease, t)
        /\ c.lease.grant # {} =>
             /\ Ready(d.network, u) => Ready(c.network, t) \/ c.network.observed = {}
             /\ d.network.observed = {} => c.network.observed = {}

-----------------------------------------------------------------------------
(* The leases and the mailbox.                                             *)

\* A grant is the only one, and current or not as a whole.
LEMMA OwnerFacts ==
  ASSUME NEW l \in Lease, NEW t \in Nat
  PROVE  /\ CurrentGrant(l, t) \in {l.grant, {}}
         /\ \A g \in l.grant : g \in Grant
         /\ \A g, h \in l.grant : g = h
         /\ Owner(l, t) = {} <=> CurrentGrant(l, t) = {}
         /\ Owner(l, t) \subseteq GrantTokens(l)
         /\ Owner(l, t) # {} => IsCurrent(l, t)
         /\ IsCurrent(l, t) <=> Owner(l, t) = GrantTokens(l)
         /\ \A x, y \in GrantTokens(l) : x = y
         /\ GrantTokens(l) \subseteq Token
         /\ GrantTokens(l) = {} <=> l.grant = {}
<1>1. l.grant \in SUBSET Grant /\ \A x, y \in l.grant : x = y
  BY DEF Lease
<1>2. CurrentGrant(l, t) \in {l.grant, {}}
  <2>1. CASE l.grant = {}
    BY <2>1 DEF CurrentGrant
  <2>2. CASE l.grant # {}
    <3>1. PICK g \in l.grant : l.grant = {g}
      BY <1>1, <2>2
    <3> QED BY <3>1 DEF CurrentGrant
  <2> QED BY <2>1, <2>2
<1>3. \A g \in l.grant : g.token \in Token
  BY <1>1 DEF Grant
<1> QED
  BY <1>1, <1>2, <1>3, SMTT(30) DEF Owner, GrantTokens, IsCurrent

\* Advancing a lease drops a grant that is no longer current, and nothing else.
LEMMA AdvanceLeaseFacts ==
  ASSUME NEW l \in Lease, NEW t \in Nat
  PROVE  LET m == AdvanceLease(l, t)
         IN  /\ m \in Lease
             /\ m.generation = l.generation
             /\ m.grant = CurrentGrant(l, t)
             /\ CurrentGrant(m, t) = CurrentGrant(l, t)
             /\ Owner(m, t) = Owner(l, t)
             /\ IsCurrent(l, t) => m = l
<1> DEFINE m == AdvanceLease(l, t)
<1>1. m = [l EXCEPT !.grant = CurrentGrant(l, t)]
  BY DEF AdvanceLease
<1>2. CurrentGrant(l, t) \in {l.grant, {}}
  BY OwnerFacts
<1>3. l = [grant |-> l.grant, generation |-> l.generation] /\ l.generation \in Nat
  BY DEF Lease
<1>4. m = [grant |-> CurrentGrant(l, t), generation |-> l.generation]
  BY <1>1, <1>3
<1>5. m \in Lease
  BY <1>2, <1>3, <1>4 DEF Lease
<1>6. CurrentGrant(m, t) = CurrentGrant(l, t)
  BY <1>4 DEF CurrentGrant
<1>7. IsCurrent(l, t) => m = l
  BY <1>3, <1>4 DEF IsCurrent
<1> QED
  BY <1>4, <1>5, <1>6, <1>7 DEF Owner

\* A queued stop stays queued, whatever is submitted after it.
LEMMA SubmittedFacts ==
  ASSUME NEW box
  PROVE  /\ StopIn(Submitted(box, Stop))
         /\ Submitted(box, Stop) \in {box, {Stop}}
         /\ \A e : StopIn(box) => Submitted(box, e) = box
         /\ \A e : ~StopIn(box) => Submitted(box, e) = {e}
         /\ Stop.command.kind = "Inhibit"
<1>1. Stop.command.kind = "Inhibit"
  BY DEF Stop, Inhibition
<1> QED BY <1>1 DEF StopIn, Submitted

\* Expiring a gate drops what has lapsed, and leaves readiness as it was.
LEMMA NetworkFacts ==
  ASSUME NEW gate \in Gate, NEW t \in Nat
  PROVE  /\ Expire(gate, t) \in Gate
         /\ Expire(gate, t).generation = gate.generation
         /\ Lapsed(gate, t) => Expire(gate, t).observed = {}
         /\ ~Lapsed(gate, t) => Expire(gate, t) = gate
         /\ Ready(gate, t) => ~Lapsed(gate, t) /\ gate.observed # {}
         /\ Ready(Expire(gate, t), t) <=> Ready(gate, t)
         /\ ~Lapsed(Expire(gate, t), t)
<1>1. CASE Lapsed(gate, t)
  BY <1>1 DEF Lapsed, Expire, Gate, Ready
<1>2. CASE ~Lapsed(gate, t)
  BY <1>2 DEF Lapsed, Expire, Gate, Ready
<1> QED BY <1>1, <1>2
-----------------------------------------------------------------------------
(* Withdrawals.                                                            *)

\* Two withdrawals are one.
LEMMA SettlesTwice ==
  ASSUME NEW E, NEW R, NEW c \in Coordinations(E, R), NEW d \in Coordinations(E, R),
         NEW e \in Coordinations(E, R), NEW t \in Nat,
         Settles(c, d, t), Settles(d, e, t)
  PROVE  Settles(c, e, t)
<1>1. c.network \in Gate /\ d.network \in Gate
  BY DEF Coordinations
<1>2. e.network \in {c.network, Expire(c.network, t)}
  BY <1>1, NetworkFacts DEF Settles
<1>3. \/ StopIn(e.box)
      \/ /\ e.box = c.box /\ e.lease = c.lease
         /\ Lapsed(c.network, t) /\ c.lease.grant # {} => e.network = c.network
  BY DEF Settles
<1> QED
  BY <1>2, <1>3 DEF Settles

\* A withdrawal is orderly.
LEMMA SettlesIsOrderly ==
  ASSUME NEW E, NEW R, NEW c \in Coordinations(E, R), NEW d \in Coordinations(E, R),
         NEW t \in Nat, Settles(c, d, t)
  PROVE  Orderly(c, d, t, t)
<1>1. c.network \in Gate /\ c.lease \in Lease
  BY DEF Coordinations
<1>2. /\ d.network.generation = c.network.generation
      /\ Ready(d.network, t) <=> Ready(c.network, t)
      /\ c.network.generation \in Nat
  BY <1>1, NetworkFacts DEF Settles, Gate
<1>3. StopIn(c.box) => StopIn(d.box)
  BY DEF Settles
<1>4. ASSUME ~StopIn(d.box)
      PROVE  /\ d.lease = c.lease
             /\ c.lease.grant # {} => d.network = c.network
  BY <1>1, <1>4, NetworkFacts DEF Settles
<1> QED
  BY <1>2, <1>3, <1>4 DEF Orderly

\* Serviced: an expired grant ends, and leaves a stop.
LEMMA ServicedFacts ==
  ASSUME NEW E, NEW R, NEW c \in Coordinations(E, R), NEW t \in Nat, Stop \in E
  PROVE  LET d == Serviced(c, t)
         IN  /\ d \in Coordinations(E, R)
             /\ Settles(c, d, t)
             /\ d.network = c.network
             /\ d.lease = AdvanceLease(c.lease, t)
             /\ IsCurrent(c.lease, t) => d = c
             /\ ~IsCurrent(c.lease, t) => StopIn(d.box)
<1> DEFINE n == [c EXCEPT !.lease = AdvanceLease(@, t)]
           i == [n EXCEPT !.box = Submitted(@, Stop)]
           d == Serviced(c, t)
<1>1. /\ c.lease \in Lease /\ c.box \in SUBSET E /\ c.network \in Gate
      /\ c = [lease |-> c.lease, network |-> c.network, box |-> c.box, asked |-> c.asked]
  BY DEF Coordinations
<1>2. /\ AdvanceLease(c.lease, t) \in Lease
      /\ AdvanceLease(c.lease, t).generation = c.lease.generation
      /\ AdvanceLease(c.lease, t).grant = CurrentGrant(c.lease, t)
      /\ IsCurrent(c.lease, t) => AdvanceLease(c.lease, t) = c.lease
      /\ CurrentGrant(c.lease, t) \subseteq c.lease.grant
  BY <1>1, AdvanceLeaseFacts DEF CurrentGrant
<1>3. d = IF AdvanceLease(c.lease, t) = c.lease THEN c ELSE i
  BY <1>1 DEF Serviced, Inhibited
<1>4. i = [lease |-> AdvanceLease(c.lease, t), network |-> c.network,
           box |-> Submitted(c.box, Stop), asked |-> c.asked]
  <2>1. n = [lease |-> AdvanceLease(c.lease, t), network |-> c.network,
             box |-> c.box, asked |-> c.asked]
    BY <1>1
  <2> HIDE DEF n
  <2> QED BY <2>1
<1>5. AdvanceLease(c.lease, t) = c.lease <=> IsCurrent(c.lease, t)
  BY <1>2 DEF IsCurrent
<1>6. CASE IsCurrent(c.lease, t)
  <2>1. d = c
    BY <1>3, <1>5, <1>6
  <2> HIDE DEF d
  <2> QED
    BY <2>1, <1>2, <1>6 DEF Settles, d
<1>7. CASE ~IsCurrent(c.lease, t)
  <2>1. d = [lease |-> AdvanceLease(c.lease, t), network |-> c.network,
             box |-> Submitted(c.box, Stop), asked |-> c.asked]
    BY <1>3, <1>4, <1>5, <1>7
  <2>2. Submitted(c.box, Stop) \in SUBSET E
    BY <1>1, SubmittedFacts
  <2> HIDE DEF d
  <2>3. d \in Coordinations(E, R)
    BY <2>1, <2>2, <1>2 DEF Coordinations
  <2>4. Settles(c, d, t) /\ StopIn(d.box)
    BY <2>1, <1>2, SubmittedFacts DEF Settles
  <2> QED
    BY <2>1, <2>3, <2>4, <1>7 DEF d
<1> QED BY <1>6, <1>7

\* Revoked: nobody holds a grant, and whoever did leaves a stop.
LEMMA RevokedFacts ==
  ASSUME NEW E, NEW R, NEW c \in Coordinations(E, R), NEW t \in Nat, Stop \in E
  PROVE  LET d == Revoked(c, t)
         IN  /\ d \in Coordinations(E, R)
             /\ Settles(c, d, t)
             /\ d.network = c.network
             /\ d.lease.grant = {}
             /\ c.lease.grant # {} => StopIn(d.box)
<1> DEFINE s == Serviced(c, t)
           d == Revoked(c, t)
<1>1. c.lease \in Lease
  BY DEF Coordinations
<1>2. /\ s \in Coordinations(E, R)
      /\ Settles(c, s, t)
      /\ s.network = c.network
      /\ s.lease = AdvanceLease(c.lease, t)
      /\ IsCurrent(c.lease, t) => s = c
      /\ ~IsCurrent(c.lease, t) => StopIn(s.box)
  BY ServicedFacts
<1> HIDE DEF s
<1>3. CASE Owner(c.lease, t) = {}
  <2>1. d = s
    BY <1>3 DEF Revoked, s
  <2>2. CurrentGrant(c.lease, t) = {}
    BY <1>1, <1>3, OwnerFacts
  <2>3. s.lease.grant = {}
    BY <1>1, <1>2, <2>2, AdvanceLeaseFacts
  <2> QED
    BY <1>2, <2>1, <2>2, <2>3 DEF IsCurrent
<1>4. CASE Owner(c.lease, t) # {}
  <2> DEFINE owner == CHOOSE token \in Owner(c.lease, t) : TRUE
             l == ReleaseGrant(s.lease, owner, t)
  <2>1. owner \in Owner(c.lease, t)
    BY <1>4
  <2> HIDE DEF owner
  <2>2. IsCurrent(c.lease, t) /\ s = c
    BY <1>1, <1>2, <1>4, OwnerFacts
  <2>3. d = Inhibited([s EXCEPT !.lease = l])
    <3>1. d = Released(c, owner, t)
      BY <1>4 DEF Revoked, owner
    <3> QED
      BY <3>1, <2>1, <2>2 DEF Released, s
  <2>4. c = [lease |-> c.lease, network |-> c.network, box |-> c.box, asked |-> c.asked]
    BY DEF Coordinations
  <2>5. d = [lease |-> l, network |-> c.network, box |-> Submitted(c.box, Stop),
             asked |-> c.asked]
    BY <2>2, <2>3, <2>4 DEF Inhibited
  <2>6. l.grant = {} /\ l.generation = c.lease.generation /\ l \in Lease
    <3>1. \A g \in CurrentGrant(c.lease, t) : g.token = owner
      BY <1>1, <2>1, OwnerFacts DEF Owner, CurrentGrant
    <3>2. l = [c.lease EXCEPT !.grant = {g \in CurrentGrant(c.lease, t) : g.token # owner}]
      BY <2>2 DEF ReleaseGrant
    <3>3. c.lease = [grant |-> c.lease.grant, generation |-> c.lease.generation]
          /\ c.lease.generation \in Nat
      BY <1>1 DEF Lease
    <3>4. {g \in CurrentGrant(c.lease, t) : g.token # owner} = {}
      BY <3>1
    <3>5. l = [grant |-> {}, generation |-> c.lease.generation]
      BY <3>2, <3>3, <3>4
    <3> QED BY <3>3, <3>5 DEF Lease
  <2> HIDE DEF l, d
  <2>7. Submitted(c.box, Stop) \in SUBSET E
    BY SubmittedFacts DEF Coordinations
  <2>8. d \in Coordinations(E, R)
    BY <2>5, <2>6, <2>7 DEF Coordinations
  <2>9. Settles(c, d, t) /\ StopIn(d.box)
    BY <2>5, <2>6, SubmittedFacts DEF Settles
  <2> QED
    BY <2>5, <2>6, <2>8, <2>9 DEF d
<1> QED BY <1>3, <1>4

\* Advanced: a permission that lapsed takes the grant with it.
LEMMA AdvancedFacts ==
  ASSUME NEW E, NEW R, NEW c \in Coordinations(E, R), NEW t \in Nat, Stop \in E
  PROVE  LET d == Advanced(c, t)
         IN  /\ d \in Coordinations(E, R)
             /\ Settles(c, d, t)
             /\ d.network = Expire(c.network, t)
             /\ ~Lapsed(c.network, t) => d = c
             /\ Lapsed(c.network, t) => /\ d.lease.grant = {} /\ ~Ready(d.network, t)
                                        /\ c.lease.grant # {} => StopIn(d.box)
<1> DEFINE n == [c EXCEPT !.network = Expire(@, t)]
           d == Advanced(c, t)
<1>1. c.network \in Gate
  BY DEF Coordinations
<1>2. CASE ~Lapsed(c.network, t)
  <2>1. d = c
    BY <1>2 DEF Advanced
  <2> HIDE DEF d
  <2> QED
    BY <1>1, <1>2, <2>1, NetworkFacts DEF Settles, d
<1>3. CASE Lapsed(c.network, t)
  <2>1. d = Revoked(n, t)
    BY <1>3 DEF Advanced
  <2>2. n = [lease |-> c.lease, network |-> Expire(c.network, t), box |-> c.box,
             asked |-> c.asked]
    BY DEF Coordinations
  <2>3. n \in Coordinations(E, R)
    BY <2>2, <1>1, NetworkFacts DEF Coordinations
  <2> HIDE DEF n
  <2>4. /\ d \in Coordinations(E, R) /\ Settles(n, d, t) /\ d.network = n.network
        /\ d.lease.grant = {}
        /\ n.lease.grant # {} => StopIn(d.box)
    BY <2>1, <2>3, RevokedFacts
  <2> HIDE DEF d
  <2>5. n.lease = c.lease /\ n.box = c.box /\ n.asked = c.asked
        /\ n.network = Expire(c.network, t)
    BY <2>2
  <2>6. Settles(c, d, t)
    BY <2>4, <2>5 DEF Settles
  <2>7. ~Ready(d.network, t)
    BY <1>1, <1>3, <2>4, <2>5, NetworkFacts
  <2> QED
    BY <1>3, <2>4, <2>5, <2>6, <2>7 DEF d
<1> QED BY <1>2, <1>3
-----------------------------------------------------------------------------
(* The operations.                                                         *)

\* An owner under a permission that is ready has lost nothing to the clock.
LEMMA LiveOwnerFacts ==
  ASSUME NEW E, NEW R, NEW c \in Coordinations(E, R), NEW t \in Nat, Stop \in E,
         ~Lapsed(c.network, t)
  PROVE  /\ Advanced(c, t) = c
         /\ Owner(c.lease, t) # {} => Serviced(c, t) = c
<1>1. c.lease \in Lease
  BY DEF Coordinations
<1>2. Advanced(c, t) = c
  BY AdvancedFacts
<1>3. ASSUME Owner(c.lease, t) # {} PROVE Serviced(c, t) = c
  <2>1. IsCurrent(c.lease, t)
    BY <1>1, <1>3, OwnerFacts
  <2> QED BY <2>1, ServicedFacts
<1> QED BY <1>2, <1>3

\* An expired owner's motion is stopped before anything else happens.
LEMMA AdvancedServicedFacts ==
  ASSUME NEW E, NEW R, NEW c \in Coordinations(E, R), NEW t \in Nat, Stop \in E
  PROVE  LET d == Serviced(Advanced(c, t), t)
         IN  /\ d \in Coordinations(E, R)
             /\ Settles(c, d, t)
             /\ d.network = Expire(c.network, t)
             /\ IsCurrent(d.lease, t)
             /\ Lapsed(c.network, t) /\ c.lease.grant # {} => StopIn(d.box)
<1> DEFINE a == Advanced(c, t)
           d == Serviced(a, t)
<1>1. /\ a \in Coordinations(E, R) /\ Settles(c, a, t)
      /\ a.network = Expire(c.network, t)
      /\ Lapsed(c.network, t) /\ c.lease.grant # {} => StopIn(a.box)
  BY AdvancedFacts
<1> HIDE DEF a
<1>2. /\ d \in Coordinations(E, R) /\ Settles(a, d, t) /\ d.network = a.network
      /\ d.lease = AdvanceLease(a.lease, t)
  BY <1>1, ServicedFacts
<1>3. IsCurrent(d.lease, t)
  <2>1. a.lease \in Lease
    BY <1>1 DEF Coordinations
  <2> QED BY <1>2, <2>1, AdvanceLeaseFacts DEF IsCurrent
<1> HIDE DEF d
<1>4. Settles(c, d, t)
  BY <1>1, <1>2, SettlesTwice
<1>5. StopIn(a.box) => StopIn(d.box)
  BY <1>2 DEF Settles
<1> QED
  BY <1>1, <1>2, <1>3, <1>4, <1>5 DEF d, a

\* Control claimed by client: a new grant, in front of a stop.
Claims(c, d, client, t) ==
  /\ Ready(c.network, t) /\ CurrentGrant(c.lease, t) = {}
  /\ d.network = c.network /\ d.asked = c.asked
  /\ StopIn(d.box) /\ d.box \in {c.box, {Stop}}
  /\ d.lease.generation = c.lease.generation + 1
  /\ d.lease.grant = {[token |-> [client |-> client, generation |-> c.lease.generation + 1],
                       until |-> t + OperatorLease]}

\* TakenControl: vacant control goes to the client, or nothing is given.
LEMMA TakenControlFacts ==
  ASSUME NEW E, NEW R, NEW c \in Coordinations(E, R), NEW t \in Nat, Stop \in E,
         NEW client \in Nat
  PROVE  LET d == TakenControl(c, client, t)
         IN  /\ d \in Coordinations(E, R)
             /\ Settles(c, d, t) \/ Claims(c, d, client, t)
<1> DEFINE a == Advanced(c, t)
           d == TakenControl(c, client, t)
<1>1. a \in Coordinations(E, R) /\ Settles(c, a, t) /\ a.network = Expire(c.network, t)
  BY AdvancedFacts
<1>2. c.lease \in Lease /\ c.network \in Gate
  BY DEF Coordinations
<1>3. CASE ~Ready(a.network, t)
  <2>1. d = a
    BY <1>3 DEF TakenControl
  <2> HIDE DEF a, d
  <2> QED BY <1>1, <2>1 DEF d
<1>4. CASE Ready(a.network, t)
  <2>1. ~Lapsed(c.network, t) /\ Ready(c.network, t)
    BY <1>1, <1>2, <1>4, NetworkFacts
  <2>2. a = c
    BY <2>1, AdvancedFacts
  <2> DEFINE s == Serviced(c, t)
             n == [s EXCEPT !.lease = Claim(@, client, t)]
  <2>3. d = IF CurrentGrant(s.lease, t) = {} THEN Inhibited(n) ELSE n
    BY <1>4, <2>2 DEF TakenControl, Claimed
  <2>4. /\ s \in Coordinations(E, R) /\ Settles(c, s, t) /\ s.network = c.network
        /\ s.lease = AdvanceLease(c.lease, t)
    BY ServicedFacts
  <2>5. /\ CurrentGrant(s.lease, t) = CurrentGrant(c.lease, t)
        /\ s.lease.generation = c.lease.generation
    BY <1>2, <2>4, AdvanceLeaseFacts
  <2> HIDE DEF s, a
  <2>6. s = [lease |-> s.lease, network |-> s.network, box |-> s.box, asked |-> s.asked]
    BY <2>4 DEF Coordinations
  <2>7. n = [lease |-> Claim(s.lease, client, t), network |-> s.network, box |-> s.box,
             asked |-> s.asked]
    BY <2>6
  <2>8. CASE CurrentGrant(s.lease, t) # {}
    <3>1. Claim(s.lease, client, t) = s.lease
      BY <2>8 DEF Claim
    <3>2. d = s
      BY <2>3, <2>6, <2>7, <2>8, <3>1
    <3> HIDE DEF d
    <3> QED BY <2>4, <3>2 DEF d
  <2>9. CASE CurrentGrant(s.lease, t) = {}
    <3> DEFINE token == [client |-> client, generation |-> c.lease.generation + 1]
               l == [grant |-> {[token |-> token, until |-> t + OperatorLease]},
                     generation |-> c.lease.generation + 1]
    <3>1. Claim(s.lease, client, t) = l
      BY <2>5, <2>9 DEF Claim
    <3>2. l \in Lease
      <4>1. c.lease.generation \in Nat /\ t + OperatorLease \in Nat
        BY <1>2, OperatorLeaseIsPositive DEF Lease
      <4>2. token \in Token
        BY <4>1 DEF Token
      <4> HIDE DEF token
      <4>3. [token |-> token, until |-> t + OperatorLease] \in Grant
        BY <4>1, <4>2 DEF Grant
      <4> QED BY <4>1, <4>3 DEF Lease
    <3>3. l.generation = c.lease.generation + 1
          /\ l.grant = {[token |-> token, until |-> t + OperatorLease]}
      OBVIOUS
    <3> HIDE DEF l
    <3>4. d = [lease |-> l, network |-> s.network, box |-> Submitted(s.box, Stop),
               asked |-> s.asked]
      <4> HIDE DEF n
      <4> QED BY <2>3, <2>7, <2>9, <3>1 DEF Inhibited
    <3>5. Submitted(s.box, Stop) \in SUBSET E
      BY <2>4, SubmittedFacts DEF Coordinations
    <3> HIDE DEF d, n
    <3>6. d \in Coordinations(E, R)
      BY <2>4, <3>2, <3>4, <3>5 DEF Coordinations
    <3>7. Claims(c, d, client, t)
      BY <2>1, <2>4, <2>5, <2>9, <3>3, <3>4, SubmittedFacts DEF Claims, Settles
    <3> QED BY <3>6, <3>7 DEF d
  <2> QED BY <2>8, <2>9
<1> QED BY <1>3, <1>4

\* ReleasedClient: an owner that leaves leaves a stop.
LEMMA ReleasedClientFacts ==
  ASSUME NEW E, NEW R, NEW c \in Coordinations(E, R), NEW t \in Nat, Stop \in E,
         NEW client
  PROVE  LET d == ReleasedClient(c, client, t)
         IN  /\ d \in Coordinations(E, R)
             /\ Settles(c, d, t)
             /\ Owns(c, client, t) => StopIn(d.box)
<1> DEFINE a == Advanced(c, t)
           d == ReleasedClient(c, client, t)
<1>1. /\ a \in Coordinations(E, R) /\ Settles(c, a, t)
      /\ ~Lapsed(c.network, t) => a = c
      /\ Lapsed(c.network, t) /\ c.lease.grant # {} => StopIn(a.box)
  BY AdvancedFacts
<1>2. c.lease \in Lease
  BY DEF Coordinations
<1>3. d = IF Owns(a, client, t) THEN Revoked(a, t) ELSE a
  BY DEF ReleasedClient
<1>4. ASSUME Owns(c, client, t) PROVE c.lease.grant # {}
  BY <1>2, <1>4, OwnerFacts DEF Owns
<1> HIDE DEF a
<1>5. CASE ~Owns(a, client, t)
  <2>1. d = a
    BY <1>3, <1>5
  <2>2. Owns(c, client, t) => Lapsed(c.network, t)
    BY <1>1, <1>5
  <2> HIDE DEF d
  <2> QED BY <1>1, <1>4, <2>1, <2>2 DEF d
<1>6. CASE Owns(a, client, t)
  <2>1. d = Revoked(a, t)
    BY <1>3, <1>6
  <2>2. /\ d \in Coordinations(E, R) /\ Settles(a, d, t)
        /\ a.lease.grant # {} => StopIn(d.box)
    BY <1>1, <2>1, RevokedFacts
  <2>3. a.lease.grant # {}
    BY <1>1, <1>6, OwnerFacts DEF Owns, Coordinations
  <2> HIDE DEF d
  <2> QED BY <1>1, <2>2, <2>3, SettlesTwice DEF d
<1> QED BY <1>5, <1>6

\* A heartbeat: the same grant, for one more lease from t.
Renews(c, d, token, t) ==
  /\ Ready(c.network, t) /\ token \in Owner(c.lease, t)
  /\ d.network = c.network /\ d.asked = c.asked /\ d.box = c.box
  /\ d.lease.generation = c.lease.generation
  /\ d.lease.grant = {[token |-> token, until |-> t + OperatorLease]}

\* RenewedOperator: only the owner's own grant has a heartbeat.
LEMMA RenewedOperatorFacts ==
  ASSUME NEW E, NEW R, NEW c \in Coordinations(E, R), NEW t \in Nat, Stop \in E,
         NEW token
  PROVE  LET d == RenewedOperator(c, token, t)
         IN  /\ d \in Coordinations(E, R)
             /\ Settles(c, d, t) \/ Renews(c, d, token, t)
<1> DEFINE a == Advanced(c, t)
           s == Serviced(a, t)
           d == RenewedOperator(c, token, t)
<1>1. a \in Coordinations(E, R) /\ Settles(c, a, t) /\ a.network = Expire(c.network, t)
  BY AdvancedFacts
<1>2. s \in Coordinations(E, R) /\ Settles(c, s, t) /\ IsCurrent(s.lease, t)
  BY AdvancedServicedFacts
<1>3. c.lease \in Lease /\ c.network \in Gate /\ s.lease \in Lease
  BY <1>2 DEF Coordinations
<1>4. d = IF ~Ready(a.network, t) THEN a ELSE [s EXCEPT !.lease = Renew(@, token, t)]
  BY DEF RenewedOperator
<1> HIDE DEF s
<1>5. CASE ~Ready(a.network, t)
  <2>1. d = a
    BY <1>4, <1>5
  <2> HIDE DEF a, d
  <2> QED BY <1>1, <2>1 DEF d
<1>6. CASE Ready(a.network, t) /\ token \notin Owner(s.lease, t)
  <2>1. Renew(s.lease, token, t) = s.lease
    BY <1>2, <1>3, <1>6, AdvanceLeaseFacts DEF Renew
  <2>2. d = s
    BY <1>2, <1>4, <1>6, <2>1 DEF Coordinations
  <2> HIDE DEF d
  <2> QED BY <1>2, <2>2 DEF d
<1>7. CASE Ready(a.network, t) /\ token \in Owner(s.lease, t)
  <2>1. ~Lapsed(c.network, t) /\ Ready(c.network, t)
    BY <1>1, <1>3, <1>7, NetworkFacts
  <2>2. Owner(s.lease, t) \subseteq Owner(c.lease, t)
    BY <1>2 DEF Settles, Owner, CurrentGrant
  <2>3. s = c
    BY <1>7, <2>1, <2>2, LiveOwnerFacts DEF s
  <2>4. token \in Owner(c.lease, t)
    BY <1>7, <2>3
  <2> DEFINE l == [grant |-> {[token |-> token, until |-> t + OperatorLease]},
                   generation |-> c.lease.generation]
  <2>5. c.lease = [grant |-> c.lease.grant, generation |-> c.lease.generation]
        /\ c.lease.generation \in Nat
    BY <1>3 DEF Lease
  <2>6. Renew(c.lease, token, t) = l
    BY <2>4, <2>5 DEF Renew
  <2>7. l \in Lease
    <3>1. token \in Token
      BY <1>3, <2>4, OwnerFacts
    <3>2. [token |-> token, until |-> t + OperatorLease] \in Grant
      BY <3>1, OperatorLeaseIsPositive DEF Grant
    <3> QED BY <2>5, <3>2 DEF Lease
  <2>8. l.generation = c.lease.generation
        /\ l.grant = {[token |-> token, until |-> t + OperatorLease]}
    OBVIOUS
  <2> HIDE DEF l, a
  <2>9. d = [lease |-> l, network |-> c.network, box |-> c.box, asked |-> c.asked]
    BY <1>4, <1>7, <2>3, <2>6 DEF Coordinations
  <2> HIDE DEF d
  <2>10. d \in Coordinations(E, R)
    BY <2>7, <2>9 DEF Coordinations
  <2>11. Renews(c, d, token, t)
    BY <2>1, <2>4, <2>8, <2>9 DEF Renews
  <2> QED BY <2>10, <2>11 DEF d
<1> QED BY <1>5, <1>6, <1>7

\* A command enters the box.
Submits(c, d, client, envelope, t) ==
  /\ Owns(c, client, t) /\ Ready(c.network, t) /\ FreshCommand(envelope, t)
  /\ d.network = c.network /\ d.asked = c.asked /\ d.lease = c.lease
  /\ d.box = Submitted(c.box, envelope)

\* AcceptedCommand: the owner's fresh command, under a permission that is
\* ready, and nobody else's.
LEMMA AcceptedCommandFacts ==
  ASSUME NEW E, NEW R, NEW c \in Coordinations(E, R), NEW t \in Nat, Stop \in E,
         NEW client, NEW envelope \in E
  PROVE  LET d == AcceptedCommand(c, client, envelope, t)
         IN  /\ d \in Coordinations(E, R)
             /\ Settles(c, d, t) \/ Submits(c, d, client, envelope, t)
             /\ Owns(c, client, t) /\ envelope = Stop
                  => StopIn(d.box) \/ ~Ready(d.network, t)
<1> DEFINE a == Advanced(c, t)
           s == Serviced(a, t)
           d == AcceptedCommand(c, client, envelope, t)
           admitted == Ready(a.network, t) /\ FreshCommand(envelope, t)
<1>1. /\ a \in Coordinations(E, R) /\ Settles(c, a, t) /\ a.network = Expire(c.network, t)
      /\ ~Lapsed(c.network, t) => a = c
      /\ Lapsed(c.network, t) => ~Ready(a.network, t)
  BY AdvancedFacts
<1>2. /\ s \in Coordinations(E, R) /\ Settles(c, s, t)
      /\ s.network = Expire(c.network, t)
  BY AdvancedServicedFacts
<1>3. c.lease \in Lease /\ c.network \in Gate
  BY DEF Coordinations
<1>4. d = IF ~Owns(a, client, t) THEN a
          ELSE IF admitted THEN [s EXCEPT !.box = Submitted(@, envelope)]
          ELSE s
  BY DEF AcceptedCommand
<1>5. FreshCommand(Stop, t)
  BY SubmittedFacts DEF FreshCommand
<1>6. Ready(Expire(c.network, t), t) => Ready(c.network, t) /\ ~Lapsed(c.network, t)
  BY <1>3, NetworkFacts
<1>7. CASE ~Owns(a, client, t)
  <2>1. d = a
    BY <1>4, <1>7
  <2>2. Owns(c, client, t) => ~Ready(a.network, t)
    BY <1>1, <1>7
  <2> HIDE DEF a, d
  <2> QED BY <1>1, <2>1, <2>2 DEF d
<1>8. CASE Owns(a, client, t) /\ ~admitted
  <2>1. d = s
    BY <1>4, <1>8
  <2>2. envelope = Stop => ~Ready(s.network, t)
    BY <1>1, <1>2, <1>5, <1>8
  <2> HIDE DEF s, d
  <2> QED BY <1>2, <2>1, <2>2 DEF d
<1>9. CASE Owns(a, client, t) /\ admitted
  <2>1. Ready(c.network, t) /\ ~Lapsed(c.network, t) /\ a = c
    BY <1>1, <1>6, <1>9
  <2>2. Owns(c, client, t)
    BY <1>9, <2>1
  <2>3. s = c
    BY <2>1, <2>2, LiveOwnerFacts DEF Owns
  <2> HIDE DEF s
  <2>4. d = [lease |-> c.lease, network |-> c.network, box |-> Submitted(c.box, envelope),
             asked |-> c.asked]
    BY <1>4, <1>9, <2>3 DEF Coordinations
  <2> HIDE DEF d
  <2>5. Submitted(c.box, envelope) \in SUBSET E
    BY SubmittedFacts, SMTT(30) DEF Coordinations
  <2>6. d \in Coordinations(E, R)
    BY <2>4, <2>5 DEF Coordinations
  <2>7. Submits(c, d, client, envelope, t)
    BY <1>9, <2>1, <2>2, <2>4 DEF Submits
  <2>8. envelope = Stop => StopIn(d.box)
    BY <2>4, SubmittedFacts
  <2> QED BY <2>6, <2>7, <2>8 DEF d
<1> QED BY <1>7, <1>8, <1>9

\* An override request enters, in front of a stop.
Requests(c, d, token, until, seen, t) ==
  /\ t < until /\ Ready(c.network, t) /\ token \in Owner(c.lease, t)
  /\ d.network = c.network /\ d.lease = c.lease
  /\ d.box = Submitted(c.box, Stop)
  /\ d.asked = {[token |-> token, until |-> until,
                 generation |-> c.network.generation, seen |-> seen]}

\* RequestedOverride: the owner's, under a permission that is ready.
LEMMA RequestedOverrideFacts ==
  ASSUME NEW E, NEW R, NEW c \in Coordinations(E, R), NEW t \in Nat, Stop \in E,
         NEW token, NEW until, NEW atRest, NEW seen,
         [token |-> token, until |-> until, generation |-> c.network.generation,
          seen |-> seen] \in R
  PROVE  LET d == RequestedOverride(c, token, until, atRest, seen, t)
         IN  /\ d \in Coordinations(E, R)
             /\ Settles(c, d, t) \/ Requests(c, d, token, until, seen, t)
<1> DEFINE a == Advanced(c, t)
           d == RequestedOverride(c, token, until, atRest, seen, t)
           asks == t < until /\ OverridePermitted(a, token, t) /\ atRest /\ a.asked = {}
           request == [token |-> token, until |-> until,
                       generation |-> a.network.generation, seen |-> seen]
<1>1. a \in Coordinations(E, R) /\ Settles(c, a, t) /\ a.network = Expire(c.network, t)
  BY AdvancedFacts
<1>2. c.lease \in Lease /\ c.network \in Gate
  BY DEF Coordinations
<1>3. d = IF asks THEN [Inhibited(Serviced(a, t)) EXCEPT !.asked = {request}] ELSE a
  BY DEF RequestedOverride
<1>4. CASE ~asks
  <2>1. d = a
    BY <1>3, <1>4
  <2> HIDE DEF a, d
  <2> QED BY <1>1, <2>1 DEF d
<1>5. CASE asks
  <2>1. ~Lapsed(c.network, t) /\ Ready(c.network, t)
    BY <1>1, <1>2, <1>5, NetworkFacts DEF OverridePermitted
  <2>2. a = c
    BY <2>1, AdvancedFacts
  <2>3. token \in Owner(c.lease, t)
    BY <1>5, <2>2 DEF OverridePermitted
  <2>4. Serviced(c, t) = c
    BY <2>1, <2>3, LiveOwnerFacts
  <2> HIDE DEF a
  <2>5. d = [Inhibited(c) EXCEPT !.asked = {request}]
    BY <1>3, <1>5, <2>2, <2>4
  <2>6. Inhibited(c) = [lease |-> c.lease, network |-> c.network,
                        box |-> Submitted(c.box, Stop), asked |-> c.asked]
    BY DEF Inhibited, Coordinations
  <2>7. d = [lease |-> c.lease, network |-> c.network,
             box |-> Submitted(c.box, Stop), asked |-> {request}]
    BY <2>5, <2>6, SMTT(30)
  <2>8. request \in R
    BY <2>2
  <2>9. Submitted(c.box, Stop) \in SUBSET E
    BY SubmittedFacts DEF Coordinations
  <2>10. d \in Coordinations(E, R)
    <3> HIDE DEF d, request
    <3> QED BY <2>7, <2>8, <2>9 DEF Coordinations
  <2>11. Requests(c, d, token, until, seen, t)
    <3>1. t < until
      BY <1>5
    <3> HIDE DEF d
    <3> QED BY <2>1, <2>2, <2>3, <2>7, <3>1 DEF Requests
  <2> QED BY <2>10, <2>11
<1> QED BY <1>4, <1>5

\* PublishedNetwork: a loss takes the grant with it, a new permission has a new
\* generation.
LEMMA PublishedNetworkFacts ==
  ASSUME NEW E, NEW R, NEW c \in Coordinations(E, R), NEW t \in Nat, Stop \in E,
         NEW ready \in BOOLEAN
  PROVE  LET d == PublishedNetwork(c, ready, t)
         IN  /\ d \in Coordinations(E, R)
             /\ Orderly(c, d, t, t)
             /\ d.asked = c.asked
             /\ d.network.observed = (IF ready THEN {t} ELSE {})
             /\ Ready(d.network, t) => \/ Ready(c.network, t)
                                       \/ d.network.generation > c.network.generation
             /\ d.lease.generation = c.lease.generation
             /\ d.lease.grant \subseteq c.lease.grant
             /\ d.box \in {c.box, {Stop}}
<1> DEFINE n == [c EXCEPT !.network = Observe(@, ready, t)]
           d == PublishedNetwork(c, ready, t)
<1>1. c.lease \in Lease /\ c.network \in Gate /\ c.network.generation \in Nat
  BY DEF Coordinations, Gate
<1>2. n = [lease |-> c.lease, network |-> Observe(c.network, ready, t), box |-> c.box,
           asked |-> c.asked]
  BY DEF Coordinations
<1>3. /\ Observe(c.network, ready, t) \in Gate
      /\ Observe(c.network, ready, t).observed = (IF ready THEN {t} ELSE {})
      /\ c.network.generation <= Observe(c.network, ready, t).generation
      /\ Observe(c.network, ready, t).generation = c.network.generation
           => ~ready \/ (~Lapsed(c.network, t) /\ c.network.observed # {})
  <2> DEFINE x == Expire(c.network, t)
  <2>1. /\ x \in Gate /\ x.generation = c.network.generation
        /\ Lapsed(c.network, t) => x.observed = {}
        /\ ~Lapsed(c.network, t) => x = c.network
    BY <1>1, NetworkFacts
  <2>2. Observe(c.network, ready, t) =
          IF ~ready THEN [x EXCEPT !.observed = {}]
          ELSE [observed |-> {t},
                generation |-> IF x.observed = {} THEN x.generation + 1 ELSE x.generation]
    BY DEF Observe
  <2> HIDE DEF x
  <2>3. CASE ready
    BY <1>1, <2>1, <2>2, <2>3 DEF Gate
  <2>4. CASE ~ready
    BY <1>1, <2>1, <2>2, <2>4 DEF Gate
  <2> QED BY <2>3, <2>4
<1>4. n \in Coordinations(E, R)
  BY <1>2, <1>3 DEF Coordinations
<1>5. d = IF Lost(c.network, ready, t) THEN Revoked(n, t) ELSE n
  BY DEF PublishedNetwork
<1>6. /\ n.lease = c.lease /\ n.box = c.box /\ n.asked = c.asked
      /\ n.network = Observe(c.network, ready, t)
  BY <1>2
<1>7. /\ d \in Coordinations(E, R) /\ d.network = n.network
      /\ Settles(n, d, t)
      /\ Lost(c.network, ready, t) /\ n.lease.grant # {} => StopIn(d.box)
      /\ ~Lost(c.network, ready, t) => d = n
  <2> HIDE DEF n
  <2>1. CASE Lost(c.network, ready, t)
    BY <1>4, <1>5, <2>1, RevokedFacts
  <2>2. CASE ~Lost(c.network, ready, t)
    BY <1>4, <1>5, <2>2 DEF Settles
  <2> QED BY <2>1, <2>2
<1> HIDE DEF n, d
<1>8. Ready(d.network, t) => ready
  BY <1>3, <1>6, <1>7 DEF Ready
<1>9. Ready(c.network, t) <=> ~Lapsed(c.network, t) /\ c.network.observed # {}
  BY <1>1, NetworkFacts DEF Lapsed
<1>10. Ready(d.network, t) => Ready(c.network, t) \/ d.network.generation > c.network.generation
  <2>1. d.network = Observe(c.network, ready, t) /\ d.network.generation \in Nat
    BY <1>3, <1>6, <1>7 DEF Gate
  <2>2. Ready(d.network, t) /\ d.network.generation = c.network.generation
          => Ready(c.network, t)
    BY <1>3, <1>8, <1>9, <2>1, Zenon
  <2>3. c.network.generation <= d.network.generation
    BY <1>3, <2>1
  <2> QED BY <1>1, <2>1, <2>2, <2>3
<1>11. ASSUME ~StopIn(d.box)
       PROVE  /\ d.lease = c.lease
              /\ c.lease.grant # {} =>
                   /\ Ready(d.network, t) => Ready(c.network, t) \/ c.network.observed = {}
                   /\ d.network.observed = {} => c.network.observed = {}
  <2>1. d.lease = c.lease
    BY <1>6, <1>7, <1>11 DEF Settles
  <2>2. ASSUME c.lease.grant # {}
        PROVE  /\ Ready(d.network, t) => Ready(c.network, t) \/ c.network.observed = {}
               /\ d.network.observed = {} => c.network.observed = {}
    <3>1. ~Lost(c.network, ready, t)
      BY <1>6, <1>7, <1>11, <2>2
    <3> QED
      BY <1>3, <1>6, <1>7, <1>9, <3>1 DEF Lost
  <2> QED BY <2>1, <2>2
<1>12. Orderly(c, d, t, t)
  <2>1. StopIn(c.box) => StopIn(d.box)
    BY <1>6, <1>7 DEF Settles
  <2>2. Ready(d.network, t) /\ d.network.generation = c.network.generation => Ready(c.network, t)
    BY <1>1, <1>10
  <2> QED BY <1>3, <1>6, <1>7, <1>11, <2>1, <2>2 DEF Orderly
<1> QED
  BY <1>3, <1>6, <1>7, <1>10, <1>12 DEF Settles, d

-----------------------------------------------------------------------------
(* The invariant of Manual.                                                *)

Batch == [until : Nat, seen : Nat]
Beat == [until : Nat, token : Token]
Admission == [command : [kind : {"Jog"}, drive : Drives], until : Nat,
              conn : Conn, token : Batch, grant : SUBSET Token]
Envelopes == Admission \cup {Stop}
Asks == [token : Token, until : Nat, generation : Nat, seen : Nat]
Freshness == [tokens : Seq(Batch), armed : Nat, network : SUBSET Nat]
Connection == [id : Nat, fresh : Freshness, beats : Seq(SUBSET Beat)]

HasControl(c) == Open(c) /\ \E token \in OwnerNow : token.client = sess[c].id

\* The movements in the box, and all that was admitted and may still move.
Orders == {e \in coord.box : e.command.kind # "Inhibit"}
Admitteds == mover \cup Orders

Types ==
  /\ coord \in Coordinations(Envelopes, Asks)
  /\ nextId \in Nat /\ sess \in [Conn -> Connection]
  /\ out \in [guard : Guard, generation : Nat] /\ unrested \in BOOLEAN
  /\ now \in 0 .. MaxTime /\ outages \in Nat /\ proven \in 0 .. now
  /\ held \in SUBSET Conn /\ mover \in SUBSET Admission
  /\ call \in {"other", "pass", "override"}

\* The box holds one envelope, and a connection an identity of its own.
Shape ==
  /\ \A x, y \in coord.box : x = y
  /\ \A c \in Conn : sess[c].id <= nextId /\ Len(sess[c].fresh.tokens) <= Recent
  /\ \A c, d \in Conn : c # d /\ Open(c) => sess[c].id # sess[d].id

\* Whoever looks at the network lags behind it, never ahead.
Lag ==
  /\ \A t \in coord.network.observed : t <= now
  /\ out.generation <= coord.network.generation
  /\ \A c \in Conn : \A g \in sess[c].fresh.network : g <= coord.network.generation
  /\ \A r \in coord.asked : r.generation <= coord.network.generation

\* A ping and the grant it can renew bound each other's age.
Alive ==
  /\ \A g \in coord.lease.grant : g.until <= proven + CommandMaxAge - 1 + OperatorLease
  /\ \A c \in Conn : \A i \in DOMAIN sess[c].beats :
       /\ \A p, q \in sess[c].beats[i] : p = q
       /\ \A p \in sess[c].beats[i] : CommandMaxAge <= p.until /\ p.until <= now + CommandMaxAge

\* Tokens and requests of the network generation there is now were issued, or
\* made, since the last outage.
Seen ==
  Permission =>
    /\ \A c \in Conn : sess[c].fresh.network = {coord.network.generation} =>
         \A i \in DOMAIN sess[c].fresh.tokens : sess[c].fresh.tokens[i].seen = outages
    /\ \A r \in coord.asked : r.generation = coord.network.generation => r.seen = outages

\* A hold that the owner's connection would admit follows a press.
Armed ==
  \A c \in Conn :
    Permission /\ HasControl(c) /\ sess[c].fresh.network = {coord.network.generation}
      /\ now < sess[c].fresh.armed => c \in held

Wanted(e) ==
  e.conn \in held /\ HasControl(e.conn) /\ e.grant = OwnerNow /\ e.token.seen = outages

Pressed ==
  ~StopAwaits /\ Permission /\ IsCurrent(coord.lease, now) =>
    /\ \A e \in Orders : Wanted(e)
    /\ out.generation = coord.network.generation => \A e \in mover : Wanted(e)

\* Without a permission on record nothing waits to move.
Quiet == coord.network.observed = {} => Orders = {}

Lifetimes ==
  /\ \A e \in mover : out.guard.lease <= e.token.until
  /\ \A e \in Orders : e.until <= e.token.until
  /\ \A e \in Admitteds : e.grant # {}
  /\ Leased(out.guard) /\ out.guard.lease <= now + MovementLease

IInv ==
  /\ Types /\ Shape /\ Lag /\ Alive /\ Seen /\ Armed /\ Pressed /\ Quiet /\ Lifetimes
  /\ OrphansAreStopped
-----------------------------------------------------------------------------
(* What a step away from the output owner keeps.                           *)

\* The operations on the coordination that take nothing away are orderly too.
LEMMA GrantsAreOrderly ==
  ASSUME NEW E, NEW R, NEW c \in Coordinations(E, R), NEW d \in Coordinations(E, R),
         NEW t \in Nat, NEW client, NEW envelope \in E, NEW token, NEW until, NEW seen,
         \/ Claims(c, d, client, t) \/ Renews(c, d, token, t)
         \/ Submits(c, d, client, envelope, t) \/ Requests(c, d, token, until, seen, t)
  PROVE  Orderly(c, d, t, t)
<1>1. /\ c.network.generation \in Nat /\ c.lease \in Lease /\ c.network \in Gate
      /\ d.lease \in Lease
  BY DEF Coordinations, Gate
<1>2. CASE Claims(c, d, client, t)
  BY <1>1, <1>2 DEF Claims, Orderly
<1>3. CASE Renews(c, d, token, t)
  <2>1. GrantTokens(c.lease) = {token} /\ IsCurrent(c.lease, t)
    BY <1>1, <1>3, OwnerFacts DEF Renews
  <2>2. GrantTokens(d.lease) = {token}
    BY <1>3 DEF Renews, GrantTokens
  <2> QED BY <1>1, <1>3, <2>1, <2>2 DEF Renews, Orderly
<1>4. CASE Submits(c, d, client, envelope, t)
  BY <1>1, <1>4, SubmittedFacts DEF Submits, Orderly
<1>5. CASE Requests(c, d, token, until, seen, t)
  BY <1>1, <1>5, SubmittedFacts DEF Requests, Orderly
<1> QED BY <1>2, <1>3, <1>4, <1>5

\* No step but a pass gives up a stop, or leaves moving, or waiting to move,
\* what is not wanted any more.
LEMMA StaysPressed ==
  ASSUME IInv, coord' \in Coordinations(Envelopes, Asks), now' \in Nat,
         \A x, y \in coord'.box : x = y,
         Orderly(coord, coord', now, now'), mover' = mover, out' = out,
         NEW down, NEW up, Presses(down, up),
         \A c \in Conn : HasControl(c) =>
           /\ sess'[c].id = sess[c].id \/ StopAwaits'
           /\ c \in up => StopAwaits' \/ ~Permission',
         \A e \in Orders' : \/ e \in Orders
                            \/ /\ Wanted(e)' /\ coord'.network.observed # {}
                               /\ e.grant = GrantTokens(coord'.lease) /\ e.grant # {}
  PROVE  OrphansAreStopped' /\ Pressed' /\ Quiet' /\ (\A e \in Admitteds : e.grant # {})'
<1>1. /\ coord \in Coordinations(Envelopes, Asks) /\ mover \in SUBSET Admission /\ now \in Nat
      /\ out.generation \in Nat /\ out.generation <= coord.network.generation
      /\ coord.network.generation \in Nat /\ coord'.network.generation \in Nat
      /\ coord.lease \in Lease /\ coord'.lease \in Lease
  BY DEF IInv, Types, Lag, Coordinations, Gate
<1>2. /\ StopAwaits <=> StopIn(coord.box)
      /\ StopAwaits' <=> StopIn(coord'.box)
      /\ Permission <=> Ready(coord.network, now)
      /\ Permission' <=> Ready(coord'.network, now')
      /\ OwnerNow = Owner(coord.lease, now)
      /\ OwnerNow' = Owner(coord'.lease, now')
      /\ Orders = {e \in coord.box : e.command.kind # "Inhibit"}
      /\ Orders' = {e \in coord'.box : e.command.kind # "Inhibit"}
      /\ Admitteds = mover \cup Orders
      /\ Admitteds' = mover \cup Orders'
  BY DEF StopAwaits, StopIn, Permission, OwnerNow, Orders, Admitteds
<1>3. \A e \in Admitteds : e.grant # {} /\ (e.grant = GrantTokens(coord.lease) \/ StopAwaits)
  BY <1>2 DEF IInv, Lifetimes, OrphansAreStopped, GrantTokens, Orders
<1>4. (\A e \in Admitteds : e.grant # {})'
  BY <1>2, <1>3
<1>5. OrphansAreStopped'
  <2> SUFFICES ASSUME NEW e \in Admitteds', ~StopAwaits'
               PROVE  e.grant = GrantTokens(coord'.lease)
    BY <1>2 DEF OrphansAreStopped, GrantTokens, Orders
  <2>1. ~StopAwaits /\ GrantTokens(coord'.lease) = GrantTokens(coord.lease)
    BY <1>2 DEF Orderly
  <2> QED BY <1>2, <1>3, <2>1
<1>6. Quiet'
  <2> SUFFICES ASSUME coord'.network.observed = {}, NEW e \in Orders' PROVE FALSE
    BY DEF Quiet
  <2>1. e \in Orders
    OBVIOUS
  <2>2. CASE StopAwaits'
    <3>1. PICK s \in coord'.box : s.command.kind = "Inhibit"
      BY <2>2 DEF StopAwaits
    <3> QED BY <1>2, <3>1
  <2>3. CASE ~StopAwaits'
    <3>1. ~StopAwaits /\ e.grant = GrantTokens(coord.lease) /\ e.grant # {}
      BY <1>2, <1>3, <2>1, <2>3 DEF Orderly
    <3>2. coord.lease.grant # {}
      BY <1>1, <3>1, OwnerFacts
    <3>3. coord.network.observed = {}
      BY <1>2, <2>3, <3>2 DEF Orderly
    <3> QED BY <2>1, <3>3 DEF IInv, Quiet
  <2> QED BY <2>2, <2>3
<1>7. Pressed'
  <2> SUFFICES ASSUME ~StopAwaits', Permission', IsCurrent(coord'.lease, now'),
                      NEW e \in Admitteds',
                      \/ e \in Orders'
                      \/ e \in mover /\ out.generation = coord'.network.generation
               PROVE  Wanted(e)'
    BY <1>2 DEF Pressed
  <2>1. ~StopAwaits /\ IsCurrent(coord.lease, now)
    BY <1>2 DEF Orderly
  <2>2. OwnerNow' = OwnerNow
    BY <1>1, <1>2, <2>1, OwnerFacts DEF Orderly
  <2>3. held' = down \cup (held \ up)
    BY <1>2, <2>2 DEF Presses, Outage
  <2>4. outages' = outages
    BY <1>1, <1>2 DEF Presses, Outage, IInv, Types
  <2>5. ASSUME Wanted(e) PROVE Wanted(e)'
    <3>1. e.conn \in held /\ e.conn \in Conn /\ HasControl(e.conn)
      BY <2>5 DEF Wanted, IInv, Types
    <3>2. sess'[e.conn].id = sess[e.conn].id /\ e.conn \notin up
      BY <3>1
    <3> QED
      BY <2>2, <2>3, <2>4, <2>5, <3>1, <3>2 DEF Wanted, HasControl, Open
  <2>6. CASE e \in Orders' /\ e \notin Orders
    BY <2>6
  <2>7. CASE e \in Orders
    <3>1. coord.lease.grant # {} /\ coord.network.observed # {}
      BY <1>1, <1>2, <1>3, <2>1, <2>7, OwnerFacts DEF IInv, Quiet
    <3>2. Permission
      BY <1>2, <3>1 DEF Orderly
    <3>3. Wanted(e)
      BY <2>1, <2>7, <3>2 DEF IInv, Pressed
    <3> QED BY <2>5, <3>3
  <2>8. CASE e \in mover /\ out.generation = coord'.network.generation
    <3>1. out.generation = coord.network.generation
      BY <1>1, <2>8 DEF Orderly
    <3>2. Permission
      BY <1>2, <2>8, <3>1 DEF Orderly
    <3>3. Wanted(e)
      BY <2>1, <2>8, <3>1, <3>2 DEF IInv, Pressed
    <3> QED BY <2>5, <3>3
  <2> QED BY <2>6, <2>7, <2>8
<1> QED BY <1>4, <1>5, <1>6, <1>7
\* What a connection may become while the browsers in `presses` press.
Fits(c, s, presses) ==
  /\ s \in Connection /\ Len(s.fresh.tokens) <= Recent
  /\ \A g \in s.fresh.network : g <= coord.network.generation
  /\ \A i \in DOMAIN s.beats :
       /\ \A p, q \in s.beats[i] : p = q
       /\ \A p \in s.beats[i] : CommandMaxAge <= p.until /\ p.until <= now + CommandMaxAge
  /\ Permission /\ s.fresh.network = {coord.network.generation} =>
       /\ \A i \in DOMAIN s.fresh.tokens : s.fresh.tokens[i].seen = outages
       /\ now < s.fresh.armed /\ s.id # 0 /\ (\E token \in OwnerNow : token.client = s.id)
            => c \in presses

\* Connections that fit go on doing so, whatever the network does and whoever
\* owns control next.
LEMMA StaysArmed ==
  ASSUME IInv, coord' \in Coordinations(Envelopes, Asks), now' \in Nat, now <= now',
         Orderly(coord, coord', now, now'),
         NEW down, NEW up, Presses(down, up),
         \A c \in Conn : Fits(c, sess'[c], down \cup (held \ up)),
         \A c, d \in Conn : c # d /\ sess'[c].id # 0 => sess'[c].id # sess'[d].id,
         \/ OwnerNow' \subseteq OwnerNow
         \/ \E c \in Conn : /\ sess'[c].fresh.armed = 0
                            /\ \A token \in OwnerNow' : token.client = sess'[c].id,
         \A r \in coord'.asked :
           r \in coord.asked \/ (r.generation = coord.network.generation /\ r.seen = outages)
  PROVE  /\ Seen' /\ Armed'
         /\ \A c \in Conn : \A g \in sess'[c].fresh.network : g <= coord'.network.generation
         /\ \A r \in coord'.asked : r.generation <= coord'.network.generation
<1>1. /\ coord \in Coordinations(Envelopes, Asks) /\ now \in Nat
      /\ coord.network.generation \in Nat /\ coord'.network.generation \in Nat
      /\ coord.network.generation <= coord'.network.generation
      /\ coord.lease \in Lease /\ coord'.lease \in Lease /\ outages \in Nat
  BY DEF IInv, Types, Coordinations, Gate, Orderly
<1>2. /\ Permission <=> Ready(coord.network, now)
      /\ Permission' <=> Ready(coord'.network, now')
      /\ OwnerNow = Owner(coord.lease, now)
      /\ OwnerNow' = Owner(coord'.lease, now')
  BY DEF Permission, OwnerNow
<1>3. \A c \in Conn : \A g \in sess'[c].fresh.network : g \in Nat /\ g <= coord.network.generation
  BY DEF Fits, Connection, Freshness
<1>4. \A r \in coord'.asked : r.generation \in Nat /\ r.generation <= coord.network.generation
  <2>1. \A r \in coord'.asked : r.generation \in Nat
    BY DEF Coordinations, Asks
  <2>2. \A r \in coord.asked : r.generation <= coord.network.generation
    BY DEF IInv, Lag
  <2> QED BY <1>1, <2>1, <2>2
<1>5. ASSUME Permission', NEW g \in Nat, g <= coord.network.generation,
             g = coord'.network.generation
      PROVE  g = coord.network.generation /\ Permission
  <2>1. coord'.network.generation = coord.network.generation
    BY <1>1, <1>5
  <2> QED BY <1>2, <1>5, <2>1 DEF Orderly
<1>6. Permission' => outages' = outages
  BY <1>1 DEF Presses, Outage
<1>7. ASSUME Permission', NEW c \in Conn, sess'[c].fresh.network = {coord'.network.generation}
      PROVE  sess'[c].fresh.network = {coord.network.generation} /\ Permission
  <2>1. coord'.network.generation <= coord.network.generation
    BY <1>3, <1>7
  <2> QED BY <1>1, <1>5, <1>7, <2>1
<1>8. Seen'
  <2>1. ASSUME Permission', NEW c \in Conn,
               sess'[c].fresh.network = {coord'.network.generation},
               NEW i \in DOMAIN sess'[c].fresh.tokens
        PROVE  sess'[c].fresh.tokens[i].seen = outages'
    BY <1>6, <1>7, <2>1 DEF Fits
  <2>2. ASSUME Permission', NEW r \in coord'.asked, r.generation = coord'.network.generation
        PROVE  r.seen = outages'
    <3>1. r.generation = coord.network.generation /\ Permission
      BY <1>4, <1>5, <2>2
    <3> QED BY <1>6, <2>2, <3>1 DEF IInv, Seen
  <2> QED BY <2>1, <2>2 DEF Seen
<1>9. Armed'
  <2> SUFFICES ASSUME NEW c \in Conn, Permission', HasControl(c)',
                      sess'[c].fresh.network = {coord'.network.generation},
                      now' < sess'[c].fresh.armed
               PROVE  c \in held'
    BY DEF Armed
  <2>1. sess'[c].fresh.network = {coord.network.generation} /\ Permission
    BY <1>7
  <2>2. sess'[c].id # 0 /\ \E token \in OwnerNow' : token.client = sess'[c].id
    BY DEF HasControl, Open
  <2>3. sess'[c].fresh.armed \in Nat
    BY DEF Fits, Connection, Freshness
  <2>4. now < sess'[c].fresh.armed /\ sess'[c].fresh.armed # 0
    BY <1>1, <2>3
  <2>5. OwnerNow' \subseteq OwnerNow
    <3> SUFFICES ASSUME NEW d \in Conn, sess'[d].fresh.armed = 0,
                        \A token \in OwnerNow' : token.client = sess'[d].id
                 PROVE  FALSE
      OBVIOUS
    <3>1. c = d
      BY <2>2
    <3> QED BY <2>4, <3>1
  <2>6. OwnerNow' = OwnerNow
    <3>1. \A x, y \in OwnerNow : x = y
      BY <1>1, <1>2, OwnerFacts
    <3> QED BY <2>2, <2>5, <3>1
  <2>7. c \in down \cup (held \ up)
    BY <2>1, <2>2, <2>4, <2>5 DEF Fits
  <2> QED BY <2>6, <2>7 DEF Presses, Outage
<1>10. \A c \in Conn : \A g \in sess'[c].fresh.network : g <= coord'.network.generation
  BY <1>1, <1>3
<1>11. \A r \in coord'.asked : r.generation <= coord'.network.generation
  BY <1>1, <1>4
<1> QED BY <1>8, <1>9, <1>10, <1>11
\* What every event away from the output owner has to show.
LEMMA EventKeepsIInv ==
  ASSUME IInv, coord' \in Coordinations(Envelopes, Asks), \A x, y \in coord'.box : x = y,
         Orderly(coord, coord', now, now'), \A t \in coord'.network.observed : t <= now',
         now' \in now .. MaxTime, UNCHANGED <<out, unrested, mover>>, call' = "other",
         nextId' \in Nat, sess' \in [Conn -> Connection],
         NEW down \in SUBSET Conn, NEW up, Presses(down, up),
         \A c \in Conn : /\ Fits(c, sess'[c], down \cup (held \ up))
                         /\ sess'[c].id <= nextId',
         \A c, d \in Conn : c # d /\ sess'[c].id # 0 => sess'[c].id # sess'[d].id,
         \A c \in Conn : HasControl(c) =>
           /\ sess'[c].id = sess[c].id \/ StopAwaits'
           /\ c \in up => StopAwaits' \/ ~Permission',
         \/ OwnerNow' \subseteq OwnerNow
         \/ \E c \in Conn : /\ sess'[c].fresh.armed = 0
                            /\ \A token \in OwnerNow' : token.client = sess'[c].id,
         \A r \in coord'.asked :
           r \in coord.asked \/ (r.generation = coord.network.generation /\ r.seen = outages),
         \A e \in Orders' : \/ e \in Orders
                            \/ /\ Wanted(e)' /\ coord'.network.observed # {}
                               /\ e.grant = GrantTokens(coord'.lease) /\ e.grant # {}
                               /\ e.until <= e.token.until,
         proven' \in 0 .. now',
         \A g \in coord'.lease.grant : g.until <= proven' + CommandMaxAge - 1 + OperatorLease
  PROVE  IInv'
<1>1. /\ now \in 0 .. MaxTime /\ now' \in 0 .. MaxTime /\ now <= now' /\ MaxTime \in Nat
      /\ out' = out /\ mover' = mover /\ unrested' = unrested
      /\ out.generation \in Nat /\ out.guard.lease \in Nat
      /\ coord.network.generation \in Nat /\ coord'.network.generation \in Nat
      /\ coord.network.generation <= coord'.network.generation
      /\ held \in SUBSET Conn /\ outages \in Nat
  BY ManualConfigIsValid DEF IInv, Types, Coordinations, Gate, Guard, Orderly
<1>2. OrphansAreStopped' /\ Pressed' /\ Quiet' /\ (\A e \in Admitteds : e.grant # {})'
  BY <1>1, StaysPressed
<1>3. /\ Seen' /\ Armed'
      /\ \A c \in Conn : \A g \in sess'[c].fresh.network : g <= coord'.network.generation
      /\ \A r \in coord'.asked : r.generation <= coord'.network.generation
  <2>1. now' \in Nat /\ now <= now'
    BY <1>1
  <2>2. \A c \in Conn : Fits(c, sess'[c], down \cup (held \ up))
    OBVIOUS
  <2> QED BY <2>1, <2>2, StaysArmed
<1>4. Types'
  <2>1. held' \in SUBSET Conn /\ outages' \in Nat
    BY <1>1 DEF Presses
  <2> QED BY <1>1, <2>1 DEF IInv, Types
<1>5. Shape'
  BY DEF Shape, Fits, Open
<1>6. Lag'
  BY <1>1, <1>3 DEF IInv, Lag
<1>7. Alive'
  <2> SUFFICES ASSUME NEW c \in Conn, NEW i \in DOMAIN sess'[c].beats
               PROVE  /\ \A p, q \in sess'[c].beats[i] : p = q
                      /\ \A p \in sess'[c].beats[i] :
                           CommandMaxAge <= p.until /\ p.until <= now' + CommandMaxAge
    BY DEF Alive
  <2>1. sess'[c].beats[i] \in SUBSET Beat
    BY DEF Connection
  <2>2. \A p \in sess'[c].beats[i] : p.until \in Nat
    BY <2>1 DEF Beat
  <2> QED BY <1>1, <2>2, SessionConfigIsValid DEF Fits
<1>8. Lifetimes'
  <2>1. \A e \in Orders' : e.until <= e.token.until
    BY DEF IInv, Lifetimes
  <2>2. out'.guard.lease <= now' + MovementLease
    BY <1>1, RelayConfigIsValid DEF IInv, Lifetimes
  <2>3. Leased(out'.guard) /\ \A e \in mover' : out'.guard.lease <= e.token.until
    BY <1>1 DEF IInv, Lifetimes
  <2> QED BY <1>2, <2>1, <2>2, <2>3 DEF Lifetimes
<1> QED
  BY <1>2, <1>3, <1>4, <1>5, <1>6, <1>7, <1>8 DEF IInv

-----------------------------------------------------------------------------
(* What the operations on the coordination show of that.                   *)

\* A withdrawal.
LEMMA SettlingEvent ==
  ASSUME IInv, coord' \in Coordinations(Envelopes, Asks), Settles(coord, coord', now),
         now' = now
  PROVE  /\ Orderly(coord, coord', now, now')
         /\ \A x, y \in coord'.box : x = y
         /\ \A t \in coord'.network.observed : t <= now'
         /\ \A e \in Orders' : e \in Orders
         /\ OwnerNow' \subseteq OwnerNow
         /\ coord'.asked = coord.asked
         /\ Proves(proven) =>
              /\ proven' \in 0 .. now'
              /\ \A g \in coord'.lease.grant :
                   g.until <= proven' + CommandMaxAge - 1 + OperatorLease
<1>1. coord \in Coordinations(Envelopes, Asks) /\ now \in Nat /\ coord.network \in Gate
      /\ proven \in 0 .. now
  BY ManualConfigIsValid DEF IInv, Types, Coordinations
<1>2. Orderly(coord, coord', now, now')
  BY <1>1, SettlesIsOrderly
<1>3. \A x, y \in coord'.box : x = y
  BY DEF Settles, IInv, Shape
<1>4. \A t \in coord'.network.observed : t <= now'
  <2>1. coord'.network.observed \subseteq coord.network.observed
    BY <1>1, NetworkFacts DEF Settles
  <2> QED BY <2>1 DEF IInv, Lag
<1>5. \A e \in Orders' : e \in Orders
  BY SubmittedFacts DEF Settles, Orders
<1>6. OwnerNow' \subseteq OwnerNow
  BY DEF OwnerNow, Owner, CurrentGrant, Settles
<1>7. ASSUME Proves(proven)
      PROVE  /\ proven' \in 0 .. now'
             /\ \A g \in coord'.lease.grant :
                  g.until <= proven' + CommandMaxAge - 1 + OperatorLease
  <2>1. proven' = proven
    BY <1>6, <1>7 DEF Proves
  <2>2. coord'.lease.grant \subseteq coord.lease.grant
    BY DEF Settles
  <2> QED BY <1>1, <2>1, <2>2 DEF IInv, Alive
<1> QED
  BY <1>2, <1>3, <1>4, <1>5, <1>6, <1>7 DEF Settles

\* A claim, for a connection that was just told to start from nothing.
LEMMA ClaimingEvent ==
  ASSUME IInv, coord' \in Coordinations(Envelopes, Asks), now' = now,
         NEW client \in Nat, Claims(coord, coord', client, now)
  PROVE  /\ Orderly(coord, coord', now, now')
         /\ \A x, y \in coord'.box : x = y
         /\ \A t \in coord'.network.observed : t <= now'
         /\ \A e \in Orders' : e \in Orders
         /\ \A token \in OwnerNow' : token.client = client
         /\ coord'.asked = coord.asked
         /\ Proves(proven) =>
              /\ proven' \in 0 .. now'
              /\ \A g \in coord'.lease.grant :
                   g.until <= proven' + CommandMaxAge - 1 + OperatorLease
<1>1. coord \in Coordinations(Envelopes, Asks) /\ now \in Nat
      /\ proven \in 0 .. now
  BY ManualConfigIsValid DEF IInv, Types
<1>2. Orderly(coord, coord', now, now')
  BY <1>1, GrantsAreOrderly DEF Coordinations, Claims, Orderly, Gate
<1>3. \A x, y \in coord'.box : x = y
  BY DEF Claims, IInv, Shape
<1>4. \A t \in coord'.network.observed : t <= now'
  BY DEF IInv, Lag, Claims
<1>5. \A e \in Orders' : e \in Orders
  BY SubmittedFacts DEF Claims, Orders
<1> DEFINE token == [client |-> client, generation |-> coord.lease.generation + 1]
           grant == [token |-> token, until |-> now + OperatorLease]
<1>6. coord'.lease.grant = {grant}
  BY DEF Claims
<1>7. \A x \in OwnerNow' : x.client = client
  BY <1>6 DEF OwnerNow, Owner, CurrentGrant
<1>8. OwnerNow = {} /\ OwnerNow' = {token}
  <2>1. now < grant.until
    BY <1>1, OperatorLeaseIsPositive
  <2>2. CurrentGrant(coord'.lease, now) = {grant}
    BY <1>6, <2>1 DEF CurrentGrant
  <2>3. OwnerNow' = {token}
    BY <2>2 DEF OwnerNow, Owner
  <2>4. OwnerNow = {}
    BY DEF OwnerNow, Owner, Claims
  <2> QED BY <2>3, <2>4
<1>9. ASSUME Proves(proven)
      PROVE  /\ proven' \in 0 .. now'
             /\ \A g \in coord'.lease.grant :
                  g.until <= proven' + CommandMaxAge - 1 + OperatorLease
  <2>1. proven' = now
    BY <1>8, <1>9 DEF Proves
  <2>2. grant.until = now + OperatorLease
    OBVIOUS
  <2> HIDE DEF grant
  <2> QED
    BY <1>1, <1>6, <2>1, <2>2, SessionConfigIsValid, OperatorLeaseIsPositive
<1> QED
  BY <1>2, <1>3, <1>4, <1>5, <1>7, <1>9 DEF Claims
-----------------------------------------------------------------------------
(* Connections.                                                            *)

\* The last Recent entries of a sequence are entries of it.
LEMMA LatestFacts ==
  ASSUME NEW S, NEW s \in Seq(S)
  PROVE  /\ Latest(s) \in Seq(S)
         /\ Len(Latest(s)) <= Recent
         /\ \A i \in DOMAIN Latest(s) : \E j \in DOMAIN s : Latest(s)[i] = s[j]
<1>1. Recent \in Nat /\ Len(s) \in Nat
  BY SessionConfigIsValid
<1>2. CASE Len(s) > Recent
  <2> DEFINE m == Len(s) - Recent + 1
  <2>1. m \in 1 .. Len(s) + 1 /\ Latest(s) = SubSeq(s, m, Len(s))
    BY <1>1, <1>2 DEF Latest
  <2>2. Latest(s) = [i \in 1 .. Len(s) - m + 1 |-> s[i + m - 1]]
    BY <1>1, <2>1
  <2>3. Len(s) - m + 1 = Recent
    BY <1>1
  <2>4. \A i \in 1 .. Recent : i + m - 1 \in 1 .. Len(s)
    BY <1>1, <1>2
  <2>5. Latest(s) = [i \in 1 .. Recent |-> s[i + m - 1]]
    BY <2>2, <2>3
  <2>6. \A i \in 1 .. Recent : s[i + m - 1] \in S
    BY <2>4
  <2> HIDE DEF m
  <2>7. Latest(s) \in Seq(S) /\ Len(Latest(s)) = Recent /\ DOMAIN Latest(s) = 1 .. Recent
    BY <1>1, <2>5, <2>6
  <2> QED BY <1>1, <2>4, <2>5, <2>7
<1>3. CASE ~(Len(s) > Recent)
  BY <1>1, <1>3 DEF Latest
<1> QED BY <1>2, <1>3

\* A rejected message leaves its connection with no token; disarming keeps them.
LEMMA RejectFreshFacts ==
  ASSUME NEW f \in Freshness
  PROVE  /\ Reject(f) \in Freshness
         /\ Reject(f).armed = 0 /\ Reject(f).tokens = <<>> /\ Reject(f).network = f.network
         /\ Disarm(f) \in Freshness
         /\ Disarm(f).armed = 0 /\ Disarm(f).tokens = f.tokens /\ Disarm(f).network = f.network
<1>1. Reject(f) = [tokens |-> <<>>, armed |-> 0, network |-> f.network]
  <2>1. f = [tokens |-> f.tokens, armed |-> f.armed, network |-> f.network]
    BY DEF Freshness
  <2> DEFINE none == <<>>
             g == [f EXCEPT !.armed = 0]
  <2>2. Reject(f) = [g EXCEPT !.tokens = none]
    BY DEF Reject
  <2>3. g = [tokens |-> f.tokens, armed |-> 0, network |-> f.network]
    BY <2>1
  <2> HIDE DEF none, g
  <2>4. [g EXCEPT !.tokens = none] = [tokens |-> none, armed |-> 0, network |-> f.network]
    BY <2>3
  <2> QED BY <2>2, <2>4 DEF none
<1>2. Disarm(f) = [tokens |-> f.tokens, armed |-> 0, network |-> f.network]
  BY DEF Disarm, Freshness
<1>3. <<>> \in Seq(Batch) /\ f.tokens \in Seq(Batch) /\ f.network \in SUBSET Nat
  BY DEF Freshness
<1> QED BY <1>1, <1>2, <1>3 DEF Freshness

\* Hearing of the network keeps tokens and hold only within a generation.
LEMMA HeardFacts ==
  ASSUME IInv, NEW c \in Conn
  PROVE  LET h == Heard(c)
             f == sess[c].fresh
         IN  /\ h \in Freshness /\ Len(h.tokens) <= Recent
             /\ h.network = IF Permission THEN {coord.network.generation} ELSE {}
             /\ \/ h.tokens = <<>> /\ h.armed = 0
                \/ /\ Permission /\ f.network = {coord.network.generation}
                   /\ h.tokens = f.tokens /\ h.armed = f.armed
<1> DEFINE h == Heard(c)
           f == sess[c].fresh
           net == IF Permission THEN {coord.network.generation} ELSE {}
<1>1. f \in Freshness /\ Len(f.tokens) <= Recent /\ net \in SUBSET Nat /\ Recent \in Nat
  BY SessionConfigIsValid DEF IInv, Types, Shape, Connection, Coordinations, Gate
<1>2. h = [(IF net = {} \/ net # f.network THEN Reject(f) ELSE f) EXCEPT !.network = net]
  BY DEF Heard, HearNetwork
<1> HIDE DEF f, h
<1>3. CASE net = {} \/ net # f.network
  <2>1. h = [Reject(f) EXCEPT !.network = net]
    BY <1>2, <1>3
  <2>2. h \in Freshness /\ h.network = net /\ h.tokens = <<>> /\ h.armed = 0
    BY <1>1, <2>1, RejectFreshFacts DEF Freshness
  <2>3. Len(h.tokens) <= Recent
    BY <1>1, <2>2
  <2> QED BY <2>2, <2>3 DEF h
<1>4. CASE net # {} /\ net = f.network
  <2>1. h = f
    BY <1>1, <1>2, <1>4 DEF Freshness
  <2> QED BY <1>1, <1>4, <2>1 DEF h, f
<1> QED BY <1>3, <1>4

\* A connection that no event concerns fits.
LEMMA BystanderFits ==
  ASSUME IInv, NEW c \in Conn, NEW presses, c \in held => c \in presses
  PROVE  Fits(c, sess[c], presses)
<1>1. /\ sess[c] \in Connection /\ Len(sess[c].fresh.tokens) <= Recent
      /\ \A g \in sess[c].fresh.network : g <= coord.network.generation
      /\ \A i \in DOMAIN sess[c].beats :
           /\ \A p, q \in sess[c].beats[i] : p = q
           /\ \A p \in sess[c].beats[i] :
                CommandMaxAge <= p.until /\ p.until <= now + CommandMaxAge
  BY DEF IInv, Types, Shape, Lag, Alive
<1>2. ASSUME Permission, sess[c].fresh.network = {coord.network.generation}
      PROVE  /\ \A i \in DOMAIN sess[c].fresh.tokens : sess[c].fresh.tokens[i].seen = outages
             /\ now < sess[c].fresh.armed /\ HasControl(c) => c \in presses
  BY <1>2 DEF IInv, Seen, Armed
<1> QED
  BY <1>1, <1>2 DEF Fits, HasControl, Open

\* A connection that hears of the network fits with what is left of its tokens
\* and its hold.
LEMMA FreshnessFits ==
  ASSUME IInv, NEW c \in Conn, NEW f \in Freshness, NEW s, NEW presses,
         s = [sess[c] EXCEPT !.fresh = f],
         Len(f.tokens) <= Recent, f.network \subseteq {coord.network.generation},
         Permission => \A i \in DOMAIN f.tokens : f.tokens[i].seen = outages,
         Permission /\ now < f.armed /\ HasControl(c) => c \in presses
  PROVE  Fits(c, s, presses) /\ s.id = sess[c].id /\ s.fresh = f
<1>1. sess[c] \in Connection /\ coord.network.generation \in Nat
  BY DEF IInv, Types, Coordinations, Gate
<1>2. s \in Connection /\ s.id = sess[c].id /\ s.fresh = f /\ s.beats = sess[c].beats
  BY <1>1 DEF Connection
<1>3. \A i \in DOMAIN s.beats :
        /\ \A p, q \in s.beats[i] : p = q
        /\ \A p \in s.beats[i] : CommandMaxAge <= p.until /\ p.until <= now + CommandMaxAge
  BY <1>2 DEF IInv, Alive
<1>4. \A g \in f.network : g <= coord.network.generation
  BY <1>1
<1> QED
  BY <1>2, <1>3, <1>4 DEF Fits, HasControl, Open

\* An event at one connection leaves the others as they are.
LEMMA SessionEvent ==
  ASSUME IInv, NEW c \in Conn, NEW s, sess' = [sess EXCEPT ![c] = s],
         s.id = sess[c].id,
         NEW down, NEW up \in SUBSET {c}, Fits(c, s, down \cup (held \ up))
  PROVE  /\ sess' \in [Conn -> Connection]
         /\ \A d \in Conn : /\ Fits(d, sess'[d], down \cup (held \ up))
                            /\ sess'[d].id = sess[d].id /\ sess'[d].id <= nextId
         /\ \A d, e \in Conn : d # e /\ sess'[d].id # 0 => sess'[d].id # sess'[e].id
         /\ sess'[c] = s
<1>1. /\ sess \in [Conn -> Connection] /\ s \in Connection
      /\ \A d \in Conn : sess[d].id <= nextId
      /\ \A d, e \in Conn : d # e /\ sess[d].id # 0 => sess[d].id # sess[e].id
  BY DEF IInv, Types, Shape, Open, Fits
<1>2. sess' \in [Conn -> Connection] /\ sess'[c] = s /\ \A d \in Conn \ {c} : sess'[d] = sess[d]
  BY <1>1
<1>3. \A d \in Conn \ {c} : Fits(d, sess[d], down \cup (held \ up))
  <2> SUFFICES ASSUME NEW d \in Conn \ {c}
               PROVE  Fits(d, sess[d], down \cup (held \ up))
    OBVIOUS
  <2> QED BY BystanderFits
<1>4. \A d \in Conn : sess'[d].id = sess[d].id
  BY <1>2
<1>5. \A d \in Conn : Fits(d, sess'[d], down \cup (held \ up))
  BY <1>2, <1>3
<1>6. \A d, e \in Conn : d # e /\ sess'[d].id # 0 => sess'[d].id # sess'[e].id
  BY <1>1, <1>4
<1> QED BY <1>1, <1>2, <1>4, <1>5, <1>6

\* The same for an event that leaves the heartbeats alone.
LEMMA FreshnessEvent ==
  ASSUME IInv, NEW c \in Conn, NEW f \in Freshness, Becomes(c, f),
         Len(f.tokens) <= Recent, f.network \subseteq {coord.network.generation},
         NEW down, NEW up \in SUBSET {c},
         Permission => \A i \in DOMAIN f.tokens : f.tokens[i].seen = outages,
         Permission /\ now < f.armed /\ HasControl(c) => c \in down \cup (held \ up)
  PROVE  /\ sess' \in [Conn -> Connection]
         /\ \A d \in Conn : /\ Fits(d, sess'[d], down \cup (held \ up))
                            /\ sess'[d].id = sess[d].id /\ sess'[d].id <= nextId
         /\ \A d, e \in Conn : d # e /\ sess'[d].id # 0 => sess'[d].id # sess'[e].id
         /\ sess'[c].fresh = f
<1> DEFINE s == [sess[c] EXCEPT !.fresh = f]
<1>1. sess' = [sess EXCEPT ![c] = s]
  BY DEF Becomes, IInv, Types
<1> HIDE DEF s
<1>2. Fits(c, s, down \cup (held \ up)) /\ s.id = sess[c].id /\ s.fresh = f
  BY FreshnessFits DEF s
<1> QED BY <1>1, <1>2, SessionEvent
\* An event that takes control or permission away, or nothing.
LEMMA SettlingStep ==
  ASSUME IInv, coord' \in Coordinations(Envelopes, Asks), Settles(coord, coord', now),
         UNCHANGED <<nextId, out, unrested, now>>,
         NEW down \in SUBSET Conn, NEW up, Elsewhere(down, up),
         sess' \in [Conn -> Connection],
         \A d \in Conn : /\ Fits(d, sess'[d], down \cup (held \ up))
                         /\ sess'[d].id = sess[d].id \/ StopAwaits' \/ ~HasControl(d)
                         /\ sess'[d].id <= nextId,
         \A d, e \in Conn : d # e /\ sess'[d].id # 0 => sess'[d].id # sess'[e].id,
         \A d \in Conn : d \in up /\ HasControl(d) => StopAwaits' \/ ~Permission'
  PROVE  IInv'
<1>1. /\ now \in 0 .. MaxTime /\ nextId \in Nat /\ nextId' = nextId /\ now' = now
      /\ Presses(down, up) /\ Proves(proven) /\ call' = "other"
      /\ UNCHANGED <<out, unrested, mover>>
  BY DEF IInv, Types, Elsewhere
<1>2. now' \in now .. MaxTime /\ nextId' \in Nat
  BY <1>1, ManualConfigIsValid
<1>3. /\ Orderly(coord, coord', now, now')
      /\ \A x, y \in coord'.box : x = y
      /\ \A t \in coord'.network.observed : t <= now'
      /\ \A e \in Orders' : e \in Orders
      /\ OwnerNow' \subseteq OwnerNow
      /\ coord'.asked = coord.asked
      /\ proven' \in 0 .. now'
      /\ \A g \in coord'.lease.grant :
           g.until <= proven' + CommandMaxAge - 1 + OperatorLease
  BY <1>1, SettlingEvent
<1>4. \A d \in Conn : /\ Fits(d, sess'[d], down \cup (held \ up))
                      /\ sess'[d].id <= nextId'
  BY <1>1
<1>5. \A d \in Conn : HasControl(d) =>
        /\ sess'[d].id = sess[d].id \/ StopAwaits'
        /\ d \in up => StopAwaits' \/ ~Permission'
  OBVIOUS
<1> QED BY <1>1, <1>2, <1>3, <1>4, <1>5, EventKeepsIInv

\* A claim for the connection c, which has no hold to follow.
LEMMA ClaimingStep ==
  ASSUME IInv, coord' \in Coordinations(Envelopes, Asks), NEW c \in Conn,
         Claims(coord, coord', sess'[c].id, now), sess'[c].fresh.armed = 0,
         UNCHANGED <<out, unrested, now>>, Watch, nextId' \in Nat,
         sess' \in [Conn -> Connection],
         \A d \in Conn : /\ Fits(d, sess'[d], {} \cup (held \ {}))
                         /\ sess'[d].id <= nextId',
         \A d, e \in Conn : d # e /\ sess'[d].id # 0 => sess'[d].id # sess'[e].id
  PROVE  IInv'
<1>1. /\ now \in 0 .. MaxTime /\ now' = now
      /\ Presses({}, {}) /\ Proves(proven) /\ call' = "other"
      /\ UNCHANGED <<out, unrested, mover>>
  BY DEF IInv, Types, Elsewhere, Watch
<1>2. now' \in now .. MaxTime /\ sess'[c].id \in Nat
  BY <1>1, ManualConfigIsValid DEF Connection
<1>3. /\ Orderly(coord, coord', now, now')
      /\ \A x, y \in coord'.box : x = y
      /\ \A t \in coord'.network.observed : t <= now'
      /\ \A e \in Orders' : e \in Orders
      /\ \A token \in OwnerNow' : token.client = sess'[c].id
      /\ coord'.asked = coord.asked
      /\ proven' \in 0 .. now'
      /\ \A g \in coord'.lease.grant :
           g.until <= proven' + CommandMaxAge - 1 + OperatorLease
  BY <1>1, <1>2, ClaimingEvent
<1>4. StopAwaits'
  BY DEF StopAwaits, StopIn, Claims
<1> QED BY <1>1, <1>2, <1>3, <1>4, EventKeepsIInv

\* Doing nothing is a withdrawal.
LEMMA NothingSettles ==
  ASSUME NEW E, NEW R, NEW d \in Coordinations(E, R), NEW t \in Nat
  PROVE  Settles(d, d, t)
  BY DEF Settles

\* TakeControl keeps the invariant.
LEMMA TakeControlStep ==
  ASSUME IInv, NEW c \in Conn, TakeControl(c)
  PROVE  IInv'
<1> DEFINE f == Reject(Heard(c))
<1>1. /\ coord \in Coordinations(Envelopes, Asks) /\ now \in Nat /\ sess[c].id \in Nat
      /\ Stop \in Envelopes /\ nextId \in Nat /\ Recent \in Nat
  BY ManualConfigIsValid, SessionConfigIsValid DEF IInv, Types, Envelopes, Connection
<1>2. /\ coord' \in Coordinations(Envelopes, Asks)
      /\ Settles(coord, coord', now) \/ Claims(coord, coord', sess[c].id, now)
  BY <1>1, TakenControlFacts DEF TakeControl
<1>3. /\ f \in Freshness /\ f.tokens = <<>> /\ f.armed = 0
      /\ f.network \subseteq {coord.network.generation}
  BY HeardFacts, RejectFreshFacts
<1> HIDE DEF f
<1>4. /\ Len(f.tokens) <= Recent /\ ~(now < f.armed) /\ DOMAIN f.tokens = {}
      /\ Becomes(c, f)
  BY <1>1, <1>3 DEF TakeControl, f
<1>5. /\ sess' \in [Conn -> Connection]
      /\ \A d \in Conn : /\ Fits(d, sess'[d], {} \cup (held \ {}))
                         /\ sess'[d].id = sess[d].id /\ sess'[d].id <= nextId
      /\ \A d, e \in Conn : d # e /\ sess'[d].id # 0 => sess'[d].id # sess'[e].id
      /\ sess'[c].fresh = f
  BY <1>3, <1>4, FreshnessEvent
<1>6. UNCHANGED <<nextId, out, unrested, now>> /\ Watch /\ Elsewhere({}, {})
  BY DEF TakeControl, Watch
<1>7. CASE Settles(coord, coord', now)
  BY <1>2, <1>5, <1>6, <1>7, SettlingStep
<1>8. CASE Claims(coord, coord', sess[c].id, now)
  BY <1>1, <1>2, <1>3, <1>5, <1>6, <1>8, ClaimingStep
<1> QED BY <1>2, <1>7, <1>8
\* So do Stop and every rejected input: if the owner's own, a stop waits, or
\* there is no permission.
LEMMA StoppingStep ==
  ASSUME IInv, NEW c \in Conn, Open(c), NEW f \in Freshness, Becomes(c, f),
         f.armed = 0, Len(f.tokens) <= Recent, f.network \subseteq {coord.network.generation},
         Permission => \A i \in DOMAIN f.tokens : f.tokens[i].seen = outages,
         coord' = AcceptedCommand(coord, sess[c].id, Stop, now),
         UNCHANGED <<nextId, out, unrested, now>>,
         NEW up \in SUBSET {c}, Elsewhere({}, up)
  PROVE  IInv'
<1>1. /\ coord \in Coordinations(Envelopes, Asks) /\ now \in Nat
      /\ Stop \in Envelopes /\ now' = now
  BY ManualConfigIsValid DEF IInv, Types, Envelopes
<1>2. /\ coord' \in Coordinations(Envelopes, Asks)
      /\ Settles(coord, coord', now) \/ Submits(coord, coord', sess[c].id, Stop, now)
      /\ Owns(coord, sess[c].id, now) => StopIn(coord'.box) \/ ~Ready(coord'.network, now)
  BY <1>1, AcceptedCommandFacts
<1>3. Settles(coord, coord', now)
  BY SubmittedFacts, <1>2 DEF Settles, Submits
<1>4. ~(now < f.armed)
  BY <1>1
<1>5. /\ sess' \in [Conn -> Connection]
      /\ \A d \in Conn : /\ Fits(d, sess'[d], {} \cup (held \ up))
                         /\ sess'[d].id = sess[d].id /\ sess'[d].id <= nextId
      /\ \A d, e \in Conn : d # e /\ sess'[d].id # 0 => sess'[d].id # sess'[e].id
  BY <1>4, FreshnessEvent, ZenonT(60)
<1>6. HasControl(c) => StopAwaits' \/ ~Permission'
  BY <1>1, <1>2 DEF HasControl, Owns, OwnerNow, StopAwaits, StopIn, Permission
<1> QED BY <1>2, <1>3, <1>5, <1>6, SettlingStep, ZenonT(60)

\* The tokens that Heard leaves a connection show the outages there have been.
LEMMA HeardSeen ==
  ASSUME IInv, NEW c \in Conn, Permission
  PROVE  \A i \in DOMAIN Heard(c).tokens : Heard(c).tokens[i].seen = outages
<1>1. CASE Heard(c).tokens = <<>>
  BY <1>1
<1>2. CASE Heard(c).tokens # <<>>
  BY <1>2, HeardFacts DEF IInv, Seen
<1> QED BY <1>1, <1>2

\* A stop that is heard keeps the invariant.
LEMMA StopMessageStep ==
  ASSUME IInv, NEW c \in Conn, StopMessage(c)
  PROVE  IInv'
<1> DEFINE f == Disarm(Heard(c))
<1>1. /\ f \in Freshness /\ f.armed = 0 /\ f.tokens = Heard(c).tokens
      /\ f.network \subseteq {coord.network.generation} /\ Len(f.tokens) <= Recent
  BY HeardFacts, RejectFreshFacts
<1> HIDE DEF f
<1>2. Permission => \A i \in DOMAIN f.tokens : f.tokens[i].seen = outages
  BY <1>1, HeardSeen
<1>3. /\ Open(c) /\ Becomes(c, f) /\ UNCHANGED <<nextId, out, unrested, now>>
      /\ coord' = AcceptedCommand(coord, sess[c].id, Stop, now) /\ Elsewhere({}, {c})
  BY DEF StopMessage, f
<1> QED BY <1>1, <1>2, <1>3, StoppingStep

\* So does a message that is rejected.
LEMMA RejectedStep ==
  ASSUME IInv, NEW c \in Conn, Rejected(c)
  PROVE  IInv'
<1> DEFINE f == Reject(Heard(c))
<1>1. /\ f \in Freshness /\ f.armed = 0 /\ f.tokens = <<>>
      /\ f.network \subseteq {coord.network.generation} /\ Recent \in Nat
  BY HeardFacts, RejectFreshFacts, SessionConfigIsValid
<1> HIDE DEF f
<1>2. DOMAIN f.tokens = {} /\ Len(f.tokens) <= Recent
  BY <1>1
<1>3. /\ Open(c) /\ Becomes(c, f) /\ UNCHANGED <<nextId, out, unrested, now>>
      /\ coord' = AcceptedCommand(coord, sess[c].id, Stop, now) /\ Elsewhere({}, {c})
  BY DEF Rejected, f
<1> QED BY <1>1, <1>2, <1>3, StoppingStep

\* Movement: what is admitted is wanted, and a hold follows a press.
LEMMA MovementStep ==
  ASSUME IInv, NEW c \in Conn, NEW drive \in Drives, NEW pressed \in BOOLEAN,
         NEW token \in Tokens(c), Movement(c, drive, pressed, token)
  PROVE  IInv'
<1> DEFINE h == Heard(c)
           f == Admitted(h, token, now)
           down == IF pressed THEN {c} ELSE {}
           up == {}
<1>0. PICK envelope :
        envelope = [command |-> [kind |-> "Jog", drive |-> drive],
                    until |-> Deadline(token, now),
                    conn |-> c, token |-> token, grant |-> OwnerNow]
  OBVIOUS
<1>1. /\ coord \in Coordinations(Envelopes, Asks) /\ now \in Nat /\ now \in 0 .. MaxTime
      /\ Stop \in Envelopes /\ nextId \in Nat /\ coord.lease \in Lease
      /\ sess[c] \in Connection
  BY ManualConfigIsValid DEF IInv, Types, Envelopes, Coordinations
<1>2. /\ h \in Freshness /\ Len(h.tokens) <= Recent
      /\ h.network \subseteq {coord.network.generation}
      /\ \/ h.tokens = <<>> /\ h.armed = 0
         \/ /\ Permission /\ sess[c].fresh.network = {coord.network.generation}
            /\ h.tokens = sess[c].fresh.tokens /\ h.armed = sess[c].fresh.armed
  BY HeardFacts
<1>3. /\ token \in Proofs(h, now) /\ (pressed \/ now < h.armed) /\ Open(c)
      /\ Becomes(c, f) /\ coord' = AcceptedCommand(coord, sess[c].id, envelope, now)
      /\ UNCHANGED <<nextId, out, unrested, now>> /\ Elsewhere(down, up)
  BY <1>0 DEF Movement, Admits
<1>16. down \in SUBSET Conn /\ up \in SUBSET {c} /\ (pressed => c \in down) /\ c \notin up
  OBVIOUS
<1> HIDE DEF h, down, up
<1>4. PICK i \in DOMAIN h.tokens : token = h.tokens[i]
  BY <1>3 DEF Proofs
<1>5. /\ Permission /\ sess[c].fresh.network = {coord.network.generation}
      /\ h.tokens = sess[c].fresh.tokens /\ h.armed = sess[c].fresh.armed
  BY <1>2, <1>4
<1>6. token \in Batch /\ token.seen = outages
  <2>1. h.tokens \in Seq(Batch)
    BY <1>2 DEF Freshness
  <2> QED BY <1>4, <1>5, <2>1, HeardSeen DEF h
<1>7. Deadline(token, now) \in Nat /\ Deadline(token, now) <= token.until
  BY <1>1, <1>6, RelayConfigIsValid DEF Deadline, Batch
<1>8. OwnerNow \in SUBSET Token
  BY <1>1, OwnerFacts DEF OwnerNow
<1>9. /\ envelope \in Admission /\ envelope.until <= envelope.token.until
      /\ envelope.conn = c /\ envelope.token = token /\ envelope.grant = OwnerNow
      /\ envelope.command.kind # "Inhibit"
  <2>1. [kind |-> "Jog", drive |-> drive] \in [kind : {"Jog"}, drive : Drives]
    OBVIOUS
  <2> QED BY <1>0, <1>6, <1>7, <1>8, <2>1 DEF Admission
<1>10. /\ f \in Freshness /\ f.tokens = h.tokens /\ f.network = h.network
  BY <1>2, <1>7 DEF Admitted, Freshness
<1> HIDE DEF f
<1>11. Permission /\ now < f.armed /\ HasControl(c) => c \in down \cup (held \ up)
  BY <1>3, <1>5, <1>16 DEF IInv, Armed
<1>12. /\ sess' \in [Conn -> Connection]
       /\ \A d \in Conn : /\ Fits(d, sess'[d], down \cup (held \ up))
                          /\ sess'[d].id = sess[d].id /\ sess'[d].id <= nextId
       /\ \A d, e \in Conn : d # e /\ sess'[d].id # 0 => sess'[d].id # sess'[e].id
  <2>1. \A j \in DOMAIN f.tokens : f.tokens[j].seen = outages
    BY <1>5, <1>10, HeardSeen DEF h
  <2>2. Len(f.tokens) <= Recent /\ f.network \subseteq {coord.network.generation}
    BY <1>2, <1>10
  <2>3. Becomes(c, f)
    BY <1>3
  <2>4. Permission => \A j \in DOMAIN f.tokens : f.tokens[j].seen = outages
    BY <2>1
  <2>5. f \in Freshness /\ up \in SUBSET {c}
    BY <1>10, <1>16
  <2> DEFINE s == [sess[c] EXCEPT !.fresh = f]
             presses == down \cup (held \ up)
  <2>6. sess' = [sess EXCEPT ![c] = s]
    BY <2>3 DEF Becomes, IInv, Types
  <2>7. s = [sess[c] EXCEPT !.fresh = f] /\ presses = down \cup (held \ up)
    OBVIOUS
  <2> HIDE DEF s, presses
  <2>8. Fits(c, s, presses) /\ s.id = sess[c].id
    BY <1>11, <2>2, <2>4, <2>5, <2>7, FreshnessFits
  <2> QED BY <2>5, <2>6, <2>7, <2>8, SessionEvent
<1>13. /\ coord' \in Coordinations(Envelopes, Asks)
       /\ \/ Settles(coord, coord', now)
          \/ Submits(coord, coord', sess[c].id, envelope, now)
  BY <1>1, <1>3, <1>9, AcceptedCommandFacts DEF Envelopes
<1>14. CASE Settles(coord, coord', now)
  <2> QED BY <1>3, <1>12, <1>13, <1>14, <1>16, SettlingStep, ZenonT(60)
<1>15. CASE Submits(coord, coord', sess[c].id, envelope, now)
  <2>1. Orderly(coord, coord', now, now)
    BY <1>1, <1>9, <1>13, <1>15, GrantsAreOrderly DEF Envelopes
  <2>2. /\ now' = now /\ now' \in now .. MaxTime
        /\ Presses(down, up) /\ Proves(proven) /\ call' = "other"
        /\ UNCHANGED <<out, unrested, mover>>
        /\ nextId' \in Nat /\ nextId' = nextId
    BY <1>1, <1>3, ManualConfigIsValid DEF Elsewhere
  <2>3. coord'.network = coord.network /\ coord'.lease = coord.lease
        /\ coord'.asked = coord.asked /\ coord'.box \in {coord.box, {envelope}}
    BY <1>15, SubmittedFacts DEF Submits
  <2>4. /\ \A x, y \in coord'.box : x = y
        /\ \A t \in coord'.network.observed : t <= now'
    BY <2>2, <2>3 DEF IInv, Shape, Lag
  <2>5. OwnerNow' = OwnerNow /\ Permission'
    BY <1>5, <2>2, <2>3 DEF OwnerNow, Permission
  <2>6. proven' \in 0 .. now' /\ \A g \in coord'.lease.grant :
            g.until <= proven' + CommandMaxAge - 1 + OperatorLease
    BY <2>2, <2>3, <2>5 DEF Proves, IInv, Types, Alive
  <2>7. HasControl(c) /\ OwnerNow # {} /\ IsCurrent(coord.lease, now)
    BY <1>1, <1>3, <1>15, OwnerFacts DEF Submits, Owns, HasControl, OwnerNow
  <2>8. Wanted(envelope)'
    <3>1. held' = down \cup (held \ up) /\ outages' = outages
      BY <1>1, <2>2, <2>5 DEF Presses, Outage, IInv, Types
    <3>2. c \in down \cup (held \ up)
      BY <1>3, <1>5, <1>16, <2>7 DEF IInv, Armed
    <3>3. HasControl(c)'
      BY <1>12, <2>5, <2>7 DEF HasControl, Open
    <3> QED BY <1>6, <1>9, <2>5, <3>1, <3>2, <3>3 DEF Wanted
  <2>9. \A e \in Orders' : \/ e \in Orders
                           \/ /\ Wanted(e)' /\ coord'.network.observed # {}
                              /\ e.grant = GrantTokens(coord'.lease) /\ e.grant # {}
                              /\ e.until <= e.token.until
    <3>1. GrantTokens(coord'.lease) = OwnerNow
      BY <1>1, <2>3, <2>7, OwnerFacts DEF OwnerNow
    <3>2. coord'.network.observed # {}
      BY <2>5 DEF Permission, Ready
    <3> QED BY <1>9, <2>3, <2>7, <2>8, <3>1, <3>2 DEF Orders
  <2>10. \A d \in Conn : /\ Fits(d, sess'[d], down \cup (held \ up))
                         /\ sess'[d].id <= nextId'
    BY <1>12, <2>2
  <2>11. \A d \in Conn : HasControl(d) =>
           /\ sess'[d].id = sess[d].id \/ StopAwaits'
           /\ d \in up => StopAwaits' \/ ~Permission'
    BY <1>12, <1>16
  <2>12. /\ sess' \in [Conn -> Connection]
         /\ \A d, e \in Conn : d # e /\ sess'[d].id # 0 => sess'[d].id # sess'[e].id
         /\ OwnerNow' \subseteq OwnerNow
         /\ \A r \in coord'.asked : r \in coord.asked
         /\ Orderly(coord, coord', now, now') /\ coord' \in Coordinations(Envelopes, Asks)
    BY <1>12, <1>13, <2>1, <2>2, <2>3, <2>5
  <2> QED
    BY ONLY IInv, <1>16, <2>2, <2>4, <2>6, <2>9, <2>10, <2>11, <2>12, EventKeepsIInv
<1> QED BY <1>13, <1>14, <1>15
\* AskOverride: a request stands for the telemetry that it answers.
LEMMA AskOverrideStep ==
  ASSUME IInv, NEW c \in Conn, NEW token \in Tokens(c), AskOverride(c, token)
  PROVE  IInv'
<1> DEFINE f == Reject(Heard(c))
           grants == {t \in OwnerNow : t.client = sess[c].id}
           proofs == {token} \cap Proofs(Heard(c), now)
           owner == CHOOSE t \in grants : TRUE
           up == {}
<1>1. /\ coord \in Coordinations(Envelopes, Asks) /\ now \in Nat /\ now \in 0 .. MaxTime
      /\ Stop \in Envelopes /\ nextId \in Nat /\ Recent \in Nat /\ coord.lease \in Lease
      /\ coord.network.generation \in Nat /\ outages \in Nat
  BY ManualConfigIsValid, SessionConfigIsValid
     DEF IInv, Types, Envelopes, Coordinations, Gate
<1>2. /\ f \in Freshness /\ f.tokens = <<>> /\ f.armed = 0
      /\ f.network \subseteq {coord.network.generation}
  BY HeardFacts, RejectFreshFacts
<1>3. /\ Becomes(c, f) /\ UNCHANGED <<nextId, out, unrested, now>> /\ Elsewhere({}, up)
      /\ coord' = IF grants = {} \/ proofs = {} THEN Advanced(coord, now)
                  ELSE RequestedOverride(coord, owner, token.until, AtRest, token.seen, now)
  BY DEF AskOverride, Watch
<1>4. up \in SUBSET {c} /\ \A d : d \notin up
  OBVIOUS
<1> HIDE DEF f, up
<1>5. Len(f.tokens) <= Recent /\ ~(now < f.armed) /\ DOMAIN f.tokens = {}
  BY <1>1, <1>2
<1>6. /\ sess' \in [Conn -> Connection]
      /\ \A d \in Conn : /\ Fits(d, sess'[d], {} \cup (held \ up))
                         /\ sess'[d].id = sess[d].id /\ sess'[d].id <= nextId
      /\ \A d, e \in Conn : d # e /\ sess'[d].id # 0 => sess'[d].id # sess'[e].id
  BY <1>2, <1>3, <1>4, <1>5, FreshnessEvent
<1>7. CASE grants = {} \/ proofs = {}
  <2>1. coord' \in Coordinations(Envelopes, Asks) /\ Settles(coord, coord', now)
    BY <1>1, <1>3, <1>7, AdvancedFacts
  <2> QED BY <1>3, <1>4, <1>6, <2>1, SettlingStep
<1>8. CASE grants # {} /\ proofs # {}
  <2>1. owner \in OwnerNow /\ OwnerNow \subseteq Token
    BY <1>1, <1>8, OwnerFacts DEF OwnerNow
  <2>2. PICK i \in DOMAIN Heard(c).tokens : token = Heard(c).tokens[i]
    BY <1>8 DEF Proofs
  <2>3. Permission /\ Heard(c).tokens \in Seq(Batch)
    BY <2>2, HeardFacts DEF Freshness
  <2>4. token \in Batch /\ token.seen = outages
    BY <2>2, <2>3, HeardSeen
  <2> HIDE DEF owner
  <2>5. [token |-> owner, until |-> token.until, generation |-> coord.network.generation,
         seen |-> token.seen] \in Asks
    BY <1>1, <2>1, <2>4 DEF Asks, Batch
  <2>6. coord' = RequestedOverride(coord, owner, token.until, AtRest, token.seen, now)
    BY <1>3, <1>8
  <2>7. /\ coord' \in Coordinations(Envelopes, Asks)
        /\ \/ Settles(coord, coord', now)
           \/ Requests(coord, coord', owner, token.until, token.seen, now)
    BY <1>1, <2>5, <2>6, RequestedOverrideFacts
  <2>8. CASE Settles(coord, coord', now)
    BY <1>3, <1>4, <1>6, <2>7, <2>8, SettlingStep
  <2>9. CASE Requests(coord, coord', owner, token.until, token.seen, now)
    <3>1. Orderly(coord, coord', now, now)
      BY <1>1, <2>7, <2>9, GrantsAreOrderly
    <3>2. /\ now' = now /\ now' \in now .. MaxTime
          /\ Presses({}, up) /\ Proves(proven) /\ call' = "other"
          /\ UNCHANGED <<out, unrested, mover>>
          /\ nextId' \in Nat /\ nextId' = nextId
      BY <1>1, <1>3, ManualConfigIsValid DEF Elsewhere
    <3>3. coord'.network = coord.network /\ coord'.lease = coord.lease
          /\ coord'.box \in {coord.box, {Stop}}
      BY <2>9, SubmittedFacts DEF Requests
    <3>4. /\ \A x, y \in coord'.box : x = y
          /\ \A t \in coord'.network.observed : t <= now'
          /\ \A e \in Orders' : e \in Orders
      BY <3>2, <3>3, SubmittedFacts DEF IInv, Shape, Lag, Orders
    <3>5. OwnerNow' = OwnerNow
      BY <3>2, <3>3 DEF OwnerNow
    <3>6. proven' \in 0 .. now' /\ \A g \in coord'.lease.grant :
              g.until <= proven' + CommandMaxAge - 1 + OperatorLease
      BY <3>2, <3>3, <3>5 DEF Proves, IInv, Types, Alive
    <3>7. \A r \in coord'.asked :
            r.generation = coord.network.generation /\ r.seen = outages
      BY <2>4, <2>9 DEF Requests
    <3>8. \A d \in Conn : HasControl(d) =>
            /\ sess'[d].id = sess[d].id \/ StopAwaits'
            /\ d \in up => StopAwaits' \/ ~Permission'
      BY <1>4, <1>6
    <3>9. \A d \in Conn : /\ Fits(d, sess'[d], {} \cup (held \ up))
                          /\ sess'[d].id <= nextId'
      BY <1>6, <3>2
    <3>10. /\ Orderly(coord, coord', now, now') /\ OwnerNow' \subseteq OwnerNow
      BY <3>1, <3>2, <3>5
    <3> QED
      BY ONLY IInv, <1>6, <2>7, <3>2, <3>4, <3>6, <3>7, <3>8, <3>9, <3>10, EventKeepsIInv
  <2> QED BY <2>7, <2>8, <2>9
<1> QED BY <1>7, <1>8

\* Two fields of a connection, replaced together.
Replaced(q, c, f, b) == [q EXCEPT ![c].fresh = f, ![c].beats = b]

\* That is a new connection under the old identity.
LEMMA ReplacedFacts ==
  ASSUME NEW q \in [Conn -> Connection], NEW c \in Conn, NEW f, NEW b
  PROVE  Replaced(q, c, f, b)
           = [q EXCEPT ![c] = [id |-> q[c].id, fresh |-> f, beats |-> b]]
<1> DEFINE r == [q[c] EXCEPT !.fresh = f]
           s == [id |-> q[c].id, fresh |-> f, beats |-> b]
           y == [q EXCEPT ![c].fresh = f]
           x == [y EXCEPT ![c].beats = b]
           z == Replaced(q, c, f, b)
<1>1. q[c] = [id |-> q[c].id, fresh |-> q[c].fresh, beats |-> q[c].beats]
  BY DEF Connection
<1>2. r = [id |-> q[c].id, fresh |-> f, beats |-> q[c].beats]
  BY <1>1
<1>3. y = [d \in Conn |-> IF d = c THEN r ELSE q[d]]
  BY DEF Connection
<1> HIDE DEF y, r
<1>4. y = [d \in Conn |-> IF d = c THEN [id |-> q[c].id, fresh |-> f, beats |-> q[c].beats]
                           ELSE q[d]]
  BY <1>2, <1>3
<1>5. x = [d \in Conn |-> IF d = c THEN s ELSE q[d]]
  BY <1>1, <1>4
<1>6. z = x
  BY DEF y, Replaced
<1>7. [q EXCEPT ![c] = s] = [d \in Conn |-> IF d = c THEN s ELSE q[d]]
  OBVIOUS
<1> QED BY <1>5, <1>6, <1>7

\* Telemetry: a token shows the outages there have been when it is issued.
LEMMA TelemetryStep ==
  ASSUME IInv, NEW c \in Conn, Telemetry(c)
  PROVE  IInv'
<1> DEFINE grants == {token \in OwnerNow : token.client = sess[c].id}
           h == Heard(c)
           f == Issue(h, now, outages)
           beats == sess[c].beats
           b == IF grants = {} THEN beats ELSE Ping(beats, CHOOSE token \in grants : TRUE, now)
           s == [id |-> sess[c].id, fresh |-> f, beats |-> b]
           up == {}
<1>1. /\ coord \in Coordinations(Envelopes, Asks) /\ now \in Nat /\ coord.lease \in Lease
      /\ coord.network.generation \in Nat /\ outages \in Nat
      /\ sess \in [Conn -> Connection] /\ CommandMaxAge \in Nat
  BY ManualConfigIsValid, SessionConfigIsValid DEF IInv, Types, Coordinations, Gate
<1>2. /\ sess[c] = [id |-> sess[c].id, fresh |-> sess[c].fresh, beats |-> sess[c].beats]
      /\ sess[c].id \in Nat /\ beats \in Seq(SUBSET Beat)
  BY <1>1 DEF Connection
<1>3. sess' = [sess EXCEPT ![c] = s]
  <2>1. sess' = [sess EXCEPT ![c].fresh = f, ![c].beats = b]
    BY DEF Telemetry
  <2> HIDE DEF f, b
  <2>2. sess' = Replaced(sess, c, f, b)
    BY <2>1 DEF Replaced
  <2> QED BY <1>1, <2>2, ReplacedFacts
<1>4. /\ f \in Freshness /\ Len(f.tokens) <= Recent /\ f.network = h.network
      /\ f.armed = h.armed
      /\ Permission => \A i \in DOMAIN f.tokens : f.tokens[i].seen = outages
  <2> DEFINE t == [until |-> now + CommandMaxAge, seen |-> outages]
             q == Append(h.tokens, t)
  <2>1. t \in Batch /\ h \in Freshness /\ h.tokens \in Seq(Batch)
    BY <1>1, HeardFacts DEF Batch, Freshness
  <2>2. q \in Seq(Batch)
    BY <2>1
  <2>3. Permission => \A i \in DOMAIN q : q[i].seen = outages
    <3> SUFFICES ASSUME Permission, NEW i \in DOMAIN q PROVE q[i].seen = outages
      OBVIOUS
    <3>1. \A j \in DOMAIN h.tokens : h.tokens[j].seen = outages
      BY HeardSeen
    <3>2. i \in 1 .. Len(h.tokens) + 1 /\ t.seen = outages
      BY <2>1
    <3> HIDE DEF h, t
    <3>3. q[i] = IF i = Len(h.tokens) + 1 THEN t ELSE h.tokens[i]
      BY <2>1, <3>2
    <3> QED BY <2>1, <3>1, <3>2, <3>3
  <2>4. f = [h EXCEPT !.tokens = Latest(q)]
    BY DEF Issue
  <2> HIDE DEF q, h, t
  <2>5. /\ Latest(q) \in Seq(Batch) /\ Len(Latest(q)) <= Recent
        /\ \A i \in DOMAIN Latest(q) : \E j \in DOMAIN q : Latest(q)[i] = q[j]
    BY <2>2, LatestFacts
  <2>6. f \in Freshness /\ f.tokens = Latest(q) /\ f.network = h.network /\ f.armed = h.armed
    BY <2>1, <2>4, <2>5 DEF Freshness
  <2> HIDE DEF f
  <2> QED BY <2>3, <2>5, <2>6
<1>5. /\ b \in Seq(SUBSET Beat)
      /\ \A i \in DOMAIN b :
           /\ \A p, q \in b[i] : p = q
           /\ \A p \in b[i] : CommandMaxAge <= p.until /\ p.until <= now + CommandMaxAge
  <2>1. \A i \in DOMAIN beats :
          /\ \A p, q \in beats[i] : p = q
          /\ \A p \in beats[i] : CommandMaxAge <= p.until /\ p.until <= now + CommandMaxAge
    BY DEF IInv, Alive
  <2>2. CASE grants = {}
    BY <1>2, <2>1, <2>2
  <2>3. CASE grants # {}
    <3> DEFINE owner == CHOOSE token \in grants : TRUE
               p0 == [until |-> now + CommandMaxAge, token |-> owner]
               q == Append(beats, {p0})
    <3>1. owner \in Token
      BY <1>1, <2>3, OwnerFacts DEF OwnerNow
    <3> HIDE DEF owner
    <3>2. p0 \in Beat /\ p0.until = now + CommandMaxAge
      BY <1>1, <3>1 DEF Beat
    <3>3. b = Latest(q)
      BY <2>3 DEF Ping, owner
    <3> HIDE DEF p0, beats, b
    <3>4. q \in Seq(SUBSET Beat)
      BY <1>2, <3>2
    <3>5. \A i \in DOMAIN q : /\ \A x, y \in q[i] : x = y
                              /\ \A x \in q[i] : /\ CommandMaxAge <= x.until
                                                 /\ x.until <= now + CommandMaxAge
      <4> SUFFICES ASSUME NEW i \in DOMAIN q
                   PROVE  /\ \A x, y \in q[i] : x = y
                          /\ \A x \in q[i] : /\ CommandMaxAge <= x.until
                                             /\ x.until <= now + CommandMaxAge
        OBVIOUS
      <4>1. i \in 1 .. Len(beats) + 1
        BY <1>2, <3>2
      <4>2. q[i] = IF i = Len(beats) + 1 THEN {p0} ELSE beats[i]
        BY <1>2, <3>2, <4>1
      <4> QED BY <1>1, <1>2, <2>1, <3>2, <4>1, <4>2
    <3> HIDE DEF q
    <3> QED BY <3>3, <3>4, <3>5, LatestFacts
  <2> QED BY <2>2, <2>3
<1>6. /\ h.network \subseteq {coord.network.generation}
      /\ Permission /\ now < h.armed /\ HasControl(c) => c \in held
  BY <1>1, HeardFacts DEF IInv, Armed
<1>7. up \in SUBSET {c} /\ (\A d : d \notin up) /\ {} \cup (held \ up) = held
  OBVIOUS
<1> HIDE DEF up, f, b, h
<1>8. s \in Connection /\ s.id = sess[c].id /\ s.fresh = f /\ s.beats = b
  BY <1>2, <1>4, <1>5 DEF Connection
<1> HIDE DEF s
<1>9. Fits(c, s, {} \cup (held \ up))
  BY <1>1, <1>4, <1>5, <1>6, <1>7, <1>8 DEF Fits, HasControl, Open
<1>10. /\ sess' \in [Conn -> Connection]
       /\ \A d \in Conn : /\ Fits(d, sess'[d], {} \cup (held \ up))
                          /\ sess'[d].id = sess[d].id /\ sess'[d].id <= nextId
       /\ \A d, e \in Conn : d # e /\ sess'[d].id # 0 => sess'[d].id # sess'[e].id
  BY <1>3, <1>7, <1>8, <1>9, SessionEvent
<1>11. /\ coord' \in Coordinations(Envelopes, Asks) /\ Settles(coord, coord', now)
       /\ UNCHANGED <<nextId, out, unrested, now>> /\ Elsewhere({}, up)
  BY <1>1, NothingSettles DEF Telemetry, Watch, up
<1> QED BY <1>7, <1>10, <1>11, SettlingStep

\* Pong: a grant is renewed for no longer than the ping it answers was young.
LEMMA PongStep ==
  ASSUME IInv, NEW c \in Conn, NEW i \in DOMAIN sess[c].beats, Pong(c, i)
  PROVE  IInv'
<1> DEFINE h == Heard(c)
           beats == sess[c].beats
           b == Answered(beats, i)
           s == [id |-> sess[c].id, fresh |-> h, beats |-> b]
           tokens == Acknowledged(beats, i, now)
           sent == {p.until - CommandMaxAge : p \in beats[i]}
           token == CHOOSE t \in tokens : TRUE
           up == {}
<1>1. /\ coord \in Coordinations(Envelopes, Asks) /\ now \in Nat /\ now \in 0 .. MaxTime
      /\ coord.lease \in Lease /\ coord.network.generation \in Nat /\ nextId \in Nat
      /\ sess \in [Conn -> Connection] /\ CommandMaxAge \in Nat /\ OperatorLease \in Nat
      /\ Stop \in Envelopes /\ proven \in 0 .. now
  BY ManualConfigIsValid, SessionConfigIsValid, OperatorLeaseIsPositive
     DEF IInv, Types, Coordinations, Gate, Envelopes
<1>2. /\ sess[c] = [id |-> sess[c].id, fresh |-> sess[c].fresh, beats |-> sess[c].beats]
      /\ sess[c].id \in Nat /\ beats \in Seq(SUBSET Beat)
  BY <1>1 DEF Connection
<1>3. sess' = [sess EXCEPT ![c] = s]
  <2>1. sess' = [sess EXCEPT ![c].fresh = h, ![c].beats = Answered(@, i)]
    BY DEF Pong
  <2> HIDE DEF h
  <2>2. sess' = Replaced(sess, c, h, b)
    BY <1>1, <2>1 DEF Replaced
  <2> HIDE DEF b
  <2> QED BY <1>1, <2>2, ReplacedFacts
<1>4. \A j \in DOMAIN beats :
        /\ \A p, q \in beats[j] : p = q
        /\ \A p \in beats[j] : CommandMaxAge <= p.until /\ p.until <= now + CommandMaxAge
  BY DEF IInv, Alive
<1>5. /\ b \in Seq(SUBSET Beat)
      /\ \A j \in DOMAIN b :
           /\ \A p, q \in b[j] : p = q
           /\ \A p \in b[j] : CommandMaxAge <= p.until /\ p.until <= now + CommandMaxAge
  <2>1. b \in Seq(SUBSET Beat) /\ DOMAIN b = DOMAIN beats
        /\ \A j \in DOMAIN b : b[j] = IF j = i THEN {} ELSE beats[j]
    <3> HIDE DEF beats
    <3> QED BY <1>2 DEF Answered, beats
  <2> HIDE DEF b, beats
  <2> QED BY <1>4, <2>1
<1>6. /\ h \in Freshness /\ Len(h.tokens) <= Recent
      /\ h.network \subseteq {coord.network.generation}
      /\ Permission /\ now < h.armed /\ HasControl(c) => c \in held
      /\ Permission => \A j \in DOMAIN h.tokens : h.tokens[j].seen = outages
  BY <1>1, HeardFacts, HeardSeen DEF IInv, Armed
<1>7. up \in SUBSET {c} /\ (\A d : d \notin up) /\ {} \cup (held \ up) = held
  OBVIOUS
<1>8. /\ coord' = IF tokens = {} THEN coord ELSE RenewedOperator(coord, token, now)
      /\ UNCHANGED <<nextId, out, unrested, now, mover>>
      /\ Presses({}, up) /\ call' = "other"
      /\ Proves(IF coord'.lease # coord.lease /\ OwnerNow' # {}
                  THEN CHOOSE t \in sent : TRUE ELSE proven)
  BY DEF Pong
<1> HIDE DEF up, h, b
<1>9. s \in Connection /\ s.id = sess[c].id /\ s.fresh = h /\ s.beats = b
  BY <1>2, <1>5, <1>6 DEF Connection
<1> HIDE DEF s
<1>10. Fits(c, s, {} \cup (held \ up))
  BY <1>1, <1>5, <1>6, <1>7, <1>9 DEF Fits, HasControl, Open
<1>11. /\ sess' \in [Conn -> Connection]
       /\ \A d \in Conn : /\ Fits(d, sess'[d], {} \cup (held \ up))
                          /\ sess'[d].id = sess[d].id /\ sess'[d].id <= nextId
       /\ \A d, e \in Conn : d # e /\ sess'[d].id # 0 => sess'[d].id # sess'[e].id
  BY <1>3, <1>7, <1>9, <1>10, SessionEvent
<1>12. /\ coord' \in Coordinations(Envelopes, Asks)
       /\ \/ Settles(coord, coord', now)
          \/ tokens # {} /\ Renews(coord, coord', token, now)
  <2>1. CASE tokens = {}
    BY <1>1, <1>8, <2>1, NothingSettles
  <2>2. CASE tokens # {}
    <3> HIDE DEF token
    <3> QED BY <1>1, <1>8, <2>2, RenewedOperatorFacts
  <2> QED BY <2>1, <2>2
<1>13. CASE Settles(coord, coord', now)
  <2>1. coord'.lease = coord.lease \/ coord'.lease.grant = {}
    <3>1. coord'.lease \in Lease /\ coord'.lease.generation = coord.lease.generation
          /\ coord'.lease.grant \subseteq coord.lease.grant
      BY <1>12, <1>13 DEF Coordinations, Settles
    <3>2. coord'.lease.grant = coord.lease.grant \/ coord'.lease.grant = {}
      <4>1. \A x, y \in coord.lease.grant : x = y
        BY <1>1 DEF Lease
      <4> QED BY <3>1, <4>1
    <3> QED BY <1>1, <3>1, <3>2 DEF Lease
  <2>2. coord'.lease = coord.lease \/ OwnerNow' = {}
    BY <2>1 DEF OwnerNow, Owner, CurrentGrant
  <2>3. Elsewhere({}, up)
    BY <1>8, <2>2 DEF Elsewhere
  <2>4. UNCHANGED <<nextId, out, unrested, now>>
    BY <1>8
  <2> QED BY <1>7, <1>11, <1>12, <1>13, <2>3, <2>4, SettlingStep
<1>14. CASE tokens # {} /\ Renews(coord, coord', token, now)
  <2>1. PICK p \in beats[i] : now < p.until
    BY <1>14 DEF Acknowledged
  <2>2. p.until \in Nat /\ CommandMaxAge <= p.until /\ p.until <= now + CommandMaxAge
        /\ sent = {p.until - CommandMaxAge}
    <3>1. beats[i] \in SUBSET Beat
      BY <1>2
    <3> QED BY <1>4, <2>1, <3>1 DEF Beat
  <2> HIDE DEF token, sent, tokens
  <2>3. Orderly(coord, coord', now, now)
    BY <1>1, <1>12, <1>14, GrantsAreOrderly
  <2>4. /\ now' = now /\ now' \in now .. MaxTime
        /\ UNCHANGED <<out, unrested, mover>>
        /\ nextId' \in Nat /\ nextId' = nextId
    BY <1>1, <1>8, ManualConfigIsValid
  <2>5. /\ coord'.network = coord.network /\ coord'.box = coord.box
        /\ coord'.asked = coord.asked
        /\ coord'.lease.grant = {[token |-> token, until |-> now + OperatorLease]}
    BY <1>14 DEF Renews
  <2>6. OwnerNow' = {token} /\ OwnerNow = {token}
    <3>1. token \in OwnerNow
      BY <1>14 DEF Renews, OwnerNow
    <3>2. OwnerNow = {token}
      BY <1>1, <3>1, OwnerFacts DEF OwnerNow
    <3>3. CurrentGrant(coord'.lease, now) = coord'.lease.grant
      BY <1>1, <2>5, OperatorLeaseIsPositive DEF CurrentGrant
    <3>4. OwnerNow' = {token}
      BY <2>4, <2>5, <3>3 DEF OwnerNow, Owner
    <3> QED BY <3>2, <3>4
  <2>7. proven' = IF coord'.lease # coord.lease THEN CHOOSE t \in sent : TRUE ELSE proven
    BY <1>8, <2>6 DEF Proves
  <2>8. proven' \in 0 .. now' /\ \A g \in coord'.lease.grant :
            g.until <= proven' + CommandMaxAge - 1 + OperatorLease
    <3>1. CASE coord'.lease = coord.lease
      <4>1. proven' = proven
        BY <2>7, <3>1
      <4> QED BY <1>1, <2>4, <3>1, <4>1 DEF IInv, Alive
    <3>2. CASE coord'.lease # coord.lease
      <4>1. proven' = p.until - CommandMaxAge
        BY <2>2, <2>7, <3>2
      <4>2. \A g \in coord'.lease.grant : g.until = now + OperatorLease
        BY <2>5
      <4> QED BY <1>1, <2>1, <2>2, <2>4, <4>1, <4>2
    <3> QED BY <3>1, <3>2
  <2>9. /\ \A x, y \in coord'.box : x = y
        /\ \A t \in coord'.network.observed : t <= now'
        /\ \A e \in Orders' : e \in Orders
    BY <2>4, <2>5 DEF IInv, Shape, Lag, Orders
  <2>10. \A d \in Conn : /\ Fits(d, sess'[d], {} \cup (held \ up))
                         /\ sess'[d].id <= nextId'
    BY <1>11, <2>4
  <2>11. \A d \in Conn : HasControl(d) =>
           /\ sess'[d].id = sess[d].id \/ StopAwaits'
           /\ d \in up => StopAwaits' \/ ~Permission'
    BY <1>7, <1>11
  <2>12. /\ OwnerNow' \subseteq OwnerNow /\ \A r \in coord'.asked : r \in coord.asked
         /\ Orderly(coord, coord', now, now') /\ Presses({}, up) /\ call' = "other"
    BY <1>8, <2>3, <2>4, <2>5, <2>6
  <2> QED
    BY ONLY IInv, <1>11, <1>12, <2>4, <2>8, <2>9, <2>10, <2>11, <2>12, EventKeepsIInv
<1> QED BY <1>12, <1>13, <1>14

\* A connection that opens under a new identity, or closes.
LEMMA EndpointEvent ==
  ASSUME IInv, NEW c \in Conn, NEW id \in Nat, id = 0 \/ id = nextId + 1,
         NEW up \in SUBSET {c}, sess' = [sess EXCEPT ![c] = [Closed EXCEPT !.id = id]]
  PROVE  /\ sess' \in [Conn -> Connection]
         /\ \A d \in Conn : /\ Fits(d, sess'[d], {} \cup (held \ up))
                            /\ d = c \/ sess'[d].id = sess[d].id
                            /\ sess'[d].id <= nextId \/ sess'[d].id = id
         /\ \A d, e \in Conn : d # e /\ sess'[d].id # 0 => sess'[d].id # sess'[e].id
         /\ sess'[c].id = id /\ sess'[c].fresh.armed = 0
<1> DEFINE s == [Closed EXCEPT !.id = id]
<1>1. /\ sess \in [Conn -> Connection] /\ nextId \in Nat
      /\ \A d \in Conn : sess[d].id <= nextId /\ sess[d].id \in Nat
      /\ \A d, e \in Conn : d # e /\ sess[d].id # 0 => sess[d].id # sess[e].id
  BY DEF IInv, Types, Shape, Open, Connection
<1>2. s = [id |-> id, fresh |-> NewFreshness, beats |-> NewHeartbeat]
  BY DEF Closed
<1>3. sess' = [sess EXCEPT ![c] = s]
  OBVIOUS
<1> HIDE DEF s
<1>4. /\ NewFreshness \in Freshness /\ NewFreshness.armed = 0
      /\ NewFreshness.network = {} /\ Len(NewFreshness.tokens) = 0
  <2>1. <<>> \in Seq(Batch) /\ Len(<<>>) = 0
    OBVIOUS
  <2> QED BY <2>1 DEF NewFreshness, Freshness
<1>5. NewHeartbeat \in Seq(SUBSET Beat) /\ DOMAIN NewHeartbeat = {}
  BY DEF NewHeartbeat
<1>6. s \in Connection /\ s.id = id /\ s.fresh = NewFreshness /\ s.beats = NewHeartbeat
  BY <1>2, <1>4, <1>5 DEF Connection
<1>7. Fits(c, s, {} \cup (held \ up))
  <2>1. now \in Nat /\ ~(now < 0) /\ Recent \in Nat /\ DOMAIN NewFreshness.tokens = {}
    BY ManualConfigIsValid, SessionConfigIsValid DEF IInv, Types, NewFreshness
  <2>2. Len(s.fresh.tokens) <= Recent
    BY <1>4, <1>6, <2>1
  <2>3. \A i \in DOMAIN s.beats : FALSE
    BY <1>5, <1>6
  <2> QED BY <1>4, <1>6, <2>1, <2>2, <2>3 DEF Fits
<1>8. sess' \in [Conn -> Connection] /\ sess'[c] = s /\ \A d \in Conn \ {c} : sess'[d] = sess[d]
  BY <1>1, <1>3, <1>6
<1>9. \A d \in Conn \ {c} : Fits(d, sess[d], {} \cup (held \ up))
  <2> SUFFICES ASSUME NEW d \in Conn \ {c}
               PROVE  Fits(d, sess[d], {} \cup (held \ up))
    OBVIOUS
  <2> QED BY BystanderFits
<1>10. \A d \in Conn : Fits(d, sess'[d], {} \cup (held \ up))
  BY <1>7, <1>8, <1>9
<1>11. \A d, e \in Conn : d # e /\ sess'[d].id # 0 => sess'[d].id # sess'[e].id
  BY <1>1, <1>6, <1>8
<1> QED BY <1>1, <1>4, <1>6, <1>8, <1>10, <1>11

\* Connect: a new connection starts from nothing, whatever it finds.
LEMMA ConnectStep ==
  ASSUME IInv, NEW c \in Conn, Connect(c)
  PROVE  IInv'
<1> DEFINE up == {}
<1>1. /\ coord \in Coordinations(Envelopes, Asks) /\ now \in Nat /\ now \in 0 .. MaxTime
      /\ Stop \in Envelopes /\ nextId \in Nat
  BY ManualConfigIsValid DEF IInv, Types, Envelopes
<1>2. /\ ~Open(c) /\ nextId' = nextId + 1 /\ UNCHANGED <<out, unrested, now>> /\ Watch
      /\ Elsewhere({}, up) /\ coord' = TakenControl(coord, nextId', now)
      /\ sess' = [sess EXCEPT ![c] = [Closed EXCEPT !.id = nextId']]
  BY DEF Connect, Watch
<1>3. nextId' \in Nat /\ up \in SUBSET {c} /\ (\A d : d \notin up)
  BY <1>1, <1>2
<1>4. held \ {} = held \ up
  OBVIOUS
<1> HIDE DEF up
<1>5. /\ sess' \in [Conn -> Connection]
      /\ \A d \in Conn : /\ Fits(d, sess'[d], {} \cup (held \ up))
                         /\ d = c \/ sess'[d].id = sess[d].id
                         /\ sess'[d].id <= nextId \/ sess'[d].id = nextId'
      /\ \A d, e \in Conn : d # e /\ sess'[d].id # 0 => sess'[d].id # sess'[e].id
      /\ sess'[c].id = nextId' /\ sess'[c].fresh.armed = 0
  <2> DEFINE id == nextId'
  <2>1. /\ id \in Nat /\ (id = 0 \/ id = nextId + 1)
        /\ sess' = [sess EXCEPT ![c] = [Closed EXCEPT !.id = id]]
    BY <1>2, <1>3
  <2> HIDE DEF id
  <2>2. /\ sess' \in [Conn -> Connection]
        /\ \A d \in Conn : /\ Fits(d, sess'[d], {} \cup (held \ up))
                           /\ d = c \/ sess'[d].id = sess[d].id
                           /\ sess'[d].id <= nextId \/ sess'[d].id = id
        /\ \A d, e \in Conn : d # e /\ sess'[d].id # 0 => sess'[d].id # sess'[e].id
        /\ sess'[c].id = id /\ sess'[c].fresh.armed = 0
    BY <1>3, <2>1, EndpointEvent
  <2> QED BY <2>2 DEF id
<1>6. \A d \in Conn : Fits(d, sess'[d], {} \cup (held \ up)) /\ sess'[d].id <= nextId'
  <2> SUFFICES ASSUME NEW d \in Conn PROVE sess'[d].id <= nextId'
    BY <1>5
  <2>1. sess'[d].id \in Nat
    BY <1>5 DEF Connection
  <2>2. sess'[d].id <= nextId \/ sess'[d].id = nextId'
    BY <1>5
  <2> QED BY <1>1, <1>2, <2>1, <2>2
<1>7. /\ coord' \in Coordinations(Envelopes, Asks)
      /\ Settles(coord, coord', now) \/ Claims(coord, coord', nextId', now)
  <2> DEFINE id == nextId'
  <2>1. id \in Nat /\ coord' = TakenControl(coord, id, now)
    BY <1>2, <1>3
  <2> HIDE DEF id
  <2>2. /\ coord' \in Coordinations(Envelopes, Asks)
        /\ Settles(coord, coord', now) \/ Claims(coord, coord', id, now)
    BY <1>1, <2>1, TakenControlFacts
  <2> QED BY <2>2 DEF id
<1>8. CASE Settles(coord, coord', now)
  <2>1. /\ now' = now /\ now' \in now .. MaxTime
        /\ Presses({}, up) /\ Proves(proven) /\ call' = "other"
        /\ UNCHANGED <<out, unrested, mover>>
    BY <1>1, <1>2, ManualConfigIsValid DEF Elsewhere
  <2>2. /\ Orderly(coord, coord', now, now')
        /\ \A x, y \in coord'.box : x = y
        /\ \A t \in coord'.network.observed : t <= now'
        /\ \A e \in Orders' : e \in Orders
        /\ OwnerNow' \subseteq OwnerNow
        /\ coord'.asked = coord.asked
        /\ proven' \in 0 .. now'
        /\ \A g \in coord'.lease.grant :
             g.until <= proven' + CommandMaxAge - 1 + OperatorLease
    BY <1>7, <1>8, <2>1, SettlingEvent
  <2>3. \A d \in Conn : HasControl(d) =>
          /\ sess'[d].id = sess[d].id \/ StopAwaits'
          /\ d \in up => StopAwaits' \/ ~Permission'
    BY <1>2, <1>3, <1>5 DEF HasControl
  <2> QED
    BY ONLY IInv, <1>3, <1>5, <1>6, <1>7, <2>1, <2>2, <2>3, EventKeepsIInv
<1>9. CASE Claims(coord, coord', nextId', now)
  <2>1. Claims(coord, coord', sess'[c].id, now)
    BY <1>5, <1>9
  <2>2. \A d \in Conn : Fits(d, sess'[d], {} \cup (held \ {})) /\ sess'[d].id <= nextId'
    BY <1>4, <1>6
  <2> QED
    BY ONLY IInv, <1>2, <1>3, <1>5, <1>7, <2>1, <2>2, c \in Conn, ClaimingStep
<1> QED BY <1>7, <1>8, <1>9

\* Disconnect: an owner that leaves leaves a stop.
LEMMA DisconnectStep ==
  ASSUME IInv, NEW c \in Conn, Disconnect(c)
  PROVE  IInv'
<1> DEFINE up == {c}
<1>1. /\ coord \in Coordinations(Envelopes, Asks) /\ now \in Nat
      /\ Stop \in Envelopes /\ nextId \in Nat
  BY ManualConfigIsValid DEF IInv, Types, Envelopes
<1>2. /\ Open(c) /\ UNCHANGED <<nextId, out, unrested, now>> /\ Elsewhere({}, up)
      /\ coord' = ReleasedClient(coord, sess[c].id, now)
      /\ sess' = [sess EXCEPT ![c] = Closed]
  BY DEF Disconnect
<1>3. Closed = [Closed EXCEPT !.id = 0] /\ up \in SUBSET {c} /\ \A d \in up : d = c
  BY DEF Closed
<1> HIDE DEF up
<1>4. /\ sess' \in [Conn -> Connection]
      /\ \A d \in Conn : /\ Fits(d, sess'[d], {} \cup (held \ up))
                         /\ d = c \/ sess'[d].id = sess[d].id
                         /\ sess'[d].id <= nextId \/ sess'[d].id = 0
      /\ \A d, e \in Conn : d # e /\ sess'[d].id # 0 => sess'[d].id # sess'[e].id
  <2> DEFINE id == 0
  <2>1. /\ id \in Nat /\ (id = 0 \/ id = nextId + 1)
        /\ sess' = [sess EXCEPT ![c] = [Closed EXCEPT !.id = id]]
    BY <1>2, <1>3
  <2> HIDE DEF id
  <2>2. /\ sess' \in [Conn -> Connection]
        /\ \A d \in Conn : /\ Fits(d, sess'[d], {} \cup (held \ up))
                           /\ d = c \/ sess'[d].id = sess[d].id
                           /\ sess'[d].id <= nextId \/ sess'[d].id = id
        /\ \A d, e \in Conn : d # e /\ sess'[d].id # 0 => sess'[d].id # sess'[e].id
    BY ONLY IInv, c \in Conn, <1>3, <2>1, EndpointEvent, ZenonT(60)
  <2> QED BY <2>2 DEF id
<1>5. /\ coord' \in Coordinations(Envelopes, Asks) /\ Settles(coord, coord', now)
      /\ Owns(coord, sess[c].id, now) => StopIn(coord'.box)
  BY <1>1, <1>2, ReleasedClientFacts
<1>6. HasControl(c) => StopAwaits'
  BY <1>5 DEF HasControl, Owns, OwnerNow, StopAwaits, StopIn
<1>7. \A d \in Conn : /\ Fits(d, sess'[d], {} \cup (held \ up))
                      /\ sess'[d].id = sess[d].id \/ StopAwaits' \/ ~HasControl(d)
                      /\ sess'[d].id <= nextId
  <2> SUFFICES ASSUME NEW d \in Conn
               PROVE  /\ sess'[d].id = sess[d].id \/ StopAwaits' \/ ~HasControl(d)
                      /\ sess'[d].id <= nextId
    BY <1>4
  <2>1. d = c \/ sess'[d].id = sess[d].id
    BY <1>4
  <2>2. sess'[d].id <= nextId
    BY <1>1, <1>4
  <2> QED BY <1>6, <2>1, <2>2
<1>8. \A d \in Conn : d \in up /\ HasControl(d) => StopAwaits' \/ ~Permission'
  BY <1>3, <1>6
<1> QED BY ONLY IInv, <1>2, <1>4, <1>5, <1>7, <1>8, SettlingStep

\* ObserveNetwork: a loss leaves a stop, a new permission a new generation.
LEMMA ObserveNetworkStep ==
  ASSUME IInv, NEW ready \in BOOLEAN, ObserveNetwork(ready)
  PROVE  IInv'
<1> DEFINE up == {}
<1>1. /\ coord \in Coordinations(Envelopes, Asks) /\ now \in Nat /\ now \in 0 .. MaxTime
      /\ Stop \in Envelopes /\ nextId \in Nat /\ proven \in 0 .. now
      /\ sess \in [Conn -> Connection]
  BY ManualConfigIsValid DEF IInv, Types, Envelopes
<1>2. /\ UNCHANGED <<nextId, sess, out, unrested, now, mover>> /\ Presses({}, up)
      /\ Proves(proven) /\ call' = "other" /\ coord' = PublishedNetwork(coord, ready, now)
  BY DEF ObserveNetwork, Watch, Elsewhere
<1>3. (\A d : d \notin up) /\ {} \cup (held \ up) = held
  OBVIOUS
<1> HIDE DEF up
<1>4. /\ coord' \in Coordinations(Envelopes, Asks)
      /\ Orderly(coord, coord', now, now)
      /\ coord'.asked = coord.asked
      /\ coord'.network.observed = (IF ready THEN {now} ELSE {})
      /\ coord'.lease.grant \subseteq coord.lease.grant
      /\ coord'.box \in {coord.box, {Stop}}
  BY <1>1, <1>2, PublishedNetworkFacts
<1>5. /\ now' = now /\ now' \in now .. MaxTime /\ Orderly(coord, coord', now, now')
      /\ nextId' \in Nat /\ sess' = sess /\ sess' \in [Conn -> Connection]
  BY <1>1, <1>2, <1>4, ManualConfigIsValid
<1>6. OwnerNow' \subseteq OwnerNow
  BY <1>4, <1>5 DEF OwnerNow, Owner, CurrentGrant
<1>7. /\ \A x, y \in coord'.box : x = y
      /\ \A t \in coord'.network.observed : t <= now'
      /\ \A e \in Orders' : e \in Orders
  <2>1. \A x, y \in coord'.box : x = y
    BY <1>4 DEF IInv, Shape
  <2>2. \A t \in coord'.network.observed : t <= now'
    BY <1>1, <1>4, <1>5
  <2>3. \A e \in Orders' : e \in Orders
    BY <1>4, SubmittedFacts DEF Orders
  <2> QED BY <2>1, <2>2, <2>3
<1>8. proven' \in 0 .. now' /\ \A g \in coord'.lease.grant :
        g.until <= proven' + CommandMaxAge - 1 + OperatorLease
  <2>1. proven' = proven
    BY <1>2, <1>6 DEF Proves
  <2> QED BY <1>1, <1>4, <1>5, <2>1 DEF IInv, Alive
<1>9. \A d \in Conn : Fits(d, sess'[d], {} \cup (held \ up)) /\ sess'[d].id <= nextId'
  <2> SUFFICES ASSUME NEW d \in Conn
               PROVE  Fits(d, sess[d], {} \cup (held \ up)) /\ sess[d].id <= nextId
    BY <1>2
  <2> QED BY <1>3, BystanderFits DEF IInv, Shape
<1>10. /\ \A d, e \in Conn : d # e /\ sess'[d].id # 0 => sess'[d].id # sess'[e].id
       /\ \A d \in Conn : HasControl(d) =>
            /\ sess'[d].id = sess[d].id \/ StopAwaits'
            /\ d \in up => StopAwaits' \/ ~Permission'
       /\ \A r \in coord'.asked : r \in coord.asked
  BY <1>3, <1>4, <1>5 DEF IInv, Shape, Open
<1> QED
  BY ONLY IInv, <1>2, <1>4, <1>5, <1>6, <1>7, <1>8, <1>9, <1>10, EventKeepsIInv

\* Tick: time ends grants, permissions and tokens, and brings none back.
LEMMA TickStep ==
  ASSUME IInv, Tick
  PROVE  IInv'
<1> DEFINE up == {}
<1>1. /\ coord \in Coordinations(Envelopes, Asks) /\ now \in Nat /\ now \in 0 .. MaxTime
      /\ nextId \in Nat /\ proven \in 0 .. now /\ NetworkTimeout \in Nat
      /\ sess \in [Conn -> Connection] /\ coord.lease \in Lease /\ coord.network \in Gate
  BY ManualConfigIsValid, NetworkTimeoutIsPositive DEF IInv, Types, Coordinations
<1>2. /\ UNCHANGED <<coord, nextId, sess, out, unrested, mover>> /\ Presses({}, up)
      /\ Proves(proven) /\ call' = "other" /\ now' = now + 1 /\ now < MaxTime
  BY DEF Tick, Watch, Elsewhere
<1>3. (\A d : d \notin up) /\ {} \cup (held \ up) = held
  OBVIOUS
<1> HIDE DEF up
<1>4. /\ now' \in Nat /\ now' \in now .. MaxTime /\ nextId' \in Nat
      /\ coord' \in Coordinations(Envelopes, Asks) /\ sess' \in [Conn -> Connection]
  BY <1>1, <1>2, ManualConfigIsValid
<1>5. \A t \in coord.network.observed : t \in Nat /\ t <= now
  BY <1>1 DEF IInv, Lag, Gate
<1>6. \A g \in coord.lease.grant : g.until \in Nat
  BY <1>1, OwnerFacts DEF Grant
<1>7. CurrentGrant(coord.lease, now + 1) \subseteq CurrentGrant(coord.lease, now)
  BY <1>1, <1>6 DEF CurrentGrant
<1>8. Ready(coord.network, now + 1) => Ready(coord.network, now)
  BY <1>1, <1>5 DEF Ready
<1>9. IsCurrent(coord.lease, now + 1) => IsCurrent(coord.lease, now)
  BY <1>7 DEF IsCurrent, CurrentGrant
<1>10. Orderly(coord, coord', now, now')
  BY <1>1, <1>2, <1>8, <1>9 DEF Orderly, Gate
<1>11. OwnerNow' \subseteq OwnerNow
  BY <1>2, <1>7 DEF OwnerNow, Owner
<1>12. proven' \in 0 .. now' /\ \A g \in coord'.lease.grant :
         g.until <= proven' + CommandMaxAge - 1 + OperatorLease
  <2>1. proven' = proven
    BY <1>2, <1>11 DEF Proves
  <2> QED BY <1>1, <1>2, <2>1 DEF IInv, Alive
<1>13. /\ \A x, y \in coord'.box : x = y
       /\ \A t \in coord'.network.observed : t <= now'
       /\ \A e \in Orders' : e \in Orders
  BY <1>1, <1>2, <1>5 DEF IInv, Shape, Orders
<1>14. \A d \in Conn : Fits(d, sess'[d], {} \cup (held \ up)) /\ sess'[d].id <= nextId'
  <2> SUFFICES ASSUME NEW d \in Conn
               PROVE  Fits(d, sess[d], {} \cup (held \ up)) /\ sess[d].id <= nextId
    BY <1>2
  <2> QED BY <1>3, BystanderFits DEF IInv, Shape
<1>15. /\ \A d, e \in Conn : d # e /\ sess'[d].id # 0 => sess'[d].id # sess'[e].id
       /\ \A d \in Conn : HasControl(d) =>
            /\ sess'[d].id = sess[d].id \/ StopAwaits'
            /\ d \in up => StopAwaits' \/ ~Permission'
       /\ \A r \in coord'.asked : r \in coord.asked
  BY <1>2, <1>3 DEF IInv, Shape, Open
<1> QED
  BY ONLY IInv, <1>2, <1>4, <1>10, <1>11, <1>12, <1>13, <1>14, <1>15, EventKeepsIInv
-----------------------------------------------------------------------------
(* The output owner.                                                       *)

Outputs == [guard : Guard, generation : Nat]

\* A gap in the network leaves nothing moving.
LEMMA RevokeFacts ==
  ASSUME NEW o \in Outputs, NEW net \in Gate, NEW t \in Nat,
         Leased(o.guard), o.guard.lease <= t + MovementLease
  PROVE  LET r == Revoke(o, net, t)
         IN  /\ r \in Outputs /\ r.generation = net.generation
             /\ Leased(r.guard) /\ r.guard.lease \in {o.guard.lease, NoLease}
             /\ r.guard.lease <= t + MovementLease
             /\ InMotion(r.guard) => /\ Ready(net, t) /\ o.generation = net.generation
                                     /\ r.guard = o.guard
<1> DEFINE r == Revoke(o, net, t)
           kept == Ready(net, t) /\ o.generation = net.generation
           g == IF kept THEN o.guard ELSE InhibitGuard(o.guard, t)
<1>1. o = [guard |-> o.guard, generation |-> o.generation] /\ o.guard \in Guard
      /\ o.generation \in Nat /\ net.generation \in Nat
  BY DEF Outputs, Gate
<1>2. Inhibition \in Command /\ Inhibition.kind = "Inhibit"
  BY DEF Inhibition, Command
<1>3. LET k == InhibitGuard(o.guard, t)
      IN  /\ k \in Guard /\ Leased(k) /\ k.lease <= t + MovementLease
          /\ ~InMotion(k) /\ k.lease \in {o.guard.lease, NoLease}
  BY <1>1, <1>2, CommandUntilFacts, CommandUntilLease DEF InhibitGuard, GuardStep
<1>4. r = [[o EXCEPT !.guard = g] EXCEPT !.generation = net.generation]
  BY DEF Revoke
<1>5. /\ g \in Guard /\ Leased(g) /\ g.lease <= t + MovementLease
      /\ g.lease \in {o.guard.lease, NoLease} /\ (InMotion(g) => kept /\ g = o.guard)
  BY <1>1, <1>3
<1> HIDE DEF g
<1>6. [o EXCEPT !.guard = g] = [guard |-> g, generation |-> o.generation]
  BY <1>1
<1>7. r = [guard |-> g, generation |-> net.generation]
  BY <1>4, <1>6
<1> HIDE DEF r
<1> QED BY <1>1, <1>5, <1>7 DEF Outputs, r

\* What one pass leaves moving was not withheld, is under a permission that it
\* was served under before unless a command has come, and no stop came.
LEMMA OutputStepFacts ==
  ASSUME now \in Nat, NEW o \in Outputs, NEW net \in Gate, NEW withheld \in BOOLEAN,
         NEW envelopes, \A x, y \in envelopes : x = y,
         \A e \in envelopes : e.command \in Command /\ e.until \in Nat,
         Leased(o.guard), o.guard.lease <= now + MovementLease
  PROVE  LET n == OutputStep(o, net, envelopes, withheld)
             moves == {e \in envelopes : e.command.kind # "Inhibit" /\ IsActive(e.command.drive)}
         IN  /\ n \in Outputs /\ n.generation = net.generation
             /\ Leased(n.guard) /\ n.guard.lease <= now + MovementLease
             /\ moves = {} => n.guard.lease \in {o.guard.lease, NoLease}
             /\ InMotion(n.guard) =>
                  /\ ~withheld /\ Ready(net, now)
                  /\ \A e \in envelopes : e.command.kind # "Inhibit"
                  /\ moves = {} => o.generation = net.generation
                  /\ \A e \in moves : n.guard.lease <= e.until
<1> DEFINE cut == IF withheld THEN [o EXCEPT !.guard = InhibitAxes(@, Axis, now)] ELSE o
           r == Revoke(cut, net, now)
           meant(e) == IF withheld \/ ~Ready(net, now) THEN Inhibition ELSE e.command
           g == IF envelopes = {} THEN UpdateGuard(r.guard, now)
                ELSE LET e == CHOOSE e \in envelopes : TRUE
                     IN  CommandUntil(r.guard, meant(e), now, e.until)
           n == OutputStep(o, net, envelopes, withheld)
           moves == {e \in envelopes : e.command.kind # "Inhibit" /\ IsActive(e.command.drive)}
<1>1. o = [guard |-> o.guard, generation |-> o.generation] /\ o.guard \in Guard
      /\ o.generation \in Nat /\ net.generation \in Nat
  BY DEF Outputs, Gate
<1>2. /\ cut \in Outputs /\ cut.generation = o.generation /\ Leased(cut.guard)
      /\ cut.guard.lease \in {o.guard.lease, NoLease}
      /\ cut.guard.lease <= now + MovementLease
      /\ (InMotion(cut.guard) => ~withheld)
  <2>1. CASE withheld
    <3> DEFINE k == InhibitAxes(o.guard, Axis, now)
    <3>1. k \in Guard /\ Leased(k) /\ k.lease \in {o.guard.lease, NoLease} /\ ~InMotion(k)
      BY <1>1, InhibitAxesFacts, InhibitAxesAtRest DEF GuardStep
    <3>2. cut = [o EXCEPT !.guard = k]
      BY <2>1
    <3> HIDE DEF k
    <3>3. cut = [guard |-> k, generation |-> o.generation]
      BY <1>1, <3>2
    <3> HIDE DEF cut
    <3> QED BY <1>1, <3>1, <3>3, RelayConfigIsValid DEF Outputs, NoLease
  <2>2. CASE ~withheld
    BY <1>1, <2>2
  <2> QED BY <2>1, <2>2
<1> HIDE DEF cut
<1>3. /\ r \in Outputs /\ r.generation = net.generation
      /\ Leased(r.guard) /\ r.guard.lease \in {o.guard.lease, NoLease}
      /\ r.guard.lease <= now + MovementLease
      /\ InMotion(r.guard) => Ready(net, now) /\ o.generation = net.generation /\ ~withheld
  BY <1>2, RevokeFacts
<1>4. n = [r EXCEPT !.guard = g]
  BY DEF OutputStep, cut
<1> HIDE DEF r, n
<1>5. r.guard \in Guard /\ r = [guard |-> r.guard, generation |-> net.generation]
  BY <1>3 DEF Outputs
<1>6. n = [guard |-> g, generation |-> net.generation]
  <2> HIDE DEF g
  <2> QED BY <1>4, <1>5
<1>7. /\ g \in Guard /\ Leased(g) /\ g.lease <= now + MovementLease
      /\ moves = {} => g.lease \in {r.guard.lease, NoLease}
      /\ InMotion(g) =>
           /\ ~withheld /\ Ready(net, now)
           /\ \A e \in envelopes : e.command.kind # "Inhibit"
           /\ moves = {} => InMotion(r.guard)
           /\ \A e \in moves : g.lease <= e.until
  <2>1. CASE envelopes = {}
    <3>1. g = UpdateGuard(r.guard, now)
      BY <2>1
    <3>2. /\ g \in Guard /\ Leased(g) /\ g.lease \in {r.guard.lease, NoLease}
          /\ InMotion(g) => InMotion(r.guard)
      BY <1>3, <1>5, <3>1, UpdateGuardFacts, UpdateGuardAtRest DEF GuardStep
    <3>3. moves = {}
      BY <2>1
    <3> HIDE DEF g
    <3> QED BY <1>3, <2>1, <3>2, <3>3, RelayConfigIsValid DEF NoLease
  <2>2. CASE envelopes # {}
    <3>1. PICK e \in envelopes : e = CHOOSE x \in envelopes : TRUE
      BY <2>2
    <3>2. envelopes = {e} /\ e.command \in Command /\ e.until \in Nat
      BY <3>1
    <3>3. PICK m : m = meant(e)
      OBVIOUS
    <3>4. /\ m \in Command /\ m \in {e.command, Inhibition}
          /\ m.kind # "Inhibit" => ~withheld /\ Ready(net, now) /\ m = e.command
      BY <3>2, <3>3 DEF Inhibition, Command
    <3>5. g = CommandUntil(r.guard, m, now, e.until)
      BY <2>2, <3>1, <3>3
    <3> HIDE DEF g
    <3>6. /\ g \in Guard /\ Leased(g) /\ g.lease <= now + MovementLease
          /\ (m.kind = "Inhibit" => ~InMotion(g))
      BY <1>3, <1>5, <3>2, <3>4, <3>5, CommandUntilFacts, CommandUntilLease DEF GuardStep
    <3>7. CASE m.kind # "Inhibit" /\ IsActive(m.drive)
      <4>1. g.lease <= e.until
        BY <1>3, <1>5, <3>2, <3>4, <3>5, <3>7, CommandUntilLease
      <4>2. moves = {e}
        BY <3>2, <3>4, <3>7
      <4> QED BY <3>2, <3>4, <3>6, <3>7, <4>1, <4>2
    <3>8. CASE ~(m.kind # "Inhibit" /\ IsActive(m.drive))
      <4>1. g.lease \in {r.guard.lease, NoLease} /\ (InMotion(g) => InMotion(r.guard))
        BY <1>3, <1>5, <3>2, <3>4, <3>5, <3>8, CommandUntilLease
      <4>2. CASE m.kind = "Inhibit"
        BY <3>6, <4>1, <4>2
      <4>3. CASE m.kind # "Inhibit"
        <5>1. moves = {} /\ ~withheld /\ Ready(net, now) /\ m = e.command
          BY <3>2, <3>4, <3>8, <4>3
        <5> QED BY <3>2, <3>6, <4>1, <4>3, <5>1
      <4> QED BY <4>2, <4>3
    <3> QED BY <3>7, <3>8
  <2> QED BY <2>1, <2>2
<1> HIDE DEF g
<1>8. n \in Outputs /\ n.generation = net.generation /\ n.guard = g
  BY <1>1, <1>6, <1>7 DEF Outputs
<1>9. moves = {} => g.lease \in {o.guard.lease, NoLease}
  BY <1>3, <1>7
<1> HIDE DEF moves
<1> QED BY <1>3, <1>7, <1>8, <1>9 DEF n, moves

\* What a pass makes of the box, the grant, the permission and the output.
LEMMA StepFacts ==
  ASSUME IInv, NEW withheld \in BOOLEAN, NEW rested \in BOOLEAN, Step(withheld, rested)
  PROVE  /\ coord' \in Coordinations(Envelopes, Asks) /\ coord'.box = {} /\ coord'.asked = {}
         /\ coord'.lease.grant \subseteq coord.lease.grant
         /\ coord'.network = Expire(coord.network, now)
         /\ out' \in Outputs /\ out'.generation = coord'.network.generation
         /\ Leased(out'.guard) /\ out'.guard.lease <= now + MovementLease
         /\ mover' # {} => ~StopAwaits /\ Permission /\ coord'.lease = coord.lease
                           /\ IsCurrent(coord.lease, now) /\ Ready(coord'.network, now)
         /\ \A e \in mover' :
              /\ e \in Orders \/ (e \in mover /\ out.generation = coord.network.generation)
              /\ out'.guard.lease <= e.token.until
         /\ call' = "override" =>
              /\ ~InMotion(out'.guard) /\ Ready(coord'.network, now)
              /\ \E r \in coord.asked : /\ r.token \in Owner(coord'.lease, now) /\ now < r.until
                                        /\ r.generation = coord.network.generation
<1> DEFINE drawn == Drawn(coord, now)
           taken == Taken(drawn.box, now)
           next == OutputStep(out, drawn.network, taken, withheld)
           moves == {e \in taken : e.command.kind # "Inhibit" /\ IsActive(e.command.drive)}
           over == OutputStep(next, drawn.network, {Stop}, withheld)
<1>1. /\ coord \in Coordinations(Envelopes, Asks) /\ now \in Nat /\ now \in 0 .. MaxTime
      /\ Stop \in Envelopes /\ out \in Outputs /\ out.guard \in Guard
      /\ Leased(out.guard) /\ out.guard.lease <= now + MovementLease
      /\ coord.network \in Gate /\ coord.lease \in Lease
  BY ManualConfigIsValid
     DEF IInv, Types, Lifetimes, Envelopes, Outputs, Coordinations
<1>2. /\ drawn \in Coordinations(Envelopes, Asks) /\ Settles(coord, drawn, now)
      /\ drawn.network = Expire(coord.network, now) /\ IsCurrent(drawn.lease, now)
  BY <1>1, AdvancedServicedFacts DEF Drawn
<1>3. PICK d : d = drawn
  OBVIOUS
<1>4. PICK n : n = next
  OBVIOUS
<1>5. /\ coord' = [d EXCEPT !.box = {}, !.asked = {}]
      /\ \/ /\ out' = n /\ call' = "pass"
         \/ /\ out' = over /\ call' = "override"
            /\ \E r \in coord.asked : OverrideGranted(d, r, now)
      /\ mover' = IF ~InMotion(out'.guard) THEN {} ELSE IF moves # {} THEN moves ELSE mover
  BY <1>3, <1>4 DEF Step, Drained, Moving, InMotion
<1>6. \A x, y \in drawn.box : x = y
  BY <1>2 DEF Settles, IInv, Shape
<1>7. /\ \A x, y \in taken : x = y
      /\ \A e \in taken : e = Stop \/ e \in drawn.box
      /\ StopIn(drawn.box) => \E e \in taken : e.command.kind = "Inhibit"
  <2> HIDE DEF drawn
  <2> QED BY <1>6 DEF Taken, StopIn, FreshCommand
<1>8. Stop.command \in Command /\ Stop.until \in Nat /\ Stop.command.kind = "Inhibit"
  BY DEF Stop, Inhibition, Command
<1>9. \A e \in Envelopes : e.command \in Command /\ e.until \in Nat
  BY <1>8, ManualConfigIsValid DEF Envelopes, Admission, Command
<1>10. \A e \in taken : e.command \in Command /\ e.until \in Nat
  BY <1>2, <1>7, <1>8, <1>9 DEF Coordinations
<1>11. drawn.network \in Gate
  BY <1>2 DEF Coordinations
<1>12. /\ n \in Outputs /\ n.generation = drawn.network.generation
       /\ Leased(n.guard) /\ n.guard.lease <= now + MovementLease
       /\ moves = {} => n.guard.lease \in {out.guard.lease, NoLease}
       /\ InMotion(n.guard) =>
            /\ ~withheld /\ Ready(drawn.network, now)
            /\ \A e \in taken : e.command.kind # "Inhibit"
            /\ moves = {} => out.generation = drawn.network.generation
            /\ \A e \in moves : n.guard.lease <= e.until
  <2> HIDE DEF drawn, taken
  <2> QED BY <1>1, <1>4, <1>7, <1>10, <1>11, OutputStepFacts
<1>13. /\ over \in Outputs /\ over.generation = drawn.network.generation
       /\ Leased(over.guard) /\ over.guard.lease <= now + MovementLease
       /\ ~InMotion(over.guard)
  <2>1. \A x, y \in {Stop} : x = y
    OBVIOUS
  <2>2. \A e \in {Stop} : e.command \in Command /\ e.until \in Nat
    BY <1>8
  <2>3. Stop \in {Stop}
    OBVIOUS
  <2>4. over = OutputStep(n, drawn.network, {Stop}, withheld)
    BY <1>4
  <2> DEFINE box == {Stop}
  <2> HIDE DEF drawn, over, box
  <2>5. /\ \A x, y \in box : x = y
        /\ \A e \in box : e.command \in Command /\ e.until \in Nat
        /\ Stop \in box /\ over = OutputStep(n, drawn.network, box, withheld)
    BY <2>1, <2>2, <2>3, <2>4 DEF box
  <2> QED BY <1>1, <1>8, <1>11, <1>12, <2>5, OutputStepFacts
<1> HIDE DEF drawn, taken, next, over
<1>14. /\ coord' \in Coordinations(Envelopes, Asks) /\ coord'.box = {} /\ coord'.asked = {}
       /\ coord'.lease = d.lease /\ coord'.network = d.network
  <2>1. d = [lease |-> d.lease, network |-> d.network, box |-> d.box, asked |-> d.asked]
        /\ d.lease \in Lease /\ d.network \in Gate
    BY <1>2, <1>3 DEF Coordinations
  <2> DEFINE f == [d EXCEPT !.box = {}]
  <2>2. f = [lease |-> d.lease, network |-> d.network, box |-> {}, asked |-> d.asked]
    BY <2>1
  <2>3. coord' = [f EXCEPT !.asked = {}]
    BY <1>5
  <2> HIDE DEF f
  <2>4. coord' = [lease |-> d.lease, network |-> d.network, box |-> {}, asked |-> {}]
    BY <2>2, <2>3
  <2> QED BY <2>1, <2>4 DEF Coordinations
<1>15. /\ coord'.lease.grant \subseteq coord.lease.grant
       /\ coord'.network = Expire(coord.network, now)
       /\ coord'.network.generation = coord.network.generation
       /\ Ready(coord'.network, now) <=> Permission
  BY <1>1, <1>2, <1>3, <1>14, NetworkFacts DEF Settles, Permission
<1>16. /\ out' \in Outputs /\ out'.generation = coord'.network.generation
       /\ Leased(out'.guard) /\ out'.guard.lease <= now + MovementLease
  BY <1>3, <1>5, <1>12, <1>13, <1>14
<1>17. ASSUME NEW e \in mover'
       PROVE  /\ ~StopAwaits /\ Permission /\ coord'.lease = coord.lease
              /\ IsCurrent(coord.lease, now) /\ Ready(coord'.network, now)
              /\ e \in Orders \/ (e \in mover /\ out.generation = coord.network.generation)
              /\ out'.guard.lease <= e.token.until
  <2>1. InMotion(out'.guard) /\ out' = n /\ (e \in moves \/ (moves = {} /\ e \in mover))
    BY <1>5, <1>13, <1>17
  <2>2. Ready(drawn.network, now) /\ ~StopIn(drawn.box)
    BY <1>7, <1>12, <2>1
  <2>3. drawn.box = coord.box /\ drawn.lease = coord.lease /\ ~StopIn(coord.box)
    BY <1>2, <2>2 DEF Settles
  <2>4. ~StopAwaits /\ Permission /\ coord'.lease = coord.lease
        /\ IsCurrent(coord.lease, now) /\ Ready(coord'.network, now)
    BY <1>2, <1>3, <1>14, <1>15, <2>2, <2>3 DEF StopAwaits, StopIn
  <2>5. CASE e \in moves
    <3>1. e \in coord.box /\ e.command.kind # "Inhibit"
      BY <1>7, <1>8, <2>3, <2>5
    <3>2. e \in Orders /\ out'.guard.lease <= e.until /\ e.until <= e.token.until
      BY <1>12, <2>1, <2>5, <3>1 DEF Orders, IInv, Lifetimes
    <3>3. out'.guard.lease \in Nat /\ e.until \in Nat /\ e.token.until \in Nat
      <4>1. e \in Admission
        BY <1>1, <1>8, <3>1 DEF Coordinations, Envelopes
      <4> QED BY <1>16, <4>1 DEF Outputs, Guard, Admission, Batch
    <3> QED BY <2>4, <3>2, <3>3
  <2>6. CASE moves = {} /\ e \in mover
    <3>1. out.generation = coord.network.generation
      BY <1>3, <1>12, <1>14, <1>15, <2>1, <2>6
    <3>2. out'.guard.lease \in {out.guard.lease, NoLease} /\ out.guard.lease <= e.token.until
      BY <1>12, <2>1, <2>6 DEF IInv, Lifetimes
    <3>3. e.token.until \in Nat
      BY <2>6 DEF IInv, Types, Admission, Batch
    <3> QED BY <2>4, <2>6, <3>1, <3>2, <3>3 DEF NoLease
  <2> QED BY <2>1, <2>5, <2>6
<1>18. ASSUME call' = "override"
       PROVE  /\ ~InMotion(out'.guard) /\ Ready(coord'.network, now)
              /\ \E r \in coord.asked : /\ r.token \in Owner(coord'.lease, now) /\ now < r.until
                                        /\ r.generation = coord.network.generation
  <2>1. out' = over /\ \E r \in coord.asked : OverrideGranted(d, r, now)
    BY <1>5, <1>18
  <2> QED BY <1>13, <1>14, <1>15, <2>1 DEF OverrideGranted, OverridePermitted
<1> QED BY <1>14, <1>15, <1>16, <1>17, <1>18

\* Whatever a pass leaves moving is still wanted.
LEMMA StepWanted ==
  ASSUME IInv, NEW withheld \in BOOLEAN, NEW rested \in BOOLEAN, Step(withheld, rested)
  PROVE  /\ \A e \in mover' : Wanted(e)'
         /\ Permission' => Permission /\ outages' = outages
         /\ OwnerNow' \subseteq OwnerNow
         /\ OwnerNow' # {} /\ Permission' => held' = held
<1>1. /\ coord \in Coordinations(Envelopes, Asks) /\ now \in Nat /\ outages \in Nat
      /\ coord.network \in Gate /\ coord.lease \in Lease /\ mover \in SUBSET Admission
      /\ coord' \in Coordinations(Envelopes, Asks) /\ coord'.lease \in Lease
  BY StepFacts, ManualConfigIsValid DEF IInv, Types, Coordinations
<1>2. UNCHANGED <<nextId, sess, now>> /\ Presses({}, {}) /\ Proves(proven)
  BY DEF Step
<1>3. Permission' <=> Permission
  BY <1>1, <1>2, StepFacts, NetworkFacts DEF Permission
<1>4. outages' = outages
  BY <1>1, <1>2, <1>3 DEF Presses, Outage
<1>5. OwnerNow' \subseteq OwnerNow
  BY <1>2, StepFacts DEF OwnerNow, Owner, CurrentGrant
<1>6. OwnerNow' # {} => OwnerNow' = OwnerNow
  <2>1. \A x, y \in OwnerNow : x = y
    BY <1>1, OwnerFacts DEF OwnerNow
  <2> QED BY <1>5, <2>1
<1>7. OwnerNow' # {} => held' = held
  BY <1>2, <1>3, <1>6 DEF Presses, Outage
<1>8. ASSUME NEW e \in mover' PROVE Wanted(e)'
  <2>1. /\ ~StopAwaits /\ Permission /\ coord'.lease = coord.lease
        /\ IsCurrent(coord.lease, now)
        /\ e \in Orders \/ (e \in mover /\ out.generation = coord.network.generation)
    BY StepFacts
  <2>2. Wanted(e)
    BY <2>1 DEF IInv, Pressed
  <2>3. OwnerNow' = OwnerNow
    BY <1>2, <2>1 DEF OwnerNow
  <2>4. OwnerNow # {}
    BY <2>2 DEF Wanted, HasControl
  <2> QED BY <1>2, <1>4, <1>7, <2>2, <2>3, <2>4 DEF Wanted, HasControl, Open
<1> QED BY <1>3, <1>4, <1>5, <1>7, <1>8

\* Step keeps the invariant.
LEMMA StepStep ==
  ASSUME IInv, NEW withheld \in BOOLEAN, NEW rested \in BOOLEAN, Step(withheld, rested)
  PROVE  IInv'
<1>1. /\ coord \in Coordinations(Envelopes, Asks) /\ now \in Nat /\ now \in 0 .. MaxTime
      /\ coord.network \in Gate /\ coord.lease \in Lease /\ mover \in SUBSET Admission
      /\ held \in SUBSET Conn /\ outages \in Nat /\ proven \in 0 .. now
  BY ManualConfigIsValid DEF IInv, Types, Coordinations
<1>2. /\ UNCHANGED <<nextId, sess, now>> /\ Presses({}, {}) /\ Proves(proven)
      /\ call' \in {"pass", "override"} /\ unrested' \in BOOLEAN
  BY DEF Step, IInv, Types
<1>3. /\ coord' \in Coordinations(Envelopes, Asks) /\ coord'.box = {} /\ coord'.asked = {}
      /\ coord'.lease.grant \subseteq coord.lease.grant
      /\ coord'.network = Expire(coord.network, now)
      /\ out' \in Outputs /\ out'.generation = coord'.network.generation
      /\ Leased(out'.guard) /\ out'.guard.lease <= now + MovementLease
      /\ mover' # {} => ~StopAwaits /\ Permission /\ coord'.lease = coord.lease
                        /\ IsCurrent(coord.lease, now) /\ Ready(coord'.network, now)
      /\ \A e \in mover' :
           /\ e \in Orders \/ (e \in mover /\ out.generation = coord.network.generation)
           /\ out'.guard.lease <= e.token.until
  BY StepFacts
<1>4. /\ \A e \in mover' : Wanted(e)'
      /\ Permission' => Permission /\ outages' = outages
      /\ OwnerNow' \subseteq OwnerNow
      /\ OwnerNow' # {} /\ Permission' => held' = held
  BY StepWanted
<1>5. /\ coord'.network.generation = coord.network.generation
      /\ coord'.network.observed \subseteq coord.network.observed
      /\ coord.network.generation \in Nat
  BY <1>1, <1>3, NetworkFacts DEF Gate
<1>6. \A e \in Orders : e \in Admission
  BY <1>1 DEF Orders, Coordinations, Envelopes, Stop, Inhibition
<1>7. proven' = proven
  BY <1>2, <1>4 DEF Proves
<1>8. Types'
  <2>1. mover' \in SUBSET Admission
    BY <1>1, <1>3, <1>6
  <2>2. held' \in SUBSET Conn /\ outages' \in Nat
    BY <1>1, <1>2 DEF Presses
  <2>3. now' \in 0 .. MaxTime /\ proven' \in 0 .. now'
    BY <1>1, <1>2, <1>7
  <2>4. nextId' \in Nat /\ sess' \in [Conn -> Connection]
        /\ call' \in {"other", "pass", "override"}
    BY <1>2 DEF IInv, Types
  <2> QED BY <1>2, <1>3, <2>1, <2>2, <2>3, <2>4 DEF Types, Outputs
<1>9. Shape'
  BY <1>2, <1>3 DEF IInv, Shape, Open
<1>10. Lag'
  BY <1>2, <1>3, <1>5 DEF IInv, Lag
<1>11. Alive'
  BY <1>2, <1>3, <1>7 DEF IInv, Alive
<1>12. Seen'
  BY <1>2, <1>3, <1>4, <1>5 DEF IInv, Seen
<1>13. Armed'
  <2> SUFFICES ASSUME NEW c \in Conn, Permission', HasControl(c)',
                      sess'[c].fresh.network = {coord'.network.generation},
                      now' < sess'[c].fresh.armed
               PROVE  c \in held'
    BY DEF Armed
  <2>1. OwnerNow' # {} /\ HasControl(c)
    BY <1>2, <1>4 DEF HasControl, Open
  <2> QED BY <1>2, <1>4, <1>5, <2>1 DEF IInv, Armed
<1>14. Orders' = {}
  BY <1>3 DEF Orders
<1>15. Pressed' /\ Quiet'
  BY <1>4, <1>14 DEF Pressed, Quiet
<1>16. \A e \in mover' : e.grant # {} /\ e.grant = GrantTokens(coord'.lease)
  <2> SUFFICES ASSUME NEW e \in mover'
               PROVE  e.grant # {} /\ e.grant = GrantTokens(coord'.lease)
    OBVIOUS
  <2>1. e \in Admitteds /\ ~StopAwaits /\ coord'.lease = coord.lease
    BY <1>3 DEF Admitteds
  <2> QED
    BY <2>1 DEF IInv, Lifetimes, OrphansAreStopped, GrantTokens, Admitteds, Orders
<1>17. OrphansAreStopped'
  BY <1>3, <1>16 DEF OrphansAreStopped, GrantTokens
<1>18. Lifetimes'
  <2>1. Admitteds' = mover'
    BY <1>14 DEF Admitteds
  <2> QED BY <1>2, <1>3, <1>14, <1>16, <2>1 DEF Lifetimes
<1> QED
  BY <1>8, <1>9, <1>10, <1>11, <1>12, <1>13, <1>15, <1>17, <1>18 DEF IInv
-----------------------------------------------------------------------------
(* The invariant and what follows from it.                                 *)

\* The invariant holds at first.
LEMMA InitIInv == Init => IInv
<1> SUFFICES ASSUME Init PROVE IInv
  OBVIOUS
<1>1. /\ coord = [lease |-> NewLease, network |-> NewNetwork, box |-> {}, asked |-> {}]
      /\ nextId = 0 /\ sess = [c \in Conn |-> Closed]
      /\ out = [guard |-> NewGuard, generation |-> 0] /\ unrested = TRUE /\ now = 0
      /\ outages = 0 /\ held = {} /\ mover = {} /\ proven = 0 /\ call = "other"
  BY DEF Init, NewCoordination
<1>2. NewLease \in Lease /\ NewLease.grant = {} /\ NewNetwork \in Gate
      /\ NewNetwork.observed = {} /\ NewNetwork.generation = 0
  BY DEF NewLease, Lease, NewNetwork, Gate
<1>3. coord \in Coordinations(Envelopes, Asks)
  BY <1>1, <1>2 DEF Coordinations
<1>4. NewGuard \in Guard /\ NewGuard.lease = NoLease /\ ~InMotion(NewGuard)
  BY DEF NewGuard, NewRelay, Guard, AxisRelay, NoLease, InMotion, IsActive, Actual, Target
<1>5. /\ Closed \in Connection /\ Closed.id = 0 /\ Closed.fresh.network = {}
      /\ Len(Closed.fresh.tokens) = 0 /\ DOMAIN Closed.beats = {}
  <2>1. <<>> \in Seq(Batch) /\ Len(<<>>) = 0
    OBVIOUS
  <2>2. NewFreshness \in Freshness /\ NewFreshness.network = {} /\ Len(NewFreshness.tokens) = 0
    BY <2>1 DEF NewFreshness, Freshness
  <2>3. NewHeartbeat \in Seq(SUBSET Beat) /\ DOMAIN NewHeartbeat = {}
    BY DEF NewHeartbeat
  <2> QED BY <2>2, <2>3 DEF Closed, Connection
<1>6. \A c \in Conn : sess[c] = Closed
  BY <1>1
<1>7. Types
  BY <1>1, <1>3, <1>4, <1>5, ManualConfigIsValid DEF Types
<1>8. Shape
  BY <1>1, <1>5, <1>6, SessionConfigIsValid DEF Shape, Open
<1>9. Lag
  BY <1>1, <1>2, <1>5, <1>6 DEF Lag
<1>10. Alive
  BY <1>1, <1>2, <1>5, <1>6 DEF Alive
<1>11. ~Permission /\ Orders = {} /\ Admitteds = {}
  BY <1>1, <1>2 DEF Permission, Ready, Orders, Admitteds
<1>12. Seen /\ Armed /\ Pressed /\ Quiet
  BY <1>11 DEF Seen, Armed, Pressed, Quiet
<1>13. OrphansAreStopped
  BY <1>1 DEF OrphansAreStopped
<1>14. Lifetimes
  BY <1>1, <1>4, <1>11, RelayConfigIsValid DEF Lifetimes, Leased, NoLease
<1> QED BY <1>7, <1>8, <1>9, <1>10, <1>12, <1>13, <1>14 DEF IInv

\* Every step keeps it.
LEMMA NextIInv == IInv /\ [Next]_vars => IInv'
<1> SUFFICES ASSUME IInv, [Next]_vars PROVE IInv'
  OBVIOUS
<1>1. CASE UNCHANGED vars
  <2>1. UNCHANGED <<coord, nextId, sess, out, unrested, now, outages, held, mover, proven, call>>
    BY <1>1 DEF vars, hist
  <2>2. Types' /\ Shape' /\ Lag' /\ Alive'
    BY <2>1 DEF IInv, Types, Shape, Lag, Alive, Open
  <2>3. Seen' /\ Armed' /\ Pressed' /\ Quiet'
    BY <2>1 DEF IInv, Seen, Armed, Pressed, Quiet, Permission, HasControl, Open, OwnerNow,
                Wanted, Orders, StopAwaits
  <2>4. Lifetimes' /\ OrphansAreStopped'
    BY <2>1 DEF IInv, Lifetimes, OrphansAreStopped, Orders, Admitteds, StopAwaits
  <2> QED BY <2>2, <2>3, <2>4 DEF IInv
<1>2. ASSUME NEW c \in Conn,
             \/ Connect(c) \/ Disconnect(c) \/ Telemetry(c) \/ TakeControl(c)
             \/ StopMessage(c) \/ Rejected(c)
      PROVE  IInv'
  BY <1>2, ConnectStep, DisconnectStep, TelemetryStep, TakeControlStep, StopMessageStep,
     RejectedStep
<1>3. ASSUME NEW c \in Conn, NEW drive \in Drives, NEW pressed \in BOOLEAN,
             NEW token \in Tokens(c), Movement(c, drive, pressed, token)
      PROVE  IInv'
  BY <1>3, MovementStep
<1>4. ASSUME NEW c \in Conn, NEW i \in DOMAIN sess[c].beats, Pong(c, i)
      PROVE  IInv'
  BY <1>4, PongStep
<1>5. ASSUME NEW c \in Conn, NEW token \in Tokens(c), AskOverride(c, token)
      PROVE  IInv'
  BY <1>5, AskOverrideStep
<1>6. ASSUME NEW ready \in BOOLEAN, ObserveNetwork(ready)
      PROVE  IInv'
  BY <1>6, ObserveNetworkStep
<1>7. ASSUME NEW withheld \in BOOLEAN, NEW rested \in BOOLEAN, Step(withheld, rested)
      PROVE  IInv'
  BY <1>7, StepStep
<1>8. CASE Tick
  BY <1>8, TickStep
<1> QED BY <1>1, <1>2, <1>3, <1>4, <1>5, <1>6, <1>7, <1>8 DEF Next

\* IInv is an invariant.
LEMMA IInvHolds == Spec => []IInv
BY InitIInv, NextIInv, PTL DEF Spec

\* Every variable keeps its type, and neither the mailbox nor a connection's
\* tokens outgrow their slots.
THEOREM ManualTypeCorrect == Spec => []TypeOK
<1>1. ASSUME IInv PROVE TypeOK
  <2>1. Cardinality(coord.box) <= 1
    <3>1. CASE coord.box = {}
      BY <3>1, FS_EmptySet
    <3>2. CASE coord.box # {}
      <4>1. PICK e : coord.box = {e}
        BY <1>1, <3>2 DEF IInv, Shape
      <4> QED BY <4>1, FS_Singleton, SMTT(30)
    <3> QED BY <3>1, <3>2
  <2>2. \A e \in Envelopes : e.command \in Command /\ e.until \in Nat
    BY ManualConfigIsValid DEF Envelopes, Admission, Command, Stop, Inhibition
  <2>3. \A c \in Conn : sess[c].id \in 0 .. nextId
    <3> SUFFICES ASSUME NEW c \in Conn PROVE sess[c].id \in 0 .. nextId
      OBVIOUS
    <3>1. sess[c].id \in Nat /\ nextId \in Nat /\ sess[c].id <= nextId
      BY <1>1 DEF IInv, Types, Shape, Connection
    <3> QED BY <3>1
  <2> QED BY <1>1, <2>1, <2>2, <2>3 DEF TypeOK, IInv, Types, Shape, Coordinations
<1> QED BY <1>1, IInvHolds, PTL

\* Movement admitted under a grant that has ended has a stop in front of it: no
\* successor inherits motion, however control changed hands (lifecycle.rs claim,
\* release and advance).
THEOREM SuccessorsInheritNoMotion == Spec => []OrphansAreStopped
<1>1. IInv => OrphansAreStopped
  BY DEF IInv
<1> QED BY <1>1, IInvHolds, PTL

\* No command moves anything beyond the life of the token it named, whatever
\* admission, mailbox and relays delay (session.rs, mailbox.rs, drive.rs).
THEOREM MotionOutlivesNoToken == Spec => []MotionDiesWithItsToken
<1>1. IInv => MotionDiesWithItsToken
  BY DEF IInv, Lifetimes, MotionDiesWithItsToken
<1> QED BY <1>1, IInvHolds, PTL

\* Whoever owns control was known to be there within a timely heartbeat and one
\* operator lease (session.rs LeaseHeartbeat, operator.rs OperatorLease).
THEOREM OwnersAreAlive == Spec => []OwnershipIsProven
<1>1. ASSUME IInv PROVE OwnershipIsProven
  <2> SUFFICES ASSUME OwnerNow # {}
               PROVE  now - proven < CommandMaxAge - 1 + OperatorLease
    BY DEF OwnershipIsProven
  <2>1. PICK g \in coord.lease.grant : now < g.until
    BY DEF OwnerNow, Owner, CurrentGrant
  <2>2. g.until <= proven + CommandMaxAge - 1 + OperatorLease
    BY <1>1 DEF IInv, Alive
  <2>3. g.until \in Nat /\ now \in Nat /\ proven \in Nat
    <3>1. coord.lease \in Lease /\ now \in 0 .. MaxTime /\ proven \in 0 .. now
      BY <1>1 DEF IInv, Types, Coordinations
    <3> QED BY <2>1, <3>1, ManualConfigIsValid DEF Lease, Grant
  <2> QED BY <2>1, <2>2, <2>3, SessionConfigIsValid, OperatorLeaseIsPositive
<1> QED BY <1>1, IInvHolds, PTL

\* No event but a pass calls itself one.
LEMMA OnlyStepsReachTheOutput ==
  ASSUME [Next]_vars, ~UNCHANGED vars, call' # "other"
  PROVE  \E withheld, rested \in BOOLEAN : Step(withheld, rested)
BY ZenonT(60) DEF Next, Connect, Disconnect, Telemetry, TakeControl, StopMessage, Movement, Rejected,
       Pong, AskOverride, ObserveNetwork, Tick, Watch, Elsewhere

\* Whatever a pass leaves moving is the present owner's, who still presses: no
\* stop, disconnection, expiry, transfer or outage is lost in a race with the
\* movement (web.rs run_session, coordination.rs, lifecycle.rs take_command).
THEOREM MotionIsAlwaysPressed == Spec => MotionIsPressed
<1>1. IInv /\ [Next]_vars
        => [call' = "pass" => \A e \in mover' : e.conn \in held' /\ e.grant = OwnerNow']_vars
  <2> SUFFICES ASSUME IInv, [Next]_vars, ~UNCHANGED vars, call' = "pass"
               PROVE  \A e \in mover' : e.conn \in held' /\ e.grant = OwnerNow'
    OBVIOUS
  <2>1. PICK withheld, rested \in BOOLEAN : Step(withheld, rested)
    BY OnlyStepsReachTheOutput
  <2>2. \A e \in mover' : Wanted(e)'
    BY <2>1, StepWanted
  <2> QED BY <2>2 DEF Wanted
<1> QED BY <1>1, IInvHolds, PTL DEF Spec, MotionIsPressed

\* Nothing moves on the strength of telemetry from before the last outage
\* (session.rs observe_network, actuator.rs step).
THEOREM PressesSawRecovery == Spec => PressSawRecovery
<1>1. IInv /\ [Next]_vars
        => [call' = "pass" => \A e \in mover' : e.token.seen = outages']_vars
  <2> SUFFICES ASSUME IInv, [Next]_vars, ~UNCHANGED vars, call' = "pass"
               PROVE  \A e \in mover' : e.token.seen = outages'
    OBVIOUS
  <2>1. PICK withheld, rested \in BOOLEAN : Step(withheld, rested)
    BY OnlyStepsReachTheOutput
  <2>2. \A e \in mover' : Wanted(e)'
    BY <2>1, StepWanted
  <2> QED BY <2>2 DEF Wanted
<1> QED BY <1>1, IInvHolds, PTL DEF Spec, PressSawRecovery

\* A startup-rest override takes effect for the owner who asked, while its
\* telemetry is fresh, across no outage and at rest (service_actuator).
THEOREM OverridesAreStillWanted == Spec => OverrideIsStillWanted
<1> DEFINE A == call' = "override" =>
                  /\ ~Moving(out') /\ coord'.box = {}
                  /\ \E r \in coord.asked :
                       OwnerNow' = {r.token} /\ now < r.until /\ r.seen = outages'
<1>1. IInv /\ [Next]_vars => [A]_vars
  <2> SUFFICES ASSUME IInv, [Next]_vars, ~UNCHANGED vars, call' = "override"
               PROVE  /\ ~Moving(out') /\ coord'.box = {}
                      /\ \E r \in coord.asked :
                           OwnerNow' = {r.token} /\ now < r.until /\ r.seen = outages'
    OBVIOUS
  <2>1. PICK withheld, rested \in BOOLEAN : Step(withheld, rested)
    BY OnlyStepsReachTheOutput
  <2>2. /\ coord' \in Coordinations(Envelopes, Asks) /\ coord'.box = {}
        /\ ~InMotion(out'.guard) /\ Ready(coord'.network, now)
        /\ \E r \in coord.asked : /\ r.token \in Owner(coord'.lease, now) /\ now < r.until
                                  /\ r.generation = coord.network.generation
    BY <2>1, StepFacts
  <2>3. PICK r \in coord.asked : /\ r.token \in Owner(coord'.lease, now) /\ now < r.until
                                 /\ r.generation = coord.network.generation
    BY <2>2
  <2>4. now' = now /\ now \in Nat /\ coord'.lease \in Lease
    BY <2>1, <2>2, ManualConfigIsValid DEF Step, IInv, Types, Coordinations
  <2>5. Permission' /\ OwnerNow' = Owner(coord'.lease, now)
    BY <2>2, <2>4 DEF Permission, OwnerNow
  <2>6. Permission /\ outages' = outages
    BY <2>1, <2>5, StepWanted
  <2>7. r.seen = outages
    BY <2>3, <2>6 DEF IInv, Seen
  <2>8. OwnerNow' = {r.token}
    BY <2>3, <2>4, <2>5, OwnerFacts
  <2> QED BY <2>2, <2>3, <2>6, <2>7, <2>8 DEF Moving, InMotion
<1> QED BY <1>1, IInvHolds, PTL DEF Spec, OverrideIsStillWanted
=============================================================================
