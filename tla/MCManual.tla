------------------------------ MODULE MCManual ------------------------------
(***************************************************************************)
(* Manual on one axis, for TLC.                                            *)
(*                                                                         *)
(* As in MCDrive, times count by how far ahead or behind they lie.  Serial *)
(* numbers, which are only ever compared with the current one, count by    *)
(* whether they are it; expired tokens and pings, and those of grants that *)
(* are gone, can never count again and are the first to leave the ring.    *)
(* The last entry is always TRUE: it makes TLC evaluate the guard's        *)
(* functions before it stores a state.                                     *)
(***************************************************************************)
EXTENDS Manual

CONSTANT az

Ahead(t) == IF t > now THEN t - now ELSE 0
Behind(t, most) == IF now - t < most THEN now - t ELSE most

RelayView(r) ==
  <<r.target, r.actual, r.last,
    IF r.actual = Off THEN 0 ELSE Ahead(r.onUntil),
    Ahead(r.offUntil), Ahead(r.reverseUntil)>>

OutputView ==
  <<[a \in Axis |-> RelayView(out.guard.relay[a])],
    out.guard.lease # NoLease, Ahead(out.guard.lease),
    out.generation = coord.network.generation>>

TokenView(t) == <<Ahead(t.until), t.seen = outages>>

\* Tokens of a past network generation, and all of them while there is no
\* permission, are rejected before they are looked at.
FreshView(f) ==
  LET live == SelectSeq(f.tokens, LAMBDA t : t.until > now)
  IN  IF Permission /\ f.network = {coord.network.generation}
        THEN <<[i \in DOMAIN live |-> TokenView(live[i])], Ahead(f.armed)>>
        ELSE <<>>

LivePing(slot) == {p \in slot : p.until > now /\ p.token \in OwnerNow}

\* Without the pings at the front that can no longer be answered.
BeatsView(h) ==
  LET live == [i \in DOMAIN h |-> LivePing(h[i])]
      useful == {i \in DOMAIN h : live[i] # {}}
      first == CHOOSE i \in useful : \A j \in useful : i <= j
  IN  IF useful = {} THEN <<>>
      ELSE [i \in 1 .. Len(h) - first + 1 |->
             {Ahead(p.until) : p \in live[first + i - 1]}]

\* Taking control rejects the tokens and the hold of before, so only the
\* owner's count.
Controls(c) == \E token \in OwnerNow : token.client = sess[c].id

SessionView(c) ==
  IF ~Open(c) THEN <<>>
  ELSE IF ~Controls(c) THEN <<\E g \in coord.lease.grant : g.token.client = sess[c].id>>
  ELSE <<FreshView(sess[c].fresh), BeatsView(sess[c].beats), c \in held>>

\* Which grant, and which browser's, a movement was admitted under.
GrantView(grants) == grants = {g.token : g \in coord.lease.grant}
MoveView(e) == <<e.token.seen = outages, GrantView(e.grant)>>

Movements(box) == {e \in box : e.command.kind # "Inhibit"}

BoxView ==
  <<StopAwaits, {<<e.command, Ahead(e.until), MoveView(e)>> : e \in Movements(coord.box)}>>

\* A request that can no longer be granted only keeps others away.
AskedView ==
  {IF r.token \in OwnerNow /\ r.generation = coord.network.generation /\ Permission
     THEN <<Ahead(r.until), r.seen = outages>> ELSE <<0>> : r \in coord.asked}

\* The two browsers are alike: which is which does not matter, only what is
\* known of each.
BrowserView(c) ==
  <<SessionView(c), \E e \in mover : e.conn = c,
    \E e \in Movements(coord.box) : e.conn = c>>

RelativeTime ==
  <<{BrowserView(c) : c \in Conn}, OutputView, unrested,
    {Ahead(g.until) : g \in coord.lease.grant},
    {Behind(t, NetworkTimeout) : t \in coord.network.observed},
    BoxView, AskedView, {MoveView(e) : e \in mover},
    IF OwnerNow = {} THEN 0 ELSE Behind(proven, CommandMaxAge + OperatorLease),
    out.guard \in Guard>>

\* What the lives of the tokens that moved something add to this.
WithTokens ==
  <<RelativeTime, {Ahead(e.token.until) : e \in mover \cup Movements(coord.box)}>>

up == [a \in Axis |-> "up"]
OneWay == {up}
=============================================================================
