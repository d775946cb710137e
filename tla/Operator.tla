------------------------------ MODULE Operator ------------------------------
(***************************************************************************)
(* Exclusive, expiring ownership of manual control: OperatorLease of       *)
(* crates/ezal-core/src/operator.rs.  A lease is a record                  *)
(*   grant      : the set holding the grant, {} for None                   *)
(*   generation : how many grants there have been                          *)
(* Clocks do not run backwards and counters do not run out here, so the    *)
(* failures for those are left out.                                        *)
(***************************************************************************)
EXTENDS Naturals

CONSTANT OperatorLease   \* OPERATOR_LEASE_MS

ASSUME OperatorLeaseIsPositive == OperatorLease \in Nat \ {0}

\* A grant is bound to its connection and to a generation never used again.
Token == [client : Nat, generation : Nat]
Grant == [token : Token, until : Nat]
Lease == [grant : {s \in SUBSET Grant : \A x, y \in s : x = y}, generation : Nat]

NewLease == [grant |-> {}, generation |-> 0]

\* OperatorLease::current: a read neither extends a grant nor expires it, and
\* an expired grant is void before anyone notices.
CurrentGrant(l, now) == {g \in l.grant : now < g.until}

Owner(l, now) == {g.token : g \in CurrentGrant(l, now)}

\* OperatorLease::advance.
AdvanceLease(l, now) == [l EXCEPT !.grant = CurrentGrant(l, now)]

\* OperatorLease::claim: vacant control goes to whoever asks; the owner asking
\* again keeps its grant and its deadline.
Claim(l, client, now) ==
  IF CurrentGrant(l, now) # {} THEN l
  ELSE [grant |-> {[token |-> [client |-> client, generation |-> l.generation + 1],
                    until |-> now + OperatorLease]},
        generation |-> l.generation + 1]

\* OperatorLease::renew: only exactly the current grant has a heartbeat.
Renew(l, token, now) ==
  IF token \notin Owner(l, now) THEN AdvanceLease(l, now)
  ELSE [l EXCEPT !.grant = {[token |-> token, until |-> now + OperatorLease]}]

\* OperatorLease::release.
ReleaseGrant(l, token, now) ==
  [l EXCEPT !.grant = {g \in CurrentGrant(l, now) : g.token # token}]
=============================================================================
