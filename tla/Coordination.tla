---------------------------- MODULE Coordination ----------------------------
(***************************************************************************)
(* The device owner between the connections and the output task:           *)
(* CoordinationState of crates/ezal-core/src/coordination.rs over the      *)
(* leases and the mailbox of tracking/lifecycle.rs, in Manual mode.  A     *)
(* tracking run never exists here, so the runtime's servicing comes down   *)
(* to the expiry of the operator lease.                                    *)
(*                                                                         *)
(* The state is a record                                                   *)
(*   lease   : OperatorLease (Operator)                                    *)
(*   network : NetworkGate (Network)                                       *)
(*   box     : CommandMailbox (Mailbox)                                    *)
(*   asked   : the set holding the pending startup-rest override           *)
(***************************************************************************)
EXTENDS Operator, Network, Mailbox

NewCoordination ==
  [lease |-> NewLease, network |-> NewNetwork, box |-> {}, asked |-> {}]

Inhibited(c) == [c EXCEPT !.box = Submitted(@, Stop)]

\* Mutant of Serviced: an expired grant goes unnoticed by the output.
ServicedQuietly(c, now) == [c EXCEPT !.lease = AdvanceLease(@, now)]

\* TrackingRuntime::service and TrackingLifecycle::advance: an expired owner's
\* motion is stopped.
Serviced(c, now) ==
  LET next == [c EXCEPT !.lease = AdvanceLease(@, now)]
  IN  IF next.lease = c.lease THEN c ELSE Inhibited(next)

\* TrackingLifecycle::release.
Released(c, token, now) ==
  LET live == Serviced(c, now)
  IN  IF token \notin Owner(live.lease, now) THEN live
      ELSE Inhibited([live EXCEPT !.lease = ReleaseGrant(@, token, now)])

\* revoke_network_motion: whoever owns control loses it.
Revoked(c, now) ==
  LET owners == Owner(c.lease, now)
  IN  IF owners = {} THEN Serviced(c, now)
      ELSE Released(c, CHOOSE token \in owners : TRUE, now)

\* advance.
Advanced(c, now) ==
  IF Lapsed(c.network, now) THEN Revoked([c EXCEPT !.network = Expire(@, now)], now) ELSE c

\* publish_network.
PublishedNetwork(c, ready, now) ==
  LET next == [c EXCEPT !.network = Observe(@, ready, now)]
  IN  IF Lost(c.network, ready, now) THEN Revoked(next, now) ELSE next

\* TrackingLifecycle::claim: whatever moved before, a new owner starts from a
\* stop.
Claimed(c, client, now) ==
  LET live == Serviced(c, now)
      next == [live EXCEPT !.lease = Claim(@, client, now)]
  IN  IF CurrentGrant(live.lease, now) = {} THEN Inhibited(next) ELSE next

\* take_control, and what register_client does for a new connection.
TakenControl(c, client, now) ==
  LET live == Advanced(c, now)
  IN  IF Ready(live.network, now) THEN Claimed(live, client, now) ELSE live

Owns(c, client, now) == \E token \in Owner(c.lease, now) : token.client = client

\* release_client.
ReleasedClient(c, client, now) ==
  LET live == Advanced(c, now)
  IN  IF Owns(live, client, now) THEN Revoked(live, now) ELSE live

\* renew_operator.
RenewedOperator(c, token, now) ==
  LET live == Advanced(c, now)
      serviced == Serviced(live, now)
  IN  IF ~Ready(live.network, now) THEN live
      ELSE [serviced EXCEPT !.lease = Renew(@, token, now)]

\* accept_command and the manual_command of TrackingRuntime and
\* TrackingLifecycle.
AcceptedCommand(c, client, envelope, now) ==
  LET live == Advanced(c, now)
      serviced == Serviced(live, now)
      admitted == Ready(live.network, now) /\ FreshCommand(envelope, now)
  IN  IF ~Owns(live, client, now) THEN live
      ELSE IF admitted THEN [serviced EXCEPT !.box = Submitted(@, envelope)]
      ELSE serviced

\* startup_override_permitted.
OverridePermitted(c, token, now) == Ready(c.network, now) /\ token \in Owner(c.lease, now)

\* request_startup_rest_override, for an output at rest that requires a rest or
\* not.  The token is the grant the request names.
RequestedOverride(c, token, until, atRest, seen, now) ==
  LET live == Advanced(c, now)
  IN  IF now < until /\ OverridePermitted(live, token, now) /\ atRest /\ live.asked = {}
        THEN [Inhibited(Serviced(live, now)) EXCEPT
               !.asked = {[token |-> token, until |-> until,
                           generation |-> live.network.generation, seen |-> seen]}]
        ELSE live

\* Mutant of OverrideGranted: what was admitted is applied.
OverrideGrantedOnce(c, request, now) == TRUE

\* service_actuator's own check of the request: ownership, generation and
\* freshness may be gone since its admission.
OverrideGranted(c, request, now) ==
  /\ now < request.until
  /\ c.network.generation = request.generation
  /\ OverridePermitted(c, request.token, now)

\* take_actuator_input and take_command: the state before the mailbox is
\* emptied, and the state after.
Drawn(c, now) == Serviced(Advanced(c, now), now)
Drained(c, now) == [Drawn(c, now) EXCEPT !.box = {}, !.asked = {}]
=============================================================================
