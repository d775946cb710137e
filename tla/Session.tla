------------------------------ MODULE Session ------------------------------
(***************************************************************************)
(* What one dashboard connection must show before its input counts:        *)
(* CommandFreshness and LeaseHeartbeat of crates/ezal-core/src/session.rs. *)
(*                                                                         *)
(* Each telemetry batch carries a token; a movement must name one of the   *)
(* last Recent tokens, which keep their original expiry.  seen is what the *)
(* batch showed when it was sent: the code carries nothing of the kind,    *)
(* and only properties read it.  Serial numbers are left out: a token is   *)
(* known by what the code keeps of it.                                     *)
(*                                                                         *)
(* A freshness record is                                                   *)
(*   tokens  : the recent tokens, oldest first                             *)
(*   armed   : until when a hold may follow the last press, 0 for None     *)
(*   network : the network generation of the tokens, {} for None           *)
(***************************************************************************)
EXTENDS Relay, Sequences

CONSTANTS
  CommandMaxAge,  \* COMMAND_MAX_AGE_MS
  Recent          \* the number of slots: 3

ASSUME SessionConfigIsValid ==
  CommandMaxAge \in Nat \ {0} /\ Recent \in Nat \ {0}

NewFreshness == [tokens |-> <<>>, armed |-> 0, network |-> {}]

\* The last Recent entries, as a ring of slots keeps them.
Latest(s) == IF Len(s) > Recent THEN SubSeq(s, Len(s) - Recent + 1, Len(s)) ELSE s

\* CommandFreshness::issue.
Issue(f, now, seen) ==
  [f EXCEPT !.tokens = Latest(Append(@, [until |-> now + CommandMaxAge, seen |-> seen]))]

\* Mutant of Disarm: a stop leaves the hold armed.
DisarmNothing(f) == f

Disarm(f) == [f EXCEPT !.armed = 0]

\* Mutant of Reject: the tokens a rejected input could have named survive.
RejectKeepsTokens(f) == Disarm(f)

Reject(f) == [f EXCEPT !.armed = 0, !.tokens = <<>>]

\* CommandFreshness::observe_network: no token crosses a gap in the network.
HearNetwork(f, generation, ready) ==
  LET heard == IF ready THEN {generation} ELSE {}
  IN  [(IF heard = {} \/ heard # f.network THEN Reject(f) ELSE f) EXCEPT !.network = heard]

\* CommandFreshness::proof_deadline, as the set of tokens that are still good.
Proofs(f, now) == {f.tokens[i] : i \in {i \in DOMAIN f.tokens : now < f.tokens[i].until}}

\* Mutant of Deadline: admission starts a new lifetime.
DeadlineAfresh(token, now) == now + MovementLease

\* The deadline an admitted movement has: its token's, or a lease from now.
Deadline(token, now) ==
  IF token.until <= now + MovementLease THEN token.until ELSE now + MovementLease

\* CommandFreshness::admit, for a sequence number newer than the last.  An
\* older one is refused like an unknown token.
Admits(f, token, pressed, now) == token \in Proofs(f, now) /\ (pressed \/ now < f.armed)

\* What an admitted movement leaves: a hold may follow it.
Admitted(f, token, now) == [f EXCEPT !.armed = Deadline(token, now)]

-----------------------------------------------------------------------------
(* Heartbeats: the last Recent pings, each a set that empties when the     *)
(* ping is answered.                                                       *)

NewHeartbeat == <<>>

\* LeaseHeartbeat::issue, for a connection that holds the grant token.
Ping(h, token, now) ==
  Latest(Append(h, {[until |-> now + CommandMaxAge, token |-> token]}))

\* Mutant of Acknowledged: a pong counts however late it comes.
AcknowledgedLate(h, i, now) == {p.token : p \in h[i]}

\* LeaseHeartbeat::acknowledge: the grant a timely first pong speaks for.
Acknowledged(h, i, now) == {p.token : p \in {p \in h[i] : now < p.until}}

Answered(h, i) == [h EXCEPT ![i] = {}]
=============================================================================
