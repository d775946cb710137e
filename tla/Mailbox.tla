------------------------------ MODULE Mailbox ------------------------------
(***************************************************************************)
(* The one place a command waits for the output task: CommandMailbox of    *)
(* crates/ezal-core/src/tracking/mailbox.rs and the freshness check with   *)
(* which lifecycle.rs empties it.  A box is a set of at most one envelope, *)
(* a record with at least a command and the instant it is valid until.     *)
(***************************************************************************)
EXTENDS Relay

Envelope == [command : Command, until : Nat]

\* CommandEnvelope::INHIBIT.  Inhibitions have no expiry of their own.
Stop == [command |-> Inhibition, until |-> 0]

\* Mutant of Submitted: requests queue up.
SubmittedQueued(box, envelope) == box \cup {envelope}

\* Mutant of Submitted: a later request replaces an unconsumed inhibition.
SubmittedAlways(box, envelope) == {envelope}

\* CommandMailbox::submit.
Submitted(box, envelope) ==
  IF \E e \in box : e.command.kind = "Inhibit" THEN box ELSE {envelope}

\* lifecycle.rs fresh.
FreshCommand(e, now) ==
  e.command.kind = "Inhibit" \/ (e.until > now /\ e.until - now <= MovementLease)

\* TrackingLifecycle::take_command: a command that expired in the mailbox is a
\* stop.
Taken(box, now) == {IF FreshCommand(e, now) THEN e ELSE Stop : e \in box}
=============================================================================
