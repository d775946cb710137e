------------------------------- MODULE Manual -------------------------------
(***************************************************************************)
(* Manual control from browser to relay: dashboard connections             *)
(* (crates/ezal-firmware/src/web.rs) with their freshness and heartbeats,  *)
(* the coordination between them, the network supervisor's observations,   *)
(* and the output owner that empties the mailbox.                          *)
(*                                                                         *)
(* A connection delivers messages in any order and at any age: a message   *)
(* that waited in a TCP buffer is one that names an old token.  What the   *)
(* handler of one message does without an await is one action.             *)
(*                                                                         *)
(* The output owner is direction_task with the parts of the actuator that  *)
(* the network and the commands reach; feedback, duty and motion faults,   *)
(* which only ever take movement away, may do so at any pass (withheld).   *)
(* When a pass happens is left open: Output covers its deadlines.          *)
(***************************************************************************)
EXTENDS Coordination, Session, Integers, FiniteSets

CONSTANTS
  Conn,     \* browsers, each with at most one connection at a time
  Drives,   \* the movements they ask for, a subset of DriveCommand
  MaxTime   \* bound on the clock

ASSUME ManualConfigIsValid == Drives \subseteq DriveCommand /\ MaxTime \in Nat

VARIABLES
  coord,    \* CoordinationState
  nextId,   \* its next_client_id
  sess,     \* each browser's connection
  out,      \* the output: its guard and the generation it was served under
  unrested, \* DutyMonitor::startup_rest_required
  now,
  outages,  \* history: how often network permission was lost
  held,     \* history: which browsers press a control
  mover,    \* history: the command that the output follows
  proven,   \* history: when the owner was last known to be there
  call      \* history: what the last step was to the output

hist == <<outages, held, mover, proven, call>>
vars == <<coord, nextId, sess, out, unrested, now, hist>>

\* A connection that is closed has the id that owns nothing.
Closed == [id |-> 0, fresh |-> NewFreshness, beats |-> NewHeartbeat]

Init ==
  /\ coord = NewCoordination
  /\ nextId = 0
  /\ sess = [c \in Conn |-> Closed]
  /\ out = [guard |-> NewGuard, generation |-> 0]
  /\ unrested = TRUE
  /\ now = 0
  /\ outages = 0
  /\ held = {}
  /\ mover = {}
  /\ proven = 0
  /\ call = "other"

-----------------------------------------------------------------------------
(* History.                                                                *)

OwnerNow == Owner(coord.lease, now)
Permission == Ready(coord.network, now)
Outage == Permission /\ ~Permission'

\* The browsers in `down` press a control, those in `up` let go of theirs; an
\* outage or a change of owner ends every press.
Presses(down, up) ==
  /\ outages' = outages + (IF Outage THEN 1 ELSE 0)
  /\ held' = IF Outage \/ OwnerNow' # OwnerNow THEN {} ELSE down \cup (held \ up)

\* A new owner was there at its claim.
Proves(at) == proven' = IF OwnerNow' \ OwnerNow # {} THEN now ELSE at

\* A step that does not reach the output.
Elsewhere(down, up) ==
  Presses(down, up) /\ Proves(proven) /\ call' = "other" /\ UNCHANGED mover
Watch == Elsewhere({}, {})

-----------------------------------------------------------------------------
(* Connections.                                                            *)

Open(c) == sess[c].id # 0

\* ClientSession::register.
Connect(c) ==
  /\ ~Open(c)
  /\ nextId' = nextId + 1
  /\ coord' = TakenControl(coord, nextId', now)
  /\ sess' = [sess EXCEPT ![c] = [Closed EXCEPT !.id = nextId']]
  /\ UNCHANGED <<out, unrested, now>>
  /\ Watch

\* However the callback ends.
Disconnect(c) ==
  /\ Open(c)
  /\ coord' = ReleasedClient(coord, sess[c].id, now)
  /\ sess' = [sess EXCEPT ![c] = Closed]
  /\ UNCHANGED <<nextId, out, unrested, now>>
  /\ Elsewhere({}, {c})

\* Every event of the session first hears of the network.
Heard(c) == HearNetwork(sess[c].fresh, coord.network.generation, Permission)
Becomes(c, fresh) == sess' = [sess EXCEPT ![c].fresh = fresh]

\* send_telemetry.
Telemetry(c) ==
  LET grants == {token \in OwnerNow : token.client = sess[c].id}
      beats == sess[c].beats
  IN  /\ Open(c)
      /\ sess' = [sess EXCEPT
           ![c].fresh = Issue(Heard(c), now, outages),
           ![c].beats = IF grants = {} THEN beats
                        ELSE Ping(beats, CHOOSE token \in grants : TRUE, now)]
      /\ UNCHANGED <<coord, nextId, out, unrested, now>>
      /\ Watch

\* ClientMessage::TakeControl.
TakeControl(c) ==
  /\ Open(c)
  /\ Becomes(c, Reject(Heard(c)))
  /\ coord' = TakenControl(coord, sess[c].id, now)
  /\ UNCHANGED <<nextId, out, unrested, now>>
  /\ Watch

\* ClientMessage::Stop.
StopMessage(c) ==
  /\ Open(c)
  /\ Becomes(c, Disarm(Heard(c)))
  /\ coord' = AcceptedCommand(coord, sess[c].id, Stop, now)
  /\ UNCHANGED <<nextId, out, unrested, now>>
  /\ Elsewhere({}, {c})

\* ClientMessage::Movement, admitted.  The envelope carries the token and the
\* grant it was admitted under for the properties.
Movement(c, drive, pressed, token) ==
  /\ Open(c)
  /\ Admits(Heard(c), token, pressed, now)
  /\ Becomes(c, Admitted(Heard(c), token, now))
  /\ coord' = AcceptedCommand(coord, sess[c].id,
       [command |-> [kind |-> "Jog", drive |-> drive], until |-> Deadline(token, now),
        conn |-> c, token |-> token, grant |-> OwnerNow], now)
  /\ UNCHANGED <<nextId, out, unrested, now>>
  /\ Elsewhere(IF pressed THEN {c} ELSE {}, {})

\* reject_input: a movement not admitted, or a message that says nothing.
Rejected(c) ==
  /\ Open(c)
  /\ Becomes(c, Reject(Heard(c)))
  /\ coord' = AcceptedCommand(coord, sess[c].id, Stop, now)
  /\ UNCHANGED <<nextId, out, unrested, now>>
  /\ Elsewhere({}, {c})

\* A pong for the ping in slot i, issued one CommandMaxAge before its expiry.
Pong(c, i) ==
  LET tokens == Acknowledged(sess[c].beats, i, now)
      sent == {p.until - CommandMaxAge : p \in sess[c].beats[i]}
  IN  /\ Open(c)
      /\ sess' = [sess EXCEPT ![c].fresh = Heard(c), ![c].beats = Answered(@, i)]
      /\ coord' = IF tokens = {} THEN coord
                  ELSE RenewedOperator(coord, CHOOSE t \in tokens : TRUE, now)
      /\ UNCHANGED <<nextId, out, unrested, now, mover>>
      /\ Presses({}, {}) /\ call' = "other"
      /\ Proves(IF coord'.lease # coord.lease /\ OwnerNow' # {}
                  THEN CHOOSE t \in sent : TRUE ELSE proven)

\* The output at rest, as record_actuator last reported it.
AtRest == unrested /\ ~IsActive(Actual(out.guard)) /\ ~IsActive(Target(out.guard))

\* ClientMessage::StartupRest, naming a token and the connection's grant.
AskOverride(c, token) ==
  LET grants == {t \in OwnerNow : t.client = sess[c].id}
      proofs == {token} \cap Proofs(Heard(c), now)
  IN  /\ Open(c)
      /\ Becomes(c, Reject(Heard(c)))
      /\ coord' = IF grants = {} \/ proofs = {} THEN Advanced(coord, now)
                  ELSE RequestedOverride(coord, CHOOSE t \in grants : TRUE, token.until,
                                         AtRest, token.seen, now)
      /\ UNCHANGED <<nextId, out, unrested, now>>
      /\ Watch

-----------------------------------------------------------------------------
(* The network supervisor and the output owner.                            *)

ObserveNetwork(ready) ==
  /\ coord' = PublishedNetwork(coord, ready, now)
  /\ UNCHANGED <<nextId, sess, out, unrested, now>>
  /\ Watch

\* Actuator::step, as far as commands and the network reach.
OutputStep(o, network, envelopes, withheld) ==
  LET cut == IF withheld THEN [o EXCEPT !.guard = InhibitAxes(@, Axis, now)] ELSE o
      revoked == Revoke(cut, network, now)
      meant(e) == IF withheld \/ ~Ready(network, now) THEN Inhibition ELSE e.command
  IN  [revoked EXCEPT !.guard =
        IF envelopes = {} THEN UpdateGuard(@, now)
        ELSE LET e == CHOOSE e \in envelopes : TRUE
             IN  CommandUntil(@, meant(e), now, e.until)]

Moving(o) == IsActive(Actual(o.guard)) \/ IsActive(Target(o.guard))

\* service_actuator and record_actuator.  A full rest of the motors may be over
\* at any pass; a movement proves one as well.
Step(withheld, rested) ==
  LET drawn == Drawn(coord, now)
      taken == Taken(drawn.box, now)
      next == OutputStep(out, drawn.network, taken, withheld)
      needsRest == unrested /\ ~rested /\ ~IsActive(Actual(next.guard))
      overridden == /\ needsRest /\ ~Moving(next)
                    /\ \E r \in coord.asked : OverrideGranted(drawn, r, now)
      moves == {e \in taken : e.command.kind # "Inhibit" /\ IsActive(e.command.drive)}
  IN  /\ rested => unrested /\ ~Moving(out)
      /\ coord' = Drained(coord, now)
      /\ out' = IF overridden THEN OutputStep(next, drawn.network, {Stop}, withheld) ELSE next
      /\ unrested' = (needsRest /\ ~overridden)
      /\ mover' = IF ~Moving(out') THEN {} ELSE IF moves # {} THEN moves ELSE mover
      /\ UNCHANGED <<nextId, sess, now>>
      /\ Presses({}, {}) /\ Proves(proven)
      /\ call' = IF overridden THEN "override" ELSE "pass"

Tick ==
  /\ now < MaxTime
  /\ now' = now + 1
  /\ UNCHANGED <<coord, nextId, sess, out, unrested>>
  /\ Watch

Tokens(c) == {sess[c].fresh.tokens[i] : i \in DOMAIN sess[c].fresh.tokens}

Next ==
  \/ \E c \in Conn :
       \/ Connect(c) \/ Disconnect(c)
       \/ Telemetry(c) \/ TakeControl(c) \/ StopMessage(c) \/ Rejected(c)
       \/ \E drive \in Drives, pressed \in BOOLEAN, token \in Tokens(c) :
            Movement(c, drive, pressed, token)
       \/ \E i \in DOMAIN sess[c].beats : Pong(c, i)
       \/ \E token \in Tokens(c) : AskOverride(c, token)
  \/ \E ready \in BOOLEAN : ObserveNetwork(ready)
  \/ \E withheld, rested \in BOOLEAN : Step(withheld, rested)
  \/ Tick

Spec == Init /\ [][Next]_vars

-----------------------------------------------------------------------------
(* Invariants.                                                             *)

TypeOK ==
  /\ coord.lease \in Lease /\ nextId \in Nat
  /\ Cardinality(coord.box) <= 1
  /\ \A e \in coord.box : e.command \in Command /\ e.until \in Nat
  /\ \A c \in Conn : sess[c].id \in 0 .. nextId /\ Len(sess[c].fresh.tokens) <= Recent
  /\ out.guard \in Guard /\ out.generation \in Nat
  /\ unrested \in BOOLEAN /\ now \in 0 .. MaxTime
  /\ held \subseteq Conn /\ call \in {"other", "pass", "override"}

StopAwaits == \E e \in coord.box : e.command.kind = "Inhibit"

\* Movement, done or queued, that was admitted under a grant which is no longer
\* the one on record has a stop waiting in front of the output task, however
\* the grant ended and whoever has claimed control since (lifecycle.rs claim,
\* release and advance in Manual mode): a successor never inherits motion.
OrphansAreStopped ==
  \A e \in mover \cup {e \in coord.box : e.command.kind # "Inhibit"} :
    e.grant # {g.token : g \in coord.lease.grant} => StopAwaits

\* The output follows no command beyond the life of the token it named, through
\* admission, mailbox, lease and relay delays together ("Preserve original
\* command expiry through transport, mailbox replacement and consumption").
MotionDiesWithItsToken ==
  \A e \in mover : Moving(out) => out.guard.lease <= e.token.until

\* Nobody owns control without a sign of life younger than a timely heartbeat
\* and one operator lease: late or repeated pongs do not keep a browser that is
\* gone in control (LeaseHeartbeat::acknowledge, OperatorLease::renew).
OwnershipIsProven ==
  OwnerNow # {} => now - proven < CommandMaxAge - 1 + OperatorLease

-----------------------------------------------------------------------------
(* What a step may never do.                                               *)

\* A pass of the output task leaves something moving, or waiting to move, only
\* while the owner who asked still owns control and still presses: no stop,
\* rejected input, disconnection, expiry, transfer or outage in between is ever
\* lost, in whatever order it raced the movement (web.rs run_session,
\* coordination.rs).
MotionIsPressed ==
  [][call' = "pass" => \A e \in mover' : e.conn \in held' /\ e.grant = OwnerNow']_vars

\* Nor does anything move on the strength of telemetry sent before the last
\* outage ("Link recovery invalidates even commands already buffered on an
\* established TCP connection", web.rs; CommandFreshness::observe_network).
PressSawRecovery ==
  [][call' = "pass" => \A e \in mover' : e.token.seen = outages']_vars

\* A startup-rest override takes effect only for the owner who asked for it
\* and has owned control without interruption since, while the telemetry that
\* it answers is fresh and no outage has passed since that was sent, and only
\* with nothing moving (service_actuator: "Ownership, network generation,
\* freshness and mode are rechecked here").
OverrideIsStillWanted ==
  [][call' = "override" =>
       /\ ~Moving(out') /\ coord'.box = {}
       /\ \E r \in coord.asked :
            OwnerNow' = {r.token} /\ now < r.until /\ r.seen = outages']_vars
=============================================================================
