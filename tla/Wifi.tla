-------------------------------- MODULE Wifi --------------------------------
(***************************************************************************)
(* The supervisor of the network: `supervise`, `associate_once`, `leave`   *)
(* and `hold_permission` of crates/ezal-firmware/src/wifi.rs with the      *)
(* retry schedule of crates/ezal-core/src/wifi.rs.  It is the only writer  *)
(* of the network permit.                                                  *)
(*                                                                         *)
(* Every await of the supervisor has a deadline, so no wait but a held     *)
(* permit lasts: how long each is matters to nothing here, and an await    *)
(* ends in an answer or in its deadline.  Time is counted for the permit   *)
(* alone.  The radio, the access point and the network stack are external; *)
(* while they are `calm` the radio answers, the access point admits and    *)
(* keeps the station, DHCP gives one usable address, and the executor is   *)
(* in time.  Credentials are valid: with others the task parks.            *)
(***************************************************************************)
EXTENDS Naturals

CONSTANTS
  Address,         \* IPv4 addresses a lease can carry
  Usable,          \* those that are neither unspecified, multicast, ... nor loopback
  JoinAttempts,    \* timed-out joins of a group, see retry_timed_out_join
  MaxBackoff,      \* the limit of backoff_secs
  NetworkTimeout   \* NETWORK_TIMEOUT_MS

ASSUME WifiConstants ==
  /\ Usable \subseteq Address
  /\ JoinAttempts \in Nat \ {0} /\ MaxBackoff \in Nat \ {0} /\ NetworkTimeout \in Nat \ {0}

VARIABLES
  pc,       \* what `supervise` awaits
  retries,  \* ConnectionRetries: [attempt, backoff]
  address,  \* hold_permission's address
  led,      \* "dark", "flashing" and "done": startup_complete and its flash
  radio,    \* whether the station is associated
  link,     \* the stack's view of that
  dhcp,     \* whether the stack is configured to use DHCP
  lease,    \* Stack::config_v4, {} or {an address}
  permit,   \* how long the permit still lasts, 0 without one
  lost,     \* history: for how long the network has not been as granted
  calm

supervisor == <<pc, retries, address, led>>
stack == <<link, dhcp, lease>>
wifiVars == <<supervisor, radio, stack, permit, lost, calm>>

NewRetries == [attempt |-> 1, backoff |-> 1]

\* ConnectionRetries::retry_timed_out_join.
MayRetryJoin(r) == r.attempt < JoinAttempts
RetriedJoin(r) == [r EXCEPT !.attempt = @ + 1]

\* ConnectionRetries::backoff_secs, without the delay it returns.
BackedOff(r) ==
  [attempt |-> 1, backoff |-> IF 2 * r.backoff < MaxBackoff THEN 2 * r.backoff ELSE MaxBackoff]

\* network_ready.
NetworkReady == link /\ \E a \in lease : a \in Usable

\* Mutant of AsGranted: another address is as good.
AsGrantedAnywhere == NetworkReady

\* hold_permission's condition.
AsGranted == NetworkReady /\ lease = address

-----------------------------------------------------------------------------
(* The supervisor.                                                         *)

\* The top of the loop: no lease from an earlier link may count.
TryAgain == pc' = "leave" /\ dhcp' = FALSE /\ lease' = {} /\ link' = link

\* A disassociation that is not acknowledged may have happened or not.
Disassociates(next, failed) ==
  \/ radio' = FALSE /\ pc' = next
  \/ ~calm /\ radio' \in {radio, FALSE} /\ pc' = failed

\* associate_once up to its join: without an acknowledged leave there is none.
LeavesOld ==
  /\ pc = "leave"
  /\ Disassociates("join", "backoff")
  /\ UNCHANGED <<retries, address, led, stack, permit, calm>>

JoinSucceeds ==
  /\ pc = "join"
  /\ radio' = TRUE /\ pc' = "dhcp"
  /\ dhcp' = TRUE /\ lease' = {} /\ link' = link
  /\ UNCHANGED <<retries, address, led, permit, calm>>

JoinFails ==
  /\ pc = "join" /\ ~calm
  /\ pc' = "cleanup"
  /\ UNCHANGED <<retries, address, led, radio, stack, permit, calm>>

JoinTimesOut ==
  /\ pc = "join" /\ ~calm
  /\ IF MayRetryJoin(retries)
       THEN retries' = RetriedJoin(retries) /\ TryAgain
       ELSE retries' = retries /\ pc' = "cleanup" /\ UNCHANGED stack
  /\ UNCHANGED <<address, led, radio, permit, calm>>

CleansUp ==
  /\ pc = "cleanup"
  /\ Disassociates("backoff", "backoff")
  /\ UNCHANGED <<retries, address, led, stack, permit, calm>>

\* wait_config_up was answered: only a usable network restores the schedule.
Configured ==
  /\ pc = "dhcp" /\ lease # {}
  /\ IF NetworkReady
       THEN /\ pc' = "hold" /\ retries' = NewRetries /\ address' = lease
            /\ led' = IF led = "dark" THEN "flashing" ELSE led
       ELSE pc' = "backoff" /\ UNCHANGED <<retries, address, led>>
  /\ UNCHANGED <<radio, stack, permit, calm>>

\* A network that answers DHCP while it lasts does so in time.
DhcpTimesOut ==
  /\ pc = "dhcp" /\ (~calm \/ ~radio)
  /\ pc' = "backoff"
  /\ UNCHANGED <<retries, address, led, radio, stack, permit, calm>>

\* hold_permission, a poll that renews the permit.
Renews ==
  /\ pc = "hold" /\ AsGranted
  /\ permit' = NetworkTimeout
  /\ UNCHANGED <<supervisor, radio, stack, calm>>

\* hold_permission returns, whatever woke it.  The startup flash that it was
\* joined with may still have to end.
Revokes ==
  /\ pc = "hold" /\ ~AsGranted
  /\ permit' = 0
  /\ pc' = IF led = "flashing" THEN "flash" ELSE "backoff"
  /\ UNCHANGED <<retries, address, led, radio, stack, calm>>

FlashEnds ==
  /\ led = "flashing" /\ led' = "done"
  /\ pc' = IF pc = "flash" THEN "backoff" ELSE pc
  /\ UNCHANGED <<retries, address, radio, stack, permit, calm>>

BackoffEnds ==
  /\ pc = "backoff"
  /\ retries' = BackedOff(retries)
  /\ TryAgain
  /\ UNCHANGED <<address, led, radio, permit, calm>>

Associates == LeavesOld \/ JoinSucceeds \/ JoinFails \/ JoinTimesOut \/ CleansUp
Supervise == Associates \/ Configured \/ DhcpTimesOut \/ Renews \/ Revokes \/ BackoffEnds

-----------------------------------------------------------------------------
(* What it supervises.                                                     *)

\* The access point drops the station, or a join that had timed out comes
\* through after all.
RadioChanges ==
  /\ ~calm
  /\ radio \/ pc \in {"cleanup", "backoff", "leave"}
  /\ radio' = ~radio
  /\ UNCHANGED <<supervisor, stack, permit, calm>>

\* The stack notices: a lost link takes its DHCP lease with it.
LinkChanges ==
  /\ link # radio
  /\ link' = radio
  /\ lease' = IF radio THEN lease ELSE {}
  /\ UNCHANGED <<supervisor, radio, dhcp, permit, calm>>

\* DHCP answers for the first time; later it may change its mind.
Leases ==
  /\ dhcp /\ link /\ radio
  /\ \E a \in Address :
       /\ calm => a \in Usable /\ lease = {}
       /\ lease' = {a}
  /\ UNCHANGED <<supervisor, radio, link, dhcp, permit, calm>>

LeaseEnds ==
  /\ ~calm /\ lease' = {}
  /\ UNCHANGED <<supervisor, radio, link, dhcp, permit, calm>>

\* Time passes for the permit (core network.rs), polled for or not.
PermitAges ==
  /\ permit > 0 /\ permit' = permit - 1
  /\ UNCHANGED <<supervisor, radio, stack, calm>>

WeatherChanges == calm' = ~calm /\ UNCHANGED <<supervisor, radio, stack, permit>>

\* History, for every step.
Granted == pc = "hold" /\ NetworkReady /\ lease = address
NoteLoss ==
  lost' = IF Granted' THEN 0
          ELSE IF permit' < permit /\ pc' = "hold" /\ lost < NetworkTimeout THEN lost + 1
          ELSE lost

WifiInit ==
  /\ pc = "leave" /\ retries = NewRetries /\ address = {} /\ led = "dark"
  /\ radio \in BOOLEAN   \* a debugger's reset may leave the chip associated
  /\ link = FALSE /\ dhcp = FALSE /\ lease = {}
  /\ permit = 0 /\ lost = 0 /\ calm = FALSE

Weather == RadioChanges \/ LinkChanges \/ Leases \/ LeaseEnds \/ PermitAges \/ WeatherChanges

WifiNext == (Supervise \/ FlashEnds \/ Weather) /\ NoteLoss

\* Every await of the supervisor and of its flash has a deadline, and the stack
\* runs whenever its driver wakes it.
WifiFairness ==
  /\ WF_wifiVars(Supervise /\ NoteLoss)
  /\ WF_wifiVars(FlashEnds /\ NoteLoss)
  /\ WF_wifiVars(LinkChanges /\ NoteLoss)
  /\ WF_wifiVars(Leases /\ NoteLoss)
=============================================================================
