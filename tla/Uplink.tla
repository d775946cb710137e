------------------------------ MODULE Uplink ------------------------------
(***************************************************************************)
(* What the firmware does with its network besides serving the dashboard:  *)
(* the supervisor of Wifi.tla, the time task (`synchronize` and `sample`   *)
(* of crates/ezal-firmware/src/time.rs over the clock of crates/ezal-core/ *)
(* src/ntp.rs) and the prediction task (`run`, `download` and `exchange`   *)
(* of crates/ezal-firmware/src/prediction.rs over Catalog.tla).  Tracking  *)
(* reads the clock and the pair of sources and forecast they publish.      *)
(*                                                                         *)
(* As in Wifi.tla every await ends in an answer or in its deadline.  The   *)
(* passes of a forecast are left out; it is "current" while it covers the  *)
(* present time, which time and a corrected clock end.  Servers on the     *)
(* internet are external: while `serving`, they answer, those of elements  *)
(* with what there is on `offer`; otherwise they may be silent, and what   *)
(* comes of elements may be partial or stale.                              *)
(***************************************************************************)
EXTENDS Wifi, Catalog

CONSTANTS
  TimeServer,   \* how many NTP servers are known
  Answering     \* those of 0..TimeServer-1 that ever answer

ASSUME UplinkConstants ==
  /\ TimeServer \in Nat /\ Answering # {} /\ Answering \subseteq 0..TimeServer - 1
  /\ Epoch \subseteq Nat /\ MaxRevision \in Nat

VARIABLES
  clock,      \* "none" or "good": whether unix_s() answers
  server,     \* synchronize's server
  fetching,   \* the prediction task: "idle", a download's framing, or "job"
  due,        \* whether next_fetch has come
  changed,    \* elements_changed
  catalog,
  failed,     \* Shared.elements.download_failed
  sources,    \* Shared.sources
  forecast,   \* Shared.forecast: "none", "current" or "outdated"
  offer,      \* the newest element sets there are
  serving

time == <<clock, server>>
prediction == <<fetching, due, changed, catalog, failed, sources, forecast>>
internet == <<offer, serving>>
uplinkVars == <<wifiVars, time, prediction, internet>>

\* Stack::is_config_up, and the link it needs.
Online == link /\ lease # {}

\* Whoever asks the internet now is answered.
Reachable == calm /\ serving /\ Online

-----------------------------------------------------------------------------
(* The time task.                                                          *)

Synchronizes ==
  /\ serving /\ Online /\ server \in Answering
  /\ clock' = "good"
  /\ UNCHANGED <<server, prediction, internet>>

\* Mutant of SampleFails: the server that failed is asked again.
SameServerAgain ==
  /\ ~(Reachable /\ server \in Answering)
  /\ UNCHANGED <<time, prediction, internet>>

\* synchronize's retry, with the next server.
SampleFails ==
  /\ ~(Reachable /\ server \in Answering)
  /\ server' = (server + 1) % TimeServer
  /\ UNCHANGED <<clock, prediction, internet>>

\* UtcClock::unix_ms after MAX_SYNC_AGE_MS, in which a server that answers is
\* asked many times.
ClockLapses ==
  /\ clock = "good" /\ ~(calm /\ serving)
  /\ clock' = "none"
  /\ UNCHANGED <<server, prediction, internet>>

-----------------------------------------------------------------------------
(* The prediction task.                                                    *)

Fetches ==
  /\ fetching = "idle" /\ clock = "good" /\ due /\ Online
  /\ fetching' = "head"
  /\ UNCHANGED <<due, changed, catalog, failed, sources, forecast, time, internet>>

HeadArrives ==
  /\ fetching = "head" /\ Online
  /\ fetching' \in Framing \ {"head"}
  /\ UNCHANGED <<due, changed, catalog, failed, sources, forecast, time, internet>>

\* The end of a download, in time and complete or not.
Downloaded(committed) ==
  /\ catalog' = committed
  /\ failed' = (committed = catalog)
  /\ changed' = (changed \/ committed # catalog)
  /\ due' = FALSE
  /\ fetching' = "idle"
  /\ UNCHANGED <<sources, forecast, time, internet>>

\* Servers that serve send the newest, whole.
Sends(whole, staged) ==
  IF serving THEN whole /\ \A s \in Satellite : staged[s] = {offer[s]}
  ELSE \A s \in Satellite : \A e \in staged[s] : e <= offer[s]

DownloadCompletes ==
  /\ fetching \in Framing /\ Online
  /\ \E whole \in BOOLEAN, staged \in Staged :
       /\ Sends(whole, staged) /\ Completes(fetching, whole)
       \* Bound: the last publication followed is one of all there is.
       /\ ~serving => catalog.revision + 1 < MaxRevision
       /\ Downloaded(Commit(catalog, staged))

DownloadFails ==
  /\ fetching \in Framing /\ ~Reachable
  /\ Downloaded(catalog)

\* next_fetch comes.  Bound: publications.
FetchFallsDue ==
  /\ ~due /\ catalog.revision < MaxRevision
  /\ due' = TRUE
  /\ UNCHANGED <<fetching, changed, catalog, failed, sources, forecast, time, internet>>

\* Past the fetch of a pass of the loop: needs_forecast, or new elements.
StartsJob ==
  /\ fetching = "idle" /\ clock = "good" /\ ~(due /\ Online)
  /\ changed \/ forecast # "current"
  /\ fetching' = "job"
  /\ UNCHANGED <<due, changed, catalog, failed, sources, forecast, time, internet>>

\* A job's last step, and its publication with the sources it used.
JobEnds ==
  /\ fetching = "job" /\ fetching' = "idle"
  /\ sources' = catalog.entries
  /\ forecast' = "current"
  /\ changed' = FALSE
  /\ UNCHANGED <<due, catalog, failed, time, internet>>

\* Time passes or is corrected.
ForecastExpires ==
  /\ forecast = "current" /\ forecast' = "outdated"
  /\ UNCHANGED <<fetching, due, changed, catalog, failed, sources, time, internet>>

-----------------------------------------------------------------------------
(* The internet.                                                           *)

ElementsAreIssued ==
  /\ catalog.revision < MaxRevision
  /\ \E s \in Satellite :
       /\ offer[s] + 1 \in Epoch
       /\ offer' = [offer EXCEPT ![s] = @ + 1]
  /\ UNCHANGED <<serving, time, prediction>>

ServersChange ==
  /\ serving' = ~serving
  /\ UNCHANGED <<offer, time, prediction>>

-----------------------------------------------------------------------------

InternetInit ==
  /\ clock = "none" /\ server = 0
  /\ fetching = "idle" /\ due = TRUE /\ changed = FALSE
  /\ catalog = EmptyCatalog /\ failed = FALSE
  /\ sources = EmptyCatalog.entries /\ forecast = "none"
  /\ offer \in [Satellite -> Epoch]
  /\ serving = FALSE

UplinkInit == WifiInit /\ InternetInit

Answers == Synchronizes \/ HeadArrives \/ DownloadCompletes
Predict == Fetches \/ DownloadFails \/ StartsJob \/ JobEnds

UplinkNext ==
  \/ WifiNext /\ UNCHANGED <<time, prediction, internet>>
  \/ /\ \/ Answers \/ Predict
        \/ SampleFails \/ ClockLapses \/ FetchFallsDue \/ ForecastExpires
        \/ ElementsAreIssued \/ ServersChange
     /\ UNCHANGED wifiVars

Elsewhere(A) == A /\ UNCHANGED wifiVars

\* Every await has its deadline, and timers fire.  Servers answer for as long
\* as they serve: what they answer an offline station is not asked of them.
UplinkFairness ==
  /\ WifiFairness
  /\ WF_uplinkVars(Elsewhere(Synchronizes))
  /\ WF_uplinkVars(Elsewhere(SampleFails))
  /\ WF_uplinkVars(Elsewhere(HeadArrives \/ DownloadCompletes))
  /\ WF_uplinkVars(Elsewhere(Predict))
  /\ WF_uplinkVars(Elsewhere(FetchFallsDue))

UplinkSpec == UplinkInit /\ [][UplinkNext]_uplinkVars /\ UplinkFairness

-----------------------------------------------------------------------------
(* Properties.                                                             *)

\* The network's permit lasts no longer than NETWORK_TIMEOUT_MS after the
\* network stopped being as it was granted, on the same link with the same
\* usable address, however the losses, the stack's news of them, the polls and
\* the startup flash interleave (hold_permission).
PermitIsBacked == permit > 0 => permit + lost <= NetworkTimeout

Follows(old, new) ==
  new = old \/ (new.epoch >= old.epoch /\ new.revision > old.revision)

\* What tracking can capture of a satellite never goes back: another source
\* has an epoch that is no older and a later publication, whatever stale,
\* partial or cut downloads came between (commit, run and tracking_source).
PairAdvances ==
  [][\A s \in Satellite : \A old \in sources[s] :
       \E new \in sources'[s] : Follows(old, new)]_uplinkVars

\* Once the radio, the access point and the servers stay well, the supervisor
\* holds its network, the motion permit is not lost for good, the clock is
\* set, and every element set there is reaches a current forecast: no retry
\* schedule, exhausted group, failed server or refused download strands them
\* (supervise, synchronize and run).
Recovers ==
  /\ <>[]calm => <>[](pc = "hold") /\ []<>(permit > 0)
  /\ <>[](calm /\ serving) =>
       /\ <>[](clock = "good")
       /\ <>[](\A s \in Satellite : \E e \in sources[s] : e.epoch = offer[s])
       /\ []<>(forecast = "current")
=============================================================================
