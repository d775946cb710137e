--------------------------- MODULE UplinkProofs ---------------------------
(***************************************************************************)
(* Two safety properties of Uplink, for every set of addresses, satellites *)
(* and epochs and every timeout: a permit is backed by its network, and    *)
(* what tracking can capture of a satellite never goes back.               *)
(***************************************************************************)
EXTENDS Uplink, TLAPS

USE DEF supervisor, stack, wifiVars, time, prediction, internet, uplinkVars

-----------------------------------------------------------------------------
(* The permit.  Only a held network has one, and what it may still last and *)
(* what was lost of it make up no more than it was granted for.            *)

PermitInv ==
  /\ permit \in Nat /\ permit <= NetworkTimeout
  /\ lost \in Nat
  /\ permit > 0 => pc = "hold"
  /\ PermitIsBacked

\* Arithmetic, for what a permit still lasts, before and after a step, and for
\* what was lost of it.
LEMMA SumsAreOrdered ==
  ASSUME NEW p \in Nat, NEW q \in Nat, NEW l \in Nat, NEW m \in Nat
  PROVE  /\ q = p /\ m <= l => q + m <= p + l
         /\ p > 0 /\ q = p - 1 /\ m <= l + 1 => q + m <= p + l
         /\ \A n \in Nat : p + l <= n /\ q + m <= p + l => q + m <= n
OBVIOUS

\* Every step of the Wi-Fi supervision keeps the permit backed.
LEMMA WifiKeepsPermitInv == ASSUME PermitInv, WifiNext PROVE PermitInv'
<1>0. NetworkTimeout \in Nat /\ permit \in Nat /\ lost \in Nat
  BY WifiConstants DEF PermitInv
<1>1. lost' \in Nat
  BY <1>0 DEF WifiNext, NoteLoss
<1>e. permit > 0 => permit + lost <= NetworkTimeout
  BY DEF PermitInv, PermitIsBacked
<1>g. ASSUME permit' \in Nat, permit' <= permit, permit' + lost' <= permit + lost,
             permit' > 0 => pc' = "hold"
      PROVE  PermitInv'
  <2>1. permit' > 0 => permit' + lost' <= NetworkTimeout
    <3> SUFFICES ASSUME permit' > 0 PROVE permit' + lost' <= NetworkTimeout
      OBVIOUS
    <3>1. permit > 0
      BY <1>0, <1>g
    <3>2. permit + lost <= NetworkTimeout
      BY <1>e, <3>1
    <3> HIDE DEF PermitInv
    <3> QED BY <1>0, <1>1, <1>g, <3>2, SumsAreOrdered
  <2>2. permit' <= NetworkTimeout
    BY <1>0, <1>g DEF PermitInv
  <2> QED BY <1>1, <1>g, <2>1, <2>2 DEF PermitInv, PermitIsBacked
<1>2. CASE Renews
  <2>1. Granted'
    BY <1>2 DEF Renews, AsGranted, Granted, NetworkReady
  <2>2. lost' = 0
    BY <2>1 DEF WifiNext, NoteLoss
  <2>3. permit' = NetworkTimeout /\ pc' = "hold"
    BY <1>2 DEF Renews
  <2> QED BY <1>0, <2>2, <2>3 DEF PermitInv, PermitIsBacked
<1>3. CASE Revokes
  BY <1>0, <1>1, <1>3 DEF Revokes, PermitInv, PermitIsBacked
<1>4. CASE PermitAges
  <2>1. permit' = permit - 1 /\ permit > 0 /\ pc' = pc
    BY <1>4 DEF PermitAges
  <2>2. lost' <= lost + 1
    BY <1>0 DEF WifiNext, NoteLoss
  <2>3. permit' > 0 => pc' = "hold"
    BY <1>0, <2>1 DEF PermitInv
  <2>4. permit' \in Nat /\ permit' <= permit
    BY <1>0, <2>1
  <2>5. permit' + lost' <= permit + lost
    BY <1>0, <1>1, <2>1, <2>2, <2>4, SumsAreOrdered
  <2> QED BY <1>g, <2>3, <2>4, <2>5
<1>5. ASSUME permit' = permit, pc = "hold" => pc' = "hold" PROVE PermitInv'
  <2>1. lost' <= lost
    BY <1>0, <1>5 DEF WifiNext, NoteLoss
  <2>2. permit' > 0 => pc' = "hold"
    BY <1>5 DEF PermitInv
  <2>3. permit' + lost' <= permit + lost
    BY <1>0, <1>1, <1>5, <2>1, SumsAreOrdered
  <2> QED BY <1>0, <1>5, <1>g, <2>2, <2>3
<1>6. ASSUME Associates \/ Configured \/ DhcpTimesOut \/ BackoffEnds
      PROVE  permit' = permit /\ (pc = "hold" => pc' = "hold")
  <2>1. CASE Associates
    BY <2>1 DEF Associates, LeavesOld, JoinSucceeds, JoinFails, JoinTimesOut, CleansUp
  <2>2. CASE Configured
    BY <2>2 DEF Configured
  <2>3. CASE DhcpTimesOut \/ BackoffEnds
    BY <2>3 DEF DhcpTimesOut, BackoffEnds
  <2> QED BY <1>6, <2>1, <2>2, <2>3
<1>7. ASSUME FlashEnds \/ RadioChanges \/ LinkChanges \/ Leases \/ LeaseEnds \/ WeatherChanges
      PROVE  permit' = permit /\ (pc = "hold" => pc' = "hold")
  BY <1>7 DEF FlashEnds, RadioChanges, LinkChanges, Leases, LeaseEnds, WeatherChanges
<1> QED
  BY <1>2, <1>3, <1>4, <1>5, <1>6, <1>7 DEF WifiNext, Supervise, Weather

\* Every step of the network keeps the permit within NETWORK_TIMEOUT_MS of the
\* network it was granted for; the other tasks do not touch it.
THEOREM PermitIsAlwaysBacked == UplinkSpec => []PermitIsBacked
<1>1. UplinkInit => PermitInv
  BY WifiConstants DEF UplinkInit, WifiInit, PermitInv, PermitIsBacked
<1>2. PermitInv /\ [UplinkNext]_uplinkVars => PermitInv'
  <2> SUFFICES ASSUME PermitInv, [UplinkNext]_uplinkVars PROVE PermitInv'
    OBVIOUS
  <2>1. CASE WifiNext
    BY <2>1, WifiKeepsPermitInv
  <2>2. CASE UNCHANGED wifiVars
    BY <2>2 DEF PermitInv, PermitIsBacked
  <2> QED BY <2>1, <2>2 DEF UplinkNext
<1>3. PermitInv => PermitIsBacked
  BY DEF PermitInv
<1> QED BY <1>1, <1>2, <1>3, PTL DEF UplinkSpec

-----------------------------------------------------------------------------
(* The catalog and what was published of it.                               *)

\* Element sets by satellite, none later than revision `bound`.
Elements(entries, bound) ==
  \A s \in Satellite : \A e \in entries[s] :
    e.epoch \in Nat /\ e.revision \in Nat /\ e.revision <= bound

Catches(old, new) ==
  \A s \in Satellite : \A e \in old[s] : \E f \in new[s] : Follows(e, f)

\* A published source is the catalog's own, or one it has moved on from.
SourceInv ==
  /\ catalog.revision \in Nat
  /\ Elements(catalog.entries, catalog.revision)
  /\ Elements(sources, catalog.revision)
  /\ Catches(sources, catalog.entries)

\* A commit advances the revision, and every entry follows the one it replaces.
LEMMA CommitAdvances ==
  ASSUME NEW c, c.revision \in Nat, Elements(c.entries, c.revision),
         NEW staged \in Staged
  PROVE  LET d == Commit(c, staged)
         IN  /\ d.revision \in Nat /\ d.revision >= c.revision
             /\ Elements(d.entries, d.revision)
             /\ Catches(c.entries, d.entries)
<1> DEFINE P == Published(c, staged)
           new == c.revision + 1
           fresh(s) == {[epoch |-> e, revision |-> new] : e \in staged[s]}
           d == [entries |-> [s \in Satellite |-> IF s \in P THEN fresh(s) ELSE c.entries[s]],
                 revision |-> new]
<1>1. CASE P = {}
  <2>1. Commit(c, staged) = c
    BY <1>1 DEF Commit
  <2>2. Catches(c.entries, c.entries)
    BY DEF Catches, Follows
  <2> QED BY <2>1, <2>2
<1>2. CASE P # {}
  <2>1. Commit(c, staged) = d
    BY <1>2 DEF Commit
  <2>2. \A s \in Satellite : staged[s] \subseteq Nat
    BY UplinkConstants DEF Staged, Maybe
  <2>3. Elements(d.entries, d.revision)
    <3> SUFFICES ASSUME NEW s \in Satellite, NEW e \in d.entries[s]
                 PROVE  e.epoch \in Nat /\ e.revision \in Nat /\ e.revision <= new
      BY DEF Elements
    <3>1. CASE s \in P
      BY <2>2, <3>1
    <3>2. CASE s \notin P
      <4>1. e \in c.entries[s]
        BY <3>2
      <4> QED BY <4>1 DEF Elements
    <3> QED BY <3>1, <3>2
  <2>4. Catches(c.entries, d.entries)
    <3> SUFFICES ASSUME NEW s \in Satellite, NEW e \in c.entries[s]
                 PROVE  \E f \in d.entries[s] : Follows(e, f)
      BY DEF Catches
    <3>1. CASE s \in P
      <4>1. PICK epoch \in staged[s] : Replaces(c.entries[s], epoch)
        BY <3>1 DEF Published
      <4>2. epoch >= e.epoch
        BY <4>1 DEF Replaces
      <4>3. [epoch |-> epoch, revision |-> new] \in d.entries[s]
        BY <3>1, <4>1
      <4>4. new > e.revision
        BY DEF Elements
      <4> QED BY <4>2, <4>3, <4>4 DEF Follows
    <3>2. CASE s \notin P
      BY <3>2 DEF Follows
    <3> QED BY <3>1, <3>2
  <2> QED BY <2>1, <2>3, <2>4
<1> QED BY <1>1, <1>2

\* One source after another, as the catalog moves on.
LEMMA CatchesIsTransitive ==
  ASSUME NEW a, NEW b, NEW c, NEW m, NEW n,
         Elements(a, m), Elements(b, m), Elements(c, n), Catches(a, b), Catches(b, c)
  PROVE  Catches(a, c)
<1> SUFFICES ASSUME NEW s \in Satellite, NEW e \in a[s]
             PROVE  \E g \in c[s] : Follows(e, g)
  BY DEF Catches
<1>1. PICK f \in b[s] : Follows(e, f)
  BY DEF Catches
<1>2. PICK g \in c[s] : Follows(f, g)
  BY DEF Catches
<1>3. Follows(e, g)
  BY <1>1, <1>2 DEF Follows, Elements
<1> QED BY <1>3

\* No step takes a source back to elements it already left.
LEMMA StepKeepsSourceInv ==
  ASSUME SourceInv, [UplinkNext]_uplinkVars
  PROVE  SourceInv' /\ Catches(sources, sources')
<1>1. Catches(sources, sources)
  BY DEF Catches, Follows
<1>2. CASE UNCHANGED <<catalog, sources>>
  BY <1>1, <1>2 DEF SourceInv, Elements, Catches
<1>3. CASE JobEnds
  <2>1. sources' = catalog.entries /\ catalog' = catalog
    BY <1>3 DEF JobEnds
  <2>2. Catches(catalog.entries, catalog.entries)
    BY DEF Catches, Follows
  <2> QED BY <2>1, <2>2 DEF SourceInv
<1>4. CASE DownloadCompletes
  <2>1. PICK staged \in Staged : catalog' = Commit(catalog, staged) /\ sources' = sources
    BY <1>4 DEF DownloadCompletes, Downloaded
  <2> DEFINE d == Commit(catalog, staged)
  <2>2. /\ d.revision \in Nat /\ d.revision >= catalog.revision
        /\ Elements(d.entries, d.revision)
        /\ Catches(catalog.entries, d.entries)
    BY CommitAdvances DEF SourceInv
  <2>3. Elements(sources, d.revision)
    BY <2>2 DEF SourceInv, Elements
  <2>4. Catches(sources, d.entries)
    BY <2>2, CatchesIsTransitive DEF SourceInv
  <2>5. SourceInv'
    BY <2>1, <2>2, <2>3, <2>4 DEF SourceInv
  <2> QED BY <1>1, <2>1, <2>5
<1>5. ASSUME DownloadFails PROVE UNCHANGED <<catalog, sources>>
  BY <1>5 DEF DownloadFails, Downloaded
<1>6. ASSUME Synchronizes \/ SampleFails \/ ClockLapses \/ ElementsAreIssued \/ ServersChange
      PROVE  UNCHANGED <<catalog, sources>>
  BY <1>6 DEF Synchronizes, SampleFails, ClockLapses, ElementsAreIssued, ServersChange
<1>7. ASSUME Fetches \/ HeadArrives \/ FetchFallsDue \/ StartsJob \/ ForecastExpires
      PROVE  UNCHANGED <<catalog, sources>>
  BY <1>7 DEF Fetches, HeadArrives, FetchFallsDue, StartsJob, ForecastExpires
<1>8. CASE UNCHANGED prediction
  BY <1>2, <1>8
<1> QED
  BY <1>2, <1>3, <1>4, <1>5, <1>6, <1>7, <1>8 DEF UplinkNext, Answers, Predict

\* Whatever is downloaded, what tracking_source returns of a satellite is
\* followed only by elements that are as new and were published later.
THEOREM PairAlwaysAdvances == UplinkSpec => PairAdvances
<1>1. UplinkInit => SourceInv
  BY DEF UplinkInit, InternetInit, EmptyCatalog, SourceInv, Elements, Catches
<1>2. SourceInv /\ [UplinkNext]_uplinkVars => SourceInv'
  BY StepKeepsSourceInv
<1>3. SourceInv /\ [UplinkNext]_uplinkVars
        => [\A s \in Satellite : \A old \in sources[s] :
              \E new \in sources'[s] : Follows(old, new)]_uplinkVars
  BY StepKeepsSourceInv DEF Catches
<1> QED BY <1>1, <1>2, <1>3, PTL DEF UplinkSpec, PairAdvances
=============================================================================
