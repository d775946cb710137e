------------------------------ MODULE MCUplink ------------------------------
(* The network, the clock and the forecast on small instances, in two         *)
(* scenes: storms, in which the network comes and goes at will from a reset   *)
(* on while no server answers, and forecasts, in which the internet comes and *)
(* goes and the network is lost under a download.                             *)
EXTENDS Uplink

CONSTANT Issued   \* the satellites whose first elements are the oldest

VARIABLE scene

Holding ==
  /\ pc = "hold" /\ retries = NewRetries /\ address = {1} /\ led = "done"
  /\ radio = TRUE /\ link = TRUE /\ dhcp = TRUE /\ lease = {1}
  /\ permit = NetworkTimeout /\ lost = 0 /\ calm = TRUE

MCInit ==
  /\ InternetInit
  /\ \A s \in Satellite, e \in Epoch :
       IF s \in Issued THEN offer[s] <= e ELSE offer[s] >= e
  /\ \/ scene = "storms" /\ WifiInit
     \/ scene = "forecasts" /\ Holding

\* A network that is held is lost by its lease, during a download, and the
\* supervisor polls in time.
MCNext ==
  /\ UplinkNext
  /\ scene' = scene
  /\ scene = "storms" => UNCHANGED internet
  /\ scene = "forecasts" =>
       /\ lease' \subseteq {1}
       /\ ~calm' => fetching \in Framing
       /\ permit' \in {0, NetworkTimeout}
       /\ ~calm => calm' \/ lease' # lease

MCSpec == MCInit /\ [][MCNext]_<<uplinkVars, scene>> /\ UplinkFairness
=============================================================================
