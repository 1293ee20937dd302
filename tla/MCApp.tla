-------------------------------- MODULE MCApp --------------------------------
(***************************************************************************)
(* Three scenarios, so that what does not interact is not multiplied:      *)
(*   "deployed"   any deployment, until the page is mounted;               *)
(*   "telemetry"  the gateway, its nodes and overlapping polls;            *)
(*   "visitor"    the visitor, hot reloads and one poll at a time, over    *)
(*                nodes that only join.                                    *)
(***************************************************************************)
EXTENDS AppProperties, TLC

CONSTANT Scenarios
VARIABLE scenario

ByDefault(d) == d.VITE_VAMS_GATEWAY_URL = Unset

MCInit ==
  /\ Init
  /\ scenario \in Scenarios
  /\ scenario # "deployed" => ByDefault(deployment) /\ webgl
  /\ scenario = "visitor" => ~PROD(deployment)

NodesOnlyJoin ==
  \A n \in Nodes : IF IsRegistered(n) THEN nodes'[n] = nodes[n]
                   ELSE nodes'[n] = Unregistered \/ nodes'[n].public_key # NoKey

InFlight(polls) == {s \in Telemetry!Slots : polls[s] # Telemetry!Idle}

MCNext ==
  /\ Next
  /\ UNCHANGED scenario
  /\ scenario = "deployed" => page = "loading" /\ UNCHANGED <<gatewayVars, reachable>>
  /\ scenario = "telemetry" => UNCHANGED uiVars /\ (page = "shown" => UNCHANGED topography)
  /\ scenario = "visitor" =>
       /\ NodesOnlyJoin
       /\ \/ Cardinality(InFlight(telemetry'.polls)) <= 1
          \/ telemetry'.run # telemetry.run
          \/ InFlight(telemetry'.polls) \subseteq InFlight(telemetry.polls)

MCSpec == MCInit /\ [][MCNext]_<<vars, scenario>> /\ Fairness

MCSafety == MCInit /\ [][MCNext]_<<vars, scenario>>
=============================================================================
