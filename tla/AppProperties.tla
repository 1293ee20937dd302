----------------------------- MODULE AppProperties -----------------------------
(***************************************************************************)
(* What the page must keep true while effects are set up and cleaned up,   *)
(* polls overlap, and the gateway comes and goes.                          *)
(***************************************************************************)
EXTENDS App

(***************************************************************************)
(* Every effect of the shown page is in force exactly once: one canvas,    *)
(* one animation and one set of window listeners, of the theme that is     *)
(* shown, one interval, one observer per header; and none is left of a     *)
(* page that failed to render.  StrictMode, toggles of the theme and hot   *)
(* reloads each run cleanups and effects again; one that forgets a part    *)
(* leaves two loops drawing or two intervals polling.                      *)
(***************************************************************************)
EffectsRunOnce ==
  /\ page = "shown" =>
       /\ Holds(topography, {topography.last})
       /\ topography.painted = topography.last /\ topography.last.isDark = isDark
       /\ attached = PageEffects \X {telemetry.run}
       /\ telemetry.intervals = {telemetry.run}
       /\ telemetry.active = {telemetry.run}
  /\ page # "shown" =>
       /\ Holds(topography, {}) /\ attached = {}
       /\ telemetry.intervals = {} /\ telemetry.active = {}

(***************************************************************************)
(* What the page shows of the gateway changes only by the end of a poll    *)
(* that its present run started: a poll of a run that was cleaned up, or   *)
(* of a page that is gone, may still end, at any time, and shows nothing.  *)
(***************************************************************************)
OnlyPresentPollsShow ==
  [][ gatewayMetrics' # gatewayMetrics =>
        /\ page = "shown"
        /\ \E s \in Telemetry!Slots :
             /\ telemetry.polls[s].run = telemetry.run
             /\ telemetry'.polls[s] = Telemetry!Idle ]_vars

(***************************************************************************)
(* config.js and vite.config.js agree: where the server starts, the page   *)
(* loads, and the policy it is delivered with lets it poll the gateway it  *)
(* has resolved.  Where they disagree, every poll of a page that works is  *)
(* refused by the browser, and the page says the gateway is offline.       *)
(***************************************************************************)
ServedPageMayPoll ==
  Serves(deployment) => Loads(deployment) /\ MayPoll(deployment)

(***************************************************************************)
(* However polls overlap, fail late and are superseded, what is rendered   *)
(* ends up agreeing with a gateway that has settled: once the gateway is   *)
(* out of reach for good the page warns for good that its data is          *)
(* simulated, and once the gateway answers for good and a node stays       *)
(* online there, the registry lists that node as online for good.          *)
(***************************************************************************)
ShownOffline ==
  Badge = "Mock Mode" /\ GatewayTab.warning /\ GatewayTab.status = "offline"

ShownOnline(n) ==
  /\ Badge = "System Normal" /\ ~GatewayTab.warning
  /\ \E i \in DOMAIN GatewayTab.registry :
       /\ gatewayMetrics.nodesList[i].node_id = NodeId(n)
       /\ GatewayTab.registry[i].is_online

PageFollowsGateway ==
  <>[](page = "shown") =>
    /\ <>[]~reachable => <>[]ShownOffline
    /\ \A n \in Nodes : <>[](reachable /\ is_online(n)) => <>[]ShownOnline(n)

(***************************************************************************)
(* docs/team/ARCHITECTURE_v0-8-0.md, 5.2: "When a node is selected, its    *)
(* CHC cognitive profile is rendered as an interactive SVG radar chart".   *)
(* The node whose row is highlighted is the node that the chart is of.     *)
(***************************************************************************)
SelectedNodeIsProfiled ==
  \A i \in DOMAIN GatewayTab.registry :
    GatewayTab.registry[i].isSelected =>
      GatewayTab.chart
        = CHCDecagonRadarChart(cognitive_profile(gatewayMetrics.nodesList[i]))
=============================================================================
