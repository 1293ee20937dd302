--------------------------------- MODULE App ---------------------------------
(***************************************************************************)
(* The frontend page (frontend-vite/src/main.jsx, App.jsx): it mounts with *)
(* the configuration it was built with, shows what the polls of the        *)
(* gateway bring, and lets the visitor toggle the theme, scroll, switch    *)
(* the tabs of the neuron section and select a node.                       *)
(*                                                                         *)
(* Composes the configuration, the gateway, the polling effect and the     *)
(* animated background.  The text and the layout of the page are           *)
(* abstracted.                                                             *)
(***************************************************************************)
EXTENDS GatewayConfig, VAMSGateway, NeuralTopography

CONSTANTS
  MaxPolls, MaxRuns,
  Headers,              \* the SmokeHeaders of the page
  Scored                \* domains that the profiles of the nodes have a score for

VARIABLES
  deployment, webgl,    \* fixed: how it was deployed, what the browser can do
  reachable,            \* the gateway answers the page, and without errors
  telemetry, gatewayMetrics,
  page,                 \* "loading", "shown", or "blank" after a failed render
  isDark, scrolled, activeTab, selectedNodeId,
  visible,              \* headers that have been revealed
  attached              \* scroll listener and observers, and the run they are of

NodeId(n)  == <<"node", n>>
RowName(i) == <<"Node", i - 1>>

Entries ==
  [id : {<<>>} \cup {<<"mock", i>> : i \in 1..3},
   node_id : {<<>>} \cup {NodeId(n) : n \in Nodes},
   is_online : BOOLEAN]

Telemetry == INSTANCE GatewayTelemetry

inputVars == <<deployment, webgl>>
uiVars    == <<isDark, scrolled, activeTab, selectedNodeId, visible>>
vars == <<gatewayVars, topography, inputVars, reachable, telemetry,
          gatewayMetrics, page, uiVars, attached>>

\* Effects without dependencies, other than the poll: one run of them all.
PageEffects == {"scroll"} \cup Headers

NodeIds == {Telemetry!MockId(i) : i \in 1..3}
           \cup {NodeId(n) : n \in Nodes} \cup {RowName(i) : i \in 1..MAX_NODES}

TypeOK ==
  /\ GatewayTypeOK
  /\ TopographyTypeOK
  /\ Telemetry!TelemetryTypeOK
  /\ deployment \in Deployments
  /\ webgl \in BOOLEAN /\ reachable \in BOOLEAN
  /\ page \in {"loading", "shown", "blank"}
  /\ isDark \in BOOLEAN /\ scrolled \in BOOLEAN
  /\ activeTab \in {"terminal", "gateway"}
  /\ selectedNodeId \in NodeIds
  /\ visible \subseteq Headers
  /\ attached \subseteq PageEffects \X Nat

Init ==
  /\ GatewayInit
  /\ TopographyInit
  /\ Telemetry!TelemetryInit
  /\ deployment \in Deployments
  /\ webgl \in BOOLEAN
  /\ reachable = TRUE
  /\ page = "loading"
  /\ isDark = TRUE /\ scrolled = FALSE
  /\ activeTab = "terminal"
  /\ selectedNodeId = Telemetry!MockId(1)
  /\ visible = {}
  /\ attached = {}

Strict == ~PROD(deployment)

Reattached(a, before, after) ==
  (a \ (PageEffects \X {before})) \cup (PageEffects \X {after})

\* main.jsx: the first render and its effects, which StrictMode runs twice.
Mount ==
  /\ page = "loading" /\ webgl
  /\ Serves(deployment) /\ Loads(deployment)
  /\ page' = "shown"
  /\ MountBackground(isDark, Strict)
  /\ LET t == Telemetry!StartRun(telemetry)
     IN  telemetry' = IF Strict THEN Telemetry!StartRun(Telemetry!EndRun(t)) ELSE t
  /\ attached' = IF Strict THEN Reattached(Reattached(attached, 0, 1), 1, 2)
                 ELSE Reattached(attached, 0, 1)
  /\ UNCHANGED <<gatewayVars, inputVars, reachable, gatewayMetrics, uiVars>>

\* Without WebGL the effect of the background throws, and React removes the
\* page: the poll it has started is cleaned up.
MountWithoutWebGL ==
  /\ page = "loading" /\ ~webgl
  /\ Serves(deployment) /\ Loads(deployment)
  /\ page' = "blank"
  /\ telemetry' = Telemetry!EndRun(Telemetry!StartRun(telemetry))
  /\ UNCHANGED <<gatewayVars, inputVars, reachable, gatewayMetrics, uiVars,
                 topography, attached>>

\* The development server replaces the module: every effect runs again, and
\* the state is kept.
HotReload ==
  /\ page = "shown" /\ ~PROD(deployment)
  /\ telemetry.run < MaxRuns /\ Telemetry!HasRoom(1)
  /\ RerunBackground(isDark)
  /\ telemetry' = Telemetry!StartRun(Telemetry!EndRun(telemetry))
  /\ attached' = Reattached(attached, telemetry.run, telemetry.run + 1)
  /\ UNCHANGED <<gatewayVars, inputVars, reachable, gatewayMetrics, uiVars, page>>

toggleTheme ==
  /\ page = "shown"
  /\ isDark' = ~isDark
  /\ RerunBackground(~isDark)
  /\ UNCHANGED <<gatewayVars, inputVars, reachable, telemetry, gatewayMetrics,
                 page, scrolled, activeTab, selectedNodeId, visible, attached>>

Frame ==
  /\ \E r \in topography.frames : Animate(r)
  /\ UNCHANGED <<gatewayVars, inputVars, reachable, telemetry, gatewayMetrics,
                 page, uiVars, attached>>

handleScroll ==
  /\ \E a \in attached : a[1] = "scroll"
  /\ scrolled' \in BOOLEAN
  /\ UNCHANGED <<isDark, activeTab, selectedNodeId, visible>>

\* A header enters the viewport, and is never hidden again.
Reveal ==
  /\ \E a \in attached : a[1] \in Headers /\ visible' = visible \cup {a[1]}
  /\ UNCHANGED <<isDark, scrolled, activeTab, selectedNodeId>>

setActiveTab ==
  /\ page = "shown"
  /\ activeTab' \in {"terminal", "gateway"}
  /\ UNCHANGED <<isDark, scrolled, selectedNodeId, visible>>

Or(a, b) == IF a # Telemetry!NoId THEN a ELSE b

\* What row i of the nodes registry is called.
nId(i) == Or(gatewayMetrics.nodesList[i].id, RowName(i))

\* A row of the registry is clicked; the gateway tab shows them.
setSelectedNodeId ==
  /\ page = "shown" /\ activeTab = "gateway"
  /\ selectedNodeId' \in {nId(i) : i \in DOMAIN gatewayMetrics.nodesList}
  /\ UNCHANGED <<isDark, scrolled, activeTab, visible>>

\* useMemo: the entry that is profiled, or null.
ProfileKey(e) == Or(e.id, e.node_id)

found == {i \in DOMAIN gatewayMetrics.nodesList :
            ProfileKey(gatewayMetrics.nodesList[i]) = selectedNodeId}
null == [id |-> Telemetry!NoId, node_id |-> Telemetry!NoId, is_online |-> FALSE]
selectedNode ==
  IF found = {} THEN null
  ELSE gatewayMetrics.nodesList[CHOOSE i \in found : \A j \in found : i <= j]

\* cognitive_profile of an entry: a score is told by whose it is.
domains == {"K", "RW", "M", "R", "WM", "MS", "MR", "V", "A", "S"}
cognitive_profile(e) ==
  [d \in IF e.id # Telemetry!NoId THEN domains ELSE Scored |-> ProfileKey(e)]

\* The vertex of each domain; 0.5 where the profile has no score.
CHCDecagonRadarChart(profile) ==
  [d \in domains |-> IF d \in DOMAIN profile THEN profile[d] ELSE <<"0.5">>]

\* What is rendered: the badge of the navigation bar, the registry and the
\* chart of the gateway tab, and the warning under the registry.
Badge == IF gatewayMetrics.connected THEN "System Normal" ELSE "Mock Mode"

Registry ==
  [i \in DOMAIN gatewayMetrics.nodesList |->
     [nId |-> nId(i), isSelected |-> selectedNodeId = nId(i),
      is_online |-> gatewayMetrics.nodesList[i].is_online]]

GatewayTab ==
  [status |-> gatewayMetrics.status, registry |-> Registry,
   warning |-> gatewayMetrics.isMock,
   chart |-> IF selectedNode = null THEN <<>>
             ELSE CHCDecagonRadarChart(cognitive_profile(selectedNode))]

VisitorStep ==
  /\ \/ handleScroll \/ Reveal \/ setActiveTab \/ setSelectedNodeId
  /\ UNCHANGED <<gatewayVars, topography, inputVars, reachable, telemetry,
                 gatewayMetrics, page, attached>>

\* The gateway, and the network between the page and it.
ServerStep ==
  /\ \/ GatewayStep /\ UNCHANGED reachable
     \/ reachable' = ~reachable /\ UNCHANGED gatewayVars
  /\ UNCHANGED <<topography, inputVars, telemetry, gatewayMetrics, page, uiVars,
                 attached>>

\* GET /nodes, as entries of the page: there are no fields id and address.
Response ==
  [i \in DOMAIN list_nodes |->
     [id |-> Telemetry!NoId, node_id |-> NodeId(list_nodes[i].node_id),
      is_online |-> list_nodes[i].is_online]]

\* The gateway can be asked: it is there, and the policy of the page lets it.
Answers == reachable /\ MayPoll(deployment)

PollStep(s) ==
  \/ Answers /\ Telemetry!HealthAnswered(s)
  \/ Answers /\ Telemetry!NodesAnswered(s, Response)
  \/ ~Answers /\ Telemetry!PollFails(s)
  \/ Telemetry!PollEnds(s)

PollAgain(r) == Telemetry!PollAgain(r)

Unpolled == <<gatewayVars, topography, inputVars, reachable, page, uiVars, attached>>

Next ==
  \/ Mount \/ MountWithoutWebGL \/ HotReload \/ toggleTheme \/ Frame
  \/ VisitorStep
  \/ ServerStep
  \/ \E r \in 1..MaxRuns : PollAgain(r) /\ UNCHANGED Unpolled
  \/ \E s \in Telemetry!Slots : PollStep(s) /\ UNCHANGED Unpolled

Spec == Init /\ [][Next]_vars

\* The browser mounts the page and runs its timers and continuations, and no
\* request hangs for ever.
Fairness ==
  /\ WF_vars(Mount)
  /\ WF_vars(\E r \in 1..MaxRuns : PollAgain(r) /\ UNCHANGED Unpolled)
  /\ \A s \in Telemetry!Slots : WF_vars(PollStep(s) /\ UNCHANGED Unpolled)

FairSpec == Spec /\ Fairness
=============================================================================
