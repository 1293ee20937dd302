------------------------------- MODULE AppProofs -------------------------------
(***************************************************************************)
(* The page for every number of runs, polls, nodes and headers: its        *)
(* effects are in force once, only its present polls show, the server and  *)
(* the page agree on the gateway, and the gateway keeps who is online.     *)
(***************************************************************************)
EXTENDS AppProperties, FiniteSetTheorems, TLAPS

(***************************************************************************)
(* The background: one run set up in an empty container holds exactly what *)
(* it needs, and its cleanup empties the container again.                  *)
(***************************************************************************)
LEMMA SetUpInEmpty ==
  ASSUME NEW t \in Topographies, Holds(t, {}), NEW dark \in BOOLEAN
  PROVE  LET u == SetUp(t, dark)
         IN  /\ u \in Topographies
             /\ Holds(u, {u.last})
             /\ u.painted = u.last /\ u.last.isDark = dark
<1> DEFINE r == [run |-> t.last.run + 1, isDark |-> dark]
<1>1. r \in Runs
  BY DEF Topographies, Runs
<1>2. SetUp(t, dark) = [last |-> r, canvases |-> {r}, renderers |-> {r},
                        listeners |-> {r} \X Events, frames |-> {r},
                        painted |-> r]
  BY DEF SetUp, Holds
<1>3. {r} \X Events \in SUBSET (Runs \X Events)
  BY <1>1
<1> HIDE DEF r
<1>4. SetUp(t, dark) \in Topographies
  BY <1>1, <1>2, <1>3 DEF Topographies
<1>5. r.isDark = dark
  BY DEF r
<1> QED BY <1>2, <1>4, <1>5 DEF Holds

LEMMA CleanUpEmpties ==
  ASSUME NEW t \in Topographies, Holds(t, {t.last})
  PROVE  CleanUp(t) \in Topographies /\ Holds(CleanUp(t), {})
<1>1. CleanUp(t) = [t EXCEPT !.listeners = {}, !.frames = {},
                             !.renderers = {}, !.canvases = {}]
  BY DEF CleanUp, Holds, Topographies
<1> QED BY <1>1 DEF Holds, Topographies

(***************************************************************************)
(* Telemetry: starting and ending a run, and polls, which leave the runs   *)
(* alone.  Shaped is as much of a type as the steps below need.            *)
(***************************************************************************)
Shaped(t) ==
  /\ t \in [run : Nat, active : SUBSET Nat, intervals : SUBSET Nat,
            polls : {t.polls}]
  /\ t.polls = [s \in Telemetry!Slots |-> t.polls[s]]

Only(t, runs) == t.active = runs /\ t.intervals = runs

LEMMA RunStarts ==
  ASSUME NEW t, Shaped(t), Only(t, {})
  PROVE  /\ Shaped(Telemetry!StartRun(t))
         /\ Telemetry!StartRun(t).run = t.run + 1
         /\ Only(Telemetry!StartRun(t), {t.run + 1})
<1> DEFINE polls == Telemetry!Started(t.polls, t.run + 1)
<1>1. polls = [s \in Telemetry!Slots |-> polls[s]]
  BY DEF Shaped, Telemetry!Started
<1> HIDE DEF polls
<1>2. Telemetry!StartRun(t)
        = [run |-> t.run + 1, active |-> {t.run + 1},
           intervals |-> {t.run + 1}, polls |-> polls]
  BY DEF Telemetry!StartRun, Only, polls
<1> QED BY <1>1, <1>2 DEF Shaped, Only

LEMMA RunEnds ==
  ASSUME NEW t, Shaped(t), Only(t, {t.run})
  PROVE  LET u == Telemetry!EndRun(t)
         IN  Shaped(u) /\ u.run = t.run /\ Only(u, {})
<1>1. Telemetry!EndRun(t) = [t EXCEPT !.active = {}, !.intervals = {}]
  BY DEF Telemetry!EndRun, Only, Shaped
<1> QED BY <1>1 DEF Shaped, Only

LEMMA PollsKeepRuns ==
  ASSUME Shaped(telemetry),
         \/ \E r \in 1..MaxRuns : PollAgain(r)
         \/ \E s \in Telemetry!Slots : PollStep(s)
  PROVE  /\ Shaped(telemetry')
         /\ telemetry'.run = telemetry.run
         /\ \A runs : Only(telemetry, runs) => Only(telemetry', runs)
<1> SUFFICES ASSUME NEW polls,
                    telemetry' = [telemetry EXCEPT !.polls = polls],
                    polls = [s \in Telemetry!Slots |-> polls[s]]
             PROVE  /\ Shaped(telemetry')
                    /\ telemetry'.run = telemetry.run
                    /\ \A runs : Only(telemetry, runs) => Only(telemetry', runs)
  <2>1. CASE \E r \in 1..MaxRuns : PollAgain(r)
    <3>1. PICK r : telemetry' = [telemetry EXCEPT !.polls =
                                   Telemetry!Started(telemetry.polls, r)]
      BY <2>1 DEF PollAgain, Telemetry!PollAgain
    <3> DEFINE started == Telemetry!Started(telemetry.polls, r)
    <3>2. started = [s \in Telemetry!Slots |-> started[s]]
      BY DEF Shaped, Telemetry!Started
    <3> HIDE DEF started
    <3> QED BY <3>1, <3>2 DEF started
  <2>2. CASE \E s \in Telemetry!Slots : PollStep(s)
    <3>1. PICK s, poll :
            telemetry' = [telemetry EXCEPT !.polls = [@ EXCEPT ![s] = poll]]
      BY <2>2 DEF PollStep, Telemetry!HealthAnswered, Telemetry!NodesAnswered,
                  Telemetry!PollFails, Telemetry!PollEnds, Telemetry!Becomes
    <3> DEFINE moved == [telemetry.polls EXCEPT ![s] = poll]
    <3>2. moved = [u \in Telemetry!Slots |-> moved[u]]
      BY DEF Shaped
    <3> HIDE DEF moved
    <3> QED BY <3>1, <3>2 DEF moved
  <2> QED BY <2>1, <2>2
<1> QED BY DEF Shaped, Only

(***************************************************************************)
(* The inductive invariant: what EffectsRunOnce says, and that a page that *)
(* loads has run no effect.                                                *)
(***************************************************************************)
EffectsInv ==
  /\ TopographyTypeOK /\ Shaped(telemetry)
  /\ isDark \in BOOLEAN
  /\ page = "loading" => telemetry.run = 0
  /\ EffectsRunOnce

LEMMA ReattachedOnce ==
  \A m, n : /\ Reattached({}, m, n) = PageEffects \X {n}
            /\ Reattached(PageEffects \X {m}, m, n) = PageEffects \X {n}
BY DEF Reattached

LEMMA InitEstablishesEffectsInv == Init => EffectsInv
<1> SUFFICES ASSUME Init PROVE EffectsInv
  OBVIOUS
<1>1. TopographyTypeOK /\ Holds(topography, {})
  BY DEF Init, TopographyInit, TopographyTypeOK, Topographies, Runs, Holds
<1>2. Shaped(telemetry) /\ Only(telemetry, {}) /\ telemetry.run = 0
  BY DEF Init, Telemetry!TelemetryInit, Shaped, Only
<1> QED BY <1>1, <1>2 DEF Init, EffectsInv, EffectsRunOnce, Only

LEMMA MountPreservesEffectsInv == EffectsInv /\ Mount => EffectsInv'
<1> SUFFICES ASSUME EffectsInv, Mount PROVE EffectsInv'
  OBVIOUS
<1>1. /\ topography \in Topographies /\ Holds(topography, {})
      /\ Shaped(telemetry) /\ Only(telemetry, {}) /\ telemetry.run = 0
      /\ attached = {} /\ isDark \in BOOLEAN
  BY DEF EffectsInv, EffectsRunOnce, TopographyTypeOK, Mount, Only
<1>2. page' = "shown" /\ isDark' = isDark
  BY DEF Mount, uiVars
<1>3. /\ topography' \in Topographies /\ Holds(topography', {topography'.last})
      /\ topography'.painted = topography'.last
      /\ topography'.last.isDark = isDark
  <2> DEFINE once == SetUp(topography, isDark)
  <2>1. /\ once \in Topographies /\ Holds(once, {once.last})
        /\ once.painted = once.last /\ once.last.isDark = isDark
    BY <1>1, SetUpInEmpty
  <2>2. CleanUp(once) \in Topographies /\ Holds(CleanUp(once), {})
    BY <2>1, CleanUpEmpties
  <2> HIDE DEF once
  <2> DEFINE twice == SetUp(CleanUp(once), isDark)
  <2>3. /\ twice \in Topographies /\ Holds(twice, {twice.last})
        /\ twice.painted = twice.last /\ twice.last.isDark = isDark
    BY <1>1, <2>2, SetUpInEmpty
  <2>4. topography' = twice \/ topography' = once
    BY DEF Mount, MountBackground, once
  <2> QED BY <2>1, <2>3, <2>4
<1>4. \E n : /\ Shaped(telemetry') /\ telemetry'.run = n /\ Only(telemetry', {n})
            /\ attached' = PageEffects \X {n}
  <2> DEFINE once == Telemetry!StartRun(telemetry)
  <2>1. Shaped(once) /\ once.run = 0 + 1 /\ Only(once, {0 + 1})
    BY <1>1, RunStarts
  <2>a. 0 + 1 = 1
    OBVIOUS
  <2> HIDE DEF once
  <2> DEFINE ended == Telemetry!EndRun(once)
  <2>2. Shaped(ended) /\ ended.run = 0 + 1 /\ Only(ended, {})
    BY <2>1, RunEnds
  <2> HIDE DEF ended
  <2> DEFINE twice == Telemetry!StartRun(ended)
  <2>3. Shaped(twice) /\ twice.run = 1 + 1 /\ Only(twice, {1 + 1})
    BY <2>2, <2>a, RunStarts
  <2>b. 1 + 1 = 2
    OBVIOUS
  <2> HIDE DEF twice
  <2>4. CASE Strict
    <3>1. telemetry' = twice
      BY <2>4 DEF Mount, twice, ended, once
    <3>2. attached' = Reattached(Reattached(attached, 0, 1), 1, 2)
      BY <2>4 DEF Mount
    <3>3. attached' = PageEffects \X {2}
      BY <1>1, <3>2, ReattachedOnce
    <3> QED BY <2>3, <2>b, <3>1, <3>3
  <2>5. CASE ~Strict
    <3>1. telemetry' = once
      BY <2>5 DEF Mount, once
    <3>2. attached' = Reattached(attached, 0, 1)
      BY <2>5 DEF Mount
    <3>3. attached' = PageEffects \X {1}
      BY <1>1, <3>2, ReattachedOnce
    <3> QED BY <2>1, <2>a, <3>1, <3>3
  <2> QED BY <2>4, <2>5
<1> QED BY <1>1, <1>2, <1>3, <1>4
        DEF EffectsInv, EffectsRunOnce, TopographyTypeOK, Only

LEMMA MountWithoutWebGLPreservesEffectsInv ==
  EffectsInv /\ MountWithoutWebGL => EffectsInv'
<1> SUFFICES ASSUME EffectsInv, MountWithoutWebGL PROVE EffectsInv'
  OBVIOUS
<1>1. Shaped(telemetry) /\ Only(telemetry, {}) /\ page = "loading"
  BY DEF EffectsInv, EffectsRunOnce, MountWithoutWebGL, Only
<1> DEFINE once == Telemetry!StartRun(telemetry)
<1>2. Shaped(once) /\ Only(once, {once.run})
  BY <1>1, RunStarts, Zenon
<1>3. telemetry' = Telemetry!EndRun(once)
  BY DEF MountWithoutWebGL
<1> HIDE DEF once
<1>4. Shaped(telemetry') /\ Only(telemetry', {})
  BY <1>2, <1>3, RunEnds
<1>5. page' = "blank" /\ UNCHANGED <<topography, isDark, attached>>
  BY DEF MountWithoutWebGL, uiVars
<1> QED BY <1>1, <1>4, <1>5
        DEF EffectsInv, EffectsRunOnce, TopographyTypeOK, Only, Holds

LEMMA RerunPreserves ==
  ASSUME topography \in Topographies, Holds(topography, {topography.last}),
         NEW dark \in BOOLEAN, RerunBackground(dark)
  PROVE  /\ topography' \in Topographies
         /\ Holds(topography', {topography'.last})
         /\ topography'.painted = topography'.last
         /\ topography'.last.isDark = dark
<1>1. CleanUp(topography) \in Topographies /\ Holds(CleanUp(topography), {})
  BY CleanUpEmpties
<1>2. topography' = SetUp(CleanUp(topography), dark)
  BY DEF RerunBackground
<1> QED BY <1>1, <1>2, SetUpInEmpty

LEMMA HotReloadPreservesEffectsInv == EffectsInv /\ HotReload => EffectsInv'
<1> SUFFICES ASSUME EffectsInv, HotReload PROVE EffectsInv'
  OBVIOUS
<1>1. /\ topography \in Topographies /\ Holds(topography, {topography.last})
      /\ Shaped(telemetry) /\ Only(telemetry, {telemetry.run})
      /\ attached = PageEffects \X {telemetry.run} /\ isDark \in BOOLEAN
      /\ page = "shown"
  BY DEF EffectsInv, EffectsRunOnce, TopographyTypeOK, HotReload, Only
<1>2. page' = page /\ isDark' = isDark
  BY DEF HotReload, uiVars
<1>3. /\ topography' \in Topographies /\ Holds(topography', {topography'.last})
      /\ topography'.painted = topography'.last
      /\ topography'.last.isDark = isDark
  BY <1>1, RerunPreserves DEF HotReload
<1> DEFINE ended == Telemetry!EndRun(telemetry)
<1>4. Shaped(ended) /\ ended.run = telemetry.run /\ Only(ended, {})
  BY <1>1, RunEnds
<1> HIDE DEF ended
<1>5. telemetry' = Telemetry!StartRun(ended)
  BY DEF HotReload, ended
<1>6. /\ Shaped(telemetry') /\ telemetry'.run = telemetry.run + 1
      /\ Only(telemetry', {telemetry.run + 1})
  BY <1>4, <1>5, RunStarts
<1>7. attached' = PageEffects \X {telemetry.run + 1}
  BY <1>1, ReattachedOnce DEF HotReload
<1> QED BY <1>1, <1>2, <1>3, <1>6, <1>7
        DEF EffectsInv, EffectsRunOnce, TopographyTypeOK, Only

LEMMA toggleThemePreservesEffectsInv == EffectsInv /\ toggleTheme => EffectsInv'
<1> SUFFICES ASSUME EffectsInv, toggleTheme PROVE EffectsInv'
  OBVIOUS
<1>1. /\ topography \in Topographies /\ Holds(topography, {topography.last})
      /\ isDark \in BOOLEAN /\ page = "shown"
  BY DEF EffectsInv, EffectsRunOnce, TopographyTypeOK, toggleTheme
<1>2. isDark' = ~isDark /\ UNCHANGED <<page, telemetry, attached>>
  BY DEF toggleTheme
<1>3. /\ topography' \in Topographies /\ Holds(topography', {topography'.last})
      /\ topography'.painted = topography'.last
      /\ topography'.last.isDark = ~isDark
  BY <1>1, RerunPreserves DEF toggleTheme
<1> QED BY <1>1, <1>2, <1>3
        DEF EffectsInv, EffectsRunOnce, TopographyTypeOK, Shaped

LEMMA FramePreservesEffectsInv == EffectsInv /\ Frame => EffectsInv'
<1> SUFFICES ASSUME EffectsInv, Frame PROVE EffectsInv'
  OBVIOUS
<1>1. PICK r \in topography.frames : Animate(r)
  BY DEF Frame
<1>2. topography \in Topographies /\ page = "shown"
  BY <1>1 DEF EffectsInv, EffectsRunOnce, TopographyTypeOK, Holds
<1>3. r = topography.last /\ topography.painted = topography.last
  BY <1>1, <1>2 DEF EffectsInv, EffectsRunOnce, Holds
<1>4. topography' = topography
  BY <1>1, <1>2, <1>3 DEF Animate, Topographies
<1>5. UNCHANGED <<page, telemetry, attached, isDark>>
  BY DEF Frame, uiVars
<1> QED BY <1>4, <1>5
        DEF EffectsInv, EffectsRunOnce, TopographyTypeOK, Shaped

LEMMA NextPreservesEffectsInv == EffectsInv /\ [Next]_vars => EffectsInv'
<1> SUFFICES ASSUME EffectsInv, [Next]_vars PROVE EffectsInv'
  OBVIOUS
<1>1. CASE Mount
  BY <1>1, MountPreservesEffectsInv
<1>2. CASE MountWithoutWebGL
  BY <1>2, MountWithoutWebGLPreservesEffectsInv
<1>3. CASE HotReload
  BY <1>3, HotReloadPreservesEffectsInv
<1>4. CASE toggleTheme
  BY <1>4, toggleThemePreservesEffectsInv
<1>5. CASE Frame
  BY <1>5, FramePreservesEffectsInv
<1>6. CASE \/ VisitorStep \/ ServerStep \/ UNCHANGED vars
  <2>1. UNCHANGED <<topography, telemetry, page, isDark, attached>>
    BY <1>6 DEF VisitorStep, ServerStep, handleScroll, Reveal, setActiveTab,
                setSelectedNodeId, uiVars, vars
  <2> QED BY <2>1 DEF EffectsInv, EffectsRunOnce, TopographyTypeOK, Shaped
<1>7. CASE \/ \E r \in 1..MaxRuns : PollAgain(r) /\ UNCHANGED Unpolled
           \/ \E s \in Telemetry!Slots : PollStep(s) /\ UNCHANGED Unpolled
  <2>1. UNCHANGED <<topography, page, isDark, attached>>
    BY <1>7 DEF Unpolled, uiVars
  <2>2. /\ Shaped(telemetry') /\ telemetry'.run = telemetry.run
        /\ \A runs : Only(telemetry, runs) => Only(telemetry', runs)
    BY <1>7, PollsKeepRuns DEF EffectsInv
  <2> QED BY <2>1, <2>2 DEF EffectsInv, EffectsRunOnce, TopographyTypeOK, Only
<1> QED BY <1>1, <1>2, <1>3, <1>4, <1>5, <1>6, <1>7 DEF Next

THEOREM EffectsInvariant == Spec => []EffectsInv
BY InitEstablishesEffectsInv, NextPreservesEffectsInv, PTL DEF Spec

(***************************************************************************)
(* However often the page mounts, toggles its theme and is replaced, its   *)
(* effects are in force exactly once.                                      *)
(***************************************************************************)
THEOREM EffectsRunOnceHolds == Spec => []EffectsRunOnce
<1>1. EffectsInv => EffectsRunOnce
  BY DEF EffectsInv
<1> QED BY <1>1, EffectsInvariant, PTL

(***************************************************************************)
(* What is shown of the gateway changes only by the end of a poll of the   *)
(* present run, for any number of polls in flight: after a cleanup no run  *)
(* but the present one is active.                                          *)
(***************************************************************************)
THEOREM OnlyPresentPollsShowHolds == Spec => OnlyPresentPollsShow
<1> DEFINE A == gatewayMetrics' # gatewayMetrics =>
                  /\ page = "shown"
                  /\ \E s \in Telemetry!Slots :
                       /\ telemetry.polls[s].run = telemetry.run
                       /\ telemetry'.polls[s] = Telemetry!Idle
<1>1. EffectsInv /\ [Next]_vars => [A]_vars
  <2> SUFFICES ASSUME EffectsInv, Next, gatewayMetrics' # gatewayMetrics
               PROVE  A
    BY DEF vars
  <2>1. PICK s \in Telemetry!Slots : Telemetry!PollEnds(s)
    BY DEF Next, Mount, MountWithoutWebGL, HotReload, toggleTheme, Frame,
           VisitorStep, ServerStep, PollAgain, Telemetry!PollAgain, PollStep,
           Telemetry!HealthAnswered, Telemetry!NodesAnswered,
           Telemetry!PollFails, Telemetry!Becomes
  <2>2. telemetry.polls[s].run \in telemetry.active
    BY <2>1 DEF Telemetry!PollEnds, Telemetry!SetIfActive
  <2>3. page = "shown" /\ telemetry.polls[s].run = telemetry.run
    BY <2>2 DEF EffectsInv, EffectsRunOnce
  <2>4. telemetry'.polls[s] = Telemetry!Idle
    <3>1. telemetry' = [telemetry EXCEPT !.polls =
                          [@ EXCEPT ![s] = Telemetry!Idle]]
      BY <2>1 DEF Telemetry!PollEnds
    <3>2. telemetry'.polls = [telemetry.polls EXCEPT ![s] = Telemetry!Idle]
      BY <3>1 DEF EffectsInv, Shaped
    <3> QED BY <3>2 DEF EffectsInv, Shaped
  <2> QED BY <2>3, <2>4
<1> QED BY <1>1, EffectsInvariant, PTL DEF Spec, OnlyPresentPollsShow

(***************************************************************************)
(* config.js and vite.config.js resolve the same origin, whatever hosts a  *)
(* configured URL may name, wherever the server starts: the two defaults   *)
(* are chosen alike and the two files refuse alike.                        *)
(***************************************************************************)
LEMMA OriginsAgree ==
  ASSUME NEW d \in Deployments, Serves(d)
  PROVE  resolveGatewayUrl(d) = gatewayOrigin(d)
<1>1. d.mode = "development" <=> ~PROD(d)
  BY DEF Deployments, PROD
<1>2. d.VITE_VAMS_GATEWAY_URL # Blank
  <2> SUFFICES ASSUME d.VITE_VAMS_GATEWAY_URL = Blank PROVE FALSE
    OBVIOUS
  <2>1. gatewayOrigin(d) = Checked(Blank, d.mode # "development")
    BY ConfigConstants DEF gatewayOrigin
  <2>2. \A secure : Checked(Blank, secure) = Throws
    BY ConfigConstants DEF Checked
  <2> QED BY <2>1, <2>2 DEF Serves
<1> DEFINE url == IF d.VITE_VAMS_GATEWAY_URL # Unset THEN d.VITE_VAMS_GATEWAY_URL
                  ELSE IF PROD(d) THEN TESTNET_GATEWAY_URL ELSE LOCAL_GATEWAY_URL
<1>3. resolveGatewayUrl(d) = Checked(url, PROD(d))
  BY <1>2 DEF resolveGatewayUrl
<1>4. gatewayOrigin(d) = Checked(url, d.mode # "development")
  BY <1>1 DEF gatewayOrigin
<1>5. (d.mode # "development") = PROD(d)
  BY DEF PROD, Deployments
<1> QED BY <1>3, <1>4, <1>5

THEOREM ServedPageMayPollHolds == Spec => []ServedPageMayPoll
<1>1. Init => deployment \in Deployments
  BY DEF Init
<1>2. deployment \in Deployments /\ [Next]_vars => (deployment \in Deployments)'
  BY DEF Next, Mount, MountWithoutWebGL, HotReload, toggleTheme, Frame,
         VisitorStep, ServerStep, Unpolled, inputVars, vars
<1>3. deployment \in Deployments => ServedPageMayPoll
  <2> SUFFICES ASSUME deployment \in Deployments, Serves(deployment)
               PROVE  Loads(deployment) /\ MayPoll(deployment)
    BY DEF ServedPageMayPoll
  <2>1. resolveGatewayUrl(deployment) = gatewayOrigin(deployment)
    BY OriginsAgree
  <2> QED BY <2>1 DEF Serves, Loads, MayPoll, connectSrc
<1> QED BY <1>1, <1>2, <1>3, PTL DEF Spec

(***************************************************************************)
(* The gateway: a node that is online is neither evicted nor forgotten nor *)
(* given another key, for any number of nodes and keys and any timeouts.   *)
(***************************************************************************)
NodesTypeOK == nodes \in [Nodes -> NodeInfo \cup {Unregistered}]

LEMMA SeenIsNodeInfo ==
  ASSUME NodesTypeOK, NEW n \in Nodes, NEW carried \in Keys \cup {NoKey, Absent}
  PROVE  /\ Seen(n, carried) \in NodeInfo
         /\ HasKey(n) => Seen(n, carried).public_key = nodes[n].public_key
<1>1. 0 \in 0..MaxAge
  BY GatewayConstants DEF MaxAge
<1>2. HasKey(n) => nodes[n].public_key \in Keys
  BY DEF NodesTypeOK, HasKey, IsRegistered, NodeInfo
<1> QED BY <1>1, <1>2 DEF Seen, NodeInfo

LEMMA AgedIsNodeInfo ==
  ASSUME NEW i \in NodeInfo, i.age < MaxAge
  PROVE  /\ [i EXCEPT !.age = @ + 1] \in NodeInfo
         /\ [i EXCEPT !.age = @ + 1].public_key = i.public_key
BY GatewayConstants DEF NodeInfo, MaxAge

\* Only the gateway's own steps change its registry.
LEMMA GatewayAloneActs ==
  ASSUME [Next]_vars
  PROVE  GatewayStep \/ UNCHANGED gatewayVars
BY DEF Next, Mount, MountWithoutWebGL, HotReload, toggleTheme, Frame,
       VisitorStep, ServerStep, Unpolled, vars

LEMMA GatewayStepKeepsTypes ==
  ASSUME NodesTypeOK, GatewayStep
  PROVE  NodesTypeOK'
<1>1. CASE \E n \in Nodes, signer \in Keys, carried \in Keys \cup {NoKey, Absent} :
             Heartbeat(n, signer, carried)
  BY <1>1, SeenIsNodeInfo DEF Heartbeat, NodesTypeOK
<1>2. CASE Age
  BY <1>2, AgedIsNodeInfo DEF Age, NodesTypeOK, IsRegistered
<1>3. CASE cleanup_offline_nodes \/ RestartGateway
  BY <1>3 DEF cleanup_offline_nodes, RestartGateway, NodesTypeOK
<1> QED BY <1>1, <1>2, <1>3 DEF GatewayStep

LEMMA NodesTypeInvariant == Spec => []NodesTypeOK
<1>1. Init => NodesTypeOK
  BY DEF Init, GatewayInit, NodesTypeOK
<1>2. NodesTypeOK /\ [Next]_vars => NodesTypeOK'
  BY GatewayAloneActs, GatewayStepKeepsTypes DEF NodesTypeOK, gatewayVars
<1> QED BY <1>1, <1>2, PTL DEF Spec

THEOREM OnlineIsKeptHolds == Spec => OnlineIsKept
<1> DEFINE Kept(n) == /\ nodes'[n] # Unregistered
                      /\ HasKey(n) => nodes'[n].public_key = nodes[n].public_key
           A == RestartGateway \/ \A n \in Nodes : is_online(n) => Kept(n)
<1>1. NodesTypeOK /\ [Next]_vars => [A]_gatewayVars
  <2> SUFFICES ASSUME NodesTypeOK, GatewayStep, ~RestartGateway,
                      NEW n \in Nodes, is_online(n)
               PROVE  Kept(n)
    BY DEF Next, Mount, MountWithoutWebGL, HotReload, toggleTheme, Frame,
           VisitorStep, ServerStep, Unpolled, gatewayVars, vars
  <2>1. /\ nodes[n] \in NodeInfo /\ nodes[n].age < NODE_TIMEOUT
        /\ Unregistered \notin NodeInfo
    BY UnregisteredIsNoNode DEF NodesTypeOK, is_online, IsRegistered
  <2>2. ASSUME NEW m \in Nodes, NEW carried \in Keys \cup {NoKey, Absent},
               NEW signer, Heartbeat(m, signer, carried)
        PROVE  Kept(n)
    <3>1. PICK evicted \in MakesRoom(m) :
            nodes' = [o \in Nodes |-> IF o = m THEN Seen(m, carried)
                                      ELSE IF o \in evicted THEN Unregistered
                                      ELSE nodes[o]]
      BY <2>2 DEF Heartbeat
    <3>2. n \notin evicted
      BY DEF MakesRoom, Offline
    <3>3. CASE n = m
      BY <2>1, <3>1, <3>3, SeenIsNodeInfo
    <3>4. CASE n # m
      BY <2>1, <3>1, <3>2, <3>4
    <3> QED BY <3>3, <3>4
  <2>3. CASE Age
    <3>1. \/ nodes'[n] = nodes[n]
          \/ /\ nodes[n].age < MaxAge
             /\ nodes'[n] = [nodes[n] EXCEPT !.age = @ + 1]
      BY <2>3 DEF Age
    <3> QED BY <2>1, <3>1, AgedIsNodeInfo
  <2>4. CASE cleanup_offline_nodes
    <3>1. ~(nodes[n].age > RETENTION)
      BY <2>1, GatewayConstants DEF NodeInfo, MaxAge
    <3>2. nodes'[n] = nodes[n]
      BY <2>4, <3>1 DEF cleanup_offline_nodes
    <3> QED BY <2>1, <3>2
  <2> QED BY <2>2, <2>3, <2>4 DEF GatewayStep
<1> QED BY <1>1, NodesTypeInvariant, PTL DEF Spec, OnlineIsKept

-----------------------------------------------------------------------------
(***************************************************************************)
(* The registry of the gateway lists every node it knows once, and never   *)
(* more than MAX_NODES.                                                    *)
(***************************************************************************)
Listed == {order[i] : i \in DOMAIN order}
Registered == {n \in Nodes : nodes[n] # Unregistered}

ListedOnce == \A i, j \in DOMAIN order : order[i] = order[j] => i = j

GatewayInv ==
  /\ NodesTypeOK
  /\ order \in Seq(Nodes)
  /\ ListedOnce
  /\ Listed = Registered
  /\ Len(order) <= MAX_NODES

\* A sequence without repetitions is as long as the set of what it lists.
LEMMA ListedOnceCounts ==
  ASSUME GatewayInv
  PROVE  Len(order) = Cardinality(Registered)
<1>1. Len(order) \in Nat /\ DOMAIN order = 1..Len(order)
  BY DEF GatewayInv
<1>2. [i \in 1..Len(order) |-> order[i]] \in Bijection(1..Len(order), Registered)
  BY <1>1 DEF GatewayInv, ListedOnce, Listed, Bijection, Injection, Surjection,
              IsInjective
<1> QED BY <1>1, <1>2, FS_CountingElements DEF ExistsBijection

(***************************************************************************)
(* The places kept are numbered from 1 without a gap: a place has a lower  *)
(* rank than the next one, and there are as many ranks as places.          *)
(***************************************************************************)
LEMMA RanksAreOneToOne ==
  ASSUME NEW len \in Nat, NEW kept \in SUBSET (1..len)
  PROVE  LET rank == [i \in kept |-> Cardinality({j \in kept : j <= i})]
         IN  /\ Cardinality(kept) \in Nat
             /\ rank \in [kept -> 1..Cardinality(kept)]
             /\ \A i, j \in kept : rank[i] = rank[j] => i = j
             /\ \A k \in 1..Cardinality(kept) : \E i \in kept : rank[i] = k
<1> DEFINE below(i) == {j \in kept : j <= i}
           rank == [i \in kept |-> Cardinality(below(i))]
           c == Cardinality(kept)
<1>1. IsFiniteSet(kept) /\ c \in Nat
  <2>1. IsFiniteSet(1..len)
    BY FS_Interval
  <2> QED BY <2>1, FS_Subset, FS_CardinalityType
<1>2. ASSUME NEW i \in kept
      PROVE  IsFiniteSet(below(i)) /\ Cardinality(below(i)) \in 1..c
  <2>1. IsFiniteSet(below(i)) /\ Cardinality(below(i)) <= c
    BY <1>1, FS_Subset
  <2>2. i \in below(i)
    OBVIOUS
  <2> HIDE DEF below
  <2>3. Cardinality(below(i)) \in Nat /\ Cardinality(below(i)) # 0
    BY <2>1, <2>2, FS_CardinalityType, FS_EmptySet
  <2> QED BY <1>1, <2>1, <2>3
<1>3. rank \in [kept -> 1..c]
  BY <1>2
<1>4. ASSUME NEW i \in kept, NEW j \in kept, i < j
      PROVE  rank[i] # rank[j]
  <2>1. below(i) \in SUBSET below(j) /\ j \in below(j) /\ j \notin below(i)
    <3>1. i \in Int /\ j \in Int /\ \A k \in kept : k \in Int
      OBVIOUS
    <3>2. (\A k \in kept : k <= i => k <= j) /\ j <= j /\ ~(j <= i)
      BY <1>4, <3>1
    <3> QED BY <3>2
  <2>2. IsFiniteSet(below(j))
    BY <1>2
  <2>3. rank[i] = Cardinality(below(i)) /\ rank[j] = Cardinality(below(j))
    OBVIOUS
  <2> HIDE DEF below, rank
  <2>4. Cardinality(below(j)) # Cardinality(below(i))
    BY <2>1, <2>2, FS_Subset
  <2> QED BY <2>3, <2>4
<1>5. \A i, j \in kept : rank[i] = rank[j] => i = j
  <2>0. \A i \in kept : i \in Int
    OBVIOUS
  <2> HIDE DEF rank
  <2> SUFFICES ASSUME NEW i \in kept, NEW j \in kept, i # j
               PROVE  rank[i] # rank[j]
    OBVIOUS
  <2>1. i < j \/ j < i
    BY <2>0
  <2> QED BY <1>4, <2>1
<1>6. \A k \in 1..c : \E i \in kept : rank[i] = k
  <2>1. rank \in Injection(kept, 1..c)
    <3> HIDE DEF rank
    <3> QED BY <1>3, <1>5 DEF Injection, IsInjective
  <2>2. IsFiniteSet(1..c) /\ Cardinality(1..c) = c
    BY <1>1, FS_Interval
  <2> HIDE DEF rank, c
  <2>3. rank \in Surjection(kept, 1..c)
    BY <2>1, <2>2, FS_Injection DEF c
  <2> QED BY <2>3 DEF Surjection
<1> QED BY <1>1, <1>3, <1>5, <1>6

(***************************************************************************)
(* Remaining is the order without what is gone: it lists what else it      *)
(* listed, once, and is shorter where something is gone.                   *)
(***************************************************************************)
LEMMA RemainingLists ==
  ASSUME order \in Seq(Nodes), ListedOnce, NEW gone
  PROVE  LET rest == Remaining(gone)
         IN  /\ rest \in Seq(Nodes)
             /\ \A k, l \in DOMAIN rest : rest[k] = rest[l] => k = l
             /\ {rest[k] : k \in DOMAIN rest} = Listed \ gone
             /\ Len(rest) <= Len(order)
             /\ Listed \cap gone # {} => Len(rest) < Len(order)
<1> DEFINE kept == {i \in DOMAIN order : order[i] \notin gone}
           below(i) == {j \in kept : j <= i}
           rank  == [i \in kept |-> Cardinality(below(i))]
           c     == Cardinality(kept)
           at(k) == CHOOSE i \in kept : Cardinality(below(i)) = k
           rest  == [k \in 1..c |-> order[at(k)]]
<1>1. Len(order) \in Nat /\ DOMAIN order = 1..Len(order)
  OBVIOUS
<1>2. kept \in SUBSET (1..Len(order))
  BY <1>1
<1>3. /\ c \in Nat
      /\ rank \in [kept -> 1..c]
      /\ \A i, j \in kept : rank[i] = rank[j] => i = j
      /\ \A k \in 1..c : \E i \in kept : rank[i] = k
  <2> HIDE DEF kept
  <2> QED BY <1>1, <1>2, RanksAreOneToOne
<1>4. Remaining(gone) = rest
  BY DEF Remaining
<1>5. ASSUME NEW k \in 1..c
      PROVE  at(k) \in kept /\ rank[at(k)] = k
  <2>1. PICK i \in kept : rank[i] = k
    BY <1>3
  <2>2. Cardinality(below(i)) = k
    BY <2>1
  <2>3. at(k) \in kept /\ Cardinality(below(at(k))) = k
    <3> HIDE DEF kept, below, rank, c
    <3> QED BY <2>2
  <2> HIDE DEF at, kept, below
  <2> QED BY <2>3
<1>6. \A i \in kept : rank[i] \in 1..c /\ at(rank[i]) = i
  <2> HIDE DEF rank, kept, at, c
  <2> QED BY <1>3, <1>5
<1>7. \A i \in kept : i \in DOMAIN order /\ order[i] \in Nodes /\ order[i] \notin gone
  OBVIOUS
<1>8. \A i \in DOMAIN order : order[i] \in gone \/ i \in kept
  OBVIOUS
<1>9. c <= Len(order) /\ (Listed \cap gone # {} => c < Len(order))
  <2>1. IsFiniteSet(1..Len(order)) /\ Cardinality(1..Len(order)) = Len(order)
    BY <1>1, FS_Interval
  <2>2. c <= Len(order) /\ (c = Len(order) => kept = 1..Len(order))
    <3> HIDE DEF kept
    <3> QED BY <1>2, <2>1, FS_Subset
  <2>3. Listed \cap gone # {} => kept # 1..Len(order)
    BY <1>1 DEF Listed
  <2>4. c \in Nat
    BY <1>3
  <2> DEFINE len == Len(order)
  <2>5. len \in Nat /\ c <= len /\ (c = len => kept = 1..len)
    BY <1>1, <2>2
  <2>6. Listed \cap gone # {} => c # len
    BY <2>3, <2>5
  <2> HIDE DEF kept, c, len
  <2>7. c # len => c < len
    BY <2>4, <2>5
  <2> QED BY <2>5, <2>6, <2>7 DEF len
<1> HIDE DEF rank, kept, at, c
<1>10. rest \in Seq(Nodes) /\ DOMAIN rest = 1..c /\ Len(rest) = c
  BY <1>3, <1>5, <1>7
<1>11. \A k, l \in 1..c : rest[k] = rest[l] => k = l
  BY <1>5, <1>7 DEF ListedOnce
<1>12. {rest[k] : k \in 1..c} = Listed \ gone
  <2>1. \A k \in 1..c : rest[k] \in Listed \ gone
    BY <1>5, <1>7 DEF Listed
  <2>2. ASSUME NEW n \in Listed \ gone
        PROVE  \E k \in 1..c : rest[k] = n
    <3>1. PICK i \in DOMAIN order : order[i] = n
      BY DEF Listed
    <3>2. i \in kept
      BY <1>8, <3>1
    <3> QED BY <1>6, <3>1, <3>2
  <2> QED BY <2>1, <2>2
<1> HIDE DEF rest
<1> QED BY <1>4, <1>9, <1>10, <1>11, <1>12

\* A node that enters is appended to what the evicted one leaves.
LEMMA EntersOnce ==
  ASSUME GatewayInv, NEW n \in Nodes \ Listed, NEW gone,
         Len(order) < MAX_NODES \/ Listed \cap gone # {},
         order' = Append(Remaining(gone), n)
  PROVE  /\ order' \in Seq(Nodes) /\ ListedOnce'
         /\ Listed' = (Listed \ gone) \cup {n}
         /\ Len(order') <= MAX_NODES
<1> DEFINE rest == Remaining(gone)
<1>1. /\ rest \in Seq(Nodes)
      /\ \A k, l \in DOMAIN rest : rest[k] = rest[l] => k = l
      /\ {rest[k] : k \in DOMAIN rest} = Listed \ gone
      /\ Len(rest) <= Len(order)
      /\ Listed \cap gone # {} => Len(rest) < Len(order)
  BY RemainingLists DEF GatewayInv
<1>2. n \notin {rest[k] : k \in DOMAIN rest}
  BY <1>1
<1> HIDE DEF rest
<1>3. /\ order' \in Seq(Nodes) /\ Len(order') = Len(rest) + 1 /\ Len(rest) \in Nat
      /\ DOMAIN order' = 1..Len(rest) + 1 /\ DOMAIN rest = 1..Len(rest)
      /\ \A k \in 1..Len(rest) : order'[k] = rest[k]
      /\ order'[Len(rest) + 1] = n
  BY <1>1 DEF rest
<1>4. \A k \in 1..Len(rest) + 1 : k \in 1..Len(rest) \/ k = Len(rest) + 1
  BY <1>3
<1>5. ListedOnce'
  BY <1>1, <1>2, <1>3, <1>4 DEF ListedOnce
<1>6. Listed' = (Listed \ gone) \cup {n}
  <2>1. \A k \in 1..Len(rest) + 1 : order'[k] \in (Listed \ gone) \cup {n}
    BY <1>1, <1>3, <1>4
  <2>2. \A k \in 1..Len(rest) : k \in 1..Len(rest) + 1 /\ rest[k] = order'[k]
    BY <1>3
  <2>3. Len(rest) + 1 \in 1..Len(rest) + 1
    BY <1>3
  <2> QED BY <1>1, <1>3, <2>1, <2>2, <2>3 DEF Listed
<1>7. Len(order') <= MAX_NODES
  <2>1. Len(order) \in Nat /\ Len(order) <= MAX_NODES /\ MAX_NODES \in Nat
    BY GatewayConstants DEF GatewayInv
  <2> QED BY <1>1, <1>3, <2>1
<1> QED BY <1>3, <1>5, <1>6, <1>7

LEMMA GatewayStepKeepsInv ==
  ASSUME GatewayInv, GatewayStep
  PROVE  GatewayInv'
<1>0. NodesTypeOK /\ NodesTypeOK' /\ Unregistered \notin NodeInfo
  BY GatewayStepKeepsTypes, UnregisteredIsNoNode DEF GatewayInv
<1>1. ASSUME NEW n \in Nodes, NEW signer \in Keys,
             NEW carried \in Keys \cup {NoKey, Absent}, Heartbeat(n, signer, carried)
      PROVE  GatewayInv'
  <2>1. PICK evicted \in MakesRoom(n) :
          /\ nodes' = [m \in Nodes |-> IF m = n THEN Seen(n, carried)
                                       ELSE IF m \in evicted THEN Unregistered
                                       ELSE nodes[m]]
          /\ order' = IF IsRegistered(n) THEN order
                      ELSE Append(Remaining(evicted), n)
    BY <1>1 DEF Heartbeat
  <2>2. nodes'[n] # Unregistered
    BY <1>0, <2>1, SeenIsNodeInfo
  <2>3. Registered' = (Registered \ evicted) \cup {n}
    BY <2>1, <2>2 DEF Registered
  <2>4. CASE IsRegistered(n)
    <3>1. evicted = {} /\ n \in Registered /\ order' = order
      BY <2>1, <2>4 DEF MakesRoom, Registered, IsRegistered
    <3> QED BY <1>0, <2>3, <3>1 DEF GatewayInv, ListedOnce, Listed
  <2>5. CASE ~IsRegistered(n)
    <3>1. n \notin Listed
      BY <2>5 DEF GatewayInv, Registered, IsRegistered
    <3>2. Len(order) < MAX_NODES \/ Listed \cap evicted # {}
      <4>1. Len(order) < MAX_NODES \/ \E m \in Offline : evicted = {m}
        BY <2>5 DEF MakesRoom
      <4>2. Offline \subseteq Listed
        BY DEF Offline, GatewayInv, Registered, IsRegistered
      <4> QED BY <4>1, <4>2
    <3>3. order' = Append(Remaining(evicted), n)
      BY <2>1, <2>5
    <3>4. /\ order' \in Seq(Nodes) /\ ListedOnce'
          /\ Listed' = (Listed \ evicted) \cup {n}
          /\ Len(order') <= MAX_NODES
      BY <3>1, <3>2, <3>3, EntersOnce
    <3> QED BY <1>0, <2>3, <3>4 DEF GatewayInv
  <2> QED BY <2>4, <2>5
<1>2. CASE Age
  <2>1. Registered' = Registered
    <3> SUFFICES ASSUME NEW n \in Nodes
                 PROVE  nodes'[n] = Unregistered <=> nodes[n] = Unregistered
      BY DEF Registered
    <3>1. \/ nodes'[n] = nodes[n]
          \/ /\ nodes[n] \in NodeInfo /\ nodes[n].age < MaxAge
             /\ nodes'[n] = [nodes[n] EXCEPT !.age = @ + 1]
      BY <1>0, <1>2 DEF Age, NodesTypeOK, IsRegistered
    <3> QED BY <1>0, <3>1, AgedIsNodeInfo
  <2> QED BY <1>0, <1>2, <2>1 DEF Age, GatewayInv, ListedOnce, Listed
<1>3. CASE cleanup_offline_nodes
  <2> DEFINE gone == {n \in Nodes : IsRegistered(n) /\ nodes[n].age > RETENTION}
  <2>1. /\ nodes' = [n \in Nodes |-> IF n \in gone THEN Unregistered ELSE nodes[n]]
        /\ order' = Remaining(gone)
    BY <1>3 DEF cleanup_offline_nodes
  <2>2. Registered' = Registered \ gone
    BY <2>1 DEF Registered
  <2> HIDE DEF gone
  <2>3. /\ order' \in Seq(Nodes) /\ ListedOnce'
        /\ Listed' = Listed \ gone
        /\ Len(order') <= Len(order)
    <3> DEFINE rest == Remaining(gone)
    <3>1. order \in Seq(Nodes) /\ ListedOnce
      BY DEF GatewayInv
    <3>2. /\ rest \in Seq(Nodes)
          /\ \A k, l \in DOMAIN rest : rest[k] = rest[l] => k = l
          /\ {rest[k] : k \in DOMAIN rest} = Listed \ gone
          /\ Len(rest) <= Len(order)
      BY <3>1, RemainingLists
    <3>3. order' = rest
      BY <2>1
    <3> HIDE DEF rest
    <3>4. ListedOnce' /\ Listed' = {rest[k] : k \in DOMAIN rest}
      BY <3>2, <3>3 DEF ListedOnce, Listed
    <3> QED BY <3>2, <3>3, <3>4
  <2>4. Len(order') <= MAX_NODES
    <3>1. Len(order) \in Nat /\ Len(order') \in Nat /\ MAX_NODES \in Nat
      BY <2>3, GatewayConstants DEF GatewayInv
    <3> QED BY <2>3, <3>1 DEF GatewayInv
  <2> QED BY <1>0, <2>2, <2>3, <2>4 DEF GatewayInv
<1>4. CASE RestartGateway
  BY <1>0, <1>4, GatewayConstants
     DEF RestartGateway, GatewayInv, ListedOnce, Listed, Registered
<1> QED BY <1>1, <1>2, <1>3, <1>4 DEF GatewayStep

LEMMA GatewayInvariant == Spec => []GatewayInv
<1>1. Init => GatewayInv
  BY GatewayConstants
     DEF Init, GatewayInit, GatewayInv, NodesTypeOK, ListedOnce, Listed, Registered
<1>2. GatewayInv /\ [Next]_vars => GatewayInv'
  <2> SUFFICES ASSUME GatewayInv, UNCHANGED gatewayVars PROVE GatewayInv'
    BY GatewayAloneActs, GatewayStepKeepsInv
  <2> QED BY DEF GatewayInv, NodesTypeOK, ListedOnce, Listed, Registered, gatewayVars
<1> QED BY <1>1, <1>2, PTL DEF Spec

-----------------------------------------------------------------------------
(***************************************************************************)
(* The page: a row that is named by its place has one of MAX_NODES places, *)
(* in what is shown and in every answer still on its way.                  *)
(***************************************************************************)
Fits(list) ==
  \A i \in DOMAIN list : list[i].id = Telemetry!NoId => i \in 1..MAX_NODES

FittingPolls == {p \in Telemetry!Polls : Fits(p.nodes)}

FittingTelemetry ==
  [run : Nat, active : SUBSET Nat, intervals : SUBSET Nat,
   polls : [Telemetry!Slots -> FittingPolls]]

FittingMetrics ==
  {Telemetry!Connecting, Telemetry!ShowOffline} \cup
  [connected : {TRUE}, status : {"healthy"},
   nodesList : {list \in Seq(Entries) : Fits(list)}, isMock : {FALSE}]

PageInv ==
  /\ telemetry \in FittingTelemetry /\ gatewayMetrics \in FittingMetrics
  /\ deployment \in Deployments
  /\ webgl \in BOOLEAN /\ reachable \in BOOLEAN
  /\ page \in {"loading", "shown", "blank"}
  /\ scrolled \in BOOLEAN
  /\ activeTab \in {"terminal", "gateway"}
  /\ selectedNodeId \in NodeIds
  /\ visible \subseteq Headers

LEMMA NewPollsFit ==
  ASSUME NEW polls \in [Telemetry!Slots -> FittingPolls], NEW r \in Nat
  PROVE  Telemetry!Started(polls, r) \in [Telemetry!Slots -> FittingPolls]
<1> DEFINE new == [Telemetry!Idle EXCEPT !.run = r, !.phase = "health"]
<1>1. new = [run |-> r, phase |-> "health", nodes |-> <<>>]
  <2>1. \A none :
          /\ [[run |-> 0, phase |-> "idle", nodes |-> none] EXCEPT !.run = r]
               = [run |-> r, phase |-> "idle", nodes |-> none]
          /\ [[run |-> r, phase |-> "idle", nodes |-> none] EXCEPT !.phase = "health"]
               = [run |-> r, phase |-> "health", nodes |-> none]
    OBVIOUS
  <2>2. Telemetry!Idle = [run |-> 0, phase |-> "idle", nodes |-> <<>>]
    BY DEF Telemetry!Idle
  <2> QED BY <2>1, <2>2
<1>2. <<>> \in Seq(Entries) /\ Fits(<<>>)
  BY DEF Fits
<1>3. new \in FittingPolls
  BY <1>1, <1>2 DEF FittingPolls, Telemetry!Polls
<1> HIDE DEF new
<1>4. \A s : [polls EXCEPT ![s] = new] \in [Telemetry!Slots -> FittingPolls]
  BY <1>3
<1> QED BY <1>4 DEF Telemetry!Started, new

LEMMA RunsFit ==
  ASSUME NEW t \in FittingTelemetry
  PROVE  /\ Telemetry!StartRun(t) \in FittingTelemetry
         /\ Telemetry!EndRun(t) \in FittingTelemetry
<1>1. /\ t.run \in Nat /\ t.active \in SUBSET Nat /\ t.intervals \in SUBSET Nat
      /\ t.polls \in [Telemetry!Slots -> FittingPolls]
  BY DEF FittingTelemetry
<1> DEFINE r == t.run + 1
           polls == Telemetry!Started(t.polls, r)
<1>2. r \in Nat /\ polls \in [Telemetry!Slots -> FittingPolls]
  BY <1>1, NewPollsFit
<1>3. Telemetry!StartRun(t) = [run |-> r, active |-> t.active \cup {r},
                               intervals |-> t.intervals \cup {r}, polls |-> polls]
  BY DEF Telemetry!StartRun
<1> HIDE DEF r, polls
<1>4. Telemetry!StartRun(t) \in FittingTelemetry
  BY <1>1, <1>2, <1>3 DEF FittingTelemetry
<1>5. Telemetry!EndRun(t) \in FittingTelemetry
  BY DEF Telemetry!EndRun, FittingTelemetry
<1> QED BY <1>4, <1>5

\* The gateway answers with at most MAX_NODES nodes.
LEMMA ResponseFits ==
  ASSUME GatewayInv
  PROVE  Response \in Seq(Entries) /\ Fits(Response)
<1>1. /\ Len(order) \in Nat /\ DOMAIN order = 1..Len(order)
      /\ Len(order) <= MAX_NODES /\ MAX_NODES \in Nat
      /\ \A i \in 1..Len(order) : order[i] \in Nodes
  BY GatewayConstants DEF GatewayInv
<1>2. DOMAIN list_nodes = 1..Len(order)
  BY <1>1 DEF list_nodes
<1>3. \A i \in 1..Len(order) :
        [id |-> Telemetry!NoId, node_id |-> NodeId(list_nodes[i].node_id),
         is_online |-> list_nodes[i].is_online] \in Entries
  <2> SUFFICES ASSUME NEW i \in 1..Len(order)
               PROVE  [id |-> Telemetry!NoId,
                       node_id |-> NodeId(list_nodes[i].node_id),
                       is_online |-> list_nodes[i].is_online] \in Entries
    OBVIOUS
  <2>1. list_nodes[i] = [node_id |-> order[i], is_online |-> is_online(order[i])]
    BY <1>1 DEF list_nodes
  <2>2. is_online(order[i]) \in BOOLEAN
    BY DEF is_online, IsRegistered
  <2>3. order[i] \in Nodes
    BY <1>1
  <2> QED BY <2>1, <2>2, <2>3 DEF Entries, Telemetry!NoId
<1>4. Response = [i \in 1..Len(order) |->
                    [id |-> Telemetry!NoId, node_id |-> NodeId(list_nodes[i].node_id),
                     is_online |-> list_nodes[i].is_online]]
  BY <1>2 DEF Response
<1>5. Response \in Seq(Entries) /\ DOMAIN Response = 1..Len(order)
  BY <1>1, <1>3, <1>4
<1>6. 1..Len(order) \subseteq 1..MAX_NODES
  BY <1>1
<1> QED BY <1>5, <1>6 DEF Fits

LEMMA MocksAreEntries ==
  /\ Telemetry!MockNodes \in Seq(Entries)
  /\ \A i \in DOMAIN Telemetry!MockNodes :
       Telemetry!MockNodes[i].id \in {Telemetry!MockId(j) : j \in 1..3}
<1>1. \A i \in 1..3 : [id |-> Telemetry!MockId(i), node_id |-> Telemetry!NoId,
                       is_online |-> i # 3] \in Entries
  BY DEF Entries, Telemetry!MockId, Telemetry!NoId
<1> QED BY <1>1 DEF Telemetry!MockNodes

\* What a row is called is the id of a node, as the page knows them.
LEMMA RowsAreNamed ==
  ASSUME gatewayMetrics \in FittingMetrics, NEW i \in DOMAIN gatewayMetrics.nodesList
  PROVE  nId(i) \in NodeIds
<1> DEFINE list == gatewayMetrics.nodesList
<1>1. CASE gatewayMetrics = Telemetry!Connecting
  BY <1>1 DEF Telemetry!Connecting, Telemetry!Metrics
<1>2. CASE gatewayMetrics = Telemetry!ShowOffline
  <2>1. list = Telemetry!MockNodes
    BY <1>2 DEF Telemetry!ShowOffline, Telemetry!Metrics
  <2>2. list[i].id \in {Telemetry!MockId(j) : j \in 1..3}
    BY <2>1, MocksAreEntries
  <2>3. list[i].id # Telemetry!NoId
    BY <2>2 DEF Telemetry!MockId, Telemetry!NoId
  <2> QED BY <2>2, <2>3 DEF nId, Or, NodeIds
<1>3. CASE gatewayMetrics \notin {Telemetry!Connecting, Telemetry!ShowOffline}
  <2>1. list \in Seq(Entries) /\ Fits(list)
    BY <1>3 DEF FittingMetrics
  <2>2. /\ list[i].id \in {<<>>} \cup {<<"mock", j>> : j \in 1..3}
        /\ list[i].id = Telemetry!NoId => i \in 1..MAX_NODES
    <3>1. list[i] \in Entries
      BY <2>1
    <3>2. list[i].id \in {<<>>} \cup {<<"mock", j>> : j \in 1..3}
      <4>1. \A A, B, e : e \in [id : A, node_id : B, is_online : BOOLEAN] => e.id \in A
        OBVIOUS
      <4> QED BY <3>1, <4>1 DEF Entries
    <3> QED BY <2>1, <3>2 DEF Fits
  <2>3. CASE list[i].id = Telemetry!NoId
    BY <2>2, <2>3 DEF nId, Or, NodeIds
  <2>4. CASE list[i].id # Telemetry!NoId
    BY <2>2, <2>4 DEF nId, Or, NodeIds, Telemetry!NoId, Telemetry!MockId
  <2> QED BY <2>3, <2>4
<1> QED BY <1>1, <1>2, <1>3

\* Where a poll is and what it brings.
LEMMA PollMoves ==
  ASSUME NEW p \in FittingPolls,
         NEW phase \in {"idle", "health", "nodes", "answered", "failed"},
         NEW list \in Seq(Entries), Fits(list)
  PROVE  /\ [p EXCEPT !.phase = phase] \in FittingPolls
         /\ [p EXCEPT !.phase = phase, !.nodes = list] \in FittingPolls
<1>1. /\ p.run \in Nat /\ p.nodes \in Seq(Entries) /\ Fits(p.nodes)
      /\ p = [run |-> p.run, phase |-> p.phase, nodes |-> p.nodes]
  BY DEF FittingPolls, Telemetry!Polls
<1> DEFINE moved  == [run |-> p.run, phase |-> phase, nodes |-> p.nodes]
           filled == [run |-> p.run, phase |-> phase, nodes |-> list]
<1>2. [p EXCEPT !.phase = phase] = moved
  BY <1>1
<1>3. [moved EXCEPT !.nodes = list] = filled
  OBVIOUS
<1>4. moved \in FittingPolls /\ filled \in FittingPolls
  BY <1>1 DEF FittingPolls, Telemetry!Polls
<1> QED BY <1>2, <1>3, <1>4

LEMMA IdleFits == Telemetry!Idle \in FittingPolls
<1>1. <<>> \in Seq(Entries) /\ Fits(<<>>)
  BY DEF Fits
<1> QED BY <1>1 DEF Telemetry!Idle, FittingPolls, Telemetry!Polls

LEMMA PollStepFits ==
  ASSUME GatewayInv,
         telemetry \in FittingTelemetry, gatewayMetrics \in FittingMetrics,
         NEW s \in Telemetry!Slots, PollStep(s)
  PROVE  telemetry' \in FittingTelemetry /\ gatewayMetrics' \in FittingMetrics
<1> DEFINE p == telemetry.polls[s]
<1>1. p \in FittingPolls
  BY DEF FittingTelemetry
<1>2. \A poll \in FittingPolls :
        [telemetry EXCEPT !.polls[s] = poll] \in FittingTelemetry
  BY DEF FittingTelemetry
<1>3. <<>> \in Seq(Entries) /\ Fits(<<>>)
  BY DEF Fits
<1> HIDE DEF p
<1>4. CASE Telemetry!HealthAnswered(s)
  <2>1. /\ telemetry' = [telemetry EXCEPT !.polls[s] = [p EXCEPT !.phase = "nodes"]]
        /\ gatewayMetrics' = gatewayMetrics
    BY <1>4 DEF Telemetry!HealthAnswered, Telemetry!Becomes, p
  <2>2. [p EXCEPT !.phase = "nodes"] \in FittingPolls
    BY <1>1, <1>3, PollMoves
  <2> QED BY <1>2, <2>1, <2>2
<1>5. CASE Telemetry!NodesAnswered(s, Response)
  <2>1. /\ telemetry' = [telemetry EXCEPT !.polls[s] =
                           [p EXCEPT !.phase = "answered", !.nodes = Response]]
        /\ gatewayMetrics' = gatewayMetrics
    BY <1>5 DEF Telemetry!NodesAnswered, Telemetry!Becomes, p
  <2>2. [p EXCEPT !.phase = "answered", !.nodes = Response] \in FittingPolls
    BY <1>1, ResponseFits, PollMoves
  <2> QED BY <1>2, <2>1, <2>2
<1>6. CASE Telemetry!PollFails(s)
  <2>1. /\ telemetry' = [telemetry EXCEPT !.polls[s] =
                           [p EXCEPT !.phase = "failed", !.nodes = <<>>]]
        /\ gatewayMetrics' = gatewayMetrics
    BY <1>6 DEF Telemetry!PollFails, Telemetry!Becomes, p
  <2>2. [p EXCEPT !.phase = "failed", !.nodes = <<>>] \in FittingPolls
    BY <1>1, <1>3, PollMoves
  <2> QED BY <1>2, <2>1, <2>2
<1>7. CASE Telemetry!PollEnds(s)
  <2>1. /\ telemetry' = [telemetry EXCEPT !.polls[s] = Telemetry!Idle]
        /\ gatewayMetrics' \in {Telemetry!ShowLive(p.nodes), Telemetry!ShowOffline,
                                gatewayMetrics}
    BY <1>7 DEF Telemetry!PollEnds, Telemetry!SetIfActive, p
  <2>2. p.nodes \in {list \in Seq(Entries) : Fits(list)}
    BY <1>1 DEF FittingPolls, Telemetry!Polls
  <2>3. Telemetry!ShowLive(p.nodes) \in FittingMetrics
    BY <2>2 DEF Telemetry!ShowLive, Telemetry!Metrics, FittingMetrics
  <2>4. Telemetry!ShowOffline \in FittingMetrics
    BY DEF FittingMetrics
  <2> QED BY <1>2, <2>1, <2>3, <2>4, IdleFits
<1> QED BY <1>4, <1>5, <1>6, <1>7 DEF PollStep

LEMMA VisitorKeepsPage ==
  ASSUME PageInv, VisitorStep
  PROVE  PageInv'
<1>1. UNCHANGED <<telemetry, gatewayMetrics, deployment, webgl, reachable, page>>
  BY DEF VisitorStep, inputVars
<1>2. CASE handleScroll
  BY <1>1, <1>2 DEF handleScroll, PageInv
<1>3. CASE Reveal
  BY <1>1, <1>3 DEF Reveal, PageInv
<1>4. CASE setActiveTab
  BY <1>1, <1>4 DEF setActiveTab, PageInv
<1>5. CASE setSelectedNodeId
  <2>1. selectedNodeId' \in NodeIds
    BY <1>5, RowsAreNamed DEF setSelectedNodeId, PageInv
  <2> QED BY <1>1, <1>5, <2>1 DEF setSelectedNodeId, PageInv
<1> QED BY <1>2, <1>3, <1>4, <1>5 DEF VisitorStep

LEMMA NextKeepsPage ==
  ASSUME PageInv, GatewayInv, [Next]_vars
  PROVE  PageInv'
<1>1. CASE Mount
  <2>1. telemetry' \in FittingTelemetry
    <3> DEFINE t == Telemetry!StartRun(telemetry)
    <3>1. t \in FittingTelemetry
      BY RunsFit DEF PageInv
    <3> HIDE DEF t
    <3>2. Telemetry!StartRun(Telemetry!EndRun(t)) \in FittingTelemetry
      BY <3>1, RunsFit
    <3> QED BY <1>1, <3>1, <3>2 DEF Mount, t
  <2> QED BY <1>1, <2>1 DEF Mount, PageInv, inputVars, uiVars
<1>2. CASE MountWithoutWebGL
  <2>1. telemetry' \in FittingTelemetry
    BY <1>2, RunsFit DEF MountWithoutWebGL, PageInv
  <2> QED BY <1>2, <2>1 DEF MountWithoutWebGL, PageInv, inputVars, uiVars
<1>3. CASE HotReload
  <2>1. telemetry' \in FittingTelemetry
    BY <1>3, RunsFit DEF HotReload, PageInv
  <2> QED BY <1>3, <2>1 DEF HotReload, PageInv, inputVars, uiVars
<1>4. CASE toggleTheme
  BY <1>4 DEF toggleTheme, PageInv, inputVars
<1>5. CASE Frame
  BY <1>5 DEF Frame, PageInv, inputVars, uiVars
<1>6. CASE VisitorStep
  BY <1>6, VisitorKeepsPage
<1>7. CASE ServerStep
  BY <1>7 DEF ServerStep, PageInv, inputVars, uiVars
<1>8. CASE \E r \in 1..MaxRuns : PollAgain(r) /\ UNCHANGED Unpolled
  <2>1. PICK r \in 1..MaxRuns : PollAgain(r) /\ UNCHANGED Unpolled
    BY <1>8
  <2>2. /\ telemetry' = [telemetry EXCEPT !.polls = Telemetry!Started(@, r)]
        /\ gatewayMetrics' = gatewayMetrics
        /\ r \in telemetry.intervals
    BY <2>1 DEF PollAgain, Telemetry!PollAgain
  <2> DEFINE started == Telemetry!Started(telemetry.polls, r)
  <2>3. telemetry.polls \in [Telemetry!Slots -> FittingPolls] /\ r \in Nat
    BY <2>2 DEF PageInv, FittingTelemetry
  <2>4. started \in [Telemetry!Slots -> FittingPolls]
    BY <2>3, NewPollsFit
  <2> HIDE DEF started
  <2>5. [telemetry EXCEPT !.polls = started] \in FittingTelemetry
    BY <2>4 DEF PageInv, FittingTelemetry
  <2>6. telemetry' \in FittingTelemetry
    BY <2>2, <2>5 DEF started
  <2> QED BY <2>1, <2>2, <2>6 DEF PageInv, Unpolled, inputVars, uiVars
<1>9. CASE \E s \in Telemetry!Slots : PollStep(s) /\ UNCHANGED Unpolled
  <2>1. telemetry' \in FittingTelemetry /\ gatewayMetrics' \in FittingMetrics
    BY <1>9, PollStepFits DEF PageInv
  <2> QED BY <1>9, <2>1 DEF PageInv, Unpolled, inputVars, uiVars
<1>10. CASE UNCHANGED vars
  BY <1>10 DEF PageInv, vars, inputVars, uiVars
<1> QED BY <1>1, <1>2, <1>3, <1>4, <1>5, <1>6, <1>7, <1>8, <1>9, <1>10 DEF Next

LEMMA PageInvariant == Spec => []PageInv
<1>1. Init => PageInv
  <2> SUFFICES ASSUME Init PROVE PageInv
    OBVIOUS
  <2>1. telemetry \in FittingTelemetry
    <3>1. telemetry = [run |-> 0, active |-> {}, intervals |-> {},
                       polls |-> [s \in Telemetry!Slots |-> Telemetry!Idle]]
      BY DEF Init, Telemetry!TelemetryInit
    <3>2. [s \in Telemetry!Slots |-> Telemetry!Idle]
            \in [Telemetry!Slots -> FittingPolls]
      BY IdleFits
    <3> QED BY <3>1, <3>2 DEF FittingTelemetry
  <2>2. gatewayMetrics \in FittingMetrics
    BY DEF Init, Telemetry!TelemetryInit, FittingMetrics
  <2>3. selectedNodeId \in NodeIds
    BY DEF Init, NodeIds
  <2> QED BY <2>1, <2>2, <2>3 DEF Init, PageInv
<1>2. PageInv /\ GatewayInv /\ [Next]_vars => PageInv'
  BY NextKeepsPage
<1> QED BY <1>1, <1>2, GatewayInvariant, PTL DEF Spec

(***************************************************************************)
(* Whatever the visitor clicks while the gateway's answers come and go,    *)
(* the page's state keeps its type, the registry lists each node it holds  *)
(* once and never more than MAX_NODES of them, and what is selected is a   *)
(* row the registry can name.                                              *)
(***************************************************************************)
THEOREM AppTypeCorrect == Spec => []TypeOK
<1>1. EffectsInv /\ GatewayInv /\ PageInv => TypeOK
  <2> SUFFICES ASSUME EffectsInv, GatewayInv, PageInv PROVE TypeOK
    OBVIOUS
  <2>1. GatewayTypeOK
    <3>1. Len(order) = Cardinality(Listed)
      BY ListedOnceCounts DEF GatewayInv
    <3> QED BY <3>1 DEF GatewayTypeOK, GatewayInv, NodesTypeOK, Listed, Registered
  <2>2. Telemetry!TelemetryTypeOK
    <3>1. telemetry \in [run : Nat, active : SUBSET Nat, intervals : SUBSET Nat,
                         polls : [Telemetry!Slots -> Telemetry!Polls]]
      <4>1. FittingPolls \subseteq Telemetry!Polls
        BY DEF FittingPolls
      <4> QED BY <4>1 DEF PageInv, FittingTelemetry
    <3>2. gatewayMetrics \in
            {Telemetry!Connecting, Telemetry!ShowOffline} \cup
            [connected : {TRUE}, status : {"healthy"}, nodesList : Seq(Entries),
             isMock : {FALSE}]
      BY DEF PageInv, FittingMetrics
    <3> QED BY <3>1, <3>2 DEF Telemetry!TelemetryTypeOK
  <2>3. attached \subseteq PageEffects \X Nat
    <3>1. attached = {} \/ attached = PageEffects \X {telemetry.run}
      BY DEF EffectsInv, EffectsRunOnce
    <3>2. telemetry.run \in Nat
      BY DEF PageInv, FittingTelemetry
    <3> QED BY <3>1, <3>2
  <2>4. TopographyTypeOK /\ isDark \in BOOLEAN
    BY DEF EffectsInv
  <2> QED BY <2>1, <2>2, <2>3, <2>4 DEF TypeOK, PageInv
<1> QED BY <1>1, EffectsInvariant, GatewayInvariant, PageInvariant, PTL
=============================================================================
