--------------------------- MODULE GatewayTelemetry ---------------------------
(***************************************************************************)
(* The effect of the page that polls the gateway (App.jsx): GET /health,   *)
(* then GET /nodes, at once and every five seconds.  Nothing aborts or     *)
(* times out a poll, so polls overlap and end in any order; `active` is    *)
(* false for the polls of a run of the effect that was cleaned up.         *)
(***************************************************************************)
EXTENDS Naturals, Sequences, FiniteSets

CONSTANTS
  MaxPolls,       \* bound: polls in flight
  MaxRuns,        \* bound: runs of the effect
  Entries         \* entries of a nodesList

VARIABLES
  telemetry,
  gatewayMetrics  \* what the page shows

telemetryVars == <<telemetry, gatewayMetrics>>

Slots == 1..MaxPolls
Idle  == [run |-> 0, phase |-> "idle", nodes |-> <<>>]

\* A poll waits for the answer of "health" or "nodes", or its last await has
\* ended ("answered", "failed") and its continuation has not run yet.
Polls ==
  [run : Nat, phase : {"idle", "health", "nodes", "answered", "failed"},
   nodes : Seq(Entries)]

\* nodesList of the catch branch; its first entry is selected at the start.
MockId(i) == <<"mock", i>>
NoId      == <<>>
MockNodes ==
  [i \in 1..3 |-> [id |-> MockId(i), node_id |-> NoId, is_online |-> i # 3]]

Metrics(connected, status, list) ==
  [connected |-> connected, status |-> status, nodesList |-> list,
   isMock |-> ~connected]

Connecting  == Metrics(FALSE, "connecting", <<>>)
ShowOffline == Metrics(FALSE, "offline", MockNodes)
ShowLive(list) == Metrics(TRUE, "healthy", list)

TelemetryTypeOK ==
  /\ telemetry \in
       [run       : Nat,                \* the latest run, 0 before the first
        active    : SUBSET Nat,         \* runs whose `active` is true
        intervals : SUBSET Nat,         \* runs whose interval is not cleared
        polls     : [Slots -> Polls]]
  /\ gatewayMetrics \in
       {Connecting, ShowOffline} \cup
       [connected : {TRUE}, status : {"healthy"}, nodesList : Seq(Entries),
        isMock : {FALSE}]

TelemetryInit ==
  /\ telemetry = [run |-> 0, active |-> {}, intervals |-> {},
                  polls |-> [s \in Slots |-> Idle]]
  /\ gatewayMetrics = Connecting

Free(polls) == {s \in Slots : polls[s] = Idle}

\* fetchMetrics, called by run r.
Started(polls, r) ==
  LET s == CHOOSE s \in Free(polls) : \A u \in Free(polls) : s <= u
  IN  [polls EXCEPT ![s] = [Idle EXCEPT !.run = r, !.phase = "health"]]

HasRoom(n) == Cardinality(Free(telemetry.polls)) >= n

StartRun(t) ==
  LET r == t.run + 1
  IN  [run       |-> r,
       active    |-> t.active \cup {r},
       intervals |-> t.intervals \cup {r},
       polls     |-> Started(t.polls, r)]

EndRun(t) == [t EXCEPT !.active = @ \ {t.run}, !.intervals = @ \ {t.run}]

\* setInterval fires for run r.
PollAgain(r) ==
  /\ r \in telemetry.intervals
  /\ HasRoom(1)
  /\ telemetry' = [telemetry EXCEPT !.polls = Started(@, r)]
  /\ UNCHANGED gatewayMetrics

Becomes(s, poll) ==
  /\ telemetry' = [telemetry EXCEPT !.polls[s] = poll]
  /\ UNCHANGED gatewayMetrics

\* /health answered: the poll goes on to /nodes.
HealthAnswered(s) ==
  LET p == telemetry.polls[s]
  IN  p.phase = "health" /\ Becomes(s, [p EXCEPT !.phase = "nodes"])

\* /nodes answered with list, which is on its way to the page.
NodesAnswered(s, list) ==
  LET p == telemetry.polls[s]
  IN  p.phase = "nodes"
      /\ Becomes(s, [p EXCEPT !.phase = "answered", !.nodes = list])

\* A request fails, or is answered with an error or with no JSON.
PollFails(s) ==
  LET p == telemetry.polls[s]
  IN  /\ p.phase \in {"health", "nodes", "answered"}
      /\ Becomes(s, [p EXCEPT !.phase = "failed", !.nodes = <<>>])

\* Mutant: the continuation does not look at `active`.
SetWhenever(run, metrics) == gatewayMetrics' = metrics

\* Mutant: a catch that keeps what is shown.
SetIfConnected(run, metrics) ==
  gatewayMetrics' = IF run \in telemetry.active /\ metrics.connected THEN metrics
                    ELSE gatewayMetrics

\* if (active) setGatewayMetrics(...)
SetIfActive(run, metrics) ==
  gatewayMetrics' = IF run \in telemetry.active THEN metrics ELSE gatewayMetrics

\* The continuation of the poll runs.
PollEnds(s) ==
  LET p == telemetry.polls[s]
  IN  /\ p.phase \in {"answered", "failed"}
      /\ SetIfActive(p.run, IF p.phase = "answered" THEN ShowLive(p.nodes)
                            ELSE ShowOffline)
      /\ telemetry' = [telemetry EXCEPT !.polls[s] = Idle]
=============================================================================
