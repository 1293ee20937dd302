SPECIFICATION MCSpec
CONSTANTS
  Nodes = {n1, n2}
  Keys = {k1, k2}
  NoKey = NoKey
  Absent = Absent
  Unregistered = Unregistered
  MAX_NODES = 1
  NODE_TIMEOUT = 1
  RETENTION = 1
  MaxBackgrounds = 4
  Hosts = {"localhost:8000", "gateway.vams.network", "gateway.example"}
  Unset = Unset
  Blank = Blank
  Unparsable = Unparsable
  MaxPolls = 2
  MaxRuns = 3
  Headers = {h1}
  Scored = {"K", "M"}
  Scenarios = {"deployed", "telemetry", "visitor"}
CHECK_DEADLOCK FALSE
INVARIANTS
  TypeOK
  EffectsRunOnce
  ServedPageMayPoll
PROPERTIES
  OnlyPresentPollsShow
  OnlineIsKept
  PageFollowsGateway
