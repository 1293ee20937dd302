SPECIFICATION MCSafety
CONSTANTS
  Nodes = {n1, n2}
  Keys = {k1}
  NoKey = NoKey
  Absent = Absent
  Unregistered = Unregistered
  MAX_NODES = 1
  NODE_TIMEOUT = 1
  RETENTION = 1
  MaxBackgrounds = 4
  Hosts = {"localhost:8000", "gateway.vams.network", "gateway.example"}
  Unset = Unset
  Blank = Blank
  Unparsable = Unparsable
  MaxPolls = 2
  MaxRuns = 3
  Headers = {h1}
  Scored = {"K", "M"}
  Scenarios = {"visitor"}
CHECK_DEADLOCK FALSE
INVARIANT
  SelectedNodeIsProfiled
