\* Four items with two sessions, one of them forged, malformed events, responses
\* of two events that may reach back, gaps of at most one event between them.
CONSTANTS
  k1 = k1  k2 = k2
  Sessions = {k1, k2}
  Forged = {k2}
  Policies = {"wait", "quarantine"}
  Resends = TRUE
  WindowSize = 2
  MaxBackfill = 2
  MaxStream = 4
  MaxFaults = 1
SPECIFICATION FairSpec
INVARIANTS TypeOK NothingSkipped KeysSurvive InputOnce
PROPERTY CatchesUp
