\* Two messages of one conversation and one of another that compete for the only
\* slot, or three of one, steered after turns; or one run that asks for a
\* permission, with a command of the operator and a restart. Every channel is at
\* its limit.
CONSTANTS
  None = None
  c1 = c1  c2 = c2  c3 = c3  e1 = e1  e2 = e2  e3 = e3  e4 = e4  e5 = e5  e6 = e6  room = room
  Conversations <- ThreeConvs
  Rooms = {room}
  RoomOf <- OneRoom
  Events = {e1, e2, e3, e4, e5, e6}
  ConvOf <- Apart
  RunIds = {r1, r2, r3}
  Requests = {q1}
  Sessions = {s1}
  Policies = {p1}
  Audiences = {a1}
  ExplicitConvs = {c3}
  AutoConvs = {}
  AfterTurn = TRUE
  MaxConcurrent = 1
  Workloads <- TurnsOrApprovals
  UpdatesCap = 1
  ControlCap = 1
SYMMETRY Symmetry
SPECIFICATION RunnerSpec
INVARIANTS WithinLimit NoOrphans GivenOnce DecisionsReachAgents
PROPERTIES OlderFirst KeepsOrder
CHECK_DEADLOCK FALSE
