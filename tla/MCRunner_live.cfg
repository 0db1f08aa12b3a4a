\* Two messages of one conversation, steered by concurrent prompts, under fairness, with
\* room for every update.
CONSTANTS
  None = None
  c1 = c1  c2 = c2  c3 = c3  e1 = e1  e2 = e2  e3 = e3  e4 = e4  e5 = e5  e6 = e6  room = room
  Conversations <- OneConv
  Rooms = {room}
  RoomOf <- OneRoom
  Events = {e1, e2}
  ConvOf <- AllInOne
  RunIds = {r1, r2}
  Requests = {}
  Sessions = {s1}
  Policies = {p1}
  Audiences = {a1}
  ExplicitConvs = {}
  AutoConvs = {}
  AfterTurn = FALSE
  MaxConcurrent = 1
  Workloads <- MessagesOnly
  UpdatesCap = 4
  ControlCap = 1
SPECIFICATION FairRunner
INVARIANTS RunnerTypeOK
PROPERTIES StopSettles FollowUpsMoveOn
CHECK_DEADLOCK FALSE
