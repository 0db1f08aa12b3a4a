\* Two messages of one conversation, steered after turns, under fairness, with
\* both channels at their limit.
CONSTANTS
  None = None
  c1 = c1  c2 = c2  c3 = c3  e1 = e1  e2 = e2  e3 = e3  e4 = e4  e5 = e5  e6 = e6  room = room
  Conversations <- OneConv
  Rooms = {room}
  RoomOf <- OneRoom
  Events = {e1, e2}
  ConvOf <- AllInOne
  RunIds = {r1, r2}
  Requests = {}
  Sessions = {s1}
  Policies = {p1}
  Audiences = {a1}
  ExplicitConvs = {}
  AutoConvs = {}
  AfterTurn = TRUE
  MaxConcurrent = 1
  Workloads <- MessagesOnly
  UpdatesCap = 1
  ControlCap = 1
SPECIFICATION FairRunner
PROPERTIES StopSettles
CHECK_DEADLOCK FALSE
