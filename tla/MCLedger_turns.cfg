\* A room that is one conversation: three messages that may each become a run, one
\* in the thread of another with a reader's message before it, and no approvals:
\* steering, continuation, stop, restart with another configuration, and what each
\* prompt contains.
CONSTANTS
  None = None
  c1 = c1  room = room  e1 = e1  e2 = e2  e3 = e3  o1 = o1
  Conversations <- OneConv
  Rooms = {room}
  RoomOf <- OneRoom
  Events = {e1, e2, e3}
  ConvOf <- AllInOne
  RunIds = {r1, r2, r3}
  Requests = {}
  Sessions = {}
  Policies = {p1, p2}
  Audiences = {a1}
  ExplicitConvs = {}
  AutoConvs = {}
  AfterTurn = TRUE
  MaxConcurrent = 0
  Readers = {o1}
  Timeline <- RoomInOrder
  Root <- Threads
  ReplyTo <- Replies
  Window = 1
SYMMETRY Symmetry
SPECIFICATION LedgerSpec
INVARIANTS TypeOK OneRunPerRequest StopSettlesEarlier LedgerIsHonest FollowUpKeepsContext MarksInOrder WorkUnderBinding LinesOnce ContextIsComplete
PROPERTIES FollowUpsSettleOnce Lifecycle
