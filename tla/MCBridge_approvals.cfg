\* A conversation with explicit delivery, two messages, a run and two permission
\* requests; operators answer, stop and change the approval mode, time passes,
\* the audience of the room changes and the process restarts. Another
\* conversation competes for the only slot.
CONSTANTS
  None = None
  c1 = c1  c2 = c2  e1 = e1  e2 = e2  e3 = e3  room = room
  Conversations <- TwoConvs
  Rooms = {room}
  RoomOf <- OneRoom
  Events = {e1, e2, e3}
  ConvOf <- E2Apart
  RunIds = {r1}
  Requests = {q1, q2}
  Sessions = {}
  Policies = {p1}
  Audiences = {a1, a2}
  ExplicitConvs = {c1}
  AutoConvs = {}
  AfterTurn = FALSE
  MaxConcurrent = 1
SYMMETRY ApartSymmetry
SPECIFICATION Spec
INVARIANTS WaitingIffOpen
PROPERTIES AnswersAreTimely
