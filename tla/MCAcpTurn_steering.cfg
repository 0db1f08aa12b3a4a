\* Three follow-ups under each of the four steering strategies, with two stops.
CONSTANTS
  None = None
  FollowUps = {f1, f2, f3}
  Modes = {"after_turn", "concurrent_prompt", "session_steering", "grok_interject"}
  MaxStops = 2
SPECIFICATION FairSpec
INVARIANTS TypeOK NoWorkLeftBehind
PROPERTIES Implements StopIsFinal StopEnds NeverHangs
CHECK_DEADLOCK FALSE
