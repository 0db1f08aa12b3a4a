\* A batch of a few events that is retained after some of them were admitted.
CONSTANTS
  k1 = k1  k2 = k2
  Sessions = {k1}
  Forged = {}
  Policies = {"wait"}
  Resends = FALSE
  WindowSize = 3
  MaxBackfill = 2
  MaxStream = 4
  MaxFaults = 1
SPECIFICATION Spec
INVARIANT OnlyFollowUpsContinue
