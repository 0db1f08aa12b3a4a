\* A batch with an archived event that is retained until its key arrives.
CONSTANTS
  k1 = k1  k2 = k2
  Sessions = {k1}
  Forged = {}
  Policies = {"quarantine"}
  Resends = FALSE
  WindowSize = 3
  MaxBackfill = 2
  MaxStream = 3
  MaxFaults = 1
SPECIFICATION Spec
INVARIANT ArchivedStaysArchived
