\* A walk over up to four events in pages of up to two.
CONSTANTS
  None = None
  Limits = {1, 3}
  MaxHistory = 4
  MaxPage = 2
SPECIFICATION Spec
INVARIANTS EachOnce
PROPERTIES CallsEnd
CHECK_DEADLOCK FALSE
