\* Two corrections of one order overlap.
SPECIFICATION Spec
CONSTANTS
  Orders = {o1}
  Clients = {c1, c2}
  Decisions = {PASS, REJECT}
  Worker = Worker
  None = None
  Unknown = Unknown
  Corrected = {o1}
  MaxRequests = 2
  MaxList = 1
PROPERTY
  CorrectionsAccumulate
CHECK_DEADLOCK FALSE
