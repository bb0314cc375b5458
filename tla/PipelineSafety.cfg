\* Two workers and two overlapping requests on one order.
SPECIFICATION Spec
CONSTANTS
  Orders = {o1}
  Contents = {x1, x2}
  Workers = {w1, w2}
  Clients = {c1, c2}
  None = None
  MaxRetries = 0
  MaxVersion = 2
  MaxRequests = 2
  MaxFaults = 1
  MaxCopies = 1
SYMMETRY Symmetric
INVARIANTS
  TypeOK
  ClaimsExclusive
  JobsBackVerdicts
  OneVerdictPerVersion
  StatusAgreesWithVerdict
  WaitingOrderHasRow
PROPERTIES
  LedgerSpec
  OnlyCurrentVersionRecorded
