\* Two ingests of one order overlap.
SPECIFICATION Spec
CONSTANTS
  Orders = {o1}
  Contents = {x1, x2, x3}
  Workers = {w1}
  Clients = {c1, c2}
  None = None
  MaxRetries = 0
  MaxVersion = 2
  MaxRequests = 2
  MaxFaults = 0
  MaxCopies = 1
PROPERTY
  NewContentNewVersion
