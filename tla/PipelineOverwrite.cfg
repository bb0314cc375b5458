\* A worker fails for good while another one works on the same order.
SPECIFICATION Spec
CONSTANTS
  Orders = {o1}
  Contents = {x1}
  Workers = {w1, w2}
  Clients = {c1}
  None = None
  MaxRetries = 0
  MaxVersion = 1
  MaxRequests = 0
  MaxFaults = 1
  MaxCopies = 1
PROPERTY
  TerminalStatusKept
