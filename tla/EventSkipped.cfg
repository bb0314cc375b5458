\* Two writers commit in the opposite order of their ids.
SPECIFICATION FairSpec
CONSTANTS
  Writers = {w1, w2}
  Users = {u1, u2}
  User = u1
  Limit = 2
  Interval = 2
  MaxId = 2
  MaxDrops = 0
PROPERTY
  CommittedArrive
