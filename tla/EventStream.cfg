\* Two writers, four events of two users, batches of two, one lost connection.
SPECIFICATION FairSpec
CONSTANTS
  Writers = {w1, w2}
  Users = {u1, u2}
  User = u1
  Limit = 2
  Interval = 2
  MaxId = 4
  MaxDrops = 1
INVARIANTS
  StreamTypeOK
  ReceivedInOrder
  ReceivedOwn
  NeverSilent
PROPERTIES
  NothingSkipped
  EventsAheadArrive
