SPECIFICATION MCSpec
CONSTANTS
  MaxClients = 3
  MaxBacklog = 4
  Slow = {1, 2}
  Rejoiners = {2}
  Publishers = {}
  MaxEvents = 3
  Joined = 3
  Backlog = 3
INVARIANT LeaseSound
CHECK_DEADLOCK FALSE
INVARIANT ControllerAgreed
INVARIANT DragFollowsLease
INVARIANT RecursionBounded
