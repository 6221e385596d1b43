SPECIFICATION MCSpec
CONSTANTS
  MaxClients = 3
  MaxBacklog = 9
  Slow = {}
  Rejoiners = {1, 2}
  Publishers = {1}
  MaxEvents = 6
  Joined = 0
  Backlog = 0
CHECK_DEADLOCK FALSE
INVARIANT TypeOK
INVARIANT RosterAgreed
