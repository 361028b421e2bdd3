SPECIFICATION Spec
CONSTANTS
  Items = {"p", "q"}
  MaxConns = 2
  MaxStreams = 4
  MaxGrantWalks = 1
  MaxJoined = 1
  MaxQueued = 1
  MaxUnknown = 2
  MaxPending = 1
  Uses <- MCUses
INVARIANTS TasksAreSound BasesAreHeld
PROPERTY Converges
CHECK_DEADLOCK FALSE
