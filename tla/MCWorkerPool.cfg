CONSTANTS
  Workers = {w1, w2, w3}
  Size = 8
  MaxClients = 1
  MaxChanges = 2
  MaxHeld = 3
SPECIFICATION Spec
INVARIANTS
  ReloadIsAlone
  LeftIsLost
PROPERTIES
  WorkersComeBack
  ServerStops
CHECK_DEADLOCK FALSE
