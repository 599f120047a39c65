SPECIFICATION FairSpec
CONSTANTS
  Backends = {"codex", "claude"}
  Events = {"msg", "fail"}
  None = None
  MaxLines = 3
  PipeCap = 1
  QueueCap = 1
  SignalPoints <- Points
INVARIANTS AcceptedStands TurnIsReadOut AllAreStopped NoStrangerIsSignalled
PROPERTIES NoBindingForTheKilled Returns
CHECK_DEADLOCK FALSE
