SPECIFICATION Spec
CONSTANTS
  Backends = {"codex"}
  Events = {"msg", "fail"}
  None = None
  MaxLines = 3
  PipeCap = 1
  QueueCap = 2
  SignalPoints <- Nowhere
INVARIANT FailedTurnIsRefused
CHECK_DEADLOCK FALSE
