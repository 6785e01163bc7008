SPECIFICATION Spec
CONSTANTS
  QueueLimit = 2
  IceLimit = 1
  UserCommands = {"join", "stop", "reset"}
  MaxSessions = 2
  MaxContexts = 2
  MaxSignals = 2
  MaxLocal = 1
  MaxAbandoned = 1
CHECK_DEADLOCK FALSE
INVARIANTS TypeOK SignalsReachPlayerInOrder WireIsOwn FailureIsReported
PROPERTIES ShownNeverGoesBack
