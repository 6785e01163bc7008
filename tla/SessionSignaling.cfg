SPECIFICATION Spec
CONSTANTS
  a = a
  b = b
  Sources = {}
  NoSource = NoSource
  HasAudio = {}
  Truncated <- NoPrefixes
  Observations <- SteadyCatalog
  Commands = {"start_host", "start_viewer", "refresh", "stop", "capture_catalog"}
  PeerStates = {"connected"}
  MaxTransports = 1
  MaxCandidates = 2
  Lines = {"waiting", "peer", "offer", "answer", "candidate", "invalid"}
  MaxArrived = 2
CHECK_DEADLOCK TRUE
INVARIANTS LossIsReported
PROPERTIES StoppedStaysStopped AnsweredStaysAnswered
