SPECIFICATION Spec
CONSTANTS
  a = a
  b = b
  Sources = {a, b}
  NoSource = NoSource
  HasAudio = {a, b}
  Truncated <- Prefixes
  Observations <- ChangingCatalog
  Commands = {"start_host", "start_local_demo", "select", "update_config", "update_ui", "start_capture", "poll_capture", "stop_capture", "stop", "reset",
              "reconnect"}
  PeerStates = {}
  MaxTransports = 2
  MaxCandidates = 0
  Lines = {}
  MaxArrived = 0
CHECK_DEADLOCK TRUE
INVARIANTS CaptureFollowsSelection CaptureUsesCurrentTransport HostSelectionIsOffered RestoredAudioWasSaved
PROPERTIES AudioStaysOff
