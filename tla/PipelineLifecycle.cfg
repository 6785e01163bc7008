SPECIFICATION Spec
CONSTANTS
  Sources = {s1, s2}
  NoConfig = NoConfig
  Capacity = 2
  OptIns = {FALSE, TRUE}
  Delivered = {"video", "audio", "starting", "running", "blocked", "failed", "stopped"}
  MaxBatch = 1
  MaxRequests = 0
  FirIds = {}
  NoFir = NoFir
SYMMETRY SourceSymmetry
INVARIANTS TypeOK StopQuiesces EndIsVisible NoUnwantedAudio
CHECK_DEADLOCK FALSE
