SPECIFICATION Spec
CONSTANTS
  Sources = {s1}
  NoConfig = NoConfig
  Capacity = 1
  OptIns = {FALSE, TRUE}
  Delivered = {"video", "audio", "starting", "running", "blocked", "failed", "stopped"}
  MaxBatch = 1
  MaxRequests = 0
  FirIds = {}
  NoFir = NoFir
PROPERTIES RefusedSampleIsDropped
CHECK_DEADLOCK FALSE
