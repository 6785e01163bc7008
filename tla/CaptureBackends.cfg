SPECIFICATION FairSpec
CONSTANTS
  NativeSources = {"screen", "window"}
  Examples = {"example"}
  NoSource = "none"
  AudioLimit = 2
  MaxCaptures = 2
  MaxPending = 2
  PipeCapacity = 1
  MaxListing = 2
INVARIANTS StatusTellsTruth StreamHasOwner
PROPERTIES SamplesFollowStart StartIsDecided
