SPECIFICATION Spec
CONSTANTS
  None = None
  Invalid = Invalid
  MaxText = 4
  MaxSetting = 3
  MaxServers = 5
  MaxReport = 3
  MaxBuffers = 3
  MaxRows = 3
  PacketFrames = 4
  Tolerance = 1
  BufferSizes = {1, 3, 4, 9}
  FrameSizes = {0, 1, 2, 3}
  Instants = {0, 1, 2}
  MaxLate = 2
CHECK_DEADLOCK FALSE
INVARIANTS MessagesSurvive SettingsSurvive NominatedPathIsShown EncodersKeepTime IdsNameTheirSource
