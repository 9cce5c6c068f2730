SPECIFICATION FairSpec
CONSTANTS
  c1 = c1
  c2 = c2
  c3 = c3
  d1 = d1
  d2 = d2
  Conn = {c1, c2}
  DeviceId = {d1, d2}
  MayRegister <- TwoEach
  MayAsk <- AskHeartbeat
  StaleThreshold = 0
  Presence = presence
  NoDevice = NoDevice
  NoConn = NoConn
  Nothing = Nothing
PROPERTIES SilentLeaves  ClosedLeaves ImplementsFairDirectory
