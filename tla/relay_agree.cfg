SPECIFICATION Spec
CONSTANTS
  c1 = c1
  c2 = c2
  c3 = c3
  d1 = d1
  d2 = d2
  Conn = {c1, c2, c3}
  DeviceId = {d1, d2}
  MayRegister <- Reconnecting
  MayAsk <- AskNothing
  StaleThreshold = 0
  Presence = presence
  NoDevice = NoDevice
  NoConn = NoConn
  Nothing = Nothing
INVARIANT PresenceAgrees
