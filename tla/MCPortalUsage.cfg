SPECIFICATION UsageSpec
CONSTANTS
  Mac = {m1}
  Ip = {a1}
  NoMac = NoMac
  NoIp = NoIp
  AclMaxClients = 2
  MaxClients = 2
  QuotaSec = 3
  DaySec = 20
  TicksPerSec = 1
  WallOffsets = {2}
  Clients = {}
  MaxTime = 8
  HeartbeatSec = 2
INVARIANT
  DailyLimit
