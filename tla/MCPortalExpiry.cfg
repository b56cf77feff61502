SPECIFICATION FairSpec
CONSTANTS
  Mac = {m1, m2}
  Ip = {a1, a2}
  NoMac = NoMac
  NoIp = NoIp
  AclMaxClients = 2
  MaxClients = 2
  QuotaSec = 1
  DaySec = 4
  TicksPerSec = 1
  WallOffsets = {2}
  Clients = {"renumber", "no_peer"}
  MaxTime = 1
INVARIANT
  AdmittedHaveSession
PROPERTY
  OverdueIsCutOff
