SPECIFICATION Spec
CONSTANTS
  Mac = {m1, m2}
  Ip = {a1, a2}
  NoMac = NoMac
  NoIp = NoIp
  AclMaxClients = 2
  MaxClients = 2
  QuotaSec = 3
  DaySec = 4
  TicksPerSec = 1
  WallOffsets = {2}
  Clients = {"renumber"}
  MaxTime = 5
SYMMETRY PortalSymmetry
INVARIANT
  RunningIsAdmitted
