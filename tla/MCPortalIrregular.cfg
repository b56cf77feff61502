SPECIFICATION Spec
CONSTANTS
  Mac = {m1, m2}
  Ip = {a1}
  NoMac = NoMac
  NoIp = NoIp
  AclMaxClients = 3
  MaxClients = 3
  QuotaSec = 2
  DaySec = 4
  TicksPerSec = 1
  WallOffsets = {2}
  Clients = {"renumber", "late", "no_peer", "static"}
  MaxTime = 2
SYMMETRY PortalSymmetry
INVARIANTS
  OneSessionPerMac
  NaptServesAccess
  SessionsOfStations
