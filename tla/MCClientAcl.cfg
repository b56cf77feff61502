SPECIFICATION AclSpec
CONSTANTS
  Mac = {m1, m2, m3}
  Ip = {a1, a2, a3}
  NoMac = NoMac
  NoIp = NoIp
  AclMaxClients = 3
INVARIANTS
  AclTypeOK
  AclOneEntryPerMac
  AclOneAnonymousEntryPerIp
PROPERTY
  ImplementsAdmissionSet
