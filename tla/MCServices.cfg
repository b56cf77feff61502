SPECIFICATION ServicesSpec
CONSTANTS
  ProbeReason = {"dns_forward_failed"}
  DnsName = {n1, n2, n3}
  DnsEntries = 2
  DnsDaySec = 2
  DnsFallbackSec = 1
  DnsTicks = 2
  DnsWallAtBoot = 1
  DnsMaxTime = 5
  PmPort = {80}
  PmTarget = {g1, g2}
  PmEntry <- PmEntries
  PmSlots = 2
  UplinkAddr = {a1, a2}
  CfgValue = {"a+b", "a b"}
  Blank = ""
  Decode <- Decoding
  ByteWrap = 4
  LongWrap = 8
  Typed <- TypedNumbers
  Device = {d1, d2}
  QuotaTask = {q1, q2}
  QuotaSlots = 1
  FullQuota = 1
  LastDay = 3
  Token = {t1, t2}
  UpdateQueue = 2
  PollGap = 2
  PortTicks = 2
  BeatTicks = 2
  GapLimit = 4
  PortDayTicks = 3
  AcWrap = 8
  AcEnergy = 3
  AcDays = 2
INVARIANTS
  ServicesTypeOK
  DnsOneEntryPerName
  AnswersAreOfTheDay
  ActiveIsConfigured
  ActiveListens
  StoredIsTable
  AcknowledgedIsDurable
  NvsStoresWhatWasGiven
  FlushedIsStored
  RecordsNotAhead
  DailySecondsFit
  EnergyTodayIsMetered
  OutletRowIsRead
PROPERTIES
  RequestIsProbed
  ImplementsDailyUsage
  RevokedRowStaysClosed
  PortRowCatchesUp
