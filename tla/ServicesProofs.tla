--------------------------- MODULE ServicesProofs ---------------------------
(***************************************************************************)
(* Proofs about the services, for any values of the constants: one section *)
(* for each that has no module of proofs of its own, one about their sum,  *)
(* and one about the rounds of probes, which the sum is fair to.           *)
(***************************************************************************)
EXTENDS Services, PortmapProofs, QuotaStoreProofs, TLAPS, WellFoundedInduction

-----------------------------------------------------------------------------
(***************************************************************************)
(* The DNS server.                                                         *)
(***************************************************************************)

OneEntryPerName(cache) ==
  \A i, j \in DnsSlot :
     cache[i].valid /\ cache[j].valid /\ cache[i].name = cache[j].name => i = j

(* The last tick, by the wall clock, at which an answer of day d may be    *)
(* served.                                                                 *)
EndOfDay(d) == (d * DnsDaySec + 1) * DnsTicks

ExpiresInTime(cache) ==
  \A i \in DnsSlot : cache[i].fetched > 0 =>
                        DnsWallAtBoot + cache[i].expires < EndOfDay(cache[i].fetched)

(* The inductive invariant: while a query is forwarded no entry has its    *)
(* name, because the lookup has dropped those that had expired.            *)
DnsInv ==
  /\ DnsTypeOK
  /\ OneEntryPerName(dnsCache)
  /\ dnsAsked # NoName => \A i \in DnsSlot : ~Holds(dnsCache[i], dnsAsked)
  /\ ExpiresInTime(dnsCache)
  /\ AnswersAreOfTheDay

-----------------------------------------------------------------------------
(* Time.                                                                   *)

\* Division with remainder.
LEMMA DivModIdentity ==
  ASSUME NEW a \in Int, NEW b \in Int, b > 0
  PROVE  a = b * (a \div b) + (a % b)
OBVIOUS

LEMMA DivMod ==
  ASSUME NEW a \in Nat, NEW b \in Nat \ {0}
  PROVE  /\ a \div b \in Nat /\ a % b \in Nat /\ a % b < b
         /\ a = b * (a \div b) + (a % b)
<1>1. a \div b \in Nat /\ a % b \in Nat /\ a % b < b
  OBVIOUS
<1>2. a = b * (a \div b) + (a % b)
  BY DivModIdentity
<1> QED BY <1>1, <1>2

LEMMA CacheTtlType == DnsTypeOK => CacheTtl \in Nat /\ DnsDay \in Nat
<1> SUFFICES ASSUME DnsTypeOK PROVE CacheTtl \in Nat /\ DnsDay \in Nat
  OBVIOUS
<1>1. DnsWallSec \in Nat
  BY DnsAssumption, DivMod DEF DnsTypeOK, DnsWallSec, DnsWall
<1>2. /\ DnsWallSec % DnsDaySec \in Nat /\ DnsWallSec % DnsDaySec < DnsDaySec
      /\ DnsWallSec \div DnsDaySec \in Nat
  BY <1>1, DnsAssumption, DivMod
<1> QED BY <1>2, DnsAssumption DEF CacheTtl, DnsDay

(* A time to live that is worked out now ends within the day.              *)
LEMMA TtlEndsWithDay ==
  ASSUME DnsTypeOK, DnsDay > 0
  PROVE  DnsWallAtBoot + (dnsNow + CacheTtl * DnsTicks) < EndOfDay(DnsDay)
<1> DEFINE w == DnsWallAtBoot + dnsNow
           s == w \div DnsTicks
           q == s \div DnsDaySec
           r == s % DnsDaySec
<1>1. w \in Nat /\ DnsTicks \in Nat \ {0} /\ DnsDaySec \in Nat \ {0}
  BY DnsAssumption DEF DnsTypeOK
<1>2. s \in Nat /\ w % DnsTicks < DnsTicks /\ w = DnsTicks * s + (w % DnsTicks)
      /\ w % DnsTicks \in Nat
  BY <1>1, DivMod
<1>3. q \in Nat /\ r \in Nat /\ s = DnsDaySec * q + r /\ r < DnsDaySec
  BY <1>1, <1>2, DivMod
<1>4. CacheTtl = DnsDaySec - r /\ DnsDay = 1 + q
  BY DEF CacheTtl, DnsDay, DnsWallSec, DnsWall
<1> HIDE DEF w, s, q, r
<1>5. DnsWallAtBoot + (dnsNow + CacheTtl * DnsTicks) = w + (DnsDaySec - r) * DnsTicks
  <2>1. (DnsDaySec - r) * DnsTicks \in Int
    BY <1>1, <1>3
  <2> QED BY <1>4, <2>1, DnsAssumption DEF DnsTypeOK, w
<1>6. w < (s + 1) * DnsTicks
  <2>1. (s + 1) * DnsTicks = DnsTicks * s + DnsTicks
    BY <1>1, <1>2
  <2> QED BY <1>1, <1>2, <2>1
<1>7. (s + 1) * DnsTicks + (DnsDaySec - r) * DnsTicks = (DnsDaySec * (1 + q) + 1) * DnsTicks
  <2>1. (s + 1) + (DnsDaySec - r) = DnsDaySec * (1 + q) + 1
    BY <1>1, <1>3
  <2>2. (s + 1) * DnsTicks + (DnsDaySec - r) * DnsTicks = ((s + 1) + (DnsDaySec - r)) * DnsTicks
    BY <1>1, <1>2, <1>3
  <2> QED BY <2>1, <2>2
<1>8. EndOfDay(DnsDay) = (DnsDaySec * (1 + q) + 1) * DnsTicks
  <2>1. (1 + q) * DnsDaySec = DnsDaySec * (1 + q)
    BY <1>1, <1>3
  <2> QED BY <1>4, <2>1 DEF EndOfDay
<1>9. (s + 1) * DnsTicks \in Int /\ (DnsDaySec - r) * DnsTicks \in Int
  BY <1>1, <1>2, <1>3
<1> QED BY <1>1, <1>5, <1>6, <1>7, <1>8, <1>9

-----------------------------------------------------------------------------
(* The cache.                                                              *)

(* A non-empty set of slots has a first one.                               *)
LEMMA LeastSlotIsIn ==
  ASSUME NEW S \in SUBSET DnsSlot, S # {}
  PROVE  LeastSlot(S) \in S
<1> DEFINE Before == {p \in Nat \X Nat : p[1] < p[2]}
<1>1. IsWellFoundedOn(Before, Nat)
  BY NatLessThanWellFounded DEF OpToRel
<1>2. S \in SUBSET Nat
  BY DnsAssumption DEF DnsSlot
<1>3. \A x, y \in S : <<y, x>> \in Before <=> y < x
  BY <1>2
<1> HIDE DEF Before
<1>4. \E x \in S : \A y \in S : ~ (<<y, x>> \in Before)
  BY <1>1, <1>2, WFMin, Zenon
<1>5. PICK k \in S : \A y \in S : ~ (<<y, k>> \in Before)
  BY <1>4
<1>6. \A y \in S : ~ (y < k)
  BY <1>3, <1>5
<1>7. \A y \in S : k <= y
  BY <1>2, <1>6
<1> QED BY <1>7 DEF LeastSlot

(* A scan only drops entries.                                              *)
LEMMA ScanKeeps ==
  ASSUME DnsTypeOK, NEW last
  PROVE  /\ Scanned(last) \in [DnsSlot -> DnsEntry]
         /\ OneEntryPerName(dnsCache) => OneEntryPerName(Scanned(last))
         /\ ExpiresInTime(dnsCache) => ExpiresInTime(Scanned(last))
<1>1. \A i \in DnsSlot : /\ Scanned(last)[i] \in DnsEntry
                         /\ Scanned(last)[i].name = dnsCache[i].name
                         /\ Scanned(last)[i].expires = dnsCache[i].expires
                         /\ Scanned(last)[i].fetched = dnsCache[i].fetched
                         /\ Scanned(last)[i].valid => dnsCache[i].valid
  BY DEF DnsTypeOK, DnsEntry, Scanned, Dropped
<1>2. Scanned(last) \in [DnsSlot -> DnsEntry]
  BY <1>1 DEF Scanned
<1>3. OneEntryPerName(dnsCache) => OneEntryPerName(Scanned(last))
  BY <1>1 DEF OneEntryPerName
<1>4. ExpiresInTime(dnsCache) => ExpiresInTime(Scanned(last))
  BY <1>1 DEF ExpiresInTime
<1> QED BY <1>2, <1>3, <1>4

(* A lookup that misses leaves no entry of that name.                      *)
LEMMA MissDropsName ==
  ASSUME DnsTypeOK, NEW name, Hits(name) = {}
  PROVE  \A i \in DnsSlot : ~Holds(Scanned(DnsEntries)[i], name)
<1> SUFFICES ASSUME NEW i \in DnsSlot PROVE ~Holds(Scanned(DnsEntries)[i], name)
  OBVIOUS
<1>1. i < DnsEntries
  BY DnsAssumption DEF DnsSlot
<1>2. ~Holds(dnsCache[i], name) \/ Expired(dnsCache[i])
  BY DEF Hits
<1>3. Scanned(DnsEntries)[i] = IF Expired(dnsCache[i]) THEN Dropped(dnsCache[i])
                               ELSE dnsCache[i]
  BY <1>1 DEF Scanned
<1>4. CASE Expired(dnsCache[i])
  <2>1. Scanned(DnsEntries)[i].valid = FALSE
    BY <1>3, <1>4 DEF Dropped, DnsTypeOK, DnsEntry
  <2> QED BY <2>1 DEF Holds
<1>5. CASE ~Expired(dnsCache[i])
  BY <1>2, <1>3, <1>5
<1> QED BY <1>4, <1>5

(* An insertion after such a lookup.                                       *)
LEMMA InsertKeeps ==
  ASSUME DnsTypeOK, NEW name \in DnsName,
         OneEntryPerName(dnsCache), ExpiresInTime(dnsCache),
         \A i \in DnsSlot : ~Holds(dnsCache[i], name)
  PROVE  /\ Cached(name) \in [DnsSlot -> DnsEntry]
         /\ OneEntryPerName(Cached(name))
         /\ ExpiresInTime(Cached(name))
<1> DEFINE k == InsertSlot(name)
           e == [valid |-> TRUE, name |-> name,
                 expires |-> dnsNow + CacheTtl * DnsTicks, fetched |-> DnsDay]
<1>1. Cached(name) = [dnsCache EXCEPT ![k] = e]
  BY DEF Cached
<1>2. CacheTtl * DnsTicks \in Nat /\ DnsDay \in Nat
  BY CacheTtlType, DnsAssumption
<1>3. e \in DnsEntry
  BY <1>2 DEF DnsEntry, DnsTypeOK
<1>4. e.fetched > 0 => DnsWallAtBoot + e.expires < EndOfDay(e.fetched)
  BY TtlEndsWithDay
<1>5. e.name = name
  OBVIOUS
<1> HIDE DEF k, e
<1>6. \A i \in DnsSlot : Cached(name)[i] = IF i = k THEN e ELSE dnsCache[i]
  BY <1>1 DEF DnsTypeOK
<1>7. Cached(name) \in [DnsSlot -> DnsEntry]
  BY <1>1, <1>3 DEF DnsTypeOK
<1>8. OneEntryPerName(Cached(name))
  BY <1>5, <1>6 DEF OneEntryPerName, Holds
<1>9. ExpiresInTime(Cached(name))
  BY <1>4, <1>6 DEF ExpiresInTime
<1> QED BY <1>7, <1>8, <1>9

-----------------------------------------------------------------------------
(* The steps.                                                              *)

LEMMA NoReplyIsInTime ==
  ASSUME NEW kind PROVE ReplyOf(kind).fetched = 0
BY DEF ReplyOf

LEMMA DnsInitHolds == DnsInit => DnsInv
<1> SUFFICES ASSUME DnsInit PROVE DnsInv
  OBVIOUS
<1>1. DnsTypeOK
  BY DEF DnsInit, DnsTypeOK, DnsEntry, NoEntryYet, Reply, ReplyOf
<1>2. \A i \in DnsSlot : dnsCache[i].valid = FALSE /\ dnsCache[i].fetched = 0
  BY DEF DnsInit, NoEntryYet
<1> QED BY <1>1, <1>2, NoReplyIsInTime
        DEF DnsInit, DnsInv, OneEntryPerName, ExpiresInTime, AnswersAreOfTheDay

LEMMA ForwardKeepsInv ==
  ASSUME DnsInv, NEW name \in DnsName, Forward(name) PROVE DnsInv'
<1> USE DEF DnsInv, Forward
<1>1. /\ dnsCache' \in [DnsSlot -> DnsEntry]
      /\ OneEntryPerName(dnsCache') /\ ExpiresInTime(dnsCache')
  BY ScanKeeps
<1>2. \A i \in DnsSlot : ~Holds(dnsCache'[i], name)
  BY MissDropsName
<1>3. DnsTypeOK'
  BY <1>1 DEF DnsTypeOK
<1>4. AnswersAreOfTheDay'
  BY DEF AnswersAreOfTheDay, DnsWall
<1> QED BY <1>1, <1>2, <1>3, <1>4

LEMMA AnswerCachedKeepsInv ==
  ASSUME DnsInv, NEW name \in DnsName, AnswerCached(name) PROVE DnsInv'
<1> DEFINE hit == LeastSlot(Hits(name))
<1> USE DEF DnsInv
<1>1. /\ dnsCache' = Scanned(hit) /\ dnsAsked' = dnsAsked /\ dnsAsked = NoName
      /\ dnsReply' = [kind |-> "cached", fetched |-> dnsCache[hit].fetched]
      /\ UNCHANGED <<dnsNow, dnsClockSet>> /\ Hits(name) # {}
  BY DEF AnswerCached
<1>2. hit \in Hits(name)
  BY <1>1, LeastSlotIsIn DEF Hits
<1> HIDE DEF hit
<1>3. hit \in DnsSlot /\ ~Expired(dnsCache[hit]) /\ Holds(dnsCache[hit], name)
  BY <1>2 DEF Hits
<1>4. /\ dnsCache' \in [DnsSlot -> DnsEntry]
      /\ OneEntryPerName(dnsCache') /\ ExpiresInTime(dnsCache')
  BY <1>1, ScanKeeps
<1>5. dnsCache[hit] \in DnsEntry
  BY <1>3 DEF DnsTypeOK
<1>6. dnsReply' \in Reply
  BY <1>1, <1>5 DEF Reply, DnsEntry
<1>7. DnsTypeOK'
  BY <1>1, <1>4, <1>6 DEF DnsTypeOK
<1>8. AnswersAreOfTheDay'
  <2> SUFFICES ASSUME dnsCache[hit].fetched > 0
               PROVE  DnsWall < EndOfDay(dnsCache[hit].fetched)
    BY <1>1 DEF AnswersAreOfTheDay, DnsWall, EndOfDay
  <2>1. dnsNow < dnsCache[hit].expires
    <3>1. dnsCache[hit].valid /\ dnsCache[hit].expires \in Nat /\ dnsNow \in Nat
      BY <1>3, <1>5 DEF Holds, DnsEntry, DnsTypeOK
    <3>2. ~(dnsCache[hit].expires <= dnsNow)
      BY <1>3, <3>1 DEF Expired
    <3> QED BY <3>1, <3>2
  <2>2. DnsWallAtBoot + dnsCache[hit].expires < EndOfDay(dnsCache[hit].fetched)
    BY <1>3 DEF ExpiresInTime
  <2>3. EndOfDay(dnsCache[hit].fetched) \in Int
    BY <1>5, DnsAssumption DEF EndOfDay, DnsEntry
  <2> QED BY <1>5, <2>1, <2>2, <2>3, DnsAssumption DEF DnsWall, DnsTypeOK, DnsEntry
<1> QED BY <1>1, <1>4, <1>7, <1>8

LEMMA ForwardedKeepsInv ==
  ASSUME DnsInv, Forwarded PROVE DnsInv'
<1> USE DEF DnsInv, Forwarded
<1>1. dnsAsked \in DnsName
  BY DEF DnsTypeOK
<1>2. /\ dnsCache' \in [DnsSlot -> DnsEntry]
      /\ OneEntryPerName(dnsCache') /\ ExpiresInTime(dnsCache')
  <2>1. CASE dnsCache' = dnsCache
    BY <2>1 DEF DnsTypeOK
  <2>2. CASE dnsCache' = Cached(dnsAsked)
    BY <1>1, <2>2, InsertKeeps
  <2> QED BY <2>1, <2>2
<1>3. DnsTypeOK'
  BY <1>2 DEF DnsTypeOK, Reply, ReplyOf
<1>4. AnswersAreOfTheDay'
  BY NoReplyIsInTime DEF AnswersAreOfTheDay
<1> QED BY <1>2, <1>3, <1>4

(* Steps that leave the cache alone.                                       *)
LEMMA OtherStepsKeepInv ==
  ASSUME DnsInv, AnswerCaptive \/ ForwardFailed \/ DnsTick \/ DnsTimeSync
  PROVE  DnsInv'
<1> USE DEF DnsInv
<1>1. CASE AnswerCaptive
  <2>1. dnsReply' \in Reply /\ dnsReply'.fetched = 0
    BY <1>1 DEF AnswerCaptive, Reply, ReplyOf
  <2>2. UNCHANGED <<dnsNow, dnsClockSet, dnsCache, dnsAsked>>
    BY <1>1 DEF AnswerCaptive
  <2> QED BY <2>1, <2>2 DEF DnsTypeOK, AnswersAreOfTheDay
<1>2. CASE ForwardFailed
  <2>1. dnsReply' \in Reply /\ dnsReply'.fetched = 0
    BY <1>2 DEF ForwardFailed, Reply, ReplyOf
  <2>2. UNCHANGED <<dnsNow, dnsClockSet, dnsCache>> /\ dnsAsked' = NoName
    BY <1>2 DEF ForwardFailed
  <2> QED BY <2>1, <2>2 DEF DnsTypeOK, AnswersAreOfTheDay
<1>3. CASE DnsTick
  <2>1. dnsReply' \in Reply /\ dnsReply'.fetched = 0 /\ dnsNow' \in Nat
    BY <1>3 DEF DnsTick, Reply, ReplyOf, DnsTypeOK
  <2>2. UNCHANGED <<dnsClockSet, dnsCache, dnsAsked>>
    BY <1>3 DEF DnsTick
  <2> QED BY <2>1, <2>2 DEF DnsTypeOK, AnswersAreOfTheDay
<1>4. CASE DnsTimeSync
  <2>1. dnsClockSet' = TRUE /\ UNCHANGED <<dnsNow, dnsCache, dnsAsked, dnsReply>>
    BY <1>4 DEF DnsTimeSync
  <2> QED BY <2>1 DEF DnsTypeOK, AnswersAreOfTheDay, DnsWall
<1> QED BY <1>1, <1>2, <1>3, <1>4

LEMMA DnsStepKeepsInv ==
  DnsInv /\ [DnsNext \/ (DiagNext /\ UNCHANGED dnsVars)]_<<dnsVars, diagVars>> => DnsInv'
<1> SUFFICES ASSUME DnsInv, DnsNext \/ UNCHANGED dnsVars PROVE DnsInv'
  BY Zenon
<1>1. CASE UNCHANGED dnsVars
  BY <1>1 DEF dnsVars, DnsInv, DnsTypeOK, AnswersAreOfTheDay, DnsWall
<1> QED BY <1>1, ForwardKeepsInv, AnswerCachedKeepsInv, ForwardedKeepsInv,
           OtherStepsKeepInv DEF DnsNext

LEMMA DnsInvAlways == DnsSpec => []DnsInv
BY DnsInitHolds, DnsStepKeepsInv, PTL DEF DnsSpec

(* The cache keeps its types.                                              *)
THEOREM DnsTypeCorrect == DnsSpec => []DnsTypeOK
<1>1. DnsInv => DnsTypeOK
  BY DEF DnsInv
<1> QED BY <1>1, DnsInvAlways, PTL

(* No name is cached twice.                                                *)
THEOREM NamesAreCachedOnce == DnsSpec => []DnsOneEntryPerName
<1>1. DnsInv => DnsOneEntryPerName
  BY DEF DnsInv, OneEntryPerName, DnsOneEntryPerName
<1> QED BY <1>1, DnsInvAlways, PTL

(* No answer from the cache is older than the last midnight.               *)
THEOREM CachedAnswersExpire == DnsSpec => []AnswersAreOfTheDay
<1>1. DnsInv => AnswersAreOfTheDay
  BY DEF DnsInv
<1> QED BY <1>1, DnsInvAlways, PTL

-----------------------------------------------------------------------------
(***************************************************************************)
(* The AC meter.                                                           *)
(***************************************************************************)

\* A number below the modulus is its own remainder.
LEMMA ModOfSmall ==
  ASSUME NEW x \in Nat, NEW w \in Nat, x < w
  PROVE  x % w = x
OBVIOUS

(* The inductive invariant: the counter is ahead of the day's origin by no *)
(* more than what has been metered, until a reset puts it behind; and      *)
(* between two rounds what was posted last is the last reading, of which   *)
(* there is one during a round.                                            *)
AcMeterInv ==
  /\ AcTypeOK
  /\ midnightWh <= AcEnergy
  /\ acAnchor # NoDay /\ midnightWh <= meter => meter - midnightWh <= used
  /\ EnergyTodayIsMetered
  /\ acStep = "wait" =>
       lastOutlet = IF lastReading = NoReading THEN NotPublished ELSE lastReading
  /\ acStep # "wait" => lastReading # NoReading
  /\ OutletRowIsRead

LEMMA AcInitHolds == AcInit => AcMeterInv
<1> SUFFICES ASSUME AcInit PROVE AcMeterInv
  OBVIOUS
<1>1. 0 \in 0 .. AcEnergy /\ 0 \in 0 .. (AcWrap - 1) /\ 0 \in 0 .. AcDays
      /\ NoDay \in NoDay .. AcDays
  BY AcMeterAssumption DEF NoDay
<1>2. AcTypeOK
  BY <1>1 DEF AcInit, AcTypeOK, AcStep
<1>3. midnightWh <= AcEnergy
  BY <1>1 DEF AcInit
<1>4. /\ acStep = "wait" /\ acAnchor = NoDay
      /\ lastReading = NoReading /\ lastOutlet = NotPublished
  BY DEF AcInit
<1> QED
  BY <1>2, <1>3, <1>4
     DEF AcMeterInv, EnergyTodayIsMetered, OutletRowIsRead, NoReading

(* A reading moves the origin to the counter, or finds the counter ahead   *)
(* of it by what has been metered.                                         *)
LEMMA SnapshotIsBehind ==
  ASSUME AcMeterInv
  PROVE  /\ SnapshotWh \in 0 .. AcEnergy /\ SnapshotWh \in 0 .. (AcWrap - 1)
         /\ meter - SnapshotWh \in 0 .. (AcWrap - 1)
         /\ (meter - SnapshotWh) % AcWrap = meter - SnapshotWh
         /\ meter - SnapshotWh <= IF acAnchor # acDay THEN 0 ELSE used
<1>1. /\ meter \in 0 .. AcEnergy /\ midnightWh \in Nat /\ used \in 0 .. AcEnergy
      /\ AcEnergy \in Nat /\ AcWrap \in Nat /\ AcEnergy < AcWrap
  BY AcMeterAssumption DEF AcMeterInv, AcTypeOK
<1>2. SnapshotWh \in 0 .. AcEnergy /\ SnapshotWh <= meter
  BY <1>1 DEF SnapshotWh, AcMeterInv
<1>3. meter - SnapshotWh \in Nat /\ meter - SnapshotWh < AcWrap
  BY <1>1, <1>2
<1>4. (meter - SnapshotWh) % AcWrap = meter - SnapshotWh
  BY <1>1, <1>3, ModOfSmall
<1>5. meter - SnapshotWh <= IF acAnchor # acDay THEN 0 ELSE used
  <2>1. CASE acAnchor # acDay
    BY <1>1, <2>1 DEF SnapshotWh
  <2>2. CASE acAnchor = acDay /\ meter < midnightWh
    BY <1>1, <2>2 DEF SnapshotWh
  <2>3. CASE acAnchor = acDay /\ ~(meter < midnightWh)
    <3>1. acAnchor # NoDay /\ midnightWh <= meter
      BY <1>1, <2>3, AcMeterAssumption DEF AcMeterInv, AcTypeOK, NoDay
    <3> QED BY <1>1, <2>3, <3>1 DEF SnapshotWh, AcMeterInv
  <2> QED BY <2>1, <2>2, <2>3
<1> QED BY <1>1, <1>2, <1>3, <1>4, <1>5

LEMMA ReadMeterEffect ==
  ASSUME AcMeterInv, ReadMeter
  PROVE  /\ midnightWh' \in 0 .. AcEnergy /\ midnightWh' \in 0 .. (AcWrap - 1)
         /\ todayWh' \in 0 .. (AcWrap - 1) /\ used' \in 0 .. AcEnergy
         /\ todayWh' <= used' /\ meter' - midnightWh' <= used'
<1>1. /\ midnightWh' = SnapshotWh /\ meter' = meter
      /\ todayWh' = meter - SnapshotWh
      /\ used' = IF acAnchor # acDay THEN 0 ELSE used
  BY SnapshotIsBehind DEF ReadMeter, TodayWh
<1>2. (IF acAnchor # acDay THEN 0 ELSE used) \in 0 .. AcEnergy
  BY AcMeterAssumption DEF AcMeterInv, AcTypeOK
<1> QED BY <1>1, <1>2, SnapshotIsBehind

(* A reading leaves the row at what was posted last, and waits.            *)
LEMMA ReadMeterKeepsInv ==
  ASSUME AcMeterInv, ReadMeter PROVE AcMeterInv'
<1>1. /\ midnightWh' \in 0 .. AcEnergy /\ midnightWh' \in 0 .. (AcWrap - 1)
      /\ todayWh' \in 0 .. (AcWrap - 1) /\ used' \in 0 .. AcEnergy
      /\ todayWh' <= used' /\ meter' - midnightWh' <= used'
  BY ReadMeterEffect
<1>2. midnightWh' <= AcEnergy
  BY <1>1, AcMeterAssumption
<1>3. /\ acStep = "wait" /\ acStep' = "station" /\ lastReading' = InUse(outlet)
      /\ acAnchor' = acDay
      /\ UNCHANGED <<meter, outlet, acDay, lastOutlet, outletRow, outletUnsure>>
  BY DEF ReadMeter
<1>4. InUse(outlet) \in {"in_use", "available"}
  BY DEF InUse
<1>5. AcTypeOK'
  <2>1. acDay \in NoDay .. AcDays
    BY AcMeterAssumption DEF AcMeterInv, AcTypeOK, NoDay
  <2> QED BY <1>1, <1>3, <1>4, <2>1 DEF AcMeterInv, AcTypeOK, AcStep
<1>6. OutletRowIsRead'
  <2> SUFFICES ASSUME lastOutlet \in {"in_use", "available"}, ~outletUnsure
               PROVE  outletRow = lastOutlet
    BY <1>3 DEF OutletRowIsRead
  <2>1. lastReading = lastOutlet
    BY <1>3 DEF AcMeterInv, NotPublished
  <2> QED BY <1>3, <2>1 DEF AcMeterInv, OutletRowIsRead
<1>7. EnergyTodayIsMetered'
  BY <1>1 DEF EnergyTodayIsMetered
<1> QED BY <1>1, <1>2, <1>3, <1>4, <1>5, <1>6, <1>7 DEF AcMeterInv, NoReading

(* The rest of a round: the posts, and keeping what was posted.            *)
LEMMA AcRoundKeepsInv ==
  ASSUME AcMeterInv, StationPosted \/ OutletPosted \/ OutletKept
  PROVE  AcMeterInv'
<1>1. /\ UNCHANGED <<meter, outlet, acDay, midnightWh, acAnchor, lastReading,
                     todayWh, used>>
      /\ acStep # "wait" /\ acStep' \in AcStep
  BY DEF StationPosted, OutletPosted, OutletKept, AcStep
<1>2. lastReading \in {"in_use", "available"}
  BY <1>1 DEF AcMeterInv, AcTypeOK
<1>3. /\ lastOutlet' \in {lastOutlet, lastReading}
      /\ outletRow' \in {outletRow, lastReading} /\ outletUnsure' \in BOOLEAN
  BY DEF StationPosted, OutletPosted, OutletKept, AcMeterInv, AcTypeOK
<1>4. AcTypeOK'
  BY <1>1, <1>2, <1>3 DEF AcMeterInv, AcTypeOK
<1>5. (acStep' = "wait" => lastOutlet' = lastReading) /\ OutletRowIsRead'
  <2>1. CASE StationPosted
    <3>1. CASE OutletChanged
      <4>1. acStep' = "outlet" /\ acStep = "station"
            /\ UNCHANGED <<lastReading, lastOutlet, outletRow, outletUnsure>>
        BY <2>1, <3>1 DEF StationPosted
      <4> QED BY <4>1 DEF AcMeterInv, OutletRowIsRead
    <3>2. CASE ~OutletChanged
      <4>1. acStep' = "wait" /\ acStep = "station" /\ lastOutlet = lastReading
            /\ UNCHANGED <<lastReading, lastOutlet, outletRow, outletUnsure>>
        BY <2>1, <3>2 DEF StationPosted, OutletChanged
      <4> QED BY <4>1 DEF AcMeterInv, OutletRowIsRead
    <3> QED BY <3>1, <3>2
  <2>2. CASE OutletPosted
    <3>1. acStep' = "keep" /\ (~outletUnsure' => outletRow' = lastReading)
      BY <2>2 DEF OutletPosted
    <3> QED BY <1>1, <3>1 DEF OutletRowIsRead
  <2>3. CASE OutletKept
    <3>1. acStep' = "wait" /\ acStep = "keep" /\ lastOutlet' = lastReading
          /\ UNCHANGED <<lastReading, outletRow, outletUnsure>>
      BY <2>3 DEF OutletKept
    <3> QED BY <3>1 DEF AcMeterInv, OutletRowIsRead
  <2> QED BY <2>1, <2>2, <2>3
<1>6. EnergyTodayIsMetered' /\ midnightWh' <= AcEnergy
  BY <1>1 DEF EnergyTodayIsMetered, AcMeterInv
<1> QED BY <1>1, <1>2, <1>4, <1>5, <1>6 DEF AcMeterInv, NoReading

(* Everything outside of the task leaves today's figure and the outlet's   *)
(* reading as they are.                                                    *)
LEMMA AcOthersKeepInv ==
  ASSUME AcMeterInv,
         EnergyUsed \/ MeterReset \/ AcChanges \/ OutletSetByAdmin \/ AcRestart
  PROVE  AcMeterInv'
<1> USE AcMeterAssumption
<1>1. CASE EnergyUsed
  BY <1>1 DEF EnergyUsed, AcMeterInv, AcTypeOK, EnergyTodayIsMetered, OutletRowIsRead
<1>2. CASE MeterReset
  BY <1>2 DEF MeterReset, AcMeterInv, AcTypeOK, EnergyTodayIsMetered, OutletRowIsRead
<1>3. CASE AcChanges
  <2>1. acDay' \in 0 .. AcDays
    BY <1>3 DEF AcChanges, AcMeterInv, AcTypeOK
  <2>2. outlet' \in BOOLEAN
    BY <1>3, Zenon DEF AcChanges, AcMeterInv, AcTypeOK
  <2> QED
    BY <1>3, <2>1, <2>2 DEF AcChanges, AcMeterInv, AcTypeOK, EnergyTodayIsMetered, OutletRowIsRead
<1>4. CASE OutletSetByAdmin
  BY <1>4 DEF OutletSetByAdmin, AcMeterInv, AcTypeOK, EnergyTodayIsMetered, OutletRowIsRead
<1>5. CASE AcRestart
  <2>1. 0 \in 0 .. AcEnergy /\ 0 \in 0 .. (AcWrap - 1) /\ NoDay \in NoDay .. AcDays
    BY DEF NoDay
  <2>2. AcTypeOK'
    BY <1>5, <2>1 DEF AcRestart, AcMeterInv, AcTypeOK, AcStep
  <2>3. midnightWh' <= AcEnergy /\ acAnchor' = NoDay /\ acStep' = "wait"
        /\ lastReading' = NoReading /\ lastOutlet' = NotPublished
    BY <1>5, <2>1 DEF AcRestart
  <2> QED
    BY <2>2, <2>3
       DEF AcMeterInv, EnergyTodayIsMetered, OutletRowIsRead, NoReading
<1> QED BY <1>1, <1>2, <1>3, <1>4, <1>5

LEMMA AcStepKeepsInv == AcMeterInv /\ [AcNext]_acVars => AcMeterInv'
<1> SUFFICES ASSUME AcMeterInv, [AcNext]_acVars PROVE AcMeterInv'
  OBVIOUS
<1>1. CASE AcNext
  BY <1>1, ReadMeterKeepsInv, AcRoundKeepsInv, AcOthersKeepInv DEF AcNext
<1>2. CASE UNCHANGED acVars
  BY <1>2 DEF acVars, AcMeterInv, AcTypeOK, EnergyTodayIsMetered, OutletRowIsRead
<1> QED BY <1>1, <1>2

LEMMA AcMeterInvAlways == AcSpec => []AcMeterInv
  BY AcInitHolds, AcStepKeepsInv, PTL DEF AcSpec

(* The variables of the meter's task keep their types.                     *)
THEOREM AcTypeCorrect == AcSpec => []AcTypeOK
<1>1. AcMeterInv => AcTypeOK
  BY DEF AcMeterInv
<1> QED BY <1>1, AcMeterInvAlways, PTL

(* The energy of the day that pzem_task posts is never more than what has  *)
(* been metered since the day's first reading, whatever resets of the      *)
(* counter, restarts and skipped days fall in between.                     *)
THEOREM EnergyOfDayIsMetered == AcSpec => []EnergyTodayIsMetered
<1>1. AcMeterInv => EnergyTodayIsMetered
  BY DEF AcMeterInv
<1> QED BY <1>1, AcMeterInvAlways, PTL

(* While a reading waits for its post the outlet's row shows the one that  *)
(* was posted last, and from then on the reading, unless the last post     *)
(* failed or an administrator wrote the row since.                         *)
THEOREM OutletRowShowsReading == AcSpec => []OutletRowIsRead
<1>1. AcMeterInv => OutletRowIsRead
  BY DEF AcMeterInv
<1> QED BY <1>1, AcMeterInvAlways, PTL

-----------------------------------------------------------------------------
(***************************************************************************)
(* A charging port.                                                        *)
(***************************************************************************)

\* The whole seconds of a gap are not longer than the gap.
LEMMA WholeSecondsFit ==
  ASSUME NEW g \in Nat, NEW s \in Nat, NEW r \in Nat, NEW t \in Nat \ {0},
         s * t <= r
  PROVE  g \div t \in Nat /\ (s + (g \div t)) * t <= r + g
<1>1. g \div t \in Nat /\ g % t \in Nat
  OBVIOUS
<1>2. g = t * (g \div t) + (g % t)
  BY DivModIdentity
<1> DEFINE q == g \div t
<1> HIDE DEF q
<1>3. q \in Nat /\ g % t \in Nat /\ g = t * q + (g % t)
  BY <1>1, <1>2 DEF q
<1>4. (s + q) * t = s * t + t * q
  BY <1>3
<1>5. s * t \in Nat /\ t * q \in Nat
  BY <1>3
<1>6. s * t + t * q <= r + g
  BY <1>3, <1>5
<1> QED BY <1>1, <1>4, <1>6 DEF q

(* The inductive invariant: the seconds counted and the time since the     *)
(* last reading, which the next one may add, fit together.                 *)
PortInv ==
  /\ PortTypeOK
  /\ sinceAccum = Never => dailySec = 0
  /\ sinceAccum # Never => dailySec * PortTicks + sinceAccum <= sinceReset

LEMMA PortInitHolds == PortInit => PortInv
<1> SUFFICES ASSUME PortInit PROVE PortInv
  OBVIOUS
<1>1. /\ BeatTicks \in 0 .. BeatTicks /\ Never \in Never .. GapLimit
      /\ 0 \in 0 .. (PortDayTicks - 1) /\ 0 \in Nat
  BY PortSensorsAssumption DEF Never
<1>2. PortTypeOK
  BY <1>1 DEF PortInit, PortTypeOK, PortStatus
<1>3. sinceAccum = Never /\ dailySec = 0
  BY DEF PortInit
<1> QED BY <1>2, <1>3 DEF PortInv

\* What the counters become, as expressions over the present state.
ResetClock(dt) ==
  IF ~NewDay(dt) THEN sinceReset + dt ELSE IF sinceAccum = Never THEN dt ELSE Gap(dt)

LEMMA PortNumbers ==
  ASSUME PortInv, NEW dt \in 1 .. PollGap
  PROVE  /\ dailySec \in Nat /\ sinceReset \in Nat /\ dt \in Nat /\ PortTicks \in Nat \ {0}
         /\ GapLimit \in Nat /\ SecondsKept(dt) \in Nat /\ ResetClock(dt) \in Nat
         /\ sinceAccum # Never => sinceAccum \in Nat /\ Gap(dt) \in Nat
<1>1. /\ dailySec \in Nat /\ sinceReset \in Nat /\ dt \in Nat /\ PortTicks \in Nat \ {0}
      /\ GapLimit \in Nat /\ sinceAccum \in Never .. GapLimit
  BY PortSensorsAssumption DEF PortInv, PortTypeOK
<1>2. sinceAccum # Never => sinceAccum \in Nat /\ Gap(dt) \in Nat
  BY <1>1 DEF Never, Gap
<1> QED BY <1>1, <1>2 DEF SecondsKept, ResetClock

(* What is kept and the gap fit into the time since the reset after a      *)
(* poll, whether it falls into the same day or not.                        *)
LEMMA KeptAndGapFit ==
  ASSUME PortInv, NEW dt \in 1 .. PollGap, sinceAccum # Never
  PROVE  SecondsKept(dt) * PortTicks + Gap(dt) <= ResetClock(dt)
<1>1. /\ dailySec \in Nat /\ sinceReset \in Nat /\ dt \in Nat /\ PortTicks \in Nat
      /\ sinceAccum \in Nat /\ Gap(dt) \in Nat
  BY PortNumbers
<1>2. CASE NewDay(dt)
  BY <1>1, <1>2 DEF SecondsKept, ResetClock
<1>3. CASE ~NewDay(dt)
  <2>1. SecondsKept(dt) = dailySec /\ ResetClock(dt) = sinceReset + dt
    BY <1>3 DEF SecondsKept, ResetClock
  <2>2. dailySec * PortTicks + sinceAccum <= sinceReset /\ dailySec * PortTicks \in Nat
    BY <1>1 DEF PortInv
  <2> QED BY <1>1, <2>1, <2>2 DEF Gap
<1> QED BY <1>2, <1>3

LEMMA CountedFits ==
  ASSUME PortInv, NEW dt \in 1 .. PollGap
  PROVE  /\ SecondsAdded(dt) \in Nat
         /\ (SecondsKept(dt) + SecondsAdded(dt)) * PortTicks <= ResetClock(dt)
<1>1. /\ SecondsKept(dt) \in Nat /\ ResetClock(dt) \in Nat /\ PortTicks \in Nat \ {0}
      /\ sinceAccum # Never => Gap(dt) \in Nat
  BY PortNumbers
<1>2. CASE sinceAccum = Never
  <2>1. SecondsAdded(dt) = 0 /\ SecondsKept(dt) = 0
    BY <1>2 DEF SecondsAdded, SecondsKept, PortInv
  <2> QED BY <1>1, <2>1
<1>3. CASE sinceAccum # Never
  <2> DEFINE k == SecondsKept(dt) * PortTicks
  <2>1. k \in Nat /\ k + Gap(dt) <= ResetClock(dt)
    BY <1>1, <1>3, KeptAndGapFit
  <2>2. CASE SecondsAdded(dt) = 0
    <3>1. (SecondsKept(dt) + 0) * PortTicks = k
      BY <1>1
    <3> HIDE DEF k
    <3> QED BY <1>1, <1>3, <2>1, <2>2, <3>1
  <2>3. CASE SecondsAdded(dt) = Gap(dt) \div PortTicks
    <3>1. ResetClock(dt) - Gap(dt) \in Nat /\ k <= ResetClock(dt) - Gap(dt)
      <4> HIDE DEF k
      <4> QED BY <1>1, <1>3, <2>1
    <3>2. /\ Gap(dt) \div PortTicks \in Nat
          /\ (SecondsKept(dt) + (Gap(dt) \div PortTicks)) * PortTicks
               <= (ResetClock(dt) - Gap(dt)) + Gap(dt)
      BY <1>1, <1>3, <3>1, WholeSecondsFit
    <3>3. (ResetClock(dt) - Gap(dt)) + Gap(dt) = ResetClock(dt)
      BY <1>1, <1>3
    <3> QED BY <2>3, <3>2, <3>3
  <2> QED BY <2>2, <2>3 DEF SecondsAdded
<1> QED BY <1>2, <1>3

LEMMA ClockTypes ==
  ASSUME PortInv, NEW dt \in 1 .. PollGap
  PROVE  /\ (dayClock + dt) % PortDayTicks \in 0 .. (PortDayTicks - 1)
         /\ AtMost(BeatTicks, sincePushed + dt) \in 0 .. BeatTicks
         /\ sinceAccum # Never => /\ AtMost(GapLimit, Gap(dt)) \in 0 .. GapLimit
                                  /\ AtMost(GapLimit, Gap(dt)) <= Gap(dt)
<1>1. /\ dayClock + dt \in Nat /\ sincePushed + dt \in Nat
      /\ PortDayTicks \in Nat \ {0} /\ BeatTicks \in Nat /\ GapLimit \in Nat
  BY PortSensorsAssumption DEF PortInv, PortTypeOK
<1>2. (dayClock + dt) % PortDayTicks \in 0 .. (PortDayTicks - 1)
  BY <1>1
<1>3. AtMost(BeatTicks, sincePushed + dt) \in 0 .. BeatTicks
  BY <1>1 DEF AtMost
<1>4. sinceAccum # Never => /\ AtMost(GapLimit, Gap(dt)) \in 0 .. GapLimit
                            /\ AtMost(GapLimit, Gap(dt)) <= Gap(dt)
  BY <1>1, PortNumbers DEF AtMost
<1> QED BY <1>2, <1>3, <1>4

(* The variables a round changes keep their types.                         *)
LEMMA PollKeepsTypes ==
  ASSUME PortInv, NEW dt \in 1 .. PollGap,
         PollSilent(dt) \/ PollQuiet(dt) \/ PollPushed(dt) \/ PollNotPushed(dt),
         UNCHANGED <<load, answers, adminPost>>
  PROVE  PortTypeOK'
<1>1. load' \in Availability /\ answers' \in BOOLEAN /\ adminPost' \in PortStatus \cup {NoPost}
  BY DEF PortInv, PortTypeOK
<1>2. PassTime(dt)
  BY DEF PollSilent, PollQuiet, PollPushed, PollNotPushed, PollReading
<1>3. /\ dayClock' \in 0 .. (PortDayTicks - 1) /\ dayAnchored' \in BOOLEAN
      /\ sinceReset' \in Nat
  <2>1. sinceReset' = ResetClock(dt)
    BY <1>2 DEF PassTime, ResetClock
  <2> QED BY <1>2, <2>1, ClockTypes, PortNumbers DEF PassTime
<1>4. present' \in BOOLEAN /\ dailySec' \in Nat /\ sinceAccum' \in Never .. GapLimit
  <2>1. CASE PollSilent(dt)
    <3>1. sinceAccum # Never => AtMost(GapLimit, Gap(dt)) \in Never .. GapLimit
      BY ClockTypes, PortSensorsAssumption DEF Never
    <3> QED BY <2>1, <3>1, PortNumbers DEF PollSilent, PortInv, PortTypeOK
  <2>2. CASE PollReading(dt)
    <3>1. SecondsKept(dt) + SecondsAdded(dt) \in Nat /\ 0 \in Never .. GapLimit
      BY CountedFits, PortNumbers, PortSensorsAssumption DEF Never
    <3> QED BY <2>2, <3>1 DEF PollReading
  <2> QED BY <2>1, <2>2 DEF PollQuiet, PollPushed, PollNotPushed
<1>5. /\ lastPushed' \in Availability \cup {NotReady} /\ sincePushed' \in 0 .. BeatTicks
      /\ portRow' \in PortStatus
  <2>1. StatusRead \in Availability
    BY DEF PortInv, PortTypeOK, StatusRead
  <2>2. 0 \in 0 .. BeatTicks
    BY PortSensorsAssumption
  <2> QED
    BY <2>1, <2>2, ClockTypes
    DEF PollSilent, PollQuiet, PollPushed, PollNotPushed, NotPushed, PortInv, PortTypeOK,
        PortStatus
<1> QED BY <1>1, <1>3, <1>4, <1>5 DEF PortTypeOK

LEMMA PollKeepsInv == PortInv /\ Poll => PortInv'
<1> SUFFICES ASSUME PortInv, Poll PROVE PortInv'
  OBVIOUS
<1>1. PICK dt \in 1 .. PollGap :
        PollSilent(dt) \/ PollQuiet(dt) \/ PollPushed(dt) \/ PollNotPushed(dt)
  BY DEF Poll
<1>2. PortTypeOK'
  BY <1>1, PollKeepsTypes DEF Poll
<1>3. sinceReset' = ResetClock(dt)
  BY <1>1 DEF PollSilent, PollQuiet, PollPushed, PollNotPushed, PollReading, PassTime,
              ResetClock
<1>4. CASE PollSilent(dt)
  <2>1. CASE sinceAccum = Never
    <3>1. sinceAccum' = Never /\ dailySec' = 0
      BY <1>4, <2>1 DEF PollSilent, SecondsKept, PortInv
    <3> QED BY <1>2, <3>1 DEF PortInv
  <2>2. CASE sinceAccum # Never
    <3> DEFINE g == AtMost(GapLimit, Gap(dt))
    <3>1. sinceAccum' = g /\ dailySec' = SecondsKept(dt)
      BY <1>4, <2>2 DEF PollSilent
    <3>2. g \in Nat /\ g <= Gap(dt) /\ g # Never
      BY <2>2, ClockTypes DEF Never
    <3> HIDE DEF g
    <3>3. SecondsKept(dt) * PortTicks + g <= ResetClock(dt)
      <4>1. SecondsKept(dt) * PortTicks \in Nat /\ Gap(dt) \in Nat /\ ResetClock(dt) \in Nat
        BY <2>2, PortNumbers
      <4>2. SecondsKept(dt) * PortTicks + Gap(dt) <= ResetClock(dt)
        BY <2>2, KeptAndGapFit
      <4> QED BY <3>2, <4>1, <4>2
    <3> QED BY <1>2, <1>3, <3>1, <3>2, <3>3 DEF PortInv
  <2> QED BY <2>1, <2>2
<1>5. CASE PollReading(dt)
  <2> DEFINE n == SecondsKept(dt) + SecondsAdded(dt)
  <2>1. sinceAccum' = 0 /\ dailySec' = n
    BY <1>5 DEF PollReading
  <2>2. n \in Nat /\ n * PortTicks + 0 <= ResetClock(dt)
    <3>1. n \in Nat /\ PortTicks \in Nat /\ n * PortTicks <= ResetClock(dt)
      BY CountedFits, PortNumbers
    <3> HIDE DEF n
    <3>2. n * PortTicks + 0 = n * PortTicks
      BY <3>1
    <3> QED BY <3>1, <3>2
  <2>3. 0 # Never
    BY DEF Never
  <2> HIDE DEF n
  <2> QED BY <1>2, <1>3, <2>1, <2>2, <2>3 DEF PortInv
<1> QED BY <1>1, <1>4, <1>5 DEF PollQuiet, PollPushed, PollNotPushed

(* The handlers, the load and a restart do not count.                      *)
LEMMA PortOthersKeepInv ==
  ASSUME PortInv,
         ReadByAdmin \/ SyncByAdmin \/ SetByAdmin \/ AdminPostEnds \/ PortChanges
           \/ PortRestart
  PROVE  PortInv'
<1>1. CASE ReadByAdmin \/ SyncByAdmin \/ SetByAdmin \/ AdminPostEnds
  <2>1. present' \in BOOLEAN /\ answers' \in BOOLEAN /\ dayAnchored' \in BOOLEAN
    BY <1>1, Zenon DEF ReadByAdmin, SyncByAdmin, SetByAdmin, AdminPostEnds, pollVars, Answered,
                PortInv, PortTypeOK
  <2> QED
    BY <1>1, <2>1
    DEF ReadByAdmin, SyncByAdmin, SetByAdmin, AdminPostEnds, pollVars, PortInv, PortTypeOK,
        StatusRead, PortStatus
<1>2. CASE PortChanges
  <2>1. present' \in BOOLEAN /\ answers' \in BOOLEAN /\ dayAnchored' \in BOOLEAN
    BY <1>2, Zenon DEF PortChanges, pollVars, PortInv, PortTypeOK
  <2> QED BY <1>2, <2>1 DEF PortChanges, pollVars, PortInv, PortTypeOK
<1>3. CASE PortRestart
  <2>1. /\ BeatTicks \in 0 .. BeatTicks /\ Never \in Never .. GapLimit /\ 0 \in Nat
    BY PortSensorsAssumption DEF Never
  <2>2. PortTypeOK'
    BY <1>3, <2>1 DEF PortRestart, PortInv, PortTypeOK
  <2>3. sinceAccum' = Never /\ dailySec' = 0
    BY <1>3 DEF PortRestart
  <2> QED BY <2>2, <2>3 DEF PortInv
<1> QED BY <1>1, <1>2, <1>3

LEMMA PortStepKeepsInv == PortInv /\ [PortNext]_portVars => PortInv'
<1> SUFFICES ASSUME PortInv, [PortNext]_portVars PROVE PortInv'
  OBVIOUS
<1>1. CASE PortNext
  BY <1>1, PollKeepsInv, PortOthersKeepInv DEF PortNext
<1>2. CASE UNCHANGED portVars
  BY <1>2 DEF portVars, PortInv, PortTypeOK
<1> QED BY <1>1, <1>2

LEMMA PortInvAlways == PortSpec => []PortInv
  BY PortInitHolds, PortStepKeepsInv, PTL DEF PortSpec

(* The variables of the sync task keep their types.                        *)
THEOREM PortTypeCorrect == PortSpec => []PortTypeOK
<1>1. PortInv => PortTypeOK
  BY DEF PortInv
<1> QED BY <1>1, PortInvAlways, PTL

(* s_daily_in_use_seconds never exceeds the time since the counter was     *)
(* reset, for any poll intervals, gaps and lost sensors.                   *)
THEOREM SecondsFitDay == PortSpec => []DailySecondsFit
<1>1. PortInv => DailySecondsFit
  <2> SUFFICES ASSUME PortInv PROVE DailySecondsFit
    OBVIOUS
  <2>1. dailySec \in Nat /\ sinceReset \in Nat /\ PortTicks \in Nat
        /\ sinceAccum \in Never .. GapLimit /\ GapLimit \in Nat
    BY PortSensorsAssumption DEF PortInv, PortTypeOK
  <2>2. dailySec * PortTicks \in Nat
    BY <2>1
  <2>3. CASE sinceAccum = Never
    BY <2>1, <2>3 DEF PortInv, DailySecondsFit
  <2>4. CASE sinceAccum # Never
    <3>1. sinceAccum \in Nat
      BY <2>1, <2>4 DEF Never
    <3> QED BY <2>1, <2>2, <2>4, <3>1 DEF PortInv, DailySecondsFit
  <2> QED BY <2>3, <2>4
<1> QED BY <1>1, PortInvAlways, PTL

-----------------------------------------------------------------------------
(***************************************************************************)
(* The settings.                                                           *)
(***************************************************************************)

(* A call that no other overlaps has the static struct and the two keys to *)
(* itself.                                                                 *)
OnItsOwn(t) == saving[t] # "idle" /\ alone[t]

(* The inductive invariant: such a call is the only one, the struct points *)
(* to its own arguments once they are parsed, and what it has set so far   *)
(* is what it was given.                                                   *)
SettingsInv ==
  /\ CfgTypeOK
  /\ \A t \in SetTask : saving[t] # "idle" => argv[t] \in [CfgKey -> CfgValue]
  /\ \A t, u \in SetTask : OnItsOwn(t) /\ u # t => saving[u] = "idle"
  /\ \A t \in SetTask : OnItsOwn(t) /\ saving[t] # "parse" => setArgs = t
  /\ \A t \in SetTask : OnItsOwn(t) /\ saving[t] \in {"passwd", "commit"}
                          => nvsValue["ssid"] = argv[t]["ssid"]
  /\ \A t \in SetTask : OnItsOwn(t) /\ saving[t] = "commit"
                          => nvsValue["passwd"] = argv[t]["passwd"]
  /\ AcknowledgedIsDurable

LEMMA CfgInitHolds == CfgInit => SettingsInv
<1> SUFFICES ASSUME CfgInit PROVE SettingsInv
  OBVIOUS
<1>1. NoArgs \in [CfgKey -> CfgValue \cup {Blank}] /\ "console" \in SetTask
  BY DEF NoArgs, SetTask
<1>2. alone \in [SetTask -> BOOLEAN]
  <2>1. [t \in SetTask |-> TRUE] \in [SetTask -> BOOLEAN]
    BY Zenon
  <2> QED BY <2>1, Zenon DEF CfgInit
<1>3. CfgTypeOK
  BY <1>1, <1>2 DEF CfgInit, CfgTypeOK
<1>4. \A t \in SetTask : saving[t] = "idle"
  BY DEF CfgInit
<1>5. AcknowledgedIsDurable
  BY DEF CfgInit, AcknowledgedIsDurable
<1> QED BY <1>3, <1>4, <1>5 DEF SettingsInv, OnItsOwn

\* One call begins: it is alone if no other runs, and no other is any more.
LEMMA BeginKeepsInv ==
  ASSUME SettingsInv, NEW t \in SetTask, NEW args \in [CfgKey -> CfgValue],
         Begin(t, args)
  PROVE  SettingsInv'
<1>1. /\ saving \in [SetTask -> {"idle", "parse", "ssid", "passwd", "commit"}]
      /\ argv \in [SetTask -> [CfgKey -> CfgValue \cup {Blank}]]
  BY DEF SettingsInv, CfgTypeOK
<1>2. /\ saving[t] = "idle"
      /\ \A u \in SetTask : saving'[u] = IF u = t THEN "parse" ELSE saving[u]
      /\ \A u \in SetTask : argv'[u] = IF u = t THEN args ELSE argv[u]
  BY <1>1 DEF Begin
<1>3. \A u \in SetTask : alone'[u] <=> IF u = t THEN Busy = {} ELSE u \notin Busy /\ alone[u]
  BY Zenon DEF Begin
<1>4. \A u \in SetTask : OnItsOwn(u)' => u = t /\ \A v \in SetTask : v # t => saving[v] = "idle"
  BY <1>2, <1>3 DEF OnItsOwn, Busy
<1>5. CfgTypeOK'
  <2>1. alone' \in [SetTask -> BOOLEAN]
    <3>1. [u \in SetTask |-> IF u = t THEN Busy = {} ELSE u \notin Busy /\ alone[u]]
            \in [SetTask -> BOOLEAN]
      <4>1. \A u \in SetTask : alone[u] \in BOOLEAN
        BY Zenon DEF SettingsInv, CfgTypeOK
      <4> QED BY <4>1, Zenon
    <3> QED BY <3>1, Zenon DEF Begin
  <2>2. args \in [CfgKey -> CfgValue \cup {Blank}]
    OBVIOUS
  <2> QED BY <2>1, <2>2 DEF Begin, nvsVars, SettingsInv, CfgTypeOK
<1>6. UNCHANGED <<nvsValue, nvsDurable, setArgs, ack>>
  BY DEF Begin, nvsVars
<1>7. \A u \in SetTask : saving'[u] # "idle" => argv'[u] \in [CfgKey -> CfgValue]
  BY <1>2 DEF SettingsInv
<1>8. AcknowledgedIsDurable'
  BY <1>6 DEF SettingsInv, AcknowledgedIsDurable
<1>9. \A u, v \in SetTask : OnItsOwn(u)' /\ v # u => saving'[v] = "idle"
  BY <1>2, <1>4
<1>10. \A u \in SetTask : OnItsOwn(u)' => saving'[u] = "parse"
  BY <1>2, <1>4
<1> QED BY <1>5, <1>7, <1>8, <1>9, <1>10 DEF SettingsInv

\* The form decodes its values, the console passes on what was typed.
LEMMA SaveKeepsInv ==
  ASSUME SettingsInv, NEW s \in CfgValue, NEW p \in CfgValue \cup {Blank},
         SaveForm(s, p) \/ (p \in CfgValue /\ SaveByCommand(s, p))
  PROVE  SettingsInv'
<1>1. nvsValue["passwd"] \in CfgValue
  BY DEF SettingsInv, CfgTypeOK, CfgKey
<1>2. \A a, b \in CfgValue : [ssid |-> a, passwd |-> b] \in [CfgKey -> CfgValue]
  BY DEF CfgKey
<1>3. "httpd" \in SetTask /\ "console" \in SetTask
  BY DEF SetTask
<1>4. CASE SaveForm(s, p)
  <2> DEFINE b == IF p = Blank THEN nvsValue["passwd"] ELSE Decode[p]
  <2>1. Decode[s] \in CfgValue /\ b \in CfgValue
    BY <1>1, SettingsAssumption
  <2>2. [ssid |-> Decode[s], passwd |-> b] \in [CfgKey -> CfgValue]
    BY <1>2, <2>1
  <2>3. Begin("httpd", [ssid |-> Decode[s], passwd |-> b])
    BY <1>4 DEF SaveForm
  <2> HIDE DEF b
  <2> QED BY <1>3, <2>2, <2>3, BeginKeepsInv
<1>5. CASE p \in CfgValue /\ SaveByCommand(s, p)
  BY <1>2, <1>3, <1>5, BeginKeepsInv DEF SaveByCommand
<1> QED BY <1>4, <1>5

LEMMA ParseArgsKeepsInv ==
  ASSUME SettingsInv, NEW t \in SetTask, ParseArgs(t)
  PROVE  SettingsInv'
<1> DEFINE parsed == [k \in CfgKey |-> Decode[argv[t][k]]]
<1>1. /\ saving \in [SetTask -> {"idle", "parse", "ssid", "passwd", "commit"}]
      /\ argv \in [SetTask -> [CfgKey -> CfgValue \cup {Blank}]]
  BY DEF SettingsInv, CfgTypeOK
<1>2. /\ saving[t] = "parse" /\ setArgs' = t
      /\ \A u \in SetTask : saving'[u] = IF u = t THEN "ssid" ELSE saving[u]
      /\ \A u \in SetTask : argv'[u] = IF u = t THEN parsed ELSE argv[u]
      /\ UNCHANGED <<nvsValue, nvsDurable, restartTimer, alone, ack>>
  BY <1>1 DEF ParseArgs, nvsVars
<1>3. parsed \in [CfgKey -> CfgValue]
  <2>1. \A k \in CfgKey : argv[t][k] \in CfgValue
    BY <1>2 DEF SettingsInv
  <2>2. \A k \in CfgKey : Decode[argv[t][k]] \in CfgValue
    BY <2>1, SettingsAssumption
  <2> QED BY <2>2
<1>4. parsed \in [CfgKey -> CfgValue \cup {Blank}]
  BY <1>3
<1>5. argv' = [argv EXCEPT ![t] = parsed]
  BY DEF ParseArgs
<1> HIDE DEF parsed
<1>6. CfgTypeOK'
  <2>1. alone' \in [SetTask -> BOOLEAN] /\ restartTimer' \in BOOLEAN
    BY <1>2, Zenon DEF SettingsInv, CfgTypeOK
  <2>2. argv' \in [SetTask -> [CfgKey -> CfgValue \cup {Blank}]]
    BY <1>1, <1>4, <1>5
  <2>3. saving' \in [SetTask -> {"idle", "parse", "ssid", "passwd", "commit"}]
    BY <1>1 DEF ParseArgs
  <2> QED BY <1>2, <2>1, <2>2, <2>3 DEF SettingsInv, CfgTypeOK
<1>7. \A u \in SetTask : OnItsOwn(u)' => OnItsOwn(u)
  BY <1>2 DEF OnItsOwn
<1>8. \A u \in SetTask : OnItsOwn(u)' => u = t
  BY <1>2, <1>7 DEF SettingsInv
<1>9. \A u \in SetTask : saving'[u] # "idle" => argv'[u] \in [CfgKey -> CfgValue]
  BY <1>2, <1>3 DEF SettingsInv
<1>10. \A u, v \in SetTask : OnItsOwn(u)' /\ v # u => saving'[v] = "idle"
  BY <1>2, <1>7, <1>8 DEF SettingsInv
<1>11. AcknowledgedIsDurable'
  BY <1>2 DEF SettingsInv, AcknowledgedIsDurable
<1>12. saving'[t] = "ssid"
  BY <1>2
<1> QED BY <1>2, <1>6, <1>8, <1>9, <1>10, <1>11, <1>12 DEF SettingsInv

(* One key is set, from the call's own argument if it is on its own; what  *)
(* was acknowledged of the key no longer counts.                           *)
LEMMA SetKeyKeepsInv ==
  ASSUME SettingsInv, NEW t \in SetTask,
         SetKey(t, "ssid", "passwd") \/ SetKey(t, "passwd", "commit")
  PROVE  SettingsInv'
<1>1. PICK k \in CfgKey, next \in {"passwd", "commit"} :
        /\ SetKey(t, k, next)
        /\ <<k, next>> \in {<<"ssid", "passwd">>, <<"passwd", "commit">>}
  <2>1. "ssid" \in CfgKey /\ "passwd" \in CfgKey
    BY DEF CfgKey
  <2>2. CASE SetKey(t, "ssid", "passwd")
    BY <2>1, <2>2
  <2>3. CASE SetKey(t, "passwd", "commit")
    BY <2>1, <2>3
  <2> QED BY <2>2, <2>3
<1>2. /\ saving \in [SetTask -> {"idle", "parse", "ssid", "passwd", "commit"}]
      /\ argv \in [SetTask -> [CfgKey -> CfgValue \cup {Blank}]]
      /\ nvsValue \in [CfgKey -> CfgValue] /\ ack \in [CfgKey -> CfgValue \cup {NotAcked}]
      /\ setArgs \in SetTask
  BY DEF SettingsInv, CfgTypeOK
<1>3. PICK v \in Pointed(k) : nvsValue' = [nvsValue EXCEPT ![k] = v]
  BY <1>1 DEF SetKey
<1>4. v \in CfgValue
  BY <1>2, <1>3 DEF Pointed
<1>5. /\ saving[t] = k /\ ack' = [ack EXCEPT ![k] = NotAcked]
      /\ \A u \in SetTask : saving'[u] = IF u = t THEN next ELSE saving[u]
      /\ saving' = [saving EXCEPT ![t] = next]
      /\ UNCHANGED <<nvsDurable, argv, setArgs, restartTimer, alone>>
  BY <1>1, <1>2 DEF SetKey
<1>6. CfgTypeOK'
  <2>1. alone' \in [SetTask -> BOOLEAN] /\ restartTimer' \in BOOLEAN
    BY <1>5, Zenon DEF SettingsInv, CfgTypeOK
  <2>2. nvsValue' \in [CfgKey -> CfgValue] /\ ack' \in [CfgKey -> CfgValue \cup {NotAcked}]
    BY <1>2, <1>3, <1>4, <1>5
  <2>3. saving' \in [SetTask -> {"idle", "parse", "ssid", "passwd", "commit"}]
    BY <1>2, <1>5
  <2> QED BY <1>5, <2>1, <2>2, <2>3 DEF SettingsInv, CfgTypeOK
<1>7. \A u \in SetTask : OnItsOwn(u)' => OnItsOwn(u) /\ u = t
  <2>1. \A u \in SetTask : OnItsOwn(u)' => OnItsOwn(u)
    BY <1>1, <1>5 DEF OnItsOwn
  <2> QED BY <1>1, <1>5, <2>1 DEF SettingsInv
<1>8. OnItsOwn(t) => nvsValue'[k] = argv[t][k] /\ setArgs = t
  <2> SUFFICES ASSUME OnItsOwn(t) PROVE nvsValue'[k] = argv[t][k] /\ setArgs = t
    OBVIOUS
  <2>1. setArgs = t /\ argv[t] \in [CfgKey -> CfgValue]
    BY <1>1, <1>5 DEF SettingsInv, OnItsOwn
  <2>2. argv[t][k] \in CfgValue
    BY <2>1
  <2>3. v = argv[t][k]
    BY <1>3, <2>1, <2>2, SettingsAssumption DEF Pointed
  <2> QED BY <1>2, <1>3, <2>1, <2>3
<1>9. \A j \in CfgKey : j # k => nvsValue'[j] = nvsValue[j] /\ ack'[j] = ack[j]
  BY <1>2, <1>3, <1>5
<1>10. AcknowledgedIsDurable'
  <2>1. ack'[k] = NotAcked
    BY <1>2, <1>5
  <2> QED BY <1>5, <1>9, <2>1 DEF SettingsInv, AcknowledgedIsDurable
<1>11. \A u \in SetTask : saving'[u] # "idle" => argv'[u] \in [CfgKey -> CfgValue]
  BY <1>1, <1>5 DEF SettingsInv
<1>12. \A u, w \in SetTask : OnItsOwn(u)' /\ w # u => saving'[w] = "idle"
  BY <1>5, <1>7 DEF SettingsInv
<1>13. \A u \in SetTask : OnItsOwn(u)' => setArgs' = u
  BY <1>5, <1>7, <1>8
<1>14. \A u \in SetTask : OnItsOwn(u)' => nvsValue'["ssid"] = argv'[u]["ssid"]
  <2>1. CASE k = "ssid"
    BY <1>5, <1>7, <1>8, <2>1
  <2>2. CASE k = "passwd"
    <3>1. nvsValue'["ssid"] = nvsValue["ssid"]
      BY <1>9, <2>2 DEF CfgKey
    <3> QED BY <1>5, <1>7, <2>2, <3>1 DEF SettingsInv
  <2> QED BY <2>1, <2>2 DEF CfgKey
<1>15. \A u \in SetTask : OnItsOwn(u)' /\ saving'[u] = "commit"
                            => nvsValue'["passwd"] = argv'[u]["passwd"]
  BY <1>1, <1>5, <1>7, <1>8
<1> QED
  BY <1>6, <1>10, <1>11, <1>12, <1>13, <1>14, <1>15 DEF SettingsInv

(* A call returns: it leaves the others as they are, on their own or not.  *)
LEMMA FinishEffect ==
  ASSUME SettingsInv, NEW t \in SetTask, Finish(t)
  PROVE  /\ saving' \in [SetTask -> {"idle", "parse", "ssid", "passwd", "commit"}]
         /\ argv' \in [SetTask -> [CfgKey -> CfgValue \cup {Blank}]]
         /\ alone' \in [SetTask -> BOOLEAN]
         /\ \A u \in SetTask : saving'[u] # "idle" => u # t /\ saving[u] = saving'[u]
                                                      /\ argv'[u] = argv[u]
         /\ \A u \in SetTask : saving'[u] # "idle" => (OnItsOwn(u)' <=> OnItsOwn(u))
         /\ \A u \in SetTask : saving[u] = "idle" => saving'[u] = "idle"
<1>1. /\ saving \in [SetTask -> {"idle", "parse", "ssid", "passwd", "commit"}]
      /\ argv \in [SetTask -> [CfgKey -> CfgValue \cup {Blank}]]
  BY DEF SettingsInv, CfgTypeOK
<1>2. alone \in [SetTask -> BOOLEAN]
  BY Zenon DEF SettingsInv, CfgTypeOK
<1>3. /\ saving' = [saving EXCEPT ![t] = "idle"] /\ argv' = [argv EXCEPT ![t] = NoArgs]
      /\ alone' = [alone EXCEPT ![t] = TRUE]
  BY DEF Finish
<1>4. NoArgs \in [CfgKey -> CfgValue \cup {Blank}]
  BY DEF NoArgs
<1>5. alone' \in [SetTask -> BOOLEAN] /\ \A u \in SetTask : u # t => alone'[u] = alone[u]
  BY <1>2, <1>3
<1>6. /\ saving' \in [SetTask -> {"idle", "parse", "ssid", "passwd", "commit"}]
      /\ argv' \in [SetTask -> [CfgKey -> CfgValue \cup {Blank}]]
      /\ \A u \in SetTask : saving'[u] = IF u = t THEN "idle" ELSE saving[u]
      /\ \A u \in SetTask : u # t => argv'[u] = argv[u]
  BY <1>1, <1>3, <1>4
<1>7. \A u \in SetTask : saving'[u] # "idle" => (OnItsOwn(u)' <=> OnItsOwn(u))
  BY <1>5, <1>6 DEF OnItsOwn
<1> QED BY <1>5, <1>6, <1>7

\* A call that gives up leaves the store as it is.
LEMMA GiveUpKeepsInv ==
  ASSUME SettingsInv, NEW t \in SetTask, ParseFails(t) \/ SaveFails(t)
  PROVE  SettingsInv'
<1>1. /\ Finish(t) /\ UNCHANGED <<nvsValue, nvsDurable, restartTimer, ack>>
      /\ setArgs' \in SetTask
      /\ saving[t] # "idle"
  BY DEF ParseFails, SaveFails, nvsVars, SettingsInv, CfgTypeOK, CfgKey
<1>2. CfgTypeOK'
  <2>1. restartTimer' \in BOOLEAN
    BY <1>1, Zenon DEF SettingsInv, CfgTypeOK
  <2> QED BY <1>1, <2>1, FinishEffect DEF SettingsInv, CfgTypeOK
<1>3. \A u \in SetTask : ~OnItsOwn(u)'
  <2>1. \A u \in SetTask : OnItsOwn(u)' => OnItsOwn(u) /\ u # t
    BY <1>1, FinishEffect DEF OnItsOwn
  <2> QED BY <1>1, <2>1 DEF SettingsInv
<1>4. \A u \in SetTask : saving'[u] # "idle" => argv'[u] \in [CfgKey -> CfgValue]
  BY <1>1, FinishEffect DEF SettingsInv
<1>5. AcknowledgedIsDurable'
  BY <1>1 DEF SettingsInv, AcknowledgedIsDurable
<1> QED BY <1>2, <1>3, <1>4, <1>5 DEF SettingsInv

(* The commit makes durable what is stored, and what is reported is stored *)
(* if the call was on its own.                                             *)
LEMMA CommitSaveKeepsInv ==
  ASSUME SettingsInv, NEW t \in SetTask, CommitSave(t)
  PROVE  SettingsInv'
<1>1. /\ Finish(t) /\ saving[t] = "commit"
      /\ nvsDurable' = nvsValue /\ nvsValue' = nvsValue /\ setArgs' = setArgs
      /\ ack' = [k \in CfgKey |-> IF alone[t] THEN argv[t][k] ELSE ack[k]]
  BY DEF CommitSave, Committed
<1>2. CfgTypeOK'
  <2>1. restartTimer' \in BOOLEAN
    BY Zenon DEF CommitSave, SettingsInv, CfgTypeOK
  <2>2. ack' \in [CfgKey -> CfgValue \cup {NotAcked}]
    <3>1. argv[t] \in [CfgKey -> CfgValue]
      BY <1>1 DEF SettingsInv
    <3>2. ack \in [CfgKey -> CfgValue \cup {NotAcked}]
      BY DEF SettingsInv, CfgTypeOK
    <3> QED BY <1>1, <3>1, <3>2
  <2> QED BY <1>1, <2>1, <2>2, FinishEffect DEF SettingsInv, CfgTypeOK
<1>3. \A u \in SetTask : ~OnItsOwn(u)'
  <2>1. \A u \in SetTask : OnItsOwn(u)' => OnItsOwn(u) /\ u # t
    BY <1>1, FinishEffect DEF OnItsOwn
  <2> QED BY <1>1, <2>1 DEF SettingsInv
<1>4. \A u \in SetTask : saving'[u] # "idle" => argv'[u] \in [CfgKey -> CfgValue]
  BY <1>1, FinishEffect DEF SettingsInv
<1>5. AcknowledgedIsDurable'
  <2>1. CASE alone[t]
    <3>1. nvsValue["ssid"] = argv[t]["ssid"] /\ nvsValue["passwd"] = argv[t]["passwd"]
      BY <1>1, <2>1 DEF SettingsInv, OnItsOwn
    <3>2. \A k \in CfgKey : ack'[k] = argv[t][k]
      BY <1>1, <2>1
    <3> QED BY <1>1, <3>1, <3>2 DEF AcknowledgedIsDurable, CfgKey
  <2>2. CASE ~alone[t]
    <3>1. \A k \in CfgKey : ack'[k] = ack[k]
      BY <1>1, <2>2
    <3> QED BY <1>1, <3>1 DEF SettingsInv, AcknowledgedIsDurable
  <2> QED BY <2>1, <2>2
<1> QED BY <1>2, <1>3, <1>4, <1>5 DEF SettingsInv

\* After a restart no call runs, and acknowledged values are found again.
LEMMA CfgRestartKeepsInv == SettingsInv /\ CfgRestart => SettingsInv'
<1> SUFFICES ASSUME SettingsInv, CfgRestart PROVE SettingsInv'
  OBVIOUS
<1>1. NoArgs \in [CfgKey -> CfgValue \cup {Blank}] /\ "console" \in SetTask
  BY DEF NoArgs, SetTask
<1>2. alone' \in [SetTask -> BOOLEAN]
  <2>1. [t \in SetTask |-> TRUE] \in [SetTask -> BOOLEAN]
    BY Zenon
  <2> QED BY <2>1, Zenon DEF CfgRestart
<1>3. CfgTypeOK'
  BY <1>1, <1>2 DEF CfgRestart, SettingsInv, CfgTypeOK
<1>4. \A t \in SetTask : saving'[t] = "idle"
  BY DEF CfgRestart
<1>5. AcknowledgedIsDurable'
  BY DEF CfgRestart, SettingsInv, AcknowledgedIsDurable
<1> QED BY <1>3, <1>4, <1>5 DEF SettingsInv, OnItsOwn

LEMMA CfgStepKeepsInv == SettingsInv /\ [CfgNext]_cfgVars => SettingsInv'
<1> SUFFICES ASSUME SettingsInv, [CfgNext]_cfgVars PROVE SettingsInv'
  OBVIOUS
<1>1. CASE \E s \in CfgValue, p \in CfgValue \cup {Blank} : SaveForm(s, p)
  BY <1>1, SaveKeepsInv
<1>2. CASE \E s, p \in CfgValue : SaveByCommand(s, p)
  BY <1>2, SaveKeepsInv
<1>3. ASSUME NEW t \in SetTask,
             \/ ParseArgs(t) \/ ParseFails(t)
             \/ SetKey(t, "ssid", "passwd") \/ SetKey(t, "passwd", "commit")
             \/ CommitSave(t) \/ SaveFails(t)
      PROVE  SettingsInv'
  BY <1>3, ParseArgsKeepsInv, SetKeyKeepsInv, GiveUpKeepsInv, CommitSaveKeepsInv
<1>4. CASE Reboot
  <2>1. UNCHANGED <<nvsValue, nvsDurable, argv, setArgs, saving, alone, ack>>
        /\ restartTimer' = TRUE
    BY <1>4 DEF Reboot, nvsVars, callVars
  <2> QED BY <2>1 DEF SettingsInv, CfgTypeOK, AcknowledgedIsDurable, OnItsOwn
<1>5. CASE CfgRestart
  BY <1>5, CfgRestartKeepsInv
<1>6. CASE UNCHANGED cfgVars
  <2>1. UNCHANGED <<nvsValue, nvsDurable, argv, setArgs, saving, alone, restartTimer, ack>>
    BY <1>6 DEF cfgVars, nvsVars, callVars
  <2> QED BY <2>1 DEF SettingsInv, CfgTypeOK, AcknowledgedIsDurable, OnItsOwn
<1> QED BY <1>1, <1>2, <1>3, <1>4, <1>5, <1>6 DEF CfgNext

LEMMA SettingsInvAlways == CfgSpec => []SettingsInv
  BY CfgInitHolds, CfgStepKeepsInv, PTL DEF CfgSpec

(* The stored values, the arguments and the calls keep their types: in     *)
(* particular only values that can be stored ever reach NVS.               *)
THEOREM CfgTypeCorrect == CfgSpec => []CfgTypeOK
<1>1. SettingsInv => CfgTypeOK
  BY DEF SettingsInv
<1> QED BY <1>1, SettingsInvAlways, PTL

(* What the form or the console reports as stored is what NVS holds and    *)
(* what a restart finds, until another call sets the key.                  *)
THEOREM AcknowledgedSettingsLast == CfgSpec => []AcknowledgedIsDurable
<1>1. SettingsInv => AcknowledgedIsDurable
  BY DEF SettingsInv
<1> QED BY <1>1, SettingsInvAlways, PTL

-----------------------------------------------------------------------------
(***************************************************************************)
(* The NVS commands.                                                       *)
(***************************************************************************)

\* Less than one modulus below zero, the remainder is one modulus above.
LEMMA ModOfNegative ==
  ASSUME NEW x \in Int, NEW w \in Nat, x < 0, -w < x
  PROVE  x % w = x + w
<1>1. w > 0 /\ x + w \in Nat /\ x + w < w
  OBVIOUS
<1>2. x \div w = -1 /\ x % w \in 0 .. (w - 1)
  BY <1>1
<1>3. x = w * (x \div w) + (x % w)
  BY <1>1, DivModIdentity
<1> QED BY <1>1, <1>2, <1>3

\* Half of an even modulus
LEMMA HalfIsHalf ==
  ASSUME NEW w \in Nat \ {0}, w % 2 = 0
  PROVE  w \div 2 \in Nat \ {0} /\ 2 * (w \div 2) = w
OBVIOUS

\* The widths and bounds of the number types.
LEMMA TypesHaveBounds ==
  ASSUME NEW type \in NumberType
  PROVE  \E h \in Nat \ {0} :
           /\ Wrap(type) = 2 * h /\ Wrap(type) <= LongWrap
           /\ Low(type) = IF Signed(type) THEN -h ELSE 0
           /\ High(type) = IF Signed(type) THEN h - 1 ELSE 2 * h - 1
<1>1. Wrap(type) \in Nat \ {0} /\ Wrap(type) % 2 = 0 /\ Wrap(type) <= LongWrap
  BY NvsAssumption DEF Wrap
<1>2. Wrap(type) \div 2 \in Nat \ {0} /\ 2 * (Wrap(type) \div 2) = Wrap(type)
  BY <1>1, HalfIsHalf
<1>3. /\ Low(type) = IF Signed(type) THEN -(Wrap(type) \div 2) ELSE 0
      /\ High(type) = IF Signed(type) THEN (Wrap(type) \div 2) - 1 ELSE Wrap(type) - 1
  BY DEF Low, High
<1> QED BY <1>1, <1>2, <1>3

(* A number that strtol or strtoul does not clip is taken as it is, or     *)
(* modulo the width of long.                                               *)
LEMMA ConvertedIsTyped ==
  ASSUME NEW type \in NumberType, NEW x \in Int, ~Clipped(type, x)
  PROVE  Converted(type, x) = IF x < 0 /\ ~Signed(type) THEN x + LongWrap ELSE x
<1>1. LongWrap \in Nat \ {0} /\ Low("i32") \in Int /\ High("i32") \in Int
      /\ High("u32") = LongWrap - 1
  BY NvsAssumption DEF Low, High, Signed, Wrap
<1>2. CASE Signed(type)
  BY <1>1, <1>2 DEF Converted, Clipped, Clip
<1>3. CASE ~Signed(type)
  <2>1. Converted(type, x) = x % LongWrap /\ -LongWrap < x /\ x < LongWrap
    BY <1>1, <1>3 DEF Converted, Clipped
  <2>2. CASE x < 0
    BY <1>1, <1>3, <2>1, <2>2, ModOfNegative
  <2>3. CASE ~(x < 0)
    BY <1>1, <1>3, <2>1, <2>3, ModOfSmall
  <2> QED BY <2>2, <2>3
<1> QED BY <1>2, <1>3

\* A number in the range of its type survives the narrowing.
LEMMA NarrowedIsSame ==
  ASSUME NEW type \in NumberType, NEW v \in Int, Low(type) <= v, v <= High(type)
  PROVE  Narrowed(type, v) = v /\ v \in ConNumber
<1>1. PICK h \in Nat \ {0} :
           /\ Wrap(type) = 2 * h /\ Wrap(type) <= LongWrap
           /\ Low(type) = IF Signed(type) THEN -h ELSE 0
           /\ High(type) = IF Signed(type) THEN h - 1 ELSE 2 * h - 1
  BY TypesHaveBounds
<1>2. v \in ConNumber
  BY <1>1, NvsAssumption DEF ConNumber
<1>3. CASE v < 0
  <2>1. Signed(type) /\ -h <= v
    BY <1>1, <1>3
  <2>2. v % Wrap(type) = v + Wrap(type)
    <3>1. Wrap(type) \in Nat /\ -Wrap(type) < v
      BY <1>1, <2>1
    <3> QED BY <1>3, <3>1, ModOfNegative
  <2>3. v + Wrap(type) > High(type)
    BY <1>1, <2>1
  <2> QED BY <1>1, <1>2, <2>2, <2>3 DEF Narrowed
<1>4. CASE ~(v < 0)
  <2>1. v % Wrap(type) = v
    BY <1>1, <1>4, ModOfSmall
  <2> QED BY <1>1, <1>2, <2>1 DEF Narrowed
<1> QED BY <1>3, <1>4

(* Together: what set_value_in_nvs stores when neither its comparisons nor *)
(* errno refuse the number.                                                *)
LEMMA StoredIsTyped ==
  ASSUME NEW type \in NumberType, NEW x \in Int, InRange(type, x), ~Clipped(type, x)
  PROVE  Narrowed(type, Converted(type, x))
           = IF x < 0 /\ ~Signed(type) THEN x + LongWrap ELSE x
<1>1. Converted(type, x) = IF x < 0 /\ ~Signed(type) THEN x + LongWrap ELSE x
  BY ConvertedIsTyped
<1>2. Converted(type, x) \in Int
  BY <1>1, NvsAssumption
<1> QED BY <1>1, <1>2, NarrowedIsSame DEF InRange

\* Any number in range, even one that was clipped, can be stored.
LEMMA StoredHasType ==
  ASSUME NEW type \in NumberType, NEW x \in Int, InRange(type, x)
  PROVE  [type |-> type, num |-> Narrowed(type, Converted(type, x))] \in ConEntry
<1>1. Converted(type, x) \in Int
  <2>1. LongWrap \in Nat \ {0} /\ Low("i32") \in Int /\ High("i32") \in Int
        /\ High("u32") \in Int
    BY NvsAssumption DEF Low, High, Signed, Wrap
  <2>2. x % LongWrap \in Int
    BY <2>1
  <2> QED BY <2>1, <2>2 DEF Converted, Clip
<1>2. Narrowed(type, Converted(type, x)) \in ConNumber
  BY <1>1, NarrowedIsSame DEF InRange
<1> QED BY <1>2 DEF ConEntry

(* The inductive invariant: what the last command reported as stored has   *)
(* been committed.                                                         *)
NvsInv ==
  /\ ConTypeOK
  /\ conGiven # Unset => conValue = conDurable
  /\ NvsStoresWhatWasGiven

LEMMA DataHasType ==
  ASSUME NEW type \in DataType
  PROVE  [type |-> type, num |-> 0] \in ConEntry
<1>1. 0 \in ConNumber
  BY NvsAssumption DEF ConNumber
<1> QED BY <1>1 DEF ConEntry

LEMMA ConInitHolds == ConInit => NvsInv
<1> SUFFICES ASSUME ConInit PROVE NvsInv
  OBVIOUS
<1>1. /\ conValue = Unset /\ conDurable = Unset /\ conGiven = Unset
      /\ conErange \in BOOLEAN
  BY Zenon DEF ConInit
<1>2. ConTypeOK
  <2>1. Unset.type = "none"
    BY DEF Unset
  <2> QED BY <1>1, <2>1 DEF ConTypeOK, ConEntry
<1> QED BY <1>1, <1>2 DEF NvsInv, NvsStoresWhatWasGiven

\* A command that reports no success claims nothing of the store.
LEMMA RefusedKeepsInv ==
  ASSUME conValue' \in ConEntry, conDurable' \in ConEntry, conErange' \in BOOLEAN,
         conGiven' = Unset
  PROVE  NvsInv'
  BY DEF NvsInv, ConTypeOK, Unset, NvsStoresWhatWasGiven

LEMMA SetNumberKeepsInv ==
  ASSUME NvsInv, NEW type \in NumberType, NEW x \in Typed, SetNumber(type, x)
  PROVE  NvsInv'
<1> DEFINE stored == [type |-> type, num |-> Narrowed(type, Converted(type, x))]
<1>1. x \in Int /\ conValue \in ConEntry /\ conDurable \in ConEntry
  BY NvsAssumption DEF NvsInv, ConTypeOK
<1>2. conErange' \in BOOLEAN /\ (~conErange' => ~Clipped(type, x))
  BY Zenon DEF SetNumber
<1>3. CASE /\ InRange(type, x) /\ ~conErange'
           /\ conValue' = stored /\ conDurable' = stored
           /\ conGiven' = [type |-> type, num |-> x]
  <2>1. stored \in ConEntry
    BY <1>1, <1>3, StoredHasType
  <2>2. stored.num = IF x < 0 /\ ~Signed(type) THEN x + LongWrap ELSE x
    BY <1>1, <1>2, <1>3, StoredIsTyped
  <2>3. stored.type = type
    OBVIOUS
  <2> HIDE DEF stored
  <2>4. conGiven'.type = type /\ conGiven'.num = x
    BY <1>3
  <2>5. ConTypeOK'
    BY <1>2, <1>3, <2>1, <2>4 DEF ConTypeOK
  <2>6. NvsStoresWhatWasGiven'
    BY <1>3, <2>2, <2>3, <2>4 DEF NvsStoresWhatWasGiven
  <2> QED BY <1>3, <2>5, <2>6 DEF NvsInv
<1>4. CASE InRange(type, x) /\ conValue' = stored /\ conDurable' = conDurable
           /\ conGiven' = Unset
  BY <1>1, <1>2, <1>4, StoredHasType, RefusedKeepsInv
<1>5. CASE conValue' = conValue /\ conDurable' = conDurable /\ conGiven' = Unset
  BY <1>1, <1>2, <1>5, RefusedKeepsInv
<1> QED BY <1>3, <1>4, <1>5 DEF SetNumber, Refuse

\* Strings and blobs are stored as such.
LEMMA SetDataKeepsInv ==
  ASSUME NvsInv, (\E type \in DataType : SetData(type)) \/ SetMac \/ SetApIp
  PROVE  NvsInv'
<1>1. /\ conValue \in ConEntry /\ conDurable \in ConEntry
      /\ \A d \in DataType : [type |-> d, num |-> 0] \in ConEntry
  BY DataHasType DEF NvsInv, ConTypeOK
<1>2. conErange' \in BOOLEAN
  BY Zenon DEF SetData, SetMac, SetApIp, NvsInv, ConTypeOK
<1>3. conValue' \in ConEntry /\ conDurable' \in ConEntry
  BY <1>1 DEF SetData, SetMac, SetApIp, DataType
<1>4. CASE conGiven' = Unset
  BY <1>2, <1>3, <1>4, RefusedKeepsInv
<1>5. ASSUME NEW d \in DataType, conValue' = [type |-> d, num |-> 0],
             conDurable' = [type |-> d, num |-> 0], conGiven' = [type |-> d, num |-> 0]
      PROVE  NvsInv'
  <2>1. ConTypeOK'
    BY <1>2, <1>3, <1>5 DEF ConTypeOK
  <2>2. NvsStoresWhatWasGiven'
    BY <1>5 DEF NvsStoresWhatWasGiven
  <2> QED BY <1>5, <2>1, <2>2 DEF NvsInv
<1> QED BY <1>4, <1>5 DEF SetData, SetMac, SetApIp, Refuse, DataType

\* A restart finds what was committed, or what was set.
LEMMA ConOthersKeepInv ==
  ASSUME NvsInv, EraseKey \/ ErrnoReplaced \/ ConRestart
  PROVE  NvsInv'
<1>1. conValue \in ConEntry /\ conDurable \in ConEntry /\ Unset \in ConEntry
  BY DEF NvsInv, ConTypeOK, ConEntry
<1>2. conErange' \in BOOLEAN
  BY Zenon DEF EraseKey, ErrnoReplaced, ConRestart, NvsInv, ConTypeOK
<1>3. CASE EraseKey
  BY <1>1, <1>2, <1>3, RefusedKeepsInv DEF EraseKey
<1>4. CASE ErrnoReplaced
  BY <1>2, <1>4 DEF ErrnoReplaced, NvsInv, ConTypeOK, NvsStoresWhatWasGiven
<1>5. CASE ConRestart
  BY <1>1, <1>2, <1>5 DEF ConRestart, NvsInv, ConTypeOK, NvsStoresWhatWasGiven
<1> QED BY <1>3, <1>4, <1>5

LEMMA ConStepKeepsInv == NvsInv /\ [ConNext]_conVars => NvsInv'
<1> SUFFICES ASSUME NvsInv, [ConNext]_conVars PROVE NvsInv'
  OBVIOUS
<1>1. CASE ConNext
  BY <1>1, SetNumberKeepsInv, SetDataKeepsInv, ConOthersKeepInv DEF ConNext
<1>2. CASE UNCHANGED conVars
  BY <1>2 DEF conVars, NvsInv, ConTypeOK, NvsStoresWhatWasGiven
<1> QED BY <1>1, <1>2

LEMMA NvsInvAlways == ConSpec => []NvsInv
  BY ConInitHolds, ConStepKeepsInv, PTL DEF ConSpec

(* What is stored has a type and fits into the width of long.              *)
THEOREM ConTypeCorrect == ConSpec => []ConTypeOK
<1>1. NvsInv => ConTypeOK
  BY DEF NvsInv
<1> QED BY <1>1, NvsInvAlways, PTL

(* A number nvs_set reports as stored is committed, of its type, and equal *)
(* to what was typed, for any width of the types and any number.           *)
THEOREM NvsKeepsNumbers == ConSpec => []NvsStoresWhatWasGiven
<1>1. NvsInv => NvsStoresWhatWasGiven
  BY DEF NvsInv
<1> QED BY <1>1, NvsInvAlways, PTL

-----------------------------------------------------------------------------
(***************************************************************************)
(* The session rows.                                                       *)
(***************************************************************************)

Waits(t) == \E i \in 1 .. Len(updates) : updates[i].token = t

LastCloses(t) ==
  \E i \in 1 .. Len(updates) :
     /\ updates[i].token = t /\ updates[i].status \in Closing
     /\ \A j \in 1 .. Len(updates) : i < j => updates[j].token # t

(* The last word on the token's row, in the queue, under way or in the row *)
(* itself, is that it is closed.                                           *)
ClosesInTheEnd(t) ==
  \/ LastCloses(t)
  \/ ~Waits(t) /\ posting.token = t /\ posting.status \in Closing
  \/ ~Waits(t) /\ posting.token # t /\ rows[t] \in Closing

(* The inductive invariant, which is also what has to be safe for          *)
(* RevokedRowStaysClosed.                                                  *)
RevokedCloses ==
  \A t \in Token : life[t] = "revoked" /\ t \notin estranged
                     => t \notin Directly /\ ClosesInTheEnd(t)

RowsInv == RowsTypeOK /\ RevokedCloses

LEMMA RowsInitHolds == RowsInit => RowsInv
<1> SUFFICES ASSUME RowsInit PROVE RowsInv
  OBVIOUS
<1>1. <<>> \in Seq(Update) /\ Len(<<>>) <= UpdateQueue
  BY SessionRowsAssumption
<1>2. RowsTypeOK
  BY <1>1 DEF RowsInit, RowsTypeOK
<1>3. \A t \in Token : life[t] # "revoked"
  BY DEF RowsInit
<1> QED BY <1>2, <1>3 DEF RowsInv, RevokedCloses

LEMMA NoTokenIsNone == \A t \in Token : NoUpdate.token # t /\ NoToken # t
  BY SessionRowsAssumption DEF NoUpdate, NoToken

\* What is queued for one token leaves the last word on another as it was.
LEMMA QueueingKeepsOthers ==
  ASSUME RowsTypeOK, NEW t \in Token, NEW status \in Closing \cup {"active"},
         QueueUpdate(t, status), UNCHANGED <<rows, posting>>,
         NEW u \in Token, u # t, ClosesInTheEnd(u)
  PROVE  ClosesInTheEnd(u)'
<1> DEFINE new == [token |-> t, status |-> status]
<1>1. new \in Update /\ new.token # u
  BY DEF Update
<1>2. CASE Full
  <2>1. updates' = updates
    BY <1>2 DEF QueueUpdate
  <2> QED BY <2>1 DEF ClosesInTheEnd, LastCloses, Waits
<1>3. CASE ~Full
  <2>1. updates' = Append(updates, new) /\ updates \in Seq(Update)
    BY <1>3 DEF QueueUpdate, Enqueued, RowsTypeOK
  <2> HIDE DEF new
  <2>2. /\ Len(updates) \in Nat
        /\ \A i \in 1 .. Len(updates) : updates'[i] = updates[i]
        /\ Len(updates') = Len(updates) + 1 /\ updates'[Len(updates) + 1] = new
    BY <1>1, <2>1
  <2>3. \A i \in 1 .. Len(updates') : i \in 1 .. Len(updates) \/ i = Len(updates) + 1
    BY <2>2
  <2>4. LastCloses(u) => LastCloses(u)'
    <3> SUFFICES ASSUME LastCloses(u) PROVE LastCloses(u)'
      OBVIOUS
    <3>1. PICK i \in 1 .. Len(updates) :
            /\ updates[i].token = u /\ updates[i].status \in Closing
            /\ \A j \in 1 .. Len(updates) : i < j => updates[j].token # u
      BY DEF LastCloses
    <3>2. i \in 1 .. Len(updates') /\ updates'[i] = updates[i]
      BY <2>2
    <3>3. \A j \in 1 .. Len(updates') : i < j => updates'[j].token # u
      BY <1>1, <2>2, <2>3, <3>1
    <3> QED BY <3>1, <3>2, <3>3 DEF LastCloses
  <2>5. ~Waits(u) => ~Waits(u)'
    BY <1>1, <2>2, <2>3 DEF Waits
  <2> QED BY <2>4, <2>5 DEF ClosesInTheEnd
<1> QED BY <1>2, <1>3

\* The queue keeps its type and its length.
LEMMA QueueUpdateType ==
  ASSUME RowsTypeOK, NEW t \in Token, NEW status \in Closing \cup {"active"},
         QueueUpdate(t, status)
  PROVE  updates' \in Seq(Update) /\ Len(updates') <= UpdateQueue
<1> DEFINE new == [token |-> t, status |-> status]
<1>1. new \in Update
  BY DEF Update
<1>2. /\ updates \in Seq(Update) /\ Len(updates) \in Nat /\ Len(updates) <= UpdateQueue
      /\ UpdateQueue \in Nat
  BY SessionRowsAssumption DEF RowsTypeOK
<1>3. Append(updates, new) \in Seq(Update) /\ Len(Append(updates, new)) = Len(updates) + 1
  BY <1>1, <1>2
<1> HIDE DEF new
<1> QED BY <1>2, <1>3 DEF QueueUpdate, Enqueued, Full, new

(* A session starts, is confirmed again, is posted directly, or is dropped *)
(* without a word: it is not a revoked one.                                *)
LEMMA RunningKeepsInv ==
  ASSUME RowsInv, NEW t \in Token,
         ConfirmSession(t) \/ DropSession(t) \/ BeatSession(t)
  PROVE  RowsInv'
<1>1. life[t] # "revoked" /\ UNCHANGED <<rows, updates, posting, estranged>>
  BY DEF ConfirmSession, DropSession, BeatSession
<1>2. RowsTypeOK'
  BY DEF ConfirmSession, DropSession, BeatSession, RowsInv, RowsTypeOK, Poster
<1>3. \A u \in Token : life'[u] = "revoked" => life[u] = "revoked" /\ u # t
  BY <1>1 DEF ConfirmSession, DropSession, BeatSession, RowsInv, RowsTypeOK
<1>4. \A p \in Poster : direct'[p] \in {direct[p], t}
  BY DEF ConfirmSession, DropSession, BeatSession, RowsInv, RowsTypeOK, Poster
<1>5. \A u \in Token : u # t /\ u \notin Directly => u \notin Directly'
  BY <1>4 DEF Directly
<1>6. \A u \in Token : ClosesInTheEnd(u) => ClosesInTheEnd(u)'
  BY <1>1 DEF ClosesInTheEnd, LastCloses, Waits
<1> QED BY <1>1, <1>2, <1>3, <1>5, <1>6 DEF RowsInv, RevokedCloses

\* A session of the table is posted through the queue.
LEMMA ResumeKeepsInv ==
  ASSUME RowsInv, NEW t \in Token, ResumeSession(t)
  PROVE  RowsInv'
<1>1. QueueUpdate(t, "active") /\ UNCHANGED <<rows, posting, direct>>
      /\ estranged \subseteq estranged'
  BY DEF ResumeSession
<1>2. RowsTypeOK'
  <2>1. updates' \in Seq(Update) /\ Len(updates') <= UpdateQueue
    BY <1>1, QueueUpdateType DEF RowsInv
  <2> QED BY <1>1, <2>1 DEF ResumeSession, RowsInv, RowsTypeOK
<1>3. \A u \in Token : life'[u] = "revoked" => life[u] = "revoked" /\ u # t
  BY DEF ResumeSession, RowsInv, RowsTypeOK
<1>4. \A u \in Token : u # t /\ ClosesInTheEnd(u) => ClosesInTheEnd(u)'
  BY <1>1, QueueingKeepsOthers DEF RowsInv
<1>5. Directly' = Directly
  BY <1>1 DEF Directly
<1> QED BY <1>1, <1>2, <1>3, <1>4, <1>5 DEF RowsInv, RevokedCloses

(* A session is revoked: its closing update is the last in the queue, or   *)
(* was dropped.                                                            *)
LEMMA RevokeKeepsInv ==
  ASSUME RowsInv, NEW t \in Token, NEW status \in Closing, RevokeSession(t, status)
  PROVE  RowsInv'
<1>1. /\ QueueUpdate(t, status) /\ UNCHANGED <<rows, posting, direct>>
      /\ estranged \subseteq estranged' /\ (t \notin estranged' => ~Full /\ t \notin Directly)
  BY DEF RevokeSession
<1>2. RowsTypeOK'
  <2>1. updates' \in Seq(Update) /\ Len(updates') <= UpdateQueue
    BY <1>1, QueueUpdateType DEF RowsInv
  <2> QED BY <1>1, <2>1 DEF RevokeSession, RowsInv, RowsTypeOK
<1>3. \A u \in Token : u # t /\ life'[u] = "revoked" => life[u] = "revoked"
  BY DEF RevokeSession, RowsInv, RowsTypeOK
<1>4. \A u \in Token : u # t /\ ClosesInTheEnd(u) => ClosesInTheEnd(u)'
  BY <1>1, QueueingKeepsOthers DEF RowsInv
<1>5. Directly' = Directly
  BY <1>1 DEF Directly
<1>6. ~Full => ClosesInTheEnd(t)'
  <2> SUFFICES ASSUME ~Full PROVE LastCloses(t)'
    BY DEF ClosesInTheEnd
  <2> DEFINE new == [token |-> t, status |-> status]
  <2>1. updates' = Append(updates, new) /\ updates \in Seq(Update)
    BY <1>1 DEF QueueUpdate, Enqueued, RowsInv, RowsTypeOK
  <2>2. new.token = t /\ new.status \in Closing
    OBVIOUS
  <2> HIDE DEF new
  <2>3. /\ Len(updates) \in Nat /\ Len(updates') = Len(updates) + 1
        /\ updates'[Len(updates) + 1] = new
    BY <2>1
  <2>4. \A j \in 1 .. Len(updates') : ~(Len(updates) + 1 < j)
    BY <2>3
  <2>5. Len(updates) + 1 \in 1 .. Len(updates')
    BY <2>3
  <2> QED BY <2>2, <2>3, <2>4, <2>5 DEF LastCloses
<1> QED BY <1>1, <1>2, <1>3, <1>4, <1>5, <1>6 DEF RowsInv, RevokedCloses

(* supabase_update_task takes the first update: the last word moves with   *)
(* it if it was this one.                                                  *)
LEMMA TakeUpdateKeepsInv == RowsInv /\ TakeUpdate => RowsInv'
<1> SUFFICES ASSUME RowsInv, TakeUpdate PROVE RowsInv'
  OBVIOUS
<1>1. /\ updates \in Seq(Update) /\ updates # <<>> /\ Len(updates) <= UpdateQueue
      /\ posting = NoUpdate /\ posting' = Head(updates) /\ updates' = Tail(updates)
      /\ UNCHANGED <<life, rows, direct, estranged>>
  BY DEF TakeUpdate, RowsInv, RowsTypeOK
<1>2. /\ Len(updates) \in Nat \ {0} /\ posting' = updates[1] /\ updates[1] \in Update
      /\ updates' \in Seq(Update) /\ Len(updates') = Len(updates) - 1
      /\ \A i \in 1 .. Len(updates') : updates'[i] = updates[i + 1]
  BY <1>1
<1>3. RowsTypeOK'
  <2>1. Len(updates') <= UpdateQueue
    BY <1>1, <1>2, SessionRowsAssumption
  <2> QED BY <1>1, <1>2, <2>1 DEF RowsInv, RowsTypeOK
<1>4. ASSUME NEW t \in Token, ClosesInTheEnd(t) PROVE ClosesInTheEnd(t)'
  <2>1. \A i \in 1 .. Len(updates') : i + 1 \in 1 .. Len(updates)
    BY <1>2
  <2>2. CASE LastCloses(t)
    <3>1. PICK i \in 1 .. Len(updates) :
            /\ updates[i].token = t /\ updates[i].status \in Closing
            /\ \A j \in 1 .. Len(updates) : i < j => updates[j].token # t
      BY <2>2 DEF LastCloses
    <3>2. CASE i = 1
      <4>1. \A k \in 1 .. Len(updates') : updates'[k].token # t
        BY <1>2, <2>1, <3>1, <3>2
      <4> QED BY <1>2, <3>1, <3>2, <4>1 DEF ClosesInTheEnd, Waits
    <3>3. CASE i # 1
      <4>1. i - 1 \in 1 .. Len(updates') /\ updates'[i - 1] = updates[i]
        BY <1>2, <3>3
      <4>2. \A k \in 1 .. Len(updates') : i - 1 < k => updates'[k].token # t
        BY <1>2, <2>1, <3>1
      <4> QED BY <3>1, <4>1, <4>2 DEF ClosesInTheEnd, LastCloses
    <3> QED BY <3>2, <3>3
  <2>3. CASE ~Waits(t) /\ rows[t] \in Closing
    <3>1. ~Waits(t)' /\ posting'.token # t
      BY <1>2, <2>1, <2>3 DEF Waits
    <3> QED BY <1>1, <2>3, <3>1 DEF ClosesInTheEnd
  <2>4. posting.token # t
    BY <1>1, NoTokenIsNone
  <2> QED BY <1>4, <2>2, <2>3, <2>4 DEF ClosesInTheEnd
<1>5. Directly' = Directly
  BY <1>1 DEF Directly
<1> QED BY <1>1, <1>3, <1>4, <1>5 DEF RowsInv, RevokedCloses

\* A post ends: the row says what was posted, or nobody answers for it.
LEMMA PostKeepsInv == RowsInv /\ (UpdatePosted \/ UpdateFailed) => RowsInv'
<1> SUFFICES ASSUME RowsInv, UpdatePosted \/ UpdateFailed PROVE RowsInv'
  OBVIOUS
<1>1. /\ posting \in Update /\ posting' = NoUpdate
      /\ UNCHANGED <<life, updates, direct>>
      /\ rows' \in {rows, [rows EXCEPT ![posting.token] = posting.status]}
      /\ rows \in [Token -> Closing \cup {"active", "none"}]
  BY DEF UpdatePosted, UpdateFailed, Written, RowsInv, RowsTypeOK
<1>2. posting.token \in Token /\ posting.status \in Closing \cup {"active"}
  BY <1>1 DEF Update
<1>3. /\ rows' \in [Token -> Closing \cup {"active", "none"}]
      /\ \A t \in Token : t # posting.token => rows'[t] = rows[t]
  BY <1>1, <1>2
<1>4. RowsTypeOK'
  <2>1. estranged' \subseteq Token
    BY <1>2 DEF UpdatePosted, UpdateFailed, RowsInv, RowsTypeOK
  <2> QED BY <1>1, <1>3, <2>1 DEF RowsInv, RowsTypeOK
<1>5. estranged \subseteq estranged'
      /\ (posting.token \notin estranged' => rows'[posting.token] = posting.status)
  BY <1>1, <1>2 DEF UpdatePosted, UpdateFailed, Written
<1>6. ASSUME NEW t \in Token, t \notin estranged', ClosesInTheEnd(t)
      PROVE  ClosesInTheEnd(t)'
  <2>1. (LastCloses(t)' <=> LastCloses(t)) /\ (Waits(t)' <=> Waits(t))
    BY <1>1 DEF LastCloses, Waits
  <2>2. posting'.token # t
    BY <1>1, NoTokenIsNone
  <2> QED BY <1>3, <1>5, <1>6, <2>1, <2>2 DEF ClosesInTheEnd
<1>7. Directly' = Directly
  BY <1>1 DEF Directly
<1> QED BY <1>1, <1>4, <1>5, <1>6, <1>7 DEF RowsInv, RevokedCloses

\* A direct post ends: it is not one of a session revoked since.
LEMMA DirectEndsKeepsInv ==
  ASSUME RowsInv, NEW p \in Poster, DirectEnds(p)
  PROVE  RowsInv'
<1>1. /\ direct[p] \in Token /\ direct' = [direct EXCEPT ![p] = NoToken]
      /\ direct \in [Poster -> Token \cup {NoToken}]
      /\ rows' \in {rows, [rows EXCEPT ![direct[p]] = "active"]}
      /\ rows \in [Token -> Closing \cup {"active", "none"}]
      /\ UNCHANGED <<life, updates, posting, estranged>>
  BY DEF DirectEnds, RowsInv, RowsTypeOK
<1>2. /\ rows' \in [Token -> Closing \cup {"active", "none"}]
      /\ \A t \in Token : t # direct[p] => rows'[t] = rows[t]
      /\ direct' \in [Poster -> Token \cup {NoToken}]
      /\ \A q \in Poster : direct'[q] \in {direct[q], NoToken}
  BY <1>1
<1>3. RowsTypeOK'
  BY <1>1, <1>2 DEF RowsInv, RowsTypeOK
<1>4. \A t \in Token : t \notin Directly => t # direct[p] /\ t \notin Directly'
  BY <1>2, NoTokenIsNone DEF Directly
<1>5. \A t \in Token : t # direct[p] /\ ClosesInTheEnd(t) => ClosesInTheEnd(t)'
  BY <1>1, <1>2 DEF ClosesInTheEnd, LastCloses, Waits
<1> QED BY <1>1, <1>3, <1>4, <1>5 DEF RowsInv, RevokedCloses

\* A restart: who had an update waiting has lost it.
LEMMA RowsRestartKeepsInv == RowsInv /\ RowsRestart => RowsInv'
<1> SUFFICES ASSUME RowsInv, RowsRestart PROVE RowsInv'
  OBVIOUS
<1>1. /\ updates \in Seq(Update) /\ posting \in Update \cup {NoUpdate}
      /\ life \in [Token -> {"unused", "running", "revoked", "gone"}]
      /\ estranged \subseteq Token
  BY DEF RowsInv, RowsTypeOK
<1>2. /\ updates' = <<>> /\ posting' = NoUpdate /\ rows' = rows
      /\ direct' = [p \in Poster |-> NoToken]
      /\ estranged' = estranged \cup {updates[i].token : i \in DOMAIN updates}
                                \cup ({posting.token} \ {NoToken})
      /\ life' = [t \in Token |-> IF life[t] = "running" THEN "gone" ELSE life[t]]
  BY DEF RowsRestart
<1>3. RowsTypeOK'
  <2>1. <<>> \in Seq(Update) /\ Len(<<>>) <= UpdateQueue
    BY SessionRowsAssumption
  <2>2. estranged' \subseteq Token
    <3>1. \A i \in DOMAIN updates : updates[i].token \in Token
      <4>1. \A i \in DOMAIN updates : updates[i] \in Update
        BY <1>1
      <4> QED BY <4>1 DEF Update
    <3>2. posting.token \in Token \cup {NoToken}
      BY <1>1 DEF Update, NoUpdate, NoToken
    <3> QED BY <1>1, <1>2, <3>1, <3>2
  <2>3. life' \in [Token -> {"unused", "running", "revoked", "gone"}]
    BY <1>1, <1>2
  <2>4. direct' \in [Poster -> Token \cup {NoToken}]
    BY <1>2
  <2> QED BY <1>2, <2>1, <2>2, <2>3, <2>4 DEF RowsInv, RowsTypeOK
<1>4. ASSUME NEW t \in Token, life'[t] = "revoked", t \notin estranged'
      PROVE  t \notin Directly' /\ ClosesInTheEnd(t)'
  <2>1. life[t] = "revoked" /\ t \notin estranged
    BY <1>1, <1>2, <1>4
  <2>2. ~Waits(t) /\ posting.token # t
    <3>1. \A i \in 1 .. Len(updates) : updates[i].token # t
      BY <1>1, <1>2, <1>4
    <3> QED BY <1>2, <1>4, <3>1, NoTokenIsNone DEF Waits
  <2>3. rows[t] \in Closing
    BY <2>1, <2>2 DEF RowsInv, RevokedCloses, ClosesInTheEnd, LastCloses, Waits
  <2>4. ~Waits(t)'
    BY <1>2 DEF Waits
  <2>5. t \notin Directly'
    BY <1>2, NoTokenIsNone DEF Directly
  <2> QED BY <1>2, <2>3, <2>4, <2>5, NoTokenIsNone DEF ClosesInTheEnd
<1> QED BY <1>3, <1>4 DEF RowsInv, RevokedCloses

LEMMA RowsStepKeepsInv == RowsInv /\ [RowsNext]_rowVars => RowsInv'
<1> SUFFICES ASSUME RowsInv, [RowsNext]_rowVars PROVE RowsInv'
  OBVIOUS
<1>1. ASSUME NEW t \in Token,
             \/ ConfirmSession(t) \/ ResumeSession(t) \/ DropSession(t) \/ BeatSession(t)
             \/ \E status \in Closing : RevokeSession(t, status)
      PROVE  RowsInv'
  BY <1>1, RunningKeepsInv, ResumeKeepsInv, RevokeKeepsInv
<1>2. CASE TakeUpdate \/ UpdatePosted \/ UpdateFailed
  BY <1>2, TakeUpdateKeepsInv, PostKeepsInv
<1>3. CASE \E p \in Poster : DirectEnds(p)
  BY <1>3, DirectEndsKeepsInv
<1>4. CASE RowsRestart
  BY <1>4, RowsRestartKeepsInv
<1>5. CASE UNCHANGED rowVars
  BY <1>5
  DEF rowVars, RowsInv, RowsTypeOK, RevokedCloses, ClosesInTheEnd, LastCloses, Waits, Directly
<1> QED BY <1>1, <1>2, <1>3, <1>4, <1>5 DEF RowsNext

LEMMA RowsInvAlways == RowsSpec => []RowsInv
  BY RowsInitHolds, RowsStepKeepsInv, PTL DEF RowsSpec

(* The queue never grows beyond its length, and all else keeps its type.   *)
THEOREM RowsTypeCorrect == RowsSpec => []RowsTypeOK
<1>1. RowsInv => RowsTypeOK
  BY DEF RowsInv
<1> QED BY <1>1, RowsInvAlways, PTL

(* What is safe of the promise that a revoked session's row is closed: the *)
(* last word on it, in the queue of queue_supabase_session_update, under   *)
(* way or in the row, is that it is, and no other task is about to post it *)
(* as active.                                                              *)
THEOREM RevokedRowsClose == RowsSpec => []RevokedCloses
<1>1. RowsInv => RevokedCloses
  BY DEF RowsInv
<1> QED BY <1>1, RowsInvAlways, PTL

\* Nothing of the token is on its way any more.
Settled(t) == life[t] = "revoked" /\ t \notin estranged /\ ~Waits(t) /\ posting = NoUpdate

(* So the row of a session that was revoked is closed when nothing of its  *)
(* token is on its way any more, and no step opens it again.               *)
THEOREM ClosedRowsStayClosed ==
  RowsSpec => [][\A t \in Token :
                   Settled(t) => rows[t] \in Closing /\ rows'[t] = rows[t]]_rowVars
<1> DEFINE Kept == \A t \in Token :
                     Settled(t) => rows[t] \in Closing /\ rows'[t] = rows[t]
<1>1. RowsInv /\ [RowsNext]_rowVars => [Kept]_rowVars
  <2> SUFFICES ASSUME RowsInv, RowsNext, NEW t \in Token, Settled(t)
               PROVE  rows[t] \in Closing /\ rows'[t] = rows[t]
    OBVIOUS
  <2>1. t \notin Directly /\ ClosesInTheEnd(t) /\ ~LastCloses(t)
    BY DEF Settled, RowsInv, RevokedCloses, Waits, LastCloses
  <2>2. rows[t] \in Closing
    BY <2>1, NoTokenIsNone DEF Settled, ClosesInTheEnd
  <2>3. CASE \E p \in Poster : DirectEnds(p)
    <3>1. PICK p \in Poster : DirectEnds(p)
      BY <2>3
    <3>2. direct[p] # t /\ rows \in [Token -> Closing \cup {"active", "none"}]
      BY <2>1 DEF Directly, RowsInv, RowsTypeOK
    <3> QED BY <2>2, <3>1, <3>2 DEF DirectEnds
  <2>4. CASE ~ \E p \in Poster : DirectEnds(p)
    <3>1. rows' = rows
      BY <2>4
      DEF RowsNext, ConfirmSession, ResumeSession, RevokeSession, DropSession, BeatSession,
          TakeUpdate, UpdatePosted, UpdateFailed, RowsRestart, Settled
    <3> QED BY <2>2, <3>1
  <2> QED BY <2>3, <2>4
<1> QED BY <1>1, RowsInvAlways, PTL DEF RowsSpec

-----------------------------------------------------------------------------
(***************************************************************************)
(* The diagnostics.                                                        *)
(***************************************************************************)

LEMMA DiagInitHolds == DiagInit => DiagTypeOK
  BY DEF DiagInit, DiagTypeOK

\* A requested probe is of a reason somebody passed, or of the start.
LEMMA DiagStepKeepsType == DiagTypeOK /\ [DiagNext]_diagVars => DiagTypeOK'
<1> SUFFICES ASSUME DiagTypeOK, [DiagNext]_diagVars PROVE DiagTypeOK'
  OBVIOUS
<1>1. diagTask' \in BOOLEAN /\ diagNotified' \in BOOLEAN /\ diagOnline' \in BOOLEAN
      /\ diagAsked' \in BOOLEAN
  BY Zenon
  DEF DiagTypeOK, DiagNext, DiagStart, ScheduleProbe, DiagSetOnline, BeginRequested,
      BeginPeriodic, EndProbes, diagVars
<1>2. /\ diagPending' \in ProbeReason \cup {BootReason, NoReason}
      /\ diagProbing' \in {"waiting", "requested", "periodic"}
  BY DEF DiagTypeOK, DiagNext, DiagStart, ScheduleProbe, DiagSetOnline, BeginRequested,
         BeginPeriodic, EndProbes, diagVars
<1> QED BY <1>1, <1>2 DEF DiagTypeOK

(* A failed forwarding asks for probes, and nothing else of the DNS server *)
(* concerns the diagnostics.                                               *)
LEMMA DnsStepsOfDiag ==
  [DnsNext \/ (DiagNext /\ UNCHANGED dnsVars)]_<<dnsVars, diagVars>> => [DiagNext]_diagVars
<1> SUFFICES ASSUME DnsNext PROVE DiagNext \/ UNCHANGED diagVars
  OBVIOUS
<1>1. CASE ForwardFailed
  BY <1>1, DnsAssumption DEF ForwardFailed, DiagNext
<1>2. CASE ~ForwardFailed
  BY <1>2 DEF DnsNext, AnswerCaptive, AnswerCached, Forward, Forwarded, DnsTick, DnsTimeSync
<1> QED BY <1>1, <1>2

(* The variables of the diagnostics task keep their types, whoever asks    *)
(* for probes.                                                             *)
THEOREM DiagTypeCorrect == DnsSpec => []DiagTypeOK
<1>1. DnsInit => DiagTypeOK
  BY DiagInitHolds DEF DnsInit
<1> QED BY <1>1, DnsStepsOfDiag, DiagStepKeepsType, PTL DEF DnsSpec

-----------------------------------------------------------------------------
(***************************************************************************)
(* All services together.  Only one of them moves, and none of them reads  *)
(* another's variables, so that a behaviour of their sum is one of each.   *)
(***************************************************************************)

LEMMA ServicesInitOfParts ==
  ServicesInit => /\ DnsInit /\ PmInit /\ CfgInit /\ ConInit /\ QuotaInit /\ RowsInit
                  /\ PortInit /\ AcInit
  BY DEF ServicesInit

LEMMA ServicesStepOfParts ==
  [ServicesNext]_servicesVars =>
    /\ [DnsNext \/ (DiagNext /\ UNCHANGED dnsVars)]_<<dnsVars, diagVars>>
    /\ [PmNext]_pmVars
    /\ [CfgNext]_cfgVars
    /\ [ConNext]_conVars
    /\ [QuotaNext]_quotaVars
    /\ [RowsNext]_rowVars
    /\ [PortNext]_portVars
    /\ [AcNext]_acVars
  BY DEF ServicesNext, servicesVars

(* A behaviour of the services is one of the DNS server and diagnostics,   *)
(* of the port mappings, of the settings, of the NVS commands, of the      *)
(* quota records and of the AC meter.                                      *)
THEOREM ServicesImplementParts ==
  ServicesSpec => DnsSpec /\ PmSpec /\ CfgSpec /\ ConSpec /\ QuotaSpec /\ AcSpec
  BY ServicesInitOfParts, ServicesStepOfParts, PTL
  DEF ServicesSpec, DnsSpec, PmSpec, CfgSpec, ConSpec, QuotaSpec, AcSpec

(* Every variable of every service keeps its type; no table, cache or      *)
(* queue of theirs grows beyond its size.                                  *)
THEOREM ServicesTypeCorrect == ServicesSpec => []ServicesTypeOK
<1>1. ServicesSpec => [](part \in Part)
  <2>1. ServicesInit => part \in Part
    BY DEF ServicesInit
  <2>2. part \in Part /\ [ServicesNext]_servicesVars => (part \in Part)'
    BY DEF ServicesNext, servicesVars
  <2> QED BY <2>1, <2>2, PTL DEF ServicesSpec
<1>2. ServicesSpec => []RowsTypeOK
  <2>1. RowsInv => RowsTypeOK
    BY DEF RowsInv
  <2> QED
    BY <2>1, ServicesInitOfParts, ServicesStepOfParts, RowsInitHolds, RowsStepKeepsInv, PTL
    DEF ServicesSpec
<1>3. ServicesSpec => []PortTypeOK
  <2>1. PortInv => PortTypeOK
    BY DEF PortInv
  <2> QED
    BY <2>1, ServicesInitOfParts, ServicesStepOfParts, PortInitHolds, PortStepKeepsInv, PTL
    DEF ServicesSpec
<1>4. /\ part \in Part /\ DnsTypeOK /\ DiagTypeOK /\ PmTypeOK /\ CfgTypeOK /\ ConTypeOK
      /\ QuotaTypeOK /\ RowsTypeOK /\ PortTypeOK /\ AcTypeOK
      => ServicesTypeOK
  BY DEF ServicesTypeOK
<1> QED
  BY <1>1, <1>2, <1>3, <1>4, ServicesImplementParts, DnsTypeCorrect, DiagTypeCorrect,
     PmTypeCorrect, CfgTypeCorrect, ConTypeCorrect, QuotaTypeCorrect, AcTypeCorrect, PTL

-----------------------------------------------------------------------------
(***************************************************************************)
(* Requested probes.  Three steps lead from a request to the end of a      *)
(* round: the end of periodic probes, the beginning and the end of the     *)
(* requested ones.                                                         *)
(***************************************************************************)

(* A request is never forgotten, and nobody starts the task but the        *)
(* diagnostics themselves.                                                 *)
ProbesInv ==
  /\ diagAsked => diagPending # NoReason
  /\ diagTask => part = "diag"

LEMMA ProbesInvKept ==
  ASSUME ProbesInv, [ServicesNext]_servicesVars PROVE ProbesInv'
<1>1. CASE part = "diag" /\ DiagNext /\ part' = part
  <2>1. (diagTask => part = "diag")'
    BY <1>1
  <2>2. CASE EndProbes
    <3>1. diagAsked' => diagAsked /\ diagPending' = diagPending
      BY <2>2 DEF EndProbes
    <3> QED BY <2>1, <3>1 DEF ProbesInv
  <2>3. CASE ~EndProbes
    BY <1>1, <2>1, <2>3, DiagAssumption
    DEF ProbesInv, DiagNext, DiagStart, ScheduleProbe, DiagSetOnline,
        BeginRequested, BeginPeriodic
  <2> QED BY <2>2, <2>3
<1>2. CASE part = "dns" /\ DnsNext /\ part' = part
  <2>1. CASE ForwardFailed
    BY <1>2, <2>1, DiagAssumption, DnsAssumption
    DEF ProbesInv, ForwardFailed, ScheduleProbe
  <2>2. CASE ~ForwardFailed
    BY <1>2, <2>2 DEF ProbesInv, DnsNext, AnswerCaptive, AnswerCached, Forward,
                      Forwarded, DnsTick, DnsTimeSync, diagVars
  <2> QED BY <2>1, <2>2
<1>3. CASE UNCHANGED diagVars /\ part' = part
  BY <1>3 DEF ProbesInv, diagVars
<1> QED BY <1>1, <1>2, <1>3 DEF ServicesNext, servicesVars

LEMMA ProbesInvAlways == ServicesSpec => []ProbesInv
<1>1. ServicesInit => ProbesInv
  BY DEF ServicesInit, DnsInit, DiagInit, ProbesInv, BootReason, NoReason
<1>2. ProbesInv /\ [ServicesNext]_servicesVars => ProbesInv'
  BY ProbesInvKept
<1> QED BY <1>1, <1>2, PTL DEF ServicesSpec

\* Somebody waits for probes while the task is at the place w.
ProbesAskedAt(w) == diagTask /\ diagAsked /\ diagProbing = w

\* Where weak fairness of the diagnostics task comes in.
ProbesReady ==
  /\ part = "diag" /\ DiagWakes /\ diagPending # NoReason
       => ENABLED <<part = "diag" /\ BeginRequested>>_diagVars
  /\ part = "diag" /\ diagProbing # "waiting"
       => ENABLED <<part = "diag" /\ EndProbes>>_diagVars

LEMMA ProbeSteps ==
  ASSUME ProbesInv, diagTask, diagAsked, [ServicesNext]_servicesVars
  PROVE  \/ UNCHANGED diagVars
         \/ ~diagAsked'
         \/ diagTask' /\ diagAsked' /\ diagProbing' = diagProbing
         \/ diagProbing = "waiting" /\ BeginRequested
         \/ diagProbing = "periodic" /\ EndProbes
<1>1. part = "diag" /\ diagPending # NoReason
  BY DEF ProbesInv
<1>2. DiagNext \/ UNCHANGED diagVars
  BY <1>1 DEF ServicesNext, servicesVars
<1>3. CASE EndProbes
  BY <1>3 DEF EndProbes
<1>4. CASE BeginRequested
  BY <1>4 DEF BeginRequested, DiagWakes
<1>5. ~BeginPeriodic
  BY <1>1 DEF BeginPeriodic
<1>6. CASE DiagStart \/ DiagSetOnline \/ \E r \in ProbeReason : ScheduleProbe(r)
  BY <1>6 DEF DiagStart, DiagSetOnline, ScheduleProbe
<1> QED BY <1>2, <1>3, <1>4, <1>5, <1>6 DEF DiagNext

(* Whoever asks for probes gets a round of them, given that the task's two *)
(* steps can be taken when their guards hold (ProbesReady).                *)
THEOREM RequestsAreProbed == ServicesSpec /\ []ProbesReady => RequestIsProbed
<1>1. ProbesInv /\ ProbesAskedAt("requested") /\ [ServicesNext]_servicesVars
        => ProbesAskedAt("requested")' \/ ~diagAsked'
  BY ProbeSteps DEF ProbesAskedAt, diagVars
<1>2. ProbesAskedAt("requested") /\ <<part = "diag" /\ EndProbes>>_diagVars
        => ~diagAsked'
  BY DEF ProbesAskedAt, EndProbes
<1>3. ProbesInv /\ ProbesReady /\ ProbesAskedAt("requested")
        => ENABLED <<part = "diag" /\ EndProbes>>_diagVars
  BY DEF ProbesInv, ProbesReady, ProbesAskedAt
<1>4. ProbesInv /\ ProbesAskedAt("waiting") /\ [ServicesNext]_servicesVars
        => ProbesAskedAt("waiting")' \/ ProbesAskedAt("requested")' \/ ~diagAsked'
  BY ProbeSteps DEF ProbesAskedAt, diagVars, BeginRequested
<1>5. ProbesInv /\ ProbesAskedAt("waiting")
        /\ <<part = "diag" /\ BeginRequested>>_diagVars
        => ProbesAskedAt("requested")'
  BY DEF ProbesAskedAt, BeginRequested
<1>6. ProbesInv /\ ProbesReady /\ ProbesAskedAt("waiting")
        => ENABLED <<part = "diag" /\ BeginRequested>>_diagVars
  BY DEF ProbesInv, ProbesReady, ProbesAskedAt, DiagWakes
<1>7. ProbesInv /\ ProbesAskedAt("periodic") /\ [ServicesNext]_servicesVars
        => ProbesAskedAt("periodic")' \/ ProbesAskedAt("waiting")' \/ ~diagAsked'
  BY ProbeSteps DEF ProbesAskedAt, diagVars, EndProbes
<1>8. ProbesAskedAt("periodic") /\ <<part = "diag" /\ EndProbes>>_diagVars
        => ProbesAskedAt("waiting")' \/ ~diagAsked'
  BY DEF ProbesAskedAt, EndProbes
<1>9. ProbesInv /\ ProbesReady /\ ProbesAskedAt("periodic")
        => ENABLED <<part = "diag" /\ EndProbes>>_diagVars
  BY DEF ProbesInv, ProbesReady, ProbesAskedAt
<1>10. DiagTypeOK /\ diagTask /\ diagAsked =>
         \/ ProbesAskedAt("requested")
         \/ ProbesAskedAt("waiting")
         \/ ProbesAskedAt("periodic")
  BY DEF DiagTypeOK, ProbesAskedAt
<1>11. ServicesSpec => []DiagTypeOK
  BY ServicesImplementParts, DiagTypeCorrect, PTL
<1> HIDE DEF ProbesAskedAt, ProbesReady, ProbesInv
<1> QED BY <1>1, <1>2, <1>3, <1>4, <1>5, <1>6, <1>7, <1>8, <1>9, <1>10, <1>11,
           ProbesInvAlways, PTL
        DEF ServicesSpec, ServicesFairness, RequestIsProbed

=============================================================================
