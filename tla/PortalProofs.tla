---------------------------- MODULE PortalProofs ----------------------------
(***************************************************************************)
(* Proofs about module Portal, for any number of slots, stations and       *)
(* addresses, any quota, any day and any set of client behaviours: every   *)
(* variable keeps its type, no station has two sessions, NAPT is on while  *)
(* anybody has access, and no session outlives its association.            *)
(***************************************************************************)
EXTENDS Portal, ClientAclProofs

\* OneSessionPerMac of a table; every live session is admitted and belongs
\* to a station of S or to none.
MacsOnce(t) ==
  \A i, j \in Live(t) : t[i].mac = t[j].mac /\ t[i].mac # NoMac => i = j

Belongs(t, S) ==
  \A i \in Live(t) : t[i].admitted /\ t[i].mac \in S \cup {NoMac}

Proper(t, S) == t \in SessionTable /\ MacsOnce(t) /\ Belongs(t, S)

-----------------------------------------------------------------------------
(* Arithmetic of the clock and the quota.                                  *)

LEMMA DivModNat ==
  ASSUME NEW x \in Nat, NEW y \in Nat \ {0}
  PROVE  x \div y \in Nat /\ x % y \in 0 .. (y - 1)
OBVIOUS

LEMMA CountersWrap ==
  ASSUME NEW x \in UInt16
  PROVE  (x + 1) % Wrap \in UInt16 /\ (x + Wrap - 1) % Wrap \in UInt16
<1>1. Wrap \in Nat \ {0}
  BY DEF Wrap
<1>2. x + 1 \in Nat /\ x + Wrap - 1 \in Nat
  BY <1>1 DEF UInt16
<1> QED BY <1>1, <1>2, DivModNat DEF UInt16

LEMMA DaysAreNat ==
  ASSUME now \in Nat, wallOffset \in Nat, clockSet \in BOOLEAN
  PROVE  Today \in Nat /\ UntilNextDay \in Nat
<1>1. WallSec \in Nat
  BY DivModNat, PortalAssumption DEF WallSec
<1>2. WallSec \div DaySec \in Nat /\ WallSec % DaySec \in 0 .. (DaySec - 1)
  BY <1>1, DivModNat, PortalAssumption
<1> QED BY <1>2, PortalAssumption DEF Today, UntilNextDay

LEMMA ElapsedIsInt ==
  ASSUME NEW s \in Session, now \in Nat
  PROVE  Elapsed(s) \in Int
<1>1. (now - s.start) \div TicksPerSec \in Int
  BY PortalAssumption DEF Session
<1> QED BY <1>1 DEF Elapsed, Lesser, Session

LEMMA QuotaOnType ==
  ASSUME NEW r \in QuotaRecord, NEW d \in Nat
  PROVE  QuotaOn(r, d) \in QuotaRecord
BY PortalAssumption DEF QuotaOn, QuotaRecord

LEMMA ChargeType ==
  ASSUME NEW r \in QuotaRecord, NEW s \in Session, now \in Nat
  PROVE  Charge(r, s) \in QuotaRecord
<1>1. Elapsed(s) \in Int /\ s.accounted \in Nat /\ s.day \in Nat
  BY ElapsedIsInt DEF Session
<1>2. QuotaOn(r, s.day) \in QuotaRecord
  BY <1>1, QuotaOnType
<1>3. QuotaOn(r, s.day).used \in 0 .. QuotaSec
  BY <1>2 DEF QuotaRecord
<1> HIDE DEF QuotaOn, Elapsed
<1> QED BY <1>1, <1>3, PortalAssumption DEF Charge, Lesser, QuotaRecord

LEMMA AccountedType ==
  ASSUME NEW s \in Session, now \in Nat
  PROVE  Accounted(s) \in Nat
<1>1. Elapsed(s) \in Int /\ s.accounted \in Nat
  BY ElapsedIsInt DEF Session
<1> QED BY <1>1 DEF Accounted

LEMMA ChargedType ==
  ASSUME NEW q \in QuotaTable, NEW t \in SessionTable, NEW R \in SUBSET Slot,
         now \in Nat
  PROVE  Charged(q, t, R) \in QuotaTable
<1>1. ASSUME NEW m \in Mac, \E i \in R : t[i].mac = m
      PROVE  Charge(q[m], t[CHOOSE i \in R : t[i].mac = m]) \in QuotaRecord
  <2>1. (CHOOSE i \in R : t[i].mac = m) \in Slot
    BY <1>1
  <2> QED BY <2>1, ChargeType DEF QuotaTable, SessionTable
<1> QED BY <1>1 DEF Charged, QuotaTable

LEMMA QuotaReadType ==
  ASSUME TypeOK, NEW mac \in MacOrNone
  PROVE  /\ QuotaRead(mac) \in QuotaTable
         /\ QuotaRemaining(QuotaRead(mac), mac) \in 0 .. QuotaSec
<1>1. Today \in Nat /\ quota \in QuotaTable
  BY DaysAreNat DEF TypeOK, QuotaTable
<1>2. QuotaRead(mac) \in QuotaTable
  BY <1>1, QuotaOnType DEF QuotaRead, QuotaTable
<1>3. mac \in Mac => QuotaRead(mac)[mac].used \in 0 .. QuotaSec
  BY <1>2 DEF QuotaTable, QuotaRecord
<1> QED BY <1>2, <1>3, PortalAssumption DEF QuotaRemaining, MacOrNone

-----------------------------------------------------------------------------
(* The session table.                                                      *)

LEMMA PortalSlotsAreNat == Slot \in SUBSET Nat /\ 0 \in Slot
BY PortalAssumption DEF Slot

LEMMA NoSessionType == NoSession \in Session
BY DEF NoSession, Session, IpOrNone, MacOrNone

(* The searches return slots.                                              *)
LEMMA SearchesAreSlots ==
  ASSUME NEW t, NEW ip, NEW mac
  PROVE  /\ Live(t) \in SUBSET Slot /\ ByIp(t, ip) \in SUBSET Slot
         /\ ByMac(t, mac) \in SUBSET Slot /\ FreeSlot(t) \in SUBSET Slot
         /\ Expired(t) \in SUBSET Slot
         /\ ByIp(t, ip) \in SUBSET Live(t) /\ ByMac(t, mac) \in SUBSET Live(t)
BY DEF Live, ByIp, ByMac, FreeSlot, Expired

LEMMA FirstSlot ==
  ASSUME NEW S \in SUBSET Slot, S # {}
  PROVE  FirstOf(S) \in S /\ FirstOf(S) \in Slot
BY FirstOfIsIn, PortalSlotsAreNat

(* Dropping sessions keeps a table proper.                                 *)
LEMMA WithoutProper ==
  ASSUME NEW t, NEW S, Proper(t, S), NEW R
  PROVE  /\ Proper(Without(t, R), S)
         /\ Live(Without(t, R)) = Live(t) \ R
         /\ \A i \in Slot \ R : Without(t, R)[i] = t[i]
<1> DEFINE u == Without(t, R)
<1>1. \A i \in Slot : u[i] = IF i \in R THEN NoSession ELSE t[i]
  BY DEF Without
<1>2. u \in SessionTable
  BY NoSessionType DEF Proper, SessionTable, Without
<1> HIDE DEF u
<1>3. Live(u) = Live(t) \ R
  BY <1>1 DEF Live, NoSession
<1>4. \A i \in Live(u) : u[i] = t[i] /\ i \in Live(t)
  BY <1>1, <1>3 DEF Live
<1>5. MacsOnce(u) /\ Belongs(u, S)
  BY <1>4 DEF Proper, MacsOnce, Belongs
<1> QED BY <1>1, <1>2, <1>3, <1>5 DEF Proper, u

(* Writing one slot keeps a table proper if no other session has the MAC.  *)
LEMMA WriteProper ==
  ASSUME NEW t, NEW S, Proper(t, S), NEW i \in Slot, NEW s \in Session,
         s.admitted, s.mac \in S \cup {NoMac},
         ByMac(t, s.mac) \subseteq {i}
  PROVE  Proper([t EXCEPT ![i] = s], S)
<1> DEFINE u == [t EXCEPT ![i] = s]
<1>1. u \in SessionTable /\ u[i] = s /\ \A j \in Slot \ {i} : u[j] = t[j]
  BY DEF Proper, SessionTable
<1> HIDE DEF u
<1>2. ASSUME NEW j \in Live(u), j # i PROVE j \in Live(t) /\ u[j] = t[j]
  BY <1>1, <1>2 DEF Live
<1>3. ASSUME NEW j \in Live(t), j # i, s.mac # NoMac PROVE t[j].mac # s.mac
  BY <1>3 DEF ByMac
<1>4. ASSUME NEW j \in Live(u), NEW k \in Live(u),
             u[j].mac = u[k].mac, u[j].mac # NoMac
      PROVE  j = k
  <2>1. CASE j # i /\ k # i
    BY <1>2, <1>4, <2>1 DEF Proper, MacsOnce
  <2>2. CASE j = i \/ k = i
    BY <1>1, <1>2, <1>3, <1>4, <2>2
  <2> QED BY <2>1, <2>2
<1>5. MacsOnce(u)
  BY <1>4 DEF MacsOnce
<1>6. Belongs(u, S)
  BY <1>1, <1>2 DEF Proper, Belongs
<1> QED BY <1>1, <1>5, <1>6 DEF Proper, u

(* The session a caller resumes or starts over: the one of its MAC, else   *)
(* the one of its address.                                                 *)
LEMMA FoundCases ==
  ASSUME NEW t, NEW ip, NEW mac
  PROVE  /\ Found(t, ip, mac) \in SUBSET Live(t)
         /\ Found(t, ip, mac) # {} =>
              /\ FirstOf(Found(t, ip, mac)) \in Found(t, ip, mac)
              /\ FirstOf(Found(t, ip, mac)) \in Live(t)
              /\ \/ FirstOf(Found(t, ip, mac)) \in ByMac(t, mac)
                 \/ ByMac(t, mac) = {}
<1>1. ASSUME NEW i \in Slot PROVE {i} \in SUBSET Slot /\ {i} # {}
  OBVIOUS
<1>2. ByMac(t, mac) # {} => FirstOf(ByMac(t, mac)) \in ByMac(t, mac)
  BY SearchesAreSlots, FirstSlot
<1>3. ByIp(t, ip) # {} => FirstOf(ByIp(t, ip)) \in ByIp(t, ip)
  BY SearchesAreSlots, FirstSlot
<1>4. ASSUME Found(t, ip, mac) # {}
      PROVE  \E i \in Live(t) : /\ Found(t, ip, mac) = {i}
                                /\ i \in ByMac(t, mac) \/ ByMac(t, mac) = {}
  BY <1>2, <1>3, <1>4, SearchesAreSlots DEF Found
<1>5. ASSUME Found(t, ip, mac) # {}
      PROVE  FirstOf(Found(t, ip, mac)) \in Found(t, ip, mac)
  <2>1. Found(t, ip, mac) \in SUBSET Slot
    BY <1>4, <1>5, SearchesAreSlots
  <2> QED BY <1>5, <2>1, FirstSlot
<1> QED BY <1>4, <1>5

LEMMA NewSlotIsOnly ==
  ASSUME NEW t, NEW S, Proper(t, S), NEW found \in SUBSET Slot, NEW mac
  PROVE  /\ NewSlot(t, found, mac) \in Slot
         /\ ByMac(t, mac) \subseteq {NewSlot(t, found, mac)}
<1>1. CASE ByMac(t, mac) # {}
  <2>1. NewSlot(t, found, mac) = FirstOf(ByMac(t, mac))
    BY <1>1 DEF NewSlot
  <2>2. FirstOf(ByMac(t, mac)) \in ByMac(t, mac)
    BY <1>1, SearchesAreSlots, FirstSlot
  <2>3. \A i, j \in ByMac(t, mac) : i = j
    BY DEF ByMac, Proper, MacsOnce
  <2> QED BY <2>1, <2>2, <2>3, SearchesAreSlots
<1>2. CASE ByMac(t, mac) = {}
  <2>1. found # {} => FirstOf(found) \in Slot
    BY FirstSlot
  <2>2. FreeSlot(t) # {} => FirstOf(FreeSlot(t)) \in Slot
    BY SearchesAreSlots, FirstSlot
  <2> QED BY <1>2, <2>1, <2>2, PortalSlotsAreNat DEF NewSlot
<1> QED BY <1>1, <1>2

(* Starting or resuming a session of a station keeps the table proper.     *)
LEMMA StartedProper ==
  ASSUME NEW t, NEW S \in SUBSET Mac, Proper(t, S), TypeOK,
         NEW ip \in IpOrNone, NEW mac \in S \cup {NoMac}, NEW granted \in Nat
  PROVE  Proper(Started(t, ip, mac, granted), S)
<1> DEFINE found == Found(t, ip, mac)
           rest == Without(t, found)
           i == FirstOf(found)
           k == NewSlot(rest, found, mac)
<1>1. found \in SUBSET Live(t) /\ found \in SUBSET Slot
  BY FoundCases, SearchesAreSlots
<1>2. CASE found \ Expired(t) # {}
  <2> DEFINE s == [t[i] EXCEPT !.ip = ip, !.admitted = TRUE,
                               !.mac = IF mac = NoMac THEN @ ELSE mac,
                               !.hash = @ \/ mac # NoMac \/ ip # NoIp]
  <2>1. i \in found /\ i \in Live(t)
        /\ (i \in ByMac(t, mac) \/ ByMac(t, mac) = {})
    BY <1>2, FoundCases
  <2>2. i \in Slot /\ t[i] \in Session /\ t[i].mac \in S \cup {NoMac}
    BY <2>1, SearchesAreSlots DEF Proper, SessionTable, Belongs
  <2>3. Started(t, ip, mac, granted) = Rebound(t, i, ip, mac)
    BY <1>2 DEF Started
  <2> HIDE DEF i, found
  <2>4. /\ s \in Session /\ s.admitted
        /\ s.mac = IF mac = NoMac THEN t[i].mac ELSE mac
    BY <2>2 DEF Session, MacOrNone
  <2>5. ByMac(t, s.mac) \subseteq {i}
    <3>1. CASE mac = NoMac
      BY <2>1, <2>4, <3>1 DEF ByMac, Proper, MacsOnce
    <3>2. CASE mac # NoMac /\ ByMac(t, mac) = {}
      BY <2>4, <3>2
    <3>3. CASE mac # NoMac /\ i \in ByMac(t, mac)
      BY <2>4, <3>3 DEF ByMac, Proper, MacsOnce
    <3> QED BY <2>1, <3>1, <3>2, <3>3
  <2>7. Rebound(t, i, ip, mac) = [t EXCEPT ![i] = s]
    BY <2>2 DEF Rebound, Proper, SessionTable, Session
  <2> HIDE DEF s
  <2>6. Proper([t EXCEPT ![i] = s], S)
    BY <2>2, <2>4, <2>5, WriteProper
  <2> QED BY <2>3, <2>6, <2>7
<1>3. CASE found \ Expired(t) = {}
  <2>1. Proper(rest, S)
    BY WithoutProper
  <2>2. Started(t, ip, mac, granted) =
          [rest EXCEPT ![k] = NewSession(ip, mac, granted)]
    BY <1>3 DEF Started
  <2>3. k \in Slot /\ ByMac(rest, mac) \subseteq {k}
    BY <1>1, <2>1, NewSlotIsOnly
  <2>4. Today \in Nat /\ now \in Nat
    BY DaysAreNat DEF TypeOK
  <2> DEFINE s == NewSession(ip, mac, granted)
  <2>5. s \in Session /\ s.admitted /\ s.mac = mac
    BY <2>4 DEF NewSession, Session, MacOrNone
  <2> HIDE DEF k, rest, s
  <2>6. Proper([rest EXCEPT ![k] = s], S)
    BY <2>1, <2>3, <2>5, WriteProper
  <2> QED BY <2>2, <2>6 DEF s
<1> QED BY <1>2, <1>3

-----------------------------------------------------------------------------
(* What the packet filter table is after a revocation.                     *)
LEMMA CutType ==
  ASSUME NEW a \in AclTable, NEW t, NEW R
  PROVE  Cut(a, t, R) \in AclTable
BY DEF Cut, AclTable, AclEntry

(***************************************************************************)
(* A refresh keeps the table proper and the types, and leaves NAPT on for  *)
(* whoever has access, if it was on for those who had it before.           *)
(***************************************************************************)
LEMMA RefreshKeeps ==
  ASSUME NEW S \in SUBSET Mac, NEW t, Proper(t, S), NEW R \in SUBSET Slot,
         NEW q \in QuotaTable, NEW global \in Nat, NEW natOn \in BOOLEAN,
         now \in Nat, now' = now, Access(t, global) => natOn,
         Refresh(t, R, q, global, natOn)
  PROVE  /\ Proper(sessions', S)
         /\ quota' \in QuotaTable
         /\ globalEnd' \in Nat
         /\ authenticated' \in BOOLEAN
         /\ napt' \in BOOLEAN
         /\ NaptServesAccess'
<1> DEFINE gone == R \cup Expired(t)
           kept == Without(t, gone)
           left == IF global <= now THEN 0 ELSE global
<1>1. gone \in SUBSET Slot /\ t \in SessionTable
  BY SearchesAreSlots DEF Proper
<1>2. /\ sessions' = kept /\ quota' = Charged(q, t, gone)
      /\ globalEnd' = left /\ authenticated' = Access(kept, left)
      /\ napt' \in IF Access(kept, left) THEN {natOn} ELSE {natOn, FALSE}
  BY DEF Refresh
<1>3. Proper(kept, S)
  BY WithoutProper
<1>4. Charged(q, t, gone) \in QuotaTable
  BY <1>1, ChargedType
<1>5. left \in Nat
  OBVIOUS
<1>6. Live(kept) = Live(t) \ gone /\ \A i \in Live(kept) : kept[i] = t[i]
  <2>1. /\ Live(kept) = Live(t) \ gone
        /\ \A i \in Slot \ gone : kept[i] = t[i]
    BY WithoutProper
  <2> QED BY <2>1, SearchesAreSlots
<1> HIDE DEF kept
<1>7. Access(kept, left) => Access(t, global)
  BY <1>6 DEF Access
<1>8. Access(kept, left) \in BOOLEAN
  BY DEF Access
<1>9. napt' \in BOOLEAN /\ (Access(kept, left) => napt')
  BY <1>2, <1>7
<1>10. Access(sessions, globalEnd)' = Access(sessions', globalEnd')
  BY DEF Access, Live
<1>11. NaptServesAccess'
  BY <1>2, <1>9, <1>10 DEF NaptServesAccess
<1> QED BY <1>2, <1>3, <1>4, <1>5, <1>8, <1>9, <1>11

-----------------------------------------------------------------------------
(***************************************************************************)
(* The inductive invariant.  Beyond the properties it says that a live     *)
(* session is admitted, without which an assigned address could give       *)
(* access while NAPT is off, and that the cached MAC is that of a station, *)
(* without which a request could start a session of a station that left.   *)
(***************************************************************************)
PortalInv ==
  /\ TypeOK
  /\ Proper(sessions, stations)
  /\ NaptServesAccess
  /\ lastMac \in stations \cup {NoMac}

\* What a step that leaves S associated does to the session manager.
CoreKept(S) ==
  /\ Proper(sessions', S)
  /\ quota' \in QuotaTable
  /\ acl' \in AclTable
  /\ globalEnd' \in Nat
  /\ authenticated' \in BOOLEAN
  /\ napt' \in BOOLEAN
  /\ NaptServesAccess'

EnvType ==
  /\ now \in Nat /\ clockSet \in BOOLEAN /\ wallOffset \in Nat
  /\ apConnect \in BOOLEAN /\ stations \in SUBSET Mac
  /\ addr \in AddrTable /\ leased \in SUBSET Mac
  /\ lastMac \in stations \cup {NoMac} /\ connectCount \in UInt16

LEMMA TakenApart ==
  PortalInv => /\ EnvType
               /\ quota \in QuotaTable /\ acl \in AclTable
               /\ globalEnd \in Nat /\ authenticated \in BOOLEAN
               /\ napt \in BOOLEAN
               /\ Access(sessions, globalEnd) => napt
<1> SUFFICES ASSUME PortalInv
             PROVE  /\ EnvType
                    /\ quota \in QuotaTable /\ acl \in AclTable
                    /\ globalEnd \in Nat /\ authenticated \in BOOLEAN
                    /\ napt \in BOOLEAN
                    /\ Access(sessions, globalEnd) => napt
  OBVIOUS
<1>1. connectCount \in UInt16 /\ addr \in AddrTable
  BY DEF PortalInv, TypeOK
<1>3. /\ now \in Nat /\ wallOffset \in Nat
      /\ clockSet \in BOOLEAN /\ apConnect \in BOOLEAN
  BY DEF PortalInv, TypeOK
<1>4. /\ stations \in SUBSET Mac /\ leased \in SUBSET Mac
      /\ lastMac \in stations \cup {NoMac}
  BY DEF PortalInv, TypeOK
<1>5. /\ quota \in QuotaTable /\ globalEnd \in Nat
      /\ authenticated \in BOOLEAN /\ napt \in BOOLEAN
  BY DEF PortalInv, TypeOK
<1>6. acl \in AclTable
  BY DEF PortalInv, TypeOK, AclTypeOK, AclTable
<1>7. Access(sessions, globalEnd) => napt
  BY Zenon DEF PortalInv, NaptServesAccess
<1> QED BY <1>1, <1>3, <1>4, <1>5, <1>6, <1>7, Zenon DEF EnvType

LEMMA Assembled ==
  ASSUME EnvType', CoreKept(stations')
  PROVE  PortalInv'
<1>1. connectCount' \in UInt16 /\ addr' \in AddrTable
  BY DEF EnvType
<1>2. /\ now' \in Nat /\ wallOffset' \in Nat
      /\ clockSet' \in BOOLEAN /\ apConnect' \in BOOLEAN
  BY DEF EnvType
<1>3. /\ stations' \subseteq Mac /\ leased' \subseteq Mac
      /\ lastMac' \in MacOrNone /\ lastMac' \in stations' \cup {NoMac}
  BY DEF EnvType, MacOrNone
<1>4. sessions' \in SessionTable
  BY DEF CoreKept, Proper
<1>5. /\ quota' \in QuotaTable /\ globalEnd' \in Nat
      /\ authenticated' \in BOOLEAN /\ napt' \in BOOLEAN
      /\ NaptServesAccess'
  BY Zenon DEF CoreKept
<1>6. AclTypeOK'
  BY DEF CoreKept, AclTable, AclTypeOK
<1>7. TypeOK'
  BY <1>1, <1>2, <1>3, <1>4, <1>5, <1>6, Zenon DEF TypeOK, AddrTable
<1>8. Proper(sessions, stations)'
  BY Zenon DEF CoreKept, Proper, MacsOnce, Belongs, Live
<1> QED BY <1>3, <1>5, <1>7, <1>8, Zenon DEF PortalInv

LEMMA EnvKept ==
  ASSUME EnvType, UNCHANGED <<now, env>>
  PROVE  EnvType'
<1>1. /\ now' = now /\ clockSet' = clockSet /\ wallOffset' = wallOffset
      /\ apConnect' = apConnect /\ stations' = stations /\ addr' = addr
      /\ leased' = leased /\ lastMac' = lastMac
      /\ connectCount' = connectCount
  BY DEF env
<1> QED BY <1>1, Zenon DEF EnvType

LEMMA MoreStations ==
  ASSUME NEW t, NEW S, NEW P, S \subseteq P, Proper(t, S)
  PROVE  Proper(t, P)
BY DEF Proper, Belongs

LEMMA UnchangedKept ==
  ASSUME PortalInv, NEW S, Proper(sessions, S), now' = now,
         UNCHANGED <<sessions, acl, globalEnd, authenticated, napt>>,
         quota' \in QuotaTable
  PROVE  CoreKept(S)
<1>1. NaptServesAccess'
  BY DEF PortalInv, NaptServesAccess, Access, Live
<1> QED BY <1>1, TakenApart DEF CoreKept

LEMMA RefreshedKept ==
  ASSUME PortalInv, NEW S \in SUBSET Mac, NEW t, Proper(t, S),
         NEW R \in SUBSET Slot, NEW q \in QuotaTable, NEW global \in Nat,
         NEW natOn \in BOOLEAN, now' = now, Access(t, global) => natOn,
         Refresh(t, R, q, global, natOn), acl' \in AclTable
  PROVE  CoreKept(S)
<1>1. now \in Nat
  BY DEF PortalInv, TypeOK
<1> QED BY <1>1, RefreshKeeps DEF CoreKept

LEMMA RevokeKept ==
  ASSUME PortalInv, NEW R \in SUBSET Slot, now' = now, Revoke(R)
  PROVE  CoreKept(stations)
<1>1. Proper(sessions, stations) /\ stations \in SUBSET Mac
  BY DEF PortalInv, TypeOK
<1>2. acl' \in AclTable
  BY TakenApart, CutType DEF Revoke
<1>3. Refresh(sessions, R, quota, globalEnd, napt)
  BY DEF Revoke
<1> QED BY <1>1, <1>2, <1>3, TakenApart, RefreshedKept

LEMMA StartKept ==
  ASSUME PortalInv, NEW S \in SUBSET Mac, stations \subseteq S, now' = now,
         NEW ip \in IpOrNone, NEW mac \in S \cup {NoMac}, NEW granted \in Nat,
         NEW q \in QuotaTable, StartOrResume(ip, mac, granted, q)
  PROVE  CoreKept(S)
<1> DEFINE early == IF ip = NoIp THEN Expired(sessions) ELSE {}
           t == Without(sessions, early)
           a == Cut(acl, sessions, early)
           next == Started(t, ip, mac, granted)
           resumed == Found(t, ip, mac) \ Expired(t) # {}
           global == IF ip = NoIp THEN now + granted * TicksPerSec
                     ELSE IF resumed THEN globalEnd ELSE 0
           charged == Charged(q, sessions, early)
<1>1. /\ Refresh(next, {}, charged, global, TRUE)
      /\ acl' = AclAdmit(Cut(a, next, Expired(next)), ip, mac)
  BY DEF StartOrResume
<1>2. Proper(sessions, S)
  BY MoreStations DEF PortalInv
<1>3. early \in SUBSET Slot /\ now \in Nat
  BY SearchesAreSlots DEF PortalInv, TypeOK
<1>4. Proper(t, S)
  BY <1>2, WithoutProper
<1>5. TypeOK
  BY DEF PortalInv
<1>6. Proper(next, S)
  <2> HIDE DEF t
  <2> QED BY <1>4, <1>5, StartedProper
<1>7. charged \in QuotaTable
  <2>1. sessions \in SessionTable
    BY <1>2 DEF Proper
  <2> HIDE DEF early
  <2> QED BY <2>1, <1>3, ChargedType
<1>8. global \in Nat
  <2>1. granted * TicksPerSec \in Nat
    BY PortalAssumption
  <2> HIDE DEF resumed
  <2> QED BY <2>1, <1>3, TakenApart
<1>9. acl' \in AclTable
  <2>1. Cut(a, next, Expired(next)) \in AclTable
    <3>1. a \in AclTable
      BY TakenApart, CutType
    <3> HIDE DEF a, next
    <3> QED BY <3>1, CutType
  <2>2. ip \in Ip \cup {NoIp} /\ mac \in Mac \cup {NoMac}
    BY DEF IpOrNone
  <2> HIDE DEF a, next
  <2> QED BY <1>1, <2>1, <2>2, AdmitType
<1> HIDE DEF next, charged, global
<1>10. {} \in SUBSET Slot /\ TRUE \in BOOLEAN
  OBVIOUS
<1> QED BY <1>1, <1>6, <1>7, <1>8, <1>9, <1>10, RefreshedKept

-----------------------------------------------------------------------------
(* The actions.  Each keeps the invariant.                                 *)

\* The actions that leave the stations and the clock alone.
LEMMA SameStations ==
  ASSUME PortalInv, UNCHANGED <<now, env>>, CoreKept(stations)
  PROVE  PortalInv'
<1>1. stations' = stations
  BY DEF env
<1> QED BY <1>1, TakenApart, EnvKept, Assembled

LEMMA ConfirmMacType ==
  ASSUME PortalInv, NEW ip \in IpOrNone, NEW mac \in ConfirmMac(ip)
  PROVE  mac \in stations \cup {NoMac} /\ mac \in MacOrNone
<1>1. lastMac \in stations \cup {NoMac} /\ stations \in SUBSET Mac
  BY DEF PortalInv, TypeOK
<1> QED BY <1>1 DEF ConfirmMac, LeaseHolder, MacOrNone

LEMMA CallersType == PortalInv => Callers \in SUBSET IpOrNone
<1> SUFFICES ASSUME PortalInv PROVE Callers \in SUBSET IpOrNone
  OBVIOUS
<1>1. addr \in AddrTable
  BY DEF PortalInv, TypeOK
<1> QED BY <1>1 DEF Callers, IpOrNone, AddrTable

LEMMA ConfirmRefusedKeeps ==
  ASSUME PortalInv, NEW ip \in IpOrNone, ConfirmRefused(ip)
  PROVE  PortalInv'
<1>1. PICK mac \in ConfirmMac(ip) : Refused(QuotaRead(mac))
  BY DEF ConfirmRefused
<1>2. QuotaRead(mac) \in QuotaTable
  BY ConfirmMacType, QuotaReadType DEF PortalInv
<1>3. /\ quota' \in QuotaTable
      /\ UNCHANGED <<sessions, acl, globalEnd, authenticated, napt>>
  BY <1>1, <1>2 DEF Refused
<1>4. UNCHANGED <<now, env>> /\ now' = now
  BY DEF ConfirmRefused
<1>5. Proper(sessions, stations)
  BY DEF PortalInv
<1>6. CoreKept(stations)
  BY <1>3, <1>4, <1>5, UnchangedKept
<1> QED BY <1>4, <1>6, SameStations

LEMMA ConfirmGrantedKeeps ==
  ASSUME PortalInv, NEW ip \in IpOrNone, ConfirmGranted(ip)
  PROVE  PortalInv'
<1>1. PICK mac \in ConfirmMac(ip) :
        LET q == QuotaRead(mac)
            remaining == QuotaRemaining(q, mac)
            granted == IF mac = NoMac THEN QuotaSec
                       ELSE Lesser(remaining, UntilNextDay)
        IN  StartOrResume(ip, mac, granted, q)
  BY DEF ConfirmGranted
<1> DEFINE q == QuotaRead(mac)
           remaining == QuotaRemaining(q, mac)
           granted == IF mac = NoMac THEN QuotaSec
                      ELSE Lesser(remaining, UntilNextDay)
<1>2. mac \in stations \cup {NoMac}
  BY ConfirmMacType
<1>3. q \in QuotaTable /\ remaining \in 0 .. QuotaSec
  BY ConfirmMacType, QuotaReadType DEF PortalInv
<1>4. UntilNextDay \in Nat
  BY DaysAreNat DEF PortalInv, TypeOK
<1> HIDE DEF q, remaining
<1>5. granted \in Nat
  BY <1>3, <1>4, PortalAssumption DEF Lesser
<1>6. StartOrResume(ip, mac, granted, q)
  BY <1>1 DEF q, remaining
<1>7. UNCHANGED <<now, env>> /\ now' = now
  BY DEF ConfirmGranted
<1>8. stations \in SUBSET Mac
  BY DEF PortalInv, TypeOK
<1> HIDE DEF granted
<1>9. CoreKept(stations)
  BY <1>2, <1>3, <1>5, <1>6, <1>7, <1>8, StartKept
<1> QED BY <1>7, <1>9, SameStations

LEMMA ProbeExpiredKeeps ==
  ASSUME PortalInv, NEW ip, ProbeExpired(ip)
  PROVE  PortalInv'
<1>1. PICK i \in Expired(sessions) : Revoke({i})
  BY DEF ProbeExpired
<1>2. {i} \in SUBSET Slot
  BY SearchesAreSlots
<1>3. UNCHANGED <<now, env>> /\ now' = now
  BY DEF ProbeExpired
<1>4. CoreKept(stations)
  BY <1>1, <1>2, <1>3, RevokeKept
<1> QED BY <1>3, <1>4, SameStations

\* A session that only changes its address, and is admitted.
LEMMA ReboundAddress ==
  ASSUME NEW t, NEW S, Proper(t, S), NEW i \in Live(t), NEW ip \in IpOrNone
  PROVE  /\ Proper([t EXCEPT ![i].ip = ip], S)
         /\ [t EXCEPT ![i].ip = ip, ![i].admitted = TRUE]
              = [t EXCEPT ![i].ip = ip]
         /\ \A global : Access([t EXCEPT ![i].ip = ip], global)
                          => Access(t, global)
<1> DEFINE s == [t[i] EXCEPT !.ip = ip]
           u == [t EXCEPT ![i].ip = ip]
<1>1. /\ i \in Slot /\ t[i] \in Session /\ t[i].admitted /\ t[i].active
      /\ t[i].mac \in S \cup {NoMac}
  BY DEF Live, Proper, SessionTable, Belongs
<1>2. /\ s \in Session /\ s.admitted /\ s.mac = t[i].mac
      /\ s.start = t[i].start /\ s.granted = t[i].granted
  BY <1>1 DEF Session
<1>3. u = [t EXCEPT ![i] = s]
  BY <1>1
<1>4. ByMac(t, s.mac) \subseteq {i}
  BY <1>2 DEF ByMac, Proper, MacsOnce
<1>5. Proper(u, S)
  <2> HIDE DEF s, u
  <2> QED BY <1>1, <1>2, <1>3, <1>4, WriteProper
<1>6. [t EXCEPT ![i].ip = ip, ![i].admitted = TRUE] = u
  BY <1>1 DEF Proper, SessionTable, Session
<1>7. ASSUME NEW global, Access(u, global) PROVE Access(t, global)
  <2>1. /\ u[i] = s /\ \A j \in Slot \ {i} : u[j] = t[j]
    BY <1>1, <1>3 DEF Proper, SessionTable
  <2>2. ASSUME NEW j \in Live(u), u[j].admitted, EndTime(u[j]) > now
        PROVE  j \in Live(t) /\ t[j].admitted /\ EndTime(t[j]) > now
    <3>1. CASE j = i
      BY <1>1, <1>2, <2>1, <2>2, <3>1 DEF EndTime
    <3>2. CASE j # i
      BY <2>1, <2>2, <3>2 DEF Live
    <3> QED BY <3>1, <3>2
  <2> HIDE DEF u
  <2> QED BY <1>7, <2>2 DEF Access
<1> QED BY <1>5, <1>6, <1>7

LEMMA ProbeByMacKeeps ==
  ASSUME PortalInv, NEW ip \in IpOrNone, ProbeByMac(ip)
  PROVE  PortalInv'
<1>1. UNCHANGED <<now, env>> /\ now' = now
  BY DEF ProbeByMac
<1>2. PICK m \in LeaseHolder(ip) :
        /\ ByMac(sessions, m) # {}
        /\ LET i == FirstOf(ByMac(sessions, m))
           IN  \/ Revoke({i})
               \/ /\ sessions' = [sessions EXCEPT ![i].ip = ip]
                  /\ acl' = AclAdmit(acl, ip, m)
                  /\ UNCHANGED <<quota, globalEnd, authenticated, napt>>
  BY DEF ProbeByMac
<1> DEFINE i == FirstOf(ByMac(sessions, m))
<1>3. i \in Live(sessions) /\ i \in Slot
  BY <1>2, SearchesAreSlots, FirstSlot
<1>4. m \in Mac /\ Proper(sessions, stations)
  BY DEF LeaseHolder, PortalInv, TypeOK
<1>5. CASE Revoke({i})
  <2>1. {i} \in SUBSET Slot
    BY <1>3
  <2>2. CoreKept(stations)
    BY <1>1, <1>5, <2>1, RevokeKept
  <2> QED BY <1>1, <2>2, SameStations
<1>6. CASE /\ sessions' = [sessions EXCEPT ![i].ip = ip]
           /\ acl' = AclAdmit(acl, ip, m)
           /\ UNCHANGED <<quota, globalEnd, authenticated, napt>>
  <2> HIDE DEF i
  <2>1. /\ Proper(sessions', stations)
        /\ Access(sessions', globalEnd) => Access(sessions, globalEnd)
    BY <1>3, <1>4, <1>6, ReboundAddress
  <2>2. acl' \in AclTable
    BY <1>4, <1>6, TakenApart, AdmitType DEF IpOrNone
  <2>3. Access(sessions, globalEnd)' = Access(sessions', globalEnd)
    BY <1>1, <1>6 DEF Access, Live
  <2>4. NaptServesAccess'
    <3>1. authenticated' = authenticated /\ napt' = napt
      BY <1>6
    <3> QED BY <2>1, <2>3, <3>1, Zenon DEF PortalInv, NaptServesAccess
  <2>5. /\ quota' = quota /\ globalEnd' = globalEnd
        /\ authenticated' = authenticated /\ napt' = napt
    BY <1>6
  <2>6. CoreKept(stations)
    BY <2>1, <2>2, <2>4, <2>5, TakenApart DEF CoreKept
  <2> QED BY <1>1, <2>6, SameStations
<1> QED BY <1>2, <1>5, <1>6

LEMMA AssociatedKeeps ==
  ASSUME PortalInv, NEW m \in Mac, Associated(m)
  PROVE  /\ EnvType' /\ now' = now
         /\ stations' = stations \cup {m} /\ stations' \in SUBSET Mac
         /\ Proper(sessions, stations')
<1>1. /\ stations' = stations \cup {m} /\ lastMac' = m
      /\ connectCount' = (connectCount + 1) % Wrap
      /\ now' = now /\ clockSet' = clockSet /\ wallOffset' = wallOffset
      /\ apConnect' = apConnect /\ addr' = addr /\ leased' = leased
  BY DEF Associated
<1>2. EnvType /\ Proper(sessions, stations)
  BY TakenApart DEF PortalInv
<1>3. stations' \in SUBSET Mac /\ lastMac' \in stations' \cup {NoMac}
  BY <1>1, <1>2 DEF EnvType
<1>4. connectCount' \in UInt16
  BY <1>1, <1>2, CountersWrap DEF EnvType
<1>5. EnvType'
  <2>1. /\ now' \in Nat /\ wallOffset' \in Nat /\ addr' \in AddrTable
        /\ clockSet' \in BOOLEAN /\ apConnect' \in BOOLEAN
        /\ leased' \in SUBSET Mac
    BY <1>1, <1>2 DEF EnvType
  <2> QED BY <1>3, <1>4, <2>1, Zenon DEF EnvType
<1>6. Proper(sessions, stations')
  BY <1>1, <1>2, MoreStations
<1> QED BY <1>1, <1>3, <1>5, <1>6

LEMMA ConnectToPortalKeeps ==
  ASSUME PortalInv, NEW m \in Mac, ConnectToPortal(m)
  PROVE  PortalInv'
<1>1. Associated(m) /\ (Refused(quota) \/ Refused(QuotaRead(m)))
  BY DEF ConnectToPortal
<1>2. QuotaRead(m) \in QuotaTable /\ quota \in QuotaTable
  BY QuotaReadType, TakenApart DEF PortalInv, MacOrNone
<1>3. /\ quota' \in QuotaTable
      /\ UNCHANGED <<sessions, acl, globalEnd, authenticated, napt>>
  BY <1>1, <1>2 DEF Refused
<1>4. CoreKept(stations')
  BY <1>1, <1>3, AssociatedKeeps, UnchangedKept
<1> QED BY <1>1, <1>4, AssociatedKeeps, Assembled

LEMMA ConnectResumedKeeps ==
  ASSUME PortalInv, NEW m \in Mac, ConnectResumed(m)
  PROVE  PortalInv'
<1> DEFINE q == QuotaRead(m)
           remaining == QuotaRemaining(q, m)
<1>1. Associated(m) /\ StartOrResume(NoIp, m, remaining, q)
  BY DEF ConnectResumed
<1>2. q \in QuotaTable /\ remaining \in 0 .. QuotaSec
  BY QuotaReadType DEF PortalInv, MacOrNone
<1>3. remaining \in Nat /\ NoIp \in IpOrNone
  BY <1>2, PortalAssumption DEF IpOrNone
<1> HIDE DEF q, remaining
<1>4. /\ stations' \in SUBSET Mac /\ stations \subseteq stations'
      /\ m \in stations' \cup {NoMac} /\ now' = now
  BY <1>1, AssociatedKeeps
<1>5. CoreKept(stations')
  BY <1>1, <1>2, <1>3, <1>4, StartKept
<1> QED BY <1>1, <1>5, AssociatedKeeps, Assembled

LEMMA AddressKeeps ==
  ASSUME PortalInv, NEW m \in Mac, NEW ip \in IpOrNone,
         addr' = [addr EXCEPT ![m] = ip], leased' \in SUBSET Mac,
         UNCHANGED <<now, clockSet, wallOffset, apConnect, stations, lastMac,
                     connectCount>>
  PROVE  EnvType'
<1>1. EnvType
  BY TakenApart
<1>2. addr' \in AddrTable
  BY <1>1 DEF EnvType, AddrTable
<1>3. /\ now' = now /\ clockSet' = clockSet /\ wallOffset' = wallOffset
      /\ apConnect' = apConnect /\ stations' = stations /\ lastMac' = lastMac
      /\ connectCount' = connectCount
  OBVIOUS
<1> QED BY <1>1, <1>2, <1>3, Zenon DEF EnvType

LEMMA IpAssignedKeeps ==
  ASSUME PortalInv, NEW m \in Mac, NEW ip \in Ip, IpAssigned(m, ip)
  PROVE  PortalInv'
<1> DEFINE mine == ByMac(sessions, m) \ Expired(sessions)
           i == FirstOf(mine)
           t == [sessions EXCEPT ![i].ip = ip, ![i].admitted = TRUE]
           a == IF sessions[i].ip = ip THEN acl
                ELSE AclRevokeByIp(acl, sessions[i].ip)
<1>1. /\ addr' = [addr EXCEPT ![m] = ip] /\ leased' = leased \cup {m}
      /\ UNCHANGED <<now, clockSet, wallOffset, apConnect, stations, lastMac,
                     connectCount>>
      /\ IF mine = {} THEN UNCHANGED core
         ELSE /\ Refresh(t, {}, quota, globalEnd, napt)
              /\ acl' = Cut(AclAdmit(a, ip, m), t, Expired(t))
  BY DEF IpAssigned
<1>2. leased' \in SUBSET Mac /\ ip \in IpOrNone
  BY <1>1 DEF PortalInv, TypeOK, IpOrNone
<1>3. EnvType' /\ now' = now /\ stations' = stations
  BY <1>1, <1>2, AddressKeeps
<1>4. Proper(sessions, stations) /\ stations \in SUBSET Mac
  BY DEF PortalInv, TypeOK
<1>5. CASE mine = {}
  <2>1. UNCHANGED <<sessions, acl, globalEnd, authenticated, napt>>
        /\ quota' \in QuotaTable
    BY <1>1, <1>5, TakenApart DEF core
  <2>2. CoreKept(stations)
    BY <1>3, <1>4, <2>1, UnchangedKept
  <2> QED BY <1>3, <2>2, Assembled
<1>6. CASE mine # {}
  <2>1. i \in Live(sessions)
    BY <1>6, SearchesAreSlots, FirstSlot
  <2>2. /\ Proper(t, stations)
        /\ Access(t, globalEnd) => Access(sessions, globalEnd)
    <3> HIDE DEF i
    <3> QED BY <1>2, <1>4, <2>1, ReboundAddress
  <2>3. a \in AclTable
    BY TakenApart, RevokeType
  <2>4. acl' \in AclTable
    <3>1. AclAdmit(a, ip, m) \in AclTable
      <4> HIDE DEF a
      <4> QED BY <2>3, AdmitType
    <3> HIDE DEF a, t
    <3> QED BY <1>1, <1>6, <3>1, CutType
  <2>5. Refresh(t, {}, quota, globalEnd, napt) /\ {} \in SUBSET Slot
    BY <1>1, <1>6
  <2> HIDE DEF t
  <2>6. CoreKept(stations)
    BY <1>3, <1>4, <2>2, <2>4, <2>5, TakenApart, RefreshedKept
  <2> QED BY <1>3, <2>6, Assembled
<1> QED BY <1>5, <1>6

LEMMA StaticAddressKeeps ==
  ASSUME PortalInv, NEW m \in Mac, NEW ip \in Ip, StaticAddress(m, ip)
  PROVE  PortalInv'
<1>1. /\ addr' = [addr EXCEPT ![m] = ip] /\ leased' = leased
      /\ UNCHANGED <<now, clockSet, wallOffset, apConnect, stations, lastMac,
                     connectCount>>
      /\ UNCHANGED core
  BY DEF StaticAddress
<1>2. leased' \in SUBSET Mac /\ ip \in IpOrNone
  BY <1>1 DEF PortalInv, TypeOK, IpOrNone
<1>3. EnvType' /\ now' = now /\ stations' = stations
  BY <1>1, <1>2, AddressKeeps
<1>4. UNCHANGED <<sessions, acl, globalEnd, authenticated, napt>>
      /\ quota' \in QuotaTable
  BY <1>1, TakenApart DEF core
<1>5. CoreKept(stations)
  BY <1>3, <1>4, UnchangedKept DEF PortalInv
<1> QED BY <1>3, <1>5, Assembled

LEMMA NobodyLeft ==
  ASSUME NEW t, NEW S, NEW m \in Mac, Proper(t, S), ByMac(t, m) = {}
  PROVE  Proper(t, S \ {m})
<1>1. m # NoMac
  BY AclAssumption
<1>2. \A i \in Live(t) : t[i].mac # m
  BY <1>1 DEF ByMac
<1> QED BY <1>2 DEF Proper, Belongs

LEMMA DisconnectedKeeps ==
  ASSUME PortalInv, NEW m \in Mac, Disconnected(m)
  PROVE  PortalInv'
<1>1. /\ stations' = stations \ {m} /\ leased' = leased \ {m}
      /\ addr' = IF "late" \in Clients THEN addr ELSE [addr EXCEPT ![m] = NoIp]
      /\ connectCount' = (connectCount + Wrap - 1) % Wrap
      /\ lastMac' = LastMacWithout(m)
      /\ now' = now /\ clockSet' = clockSet /\ wallOffset' = wallOffset
      /\ apConnect' = apConnect
      /\ IF Ended(m) = {} THEN UNCHANGED core ELSE Revoke(Ended(m))
  BY DEF Disconnected
<1>2. EnvType /\ Proper(sessions, stations) /\ stations' \in SUBSET Mac
  BY <1>1, TakenApart DEF PortalInv, EnvType
<1>3. EnvType'
  <2>1. /\ now' \in Nat /\ wallOffset' \in Nat
        /\ clockSet' \in BOOLEAN /\ apConnect' \in BOOLEAN
        /\ leased' \in SUBSET Mac
    BY <1>1, <1>2 DEF EnvType
  <2>2. addr' \in AddrTable
    BY <1>1, <1>2 DEF EnvType, AddrTable, IpOrNone
  <2>3. lastMac' \in stations' \cup {NoMac}
    BY <1>1, <1>2 DEF EnvType, LastMacWithout
  <2>4. connectCount' \in UInt16
    BY <1>1, <1>2, CountersWrap DEF EnvType
  <2> QED BY <1>2, <2>1, <2>2, <2>3, <2>4, Zenon DEF EnvType
<1>4. CoreKept(stations')
  <2>1. ByMac(sessions, m) \subseteq Ended(m) /\ Ended(m) \in SUBSET Slot
    BY SearchesAreSlots DEF Ended
  <2>2. CASE Ended(m) = {}
    <3>1. ByMac(sessions, m) = {}
      BY <2>1, <2>2
    <3>2. Proper(sessions, stations')
      BY <1>1, <1>2, <3>1, NobodyLeft
    <3>3. UNCHANGED <<sessions, acl, globalEnd, authenticated, napt>>
          /\ quota' \in QuotaTable
      BY <1>1, <2>2, TakenApart DEF core
    <3> QED BY <1>1, <3>2, <3>3, UnchangedKept
  <2>3. CASE Ended(m) # {}
    <3>1. Revoke(Ended(m))
      BY <1>1, <2>3
    <3>2. CoreKept(stations)
      BY <1>1, <2>1, <3>1, RevokeKept
    <3>3. sessions' = Without(sessions, Ended(m) \cup Expired(sessions))
      BY <3>1 DEF Revoke, Refresh
    <3>4. ByMac(sessions', m) = {}
      <4>1. Live(sessions') =
              Live(sessions) \ (Ended(m) \cup Expired(sessions))
        BY <1>2, <3>3, WithoutProper
      <4>2. \A i \in Live(sessions') : sessions'[i] = sessions[i]
        BY <1>2, <3>3, <4>1, WithoutProper, SearchesAreSlots
      <4> QED BY <2>1, <4>1, <4>2 DEF ByMac
    <3>5. Proper(sessions', stations')
      BY <1>1, <3>2, <3>4, NobodyLeft DEF CoreKept
    <3> QED BY <3>2, <3>5 DEF CoreKept
  <2> QED BY <2>2, <2>3
<1> QED BY <1>3, <1>4, Assembled

LEMMA HeartbeatKeeps ==
  ASSUME PortalInv, NEW i \in Slot, Heartbeat(i)
  PROVE  PortalInv'
<1>1. /\ UNCHANGED <<now, env>> /\ now' = now /\ i \in Live(sessions)
      /\ \/ /\ sessions' = [sessions EXCEPT ![i].accounted =
                              Accounted(sessions[i])]
            /\ quota' = Charged(quota, sessions, {i})
            /\ UNCHANGED <<acl, globalEnd, authenticated, napt>>
         \/ Revoke({i})
  BY DEF Heartbeat
<1>2. {i} \in SUBSET Slot /\ now \in Nat /\ Proper(sessions, stations)
  BY DEF PortalInv, TypeOK
<1>3. CASE Revoke({i})
  <2>1. CoreKept(stations)
    BY <1>1, <1>2, <1>3, RevokeKept
  <2> QED BY <1>1, <2>1, SameStations
<1>4. CASE /\ sessions' = [sessions EXCEPT ![i].accounted =
                             Accounted(sessions[i])]
           /\ quota' = Charged(quota, sessions, {i})
           /\ UNCHANGED <<acl, globalEnd, authenticated, napt>>
  <2> DEFINE s == [sessions[i] EXCEPT !.accounted = Accounted(sessions[i])]
  <2>1. /\ sessions[i] \in Session /\ sessions \in SessionTable
        /\ sessions[i].admitted /\ sessions[i].mac \in stations \cup {NoMac}
        /\ sessions[i].active
    BY <1>1, <1>2 DEF Proper, SessionTable, Belongs, Live
  <2>2. Accounted(sessions[i]) \in Nat
    BY <1>2, <2>1, AccountedType
  <2>3. /\ s \in Session /\ s.admitted /\ s.mac = sessions[i].mac
        /\ s.start = sessions[i].start /\ s.granted = sessions[i].granted
        /\ s.active
    BY <2>1, <2>2 DEF Session
  <2>4. sessions' = [sessions EXCEPT ![i] = s]
    BY <1>4, <2>1 DEF SessionTable
  <2>5. ByMac(sessions, s.mac) \subseteq {i}
    BY <1>1, <1>2, <2>3 DEF ByMac, Proper, MacsOnce
  <2> HIDE DEF s
  <2>6. Proper(sessions', stations)
    BY <1>2, <2>1, <2>3, <2>4, <2>5, WriteProper
  <2>7. quota' \in QuotaTable
    BY <1>2, <1>4, <2>1, TakenApart, ChargedType
  <2>8. Access(sessions', globalEnd) => Access(sessions, globalEnd)
    <3>1. sessions'[i] = s /\ \A j \in Slot \ {i} : sessions'[j] = sessions[j]
      BY <2>1, <2>4 DEF SessionTable
    <3>2. \A j \in Live(sessions') :
            /\ j \in Live(sessions)
            /\ sessions'[j].admitted => sessions[j].admitted
            /\ EndTime(sessions'[j]) = EndTime(sessions[j])
      BY <2>1, <2>3, <3>1 DEF Live, EndTime
    <3> QED BY <3>2 DEF Access
  <2>9. Access(sessions, globalEnd)' = Access(sessions', globalEnd)
    BY <1>1, <1>4 DEF Access, Live
  <2>10. NaptServesAccess'
    <3>1. authenticated' = authenticated /\ napt' = napt
      BY <1>4
    <3> QED BY <2>8, <2>9, <3>1, Zenon DEF PortalInv, NaptServesAccess
  <2>11. /\ acl' = acl /\ globalEnd' = globalEnd
         /\ authenticated' = authenticated /\ napt' = napt
    BY <1>4
  <2>12. CoreKept(stations)
    BY <2>6, <2>7, <2>10, <2>11, TakenApart DEF CoreKept
  <2> QED BY <1>1, <2>12, SameStations
<1> QED BY <1>1, <1>3, <1>4

\* The uplink and the clock being set.
LEMMA OutsideKeeps ==
  ASSUME PortalInv, Uplink \/ TimeSync
  PROVE  PortalInv'
<1>1. /\ now' = now /\ wallOffset' = wallOffset /\ stations' = stations
      /\ addr' = addr /\ leased' = leased /\ lastMac' = lastMac
      /\ connectCount' = connectCount /\ UNCHANGED core
  BY DEF Uplink, TimeSync
<1>2. clockSet' \in BOOLEAN /\ apConnect' \in BOOLEAN
  BY TakenApart DEF EnvType, Uplink, UplinkUp, UplinkDown, TimeSync
<1>3. EnvType
  BY TakenApart
<1>4. EnvType'
  BY <1>1, <1>2, <1>3, Zenon DEF EnvType
<1>5. UNCHANGED <<sessions, acl, globalEnd, authenticated, napt>>
      /\ quota' \in QuotaTable
  BY <1>1, TakenApart DEF core
<1>6. CoreKept(stations)
  BY <1>1, <1>5, UnchangedKept DEF PortalInv
<1> QED BY <1>1, <1>4, <1>6, Assembled

\* Access only ends as time passes.
LEMMA TickKeeps ==
  ASSUME PortalInv, Tick
  PROVE  PortalInv'
<1>1. now' = now + 1 /\ UNCHANGED env /\ UNCHANGED core
  BY DEF Tick
<1>2. EnvType
  BY TakenApart
<1>3. /\ clockSet' = clockSet /\ wallOffset' = wallOffset
      /\ apConnect' = apConnect /\ stations' = stations /\ addr' = addr
      /\ leased' = leased /\ lastMac' = lastMac
      /\ connectCount' = connectCount
  BY <1>1 DEF env
<1>4. /\ sessions' = sessions /\ quota' = quota /\ acl' = acl
      /\ globalEnd' = globalEnd /\ authenticated' = authenticated
      /\ napt' = napt
  BY <1>1 DEF core
<1>5. now \in Nat /\ now' \in Nat
  BY <1>1, <1>2 DEF EnvType
<1>6. EnvType'
  BY <1>2, <1>3, <1>5, Zenon DEF EnvType
<1>7. Access(sessions, globalEnd)' => Access(sessions, globalEnd)
  <2>1. globalEnd \in Nat /\ sessions \in SessionTable
    BY TakenApart DEF PortalInv, Proper
  <2>2. \A i \in Live(sessions) : EndTime(sessions[i]) \in Nat
    <3>1. \A x, y \in Nat : x + y * TicksPerSec \in Nat
      BY PortalAssumption
    <3> QED BY <2>1, <3>1 DEF EndTime, Live, SessionTable, Session
  <2> QED BY <1>1, <1>4, <1>5, <2>1, <2>2 DEF Access, Live, EndTime
<1>8. NaptServesAccess'
  BY <1>4, <1>7, Zenon DEF PortalInv, NaptServesAccess
<1>9. CoreKept(stations')
  BY <1>3, <1>4, <1>8, TakenApart DEF CoreKept, PortalInv
<1> QED BY <1>6, <1>9, Assembled

-----------------------------------------------------------------------------
LEMMA InitiallyPortalInv == Init => PortalInv
<1> SUFFICES ASSUME Init PROVE PortalInv
  OBVIOUS
<1>1. /\ now \in Nat /\ wallOffset \in Nat /\ stations \subseteq Mac
      /\ clockSet \in BOOLEAN /\ apConnect \in BOOLEAN
      /\ leased \subseteq Mac /\ lastMac \in MacOrNone
      /\ lastMac \in stations \cup {NoMac}
      /\ globalEnd \in Nat /\ authenticated \in BOOLEAN /\ napt \in BOOLEAN
  BY PortalAssumption DEF Init, MacOrNone
<1>2. addr \in AddrTable
  BY DEF Init, AddrTable, IpOrNone
<1>3. connectCount \in UInt16
  BY DEF Init, UInt16, Wrap
<1>4. sessions \in SessionTable /\ Live(sessions) = {}
  BY NoSessionType DEF Init, SessionTable, Live, NoSession
<1>5. quota \in QuotaTable
  BY PortalAssumption DEF Init, QuotaTable, QuotaRecord
<1>6. AclTypeOK
  BY AclInvInitially DEF Init, AclInv
<1>7. ~ authenticated /\ globalEnd = 0 /\ now = 0
  BY DEF Init
<1>8. NaptServesAccess
  BY <1>4, <1>7 DEF NaptServesAccess, Access
<1>9. Proper(sessions, stations)
  BY <1>4 DEF Proper, MacsOnce, Belongs
<1>10. TypeOK
  BY <1>1, <1>2, <1>3, <1>4, <1>5, <1>6, Zenon DEF TypeOK
<1> QED BY <1>1, <1>8, <1>9, <1>10, Zenon DEF PortalInv

LEMMA PortalInvKept == PortalInv /\ [Next]_vars => PortalInv'
<1> SUFFICES ASSUME PortalInv, [Next]_vars PROVE PortalInv'
  OBVIOUS
<1>1. CASE Request
  <2>1. PICK ip \in Callers : \/ ConfirmRefused(ip) \/ ConfirmGranted(ip)
                              \/ ProbeExpired(ip) \/ ProbeByMac(ip)
    BY <1>1 DEF Request
  <2>2. ip \in IpOrNone
    BY CallersType
  <2> QED BY <2>1, <2>2, ConfirmRefusedKeeps, ConfirmGrantedKeeps,
             ProbeExpiredKeeps, ProbeByMacKeeps
<1>2. CASE WifiEvent
  <2>1. PICK m \in Mac :
          \/ ConnectToPortal(m)
          \/ ConnectResumed(m)
          \/ \E ip \in Ip : IpAssigned(m, ip) \/ StaticAddress(m, ip)
          \/ Disconnected(m)
    BY <1>2 DEF WifiEvent
  <2> QED BY <2>1, ConnectToPortalKeeps, ConnectResumedKeeps,
             IpAssignedKeeps, StaticAddressKeeps, DisconnectedKeeps
<1>3. CASE \E i \in Slot : Heartbeat(i)
  BY <1>3, HeartbeatKeeps
<1>4. CASE Uplink \/ TimeSync
  BY <1>4, OutsideKeeps
<1>5. CASE Tick
  BY <1>5, TickKeeps
<1>6. CASE UNCHANGED vars
  <2>1. /\ UNCHANGED <<now, env>> /\ now' = now /\ quota' = quota
        /\ UNCHANGED <<sessions, acl, globalEnd, authenticated, napt>>
    BY <1>6 DEF vars, env
  <2>2. CoreKept(stations)
    BY <2>1, TakenApart, UnchangedKept DEF PortalInv
  <2> QED BY <2>1, <2>2, SameStations
<1> QED BY <1>1, <1>2, <1>3, <1>4, <1>5, <1>6 DEF Next

LEMMA PortalInvAlways == Spec => []PortalInv
BY InitiallyPortalInv, PortalInvKept, PTL DEF Spec

(* Every variable of the session manager keeps its type; in particular the *)
(* usage of a device stays within the quota.                               *)
THEOREM PortalTypeCorrect == Spec => []TypeOK
<1>1. PortalInv => TypeOK
  BY DEF PortalInv
<1> QED BY <1>1, PortalInvAlways, PTL

(* No station ever has two sessions.                                       *)
THEOREM SessionsAreUnique == Spec => []OneSessionPerMac
<1>1. PortalInv => OneSessionPerMac
  BY DEF PortalInv, Proper, MacsOnce, OneSessionPerMac
<1> QED BY <1>1, PortalInvAlways, PTL

(* NAPT is on while anybody has access, whoever ended the last session.    *)
THEOREM NaptIsOnForAccess == Spec => []NaptServesAccess
<1>1. PortalInv => NaptServesAccess
  BY DEF PortalInv
<1> QED BY <1>1, PortalInvAlways, PTL

(* No session outlives the association of its station.                     *)
THEOREM SessionsEndWithAssociation == Spec => []SessionsOfStations
<1>1. PortalInv => SessionsOfStations
  BY DEF PortalInv, Proper, Belongs, SessionsOfStations
<1> QED BY <1>1, PortalInvAlways, PTL

=============================================================================
