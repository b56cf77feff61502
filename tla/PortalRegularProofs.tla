------------------------- MODULE PortalRegularProofs -------------------------
(***************************************************************************)
(* Proofs about module Portal that need clients which behave regularly,    *)
(* for any number of slots, stations and addresses, any quota and any day. *)
(*                                                                         *)
(* The daily quota: no session may use more than is left of the quota of   *)
(* its device, and what a device has used today is not forgotten before    *)
(* the day is over.  Stations may change their leases as they like, but    *)
(* their requests are handled while they are there, at a leased address    *)
(* the router can tell.                                                    *)
(*                                                                         *)
(* The packet filter: it mirrors the session table, for stations that keep *)
(* their address while they are associated.  For those that change it, or  *)
(* whose address cannot be told, every entry still belongs to a session,   *)
(* and the heartbeat removes it when the session is over.                  *)
(*                                                                         *)
(* The heartbeat: on its schedule it bounds what a session can use without *)
(* being charged.                                                          *)
(***************************************************************************)
EXTENDS PortalProofs, PortalUsage

(* What a record r says fits a session s on day d: together they stay      *)
(* within the quota, and a session of another day finds no usage of today. *)
Owed(r, s) == r.day = s.day => r.used + (s.granted - s.accounted) <= QuotaSec
Dated(r, s, d) == s.day <= d /\ (s.day # d => r.day # d \/ r.used = 0)
FitsOne(r, s, d) == s.granted <= QuotaSec /\ Owed(r, s) /\ Dated(r, s, d)

Fits(t, q, d) ==
  /\ \A i \in Live(t) : t[i].mac \in Mac /\ FitsOne(q[t[i].mac], t[i], d)
  /\ \A m \in Mac : q[m].day <= d

(* Usage of day d is kept from q to r.                                     *)
Grows(q, r, d) ==
  \A m \in Mac : q[m].day = d /\ q[m].used > 0 =>
                    r[m].day = d /\ r[m].used >= q[m].used

(* Each station has its address to itself and no longer than it is         *)
(* associated, and a session that is not over is at the address of its     *)
(* station or at none.                                                     *)
RegularAddrs ==
  /\ \A m \in Mac : addr[m] # NoIp => m \in stations \cap leased
  /\ \A m, n \in Mac : addr[m] = addr[n] /\ addr[m] # NoIp => m = n

Homed(t, A) == \A i \in Live(t) \ Expired(t) : t[i].ip \in {NoIp, A[t[i].mac]}

\* Clients that may change their lease, and nothing beyond that.
Leasing == Clients \subseteq {"renumber"}

QuotaInv ==
  RegularAddrs /\ Homed(sessions, addr) /\ Fits(sessions, quota, Today)

-----------------------------------------------------------------------------
(* Charging.                                                               *)

LEMMA ChargeFits ==
  ASSUME NEW r \in QuotaRecord, NEW s \in Session, NEW d \in Nat, now \in Nat,
         FitsOne(r, s, d), r.day <= d, s.mac # NoMac
  PROVE  /\ Charge(r, s).day <= d
         /\ r.day = d /\ r.used > 0 =>
              Charge(r, s).day = d /\ Charge(r, s).used >= r.used
         /\ FitsOne(Charge(r, s), [s EXCEPT !.accounted = Accounted(s)], d)
<1> DEFINE e == Elapsed(s)
           c == Charge(r, s)
           n == [s EXCEPT !.accounted = Accounted(s)]
<1>1. /\ e \in Int /\ s.accounted \in Nat /\ s.granted \in Nat /\ s.day \in Nat
      /\ r.day \in Nat /\ r.used \in Nat /\ r.used <= QuotaSec /\ QuotaSec \in Nat
  BY ElapsedIsInt, PortalAssumption DEF Session, QuotaRecord
<1>2. /\ n.day = s.day /\ n.granted = s.granted /\ n.accounted = Accounted(s)
      /\ Accounted(s) = IF e > s.accounted THEN e ELSE s.accounted
  BY DEF Session, Accounted
<1> HIDE DEF e
<1>3. CASE e <= s.accounted
  <2>1. c = r /\ n.accounted = s.accounted
    BY <1>1, <1>2, <1>3 DEF Charge, e
  <2> QED BY <1>1, <1>2, <2>1 DEF FitsOne, Owed, Dated
<1>4. CASE ~(e <= s.accounted)
  <2> DEFINE u == QuotaOn(r, s.day).used
  <2>1. /\ u = IF r.day = s.day THEN r.used ELSE 0
        /\ u \in Nat
    BY <1>1 DEF QuotaOn
  <2>2. c.day = s.day /\ c.used = Lesser(u + (e - s.accounted), QuotaSec)
    BY <1>4 DEF Charge, e
  <2>3. n.accounted = e
    BY <1>1, <1>2, <1>4
  <2> HIDE DEF u, c, n
  <2>4. /\ c.used \in Nat /\ c.used <= u + (e - s.accounted)
        /\ (r.day = s.day => c.used >= r.used)
    BY <1>1, <1>4, <2>1, <2>2 DEF Lesser
  <2>5. u + (s.granted - s.accounted) <= QuotaSec
    BY <1>1, <2>1 DEF FitsOne, Owed
  <2>6. Owed(c, n)
    <3>1. c.used + (s.granted - e) <= QuotaSec
      BY <1>1, <2>1, <2>4, <2>5
    <3>2. n.granted = s.granted
      BY <1>2 DEF n
    <3> QED BY <2>3, <3>1, <3>2 DEF Owed
  <2>7. Dated(c, n, d)
    BY <1>2, <2>2 DEF FitsOne, Dated
  <2>8. r.day = d /\ r.used > 0 => c.day = d /\ c.used >= r.used
    BY <1>1, <2>2, <2>4 DEF FitsOne, Dated
  <2> QED BY <1>2, <2>2, <2>6, <2>7, <2>8 DEF FitsOne, Dated, c, n
<1> QED BY <1>3, <1>4

(* The checkpoint of several sessions at once, of different stations.      *)
LEMMA ChargedAt ==
  ASSUME NEW q \in QuotaTable, NEW t, MacsOnce(t), NEW R \in SUBSET Live(t),
         NEW m \in Mac
  PROVE  /\ \A i \in R : t[i].mac = m => Charged(q, t, R)[m] = Charge(q[m], t[i])
         /\ (\A i \in R : t[i].mac # m) => Charged(q, t, R)[m] = q[m]
<1>1. m # NoMac
  BY AclAssumption
<1>2. ASSUME NEW i \in R, t[i].mac = m
      PROVE  (CHOOSE j \in R : t[j].mac = m) = i
  <2>1. PICK j : j = CHOOSE k \in R : t[k].mac = m
    OBVIOUS
  <2>2. j \in R /\ t[j].mac = m
    BY <1>2, <2>1
  <2> QED BY <1>1, <1>2, <2>1, <2>2 DEF MacsOnce
<1> QED BY <1>2 DEF Charged

LEMMA ChargedFits ==
  ASSUME NEW q \in QuotaTable, NEW t \in SessionTable, MacsOnce(t),
         NEW R \in SUBSET Live(t), NEW d \in Nat, now \in Nat, Fits(t, q, d)
  PROVE  /\ Grows(q, Charged(q, t, R), d)
         /\ \A m \in Mac : Charged(q, t, R)[m].day <= d
         /\ \A i \in Live(t) \ R : FitsOne(Charged(q, t, R)[t[i].mac], t[i], d)
         /\ \A i \in R : FitsOne(Charged(q, t, R)[t[i].mac],
                                 [t[i] EXCEPT !.accounted = Accounted(t[i])], d)
<1> DEFINE c == Charged(q, t, R)
<1>1. \A i \in Live(t) : /\ t[i] \in Session /\ t[i].mac \in Mac
                         /\ FitsOne(q[t[i].mac], t[i], d)
  BY DEF Fits, Live, SessionTable
<1>2. \A m \in Mac : /\ m # NoMac /\ q[m] \in QuotaRecord
                     /\ q[m].day <= d /\ q[m].day \in Int
  BY AclAssumption DEF Fits, QuotaTable, QuotaRecord
<1>3. ASSUME NEW m \in Mac
      PROVE  c[m].day <= d /\ (q[m].day = d /\ q[m].used > 0 =>
                                 c[m].day = d /\ c[m].used >= q[m].used)
  <2>1. CASE \A i \in R : t[i].mac # m
    <3>1. c[m] = q[m]
      BY <2>1, ChargedAt
    <3>2. q[m].used \in Int
      BY DEF QuotaTable, QuotaRecord
    <3> QED BY <1>2, <3>1, <3>2
  <2>2. CASE \E i \in R : t[i].mac = m
    <3>1. PICK i \in R : t[i].mac = m
      BY <2>2
    <3>2. c[m] = Charge(q[m], t[i])
      BY <3>1, ChargedAt
    <3>3. /\ t[i] \in Session /\ FitsOne(q[m], t[i], d) /\ t[i].mac # NoMac
          /\ q[m] \in QuotaRecord /\ q[m].day <= d
      BY <1>1, <1>2, <3>1
    <3> HIDE DEF c
    <3> QED BY <3>2, <3>3, ChargeFits
  <2> QED BY <2>1, <2>2
<1>4. ASSUME NEW i \in Live(t) \ R PROVE FitsOne(c[t[i].mac], t[i], d)
  <2>1. \A j \in R : t[j].mac # t[i].mac
    BY <1>1, <1>2 DEF MacsOnce
  <2>2. c[t[i].mac] = q[t[i].mac]
    BY <1>1, <2>1, ChargedAt
  <2> QED BY <1>1, <2>2
<1>5. ASSUME NEW i \in R
      PROVE  FitsOne(c[t[i].mac], [t[i] EXCEPT !.accounted = Accounted(t[i])], d)
  <2>1. c[t[i].mac] = Charge(q[t[i].mac], t[i])
    BY <1>1, ChargedAt
  <2>2. /\ t[i] \in Session /\ FitsOne(q[t[i].mac], t[i], d) /\ t[i].mac # NoMac
        /\ q[t[i].mac] \in QuotaRecord /\ q[t[i].mac].day <= d
    BY <1>1, <1>2
  <2> HIDE DEF c
  <2> QED BY <2>1, <2>2, ChargeFits
<1> QED BY <1>3, <1>4, <1>5 DEF Grows

LEMMA GrowsTwice ==
  ASSUME NEW q \in QuotaTable, NEW r \in QuotaTable, NEW s \in QuotaTable,
         NEW d, Grows(q, r, d), Grows(r, s, d)
  PROVE  Grows(q, s, d)
<1>1. \A m \in Mac : q[m].used \in Int /\ r[m].used \in Int /\ s[m].used \in Int
  BY PortalAssumption DEF QuotaTable, QuotaRecord
<1> QED BY <1>1 DEF Grows

-----------------------------------------------------------------------------
(* Tables.                                                                 *)

\* s counts as r does.
Like(s, r) ==
  /\ s.mac = r.mac /\ s.granted = r.granted
  /\ s.accounted = r.accounted /\ s.day = r.day

\* s is a new session of mac, within what is left of its quota in q.
Granted(s, q, mac, d) ==
  /\ s.mac = mac /\ s.day = d /\ s.accounted = 0
  /\ s.granted \in Nat /\ s.granted + q[mac].used <= QuotaSec

LEMMA FitsCarries ==
  ASSUME NEW t, NEW u, NEW q \in QuotaTable, NEW d, Fits(t, q, d), NEW mac \in Mac,
         d \in Nat,
         \A i \in Live(u) : \/ \E j \in Live(t) : Like(u[i], t[j])
                            \/ Granted(u[i], q, mac, d)
  PROVE  Fits(u, q, d)
<1>1. ASSUME NEW i \in Live(u), NEW j \in Live(t), Like(u[i], t[j])
      PROVE  u[i].mac \in Mac /\ FitsOne(q[u[i].mac], u[i], d)
  BY <1>1 DEF Like, Fits, FitsOne, Owed, Dated
<1>2. ASSUME NEW i \in Live(u), Granted(u[i], q, mac, d)
      PROVE  u[i].mac \in Mac /\ FitsOne(q[u[i].mac], u[i], d)
  <2>1. q[mac].used \in Nat /\ QuotaSec \in Nat
    BY PortalAssumption DEF QuotaTable, QuotaRecord
  <2> QED BY <1>2, <2>1 DEF Granted, FitsOne, Owed, Dated
<1> QED BY <1>1, <1>2 DEF Fits

LEMMA HomedWithout ==
  ASSUME NEW t, NEW S, Proper(t, S), NEW R, NEW A, Homed(t, A)
  PROVE  Homed(Without(t, R), A)
<1>1. \A i \in Live(Without(t, R)) : i \in Live(t) /\ Without(t, R)[i] = t[i]
  BY WithoutProper, SearchesAreSlots
<1> QED BY <1>1 DEF Homed, Expired

(* A client that starts or resumes a session, at the address of its        *)
(* station or at none, takes over no session of another station.           *)
LEMMA StartedFits ==
  ASSUME NEW t, NEW S \in SUBSET Mac, Proper(t, S), TypeOK,
         NEW q \in QuotaTable, Fits(t, q, Today),
         NEW ip \in IpOrNone, NEW mac \in S, NEW granted \in Nat,
         granted + q[mac].used <= QuotaSec,
         NEW A, Homed(t, A),
         ip # NoIp => A[mac] = ip /\ \A m \in Mac : A[m] = ip => m = mac
  PROVE  /\ Fits(Started(t, ip, mac, granted), q, Today)
         /\ Homed(Started(t, ip, mac, granted), A)
<1> DEFINE found == Found(t, ip, mac)
           rest == Without(t, found)
           i == FirstOf(found)
           k == NewSlot(rest, found, mac)
           u == Started(t, ip, mac, granted)
<1>1. mac \in Mac /\ mac # NoMac /\ Today \in Nat
  BY AclAssumption, DaysAreNat DEF TypeOK
<1>2. ASSUME found \ Expired(t) # {}
      PROVE  i \in Live(t) /\ t[i].mac = mac
  <2>1. /\ i \in found /\ i \in Live(t) /\ i \notin Expired(t)
        /\ i \in ByMac(t, mac) \/ ByMac(t, mac) = {}
    <3>1. /\ i \in found /\ i \in Live(t)
          /\ i \in ByMac(t, mac) \/ ByMac(t, mac) = {}
      BY <1>2, FoundCases
    <3>2. \A j, l \in found : j = l
      BY DEF Found
    <3> QED BY <1>2, <3>1, <3>2
  <2>2. CASE i \in ByMac(t, mac)
    BY <2>1, <2>2 DEF ByMac
  <2>3. CASE ByMac(t, mac) = {}
    <3>1. ip # NoIp /\ ByIp(t, ip) # {} /\ found = {FirstOf(ByIp(t, ip))}
      BY <1>2, <2>3 DEF Found
    <3>2. FirstOf(ByIp(t, ip)) \in ByIp(t, ip)
      BY <3>1, SearchesAreSlots, FirstSlot
    <3>3. i \in ByIp(t, ip)
      BY <2>1, <3>1, <3>2
    <3>4. t[i].ip = ip /\ t[i].mac \in Mac
      BY <2>1, <3>3 DEF ByIp, Fits
    <3>5. A[t[i].mac] = ip
      BY <2>1, <3>1, <3>4 DEF Homed
    <3> QED BY <2>1, <3>1, <3>4, <3>5
  <2> QED BY <2>1, <2>2, <2>3
<1>3. CASE found \ Expired(t) # {}
  <2>1. i \in Live(t) /\ t[i].mac = mac /\ i \in Slot
    BY <1>2, <1>3, SearchesAreSlots
  <2>2. u = Rebound(t, i, ip, mac)
    BY <1>3 DEF Started
  <2> HIDE DEF i, found
  <2>3. t[i] \in Session /\ t \in SessionTable
    BY <2>1 DEF Proper, SessionTable
  <2>4. /\ \A j \in Slot \ {i} : u[j] = t[j]
        /\ Like(u[i], t[i]) /\ u[i].ip = ip
    BY <1>1, <2>1, <2>2, <2>3 DEF Rebound, Like, Session, SessionTable
  <2> HIDE DEF u
  <2>5. \A j \in Live(u) : /\ j \in Live(t) /\ Like(u[j], t[j])
                           /\ j # i => u[j] = t[j]
    BY <2>1, <2>4 DEF Live, Like
  <2>6. Fits(u, q, Today)
    BY <1>1, <2>5, FitsCarries
  <2>7. Homed(u, A)
    <3>1. \A j \in Live(u) \ {i} : j \in Expired(t) => j \in Expired(u)
      BY <2>5 DEF Expired
    <3> QED BY <2>1, <2>4, <2>5, <3>1 DEF Homed, Like
  <2> QED BY <2>6, <2>7 DEF u
<1>4. CASE found \ Expired(t) = {}
  <2> DEFINE s == NewSession(ip, mac, granted)
  <2>1. Proper(rest, S) /\ Homed(rest, A)
    BY WithoutProper, HomedWithout
  <2>2. found \in SUBSET Slot
    BY FoundCases, SearchesAreSlots
  <2>3. u = [rest EXCEPT ![k] = s] /\ k \in Slot
    BY <1>4, <2>1, <2>2, NewSlotIsOnly DEF Started
  <2>4. \A j \in Live(rest) : j \in Live(t) /\ rest[j] = t[j]
    BY WithoutProper, SearchesAreSlots
  <2> HIDE DEF k, rest
  <2>5. Granted(s, q, mac, Today) /\ s.ip = ip
    BY DEF Granted, NewSession
  <2> HIDE DEF s, u
  <2>6. u[k] = s /\ \A j \in Slot \ {k} : u[j] = rest[j]
    BY <2>1, <2>3 DEF Proper, SessionTable
  <2>7. \A j \in Live(u) : j = k \/ (j \in Live(rest) /\ u[j] = rest[j])
    BY <2>6 DEF Live
  <2>8. \A j \in Live(u) : \/ \E l \in Live(t) : Like(u[j], t[l])
                           \/ Granted(u[j], q, mac, Today)
    BY <2>4, <2>5, <2>6, <2>7 DEF Like
  <2>9. Fits(u, q, Today)
    BY <1>1, <2>8, FitsCarries
  <2>10. Homed(u, A)
    <3>1. \A j \in Live(u) \ {k} : j \in Expired(rest) => j \in Expired(u)
      BY <2>7 DEF Expired
    <3> QED BY <2>1, <2>5, <2>6, <2>7, <3>1 DEF Homed, Granted
  <2> QED BY <2>9, <2>10 DEF u
<1> QED BY <1>3, <1>4

LEMMA RefreshFits ==
  ASSUME NEW t, NEW S, Proper(t, S), NEW R \in SUBSET Live(t),
         NEW q \in QuotaTable, NEW global, NEW natOn, now \in Nat,
         NEW d \in Nat, Fits(t, q, d), NEW A, Homed(t, A),
         Refresh(t, R, q, global, natOn)
  PROVE  /\ Fits(sessions', quota', d) /\ Homed(sessions', A)
         /\ Grows(q, quota', d) /\ quota' \in QuotaTable
<1> DEFINE gone == R \cup Expired(t)
           kept == Without(t, gone)
           c == Charged(q, t, gone)
<1>1. sessions' = kept /\ quota' = c
  BY DEF Refresh
<1>2. gone \in SUBSET Live(t) /\ gone \in SUBSET Slot
  BY SearchesAreSlots DEF Expired
<1>3. t \in SessionTable /\ MacsOnce(t)
  BY DEF Proper
<1>4. /\ Live(kept) = Live(t) \ gone
      /\ \A i \in Live(kept) : kept[i] = t[i] /\ i \in Live(t)
  BY WithoutProper, SearchesAreSlots
<1>5. Homed(kept, A)
  BY HomedWithout
<1> HIDE DEF gone
<1>6. c \in QuotaTable
  BY <1>2, <1>3, ChargedType
<1>7. /\ Grows(q, c, d)
      /\ \A m \in Mac : c[m].day <= d
      /\ \A i \in Live(t) \ gone : FitsOne(c[t[i].mac], t[i], d)
  BY <1>2, <1>3, ChargedFits
<1> HIDE DEF kept, c
<1>8. Fits(kept, c, d)
  BY <1>4, <1>7 DEF Fits
<1> QED BY <1>1, <1>5, <1>6, <1>7, <1>8

-----------------------------------------------------------------------------
(* Regular clients.                                                        *)

\* What a handler leaves behind, with A the addresses after it.
QuotaKept(A) ==
  /\ Homed(sessions', A) /\ Fits(sessions', quota', Today)
  /\ Grows(quota, quota', Today)

UsageKept == Today' = Today => Grows(quota, quota', Today)

LEMMA SameDay ==
  ASSUME now' = now, clockSet' = clockSet, wallOffset' = wallOffset,
         RegularAddrs', QuotaKept(addr')
  PROVE  QuotaInv' /\ UsageKept
<1>1. Today' = Today
  BY DEF Today, WallSec
<1>2. Fits(sessions, quota, Today)'
  BY <1>1 DEF QuotaKept, Fits, FitsOne, Owed, Dated, Live
<1>3. Homed(sessions, addr)'
  BY DEF QuotaKept, Homed, Live, Expired, EndTime
<1> QED BY <1>2, <1>3 DEF QuotaInv, QuotaKept, UsageKept

LEMMA SameAddrs ==
  ASSUME UNCHANGED <<now, env>>, RegularAddrs, QuotaKept(addr)
  PROVE  QuotaInv' /\ UsageKept
<1>1. /\ now' = now /\ clockSet' = clockSet /\ wallOffset' = wallOffset
      /\ addr' = addr /\ stations' = stations /\ leased' = leased
  BY DEF env
<1>2. RegularAddrs'
  BY <1>1 DEF RegularAddrs
<1> QED BY <1>1, <1>2, SameDay

(* A caller is the station at its address, and no other.                   *)
LEMMA RegularCaller ==
  ASSUME Leasing, PortalInv, RegularAddrs, NEW ip \in Callers
  PROVE  \E m \in stations : /\ ip # NoIp /\ addr[m] = ip
                             /\ \A n \in Mac : addr[n] = ip => n = m
                             /\ LeaseHolder(ip) = {m}
                             /\ ConfirmMac(ip) = {m}
<1>1. stations \in SUBSET Mac
  BY DEF PortalInv, TypeOK
<1>2. PICK m \in Mac : addr[m] = ip /\ addr[m] # NoIp /\ m \in stations
  BY DEF Callers, Leasing
<1>3. m \in leased /\ \A n \in Mac : addr[n] = ip => n = m
  BY <1>2 DEF RegularAddrs
<1>4. LeaseHolder(ip) = {m}
  BY <1>1, <1>2, <1>3 DEF LeaseHolder
<1> QED BY <1>2, <1>3, <1>4 DEF ConfirmMac

LEMMA QuotaReadFits ==
  ASSUME TypeOK, NEW t \in SessionTable, Fits(t, quota, Today), NEW mac \in Mac
  PROVE  /\ Fits(t, QuotaRead(mac), Today)
         /\ Grows(quota, QuotaRead(mac), Today)
         /\ QuotaRead(mac) \in QuotaTable
         /\ QuotaRemaining(QuotaRead(mac), mac) \in 0 .. QuotaSec
         /\ QuotaRead(mac)[mac].used + QuotaRemaining(QuotaRead(mac), mac) = QuotaSec
<1> DEFINE q == QuotaRead(mac)
           remaining == QuotaRemaining(q, mac)
<1>1. q \in QuotaTable /\ remaining \in 0 .. QuotaSec
  BY QuotaReadType DEF MacOrNone
<1>2. \A m \in Mac : q[m] = IF m = mac THEN QuotaOn(quota[m], Today) ELSE quota[m]
  BY DEF QuotaRead
<1>3. Today \in Nat /\ quota \in QuotaTable
  BY DaysAreNat DEF TypeOK, QuotaTable
<1>4. \A m \in Mac : /\ quota[m].day \in Nat /\ quota[m].used \in Nat
                     /\ quota[m].day <= Today
  BY <1>3 DEF Fits, QuotaTable, QuotaRecord
<1>5. \A m \in Mac : q[m] = quota[m] \/ (q[m].day = Today /\ q[m].used = 0
                                          /\ quota[m].day # Today)
  BY <1>2 DEF QuotaOn
<1> HIDE DEF q
<1>6. Grows(quota, q, Today)
  BY <1>4, <1>5 DEF Grows
<1>7. ASSUME NEW i \in Live(t) PROVE FitsOne(q[t[i].mac], t[i], Today)
  <2>1. /\ t[i].mac \in Mac /\ FitsOne(quota[t[i].mac], t[i], Today)
        /\ t[i].granted \in Nat /\ t[i].accounted \in Nat /\ QuotaSec \in Nat
    BY PortalAssumption DEF Fits, Live, SessionTable, Session
  <2> QED BY <1>5, <2>1 DEF FitsOne, Owed, Dated
<1>8. Fits(t, q, Today)
  BY <1>3, <1>4, <1>5, <1>7 DEF Fits
<1>9. mac # NoMac /\ q[mac].used \in 0 .. QuotaSec
  BY <1>1, AclAssumption DEF QuotaTable, QuotaRecord
<1>10. q[mac].used + remaining = QuotaSec
  BY <1>9, PortalAssumption DEF QuotaRemaining
<1> QED BY <1>1, <1>6, <1>8, <1>10 DEF q

LEMMA RevokeKeepsQuota ==
  ASSUME PortalInv, QuotaInv, NEW R \in SUBSET Live(sessions), Revoke(R)
  PROVE  QuotaKept(addr)
<1>1. now \in Nat /\ Today \in Nat /\ quota \in QuotaTable
  BY DaysAreNat DEF PortalInv, TypeOK
<1> QED BY <1>1, RefreshFits DEF PortalInv, QuotaInv, Revoke, QuotaKept

(* A session is started or resumed by the station at the address, or for   *)
(* a station that has no session.                                          *)
LEMMA StartKeepsQuota ==
  ASSUME PortalInv, NEW S \in SUBSET Mac, stations \subseteq S,
         Homed(sessions, addr), NEW q \in QuotaTable,
         Fits(sessions, q, Today), Grows(quota, q, Today),
         NEW ip \in IpOrNone, NEW mac \in S, NEW granted \in Nat,
         granted + q[mac].used <= QuotaSec,
         ip # NoIp => addr[mac] = ip /\ \A m \in Mac : addr[m] = ip => m = mac,
         ip = NoIp => ByMac(sessions, mac) = {},
         StartOrResume(ip, mac, granted, q)
  PROVE  QuotaKept(addr)
<1> DEFINE early == IF ip = NoIp THEN Expired(sessions) ELSE {}
           t == Without(sessions, early)
           next == Started(t, ip, mac, granted)
           charged == Charged(q, sessions, early)
<1>1. \E global : Refresh(next, {}, charged, global, TRUE)
  BY DEF StartOrResume
<1>2. /\ now \in Nat /\ Today \in Nat /\ quota \in QuotaTable
      /\ TypeOK /\ sessions \in SessionTable
  BY DaysAreNat DEF PortalInv, TypeOK
<1>3. Proper(sessions, S) /\ MacsOnce(sessions)
  BY MoreStations DEF PortalInv, Proper
<1>4. early \in SUBSET Live(sessions) /\ early \in SUBSET Slot
  BY SearchesAreSlots DEF Expired
<1>5. /\ Proper(t, S) /\ Homed(t, addr)
      /\ Live(t) = Live(sessions) \ early
      /\ \A i \in Live(t) : t[i] = sessions[i] /\ i \in Live(sessions)
  BY <1>3, WithoutProper, HomedWithout, SearchesAreSlots
<1>6. mac # NoMac
  BY AclAssumption
<1>7. \A i \in early : sessions[i].mac # mac
  BY <1>4, <1>6 DEF ByMac
<1> HIDE DEF early
<1>8. charged \in QuotaTable
  BY <1>2, <1>4, ChargedType
<1>9. charged[mac] = q[mac]
  BY <1>3, <1>4, <1>7, ChargedAt
<1>10. /\ Grows(q, charged, Today)
       /\ \A m \in Mac : charged[m].day <= Today
       /\ \A i \in Live(sessions) \ early :
             FitsOne(charged[sessions[i].mac], sessions[i], Today)
  BY <1>2, <1>3, <1>4, ChargedFits
<1> HIDE DEF t, charged
<1>11. Fits(t, charged, Today)
  BY <1>5, <1>10 DEF Fits
<1>12. Fits(next, charged, Today) /\ Homed(next, addr) /\ Proper(next, S)
  BY <1>2, <1>5, <1>8, <1>9, <1>11, StartedFits, StartedProper
<1> HIDE DEF next
<1>13. /\ Fits(sessions', quota', Today) /\ Homed(sessions', addr)
       /\ Grows(charged, quota', Today) /\ quota' \in QuotaTable
  <2>1. {} \in SUBSET Live(next)
    OBVIOUS
  <2> QED BY <1>1, <1>2, <1>8, <1>12, <2>1, RefreshFits
<1>14. Grows(quota, quota', Today)
  BY <1>2, <1>8, <1>10, <1>13, GrowsTwice
<1> QED BY <1>13, <1>14 DEF QuotaKept

-----------------------------------------------------------------------------
(* The actions.                                                            *)

LEMMA QuotaTypes ==
  PortalInv => /\ TypeOK /\ quota \in QuotaTable /\ sessions \in SessionTable
               /\ stations \in SUBSET Mac /\ now \in Nat /\ Today \in Nat
               /\ MacsOnce(sessions) /\ Proper(sessions, stations)
               /\ \A m \in Mac : quota[m].used \in Nat /\ quota[m].day \in Nat
<1> SUFFICES ASSUME PortalInv
             PROVE  /\ TypeOK /\ quota \in QuotaTable /\ sessions \in SessionTable
                    /\ stations \in SUBSET Mac /\ now \in Nat /\ Today \in Nat
                    /\ MacsOnce(sessions) /\ Proper(sessions, stations)
                    /\ \A m \in Mac : quota[m].used \in Nat /\ quota[m].day \in Nat
  OBVIOUS
<1>1. TypeOK /\ quota \in QuotaTable /\ Today \in Nat
  BY DaysAreNat DEF PortalInv, TypeOK
<1>2. \A m \in Mac : quota[m].used \in Nat /\ quota[m].day \in Nat
  BY <1>1 DEF QuotaTable, QuotaRecord
<1> QED BY <1>1, <1>2 DEF PortalInv, Proper, TypeOK

LEMMA GrantsArePositive ==
  ASSUME PortalInv, NEW mac \in Mac,
         QuotaRemaining(QuotaRead(mac), mac) > 0
  PROVE  Lesser(QuotaRemaining(QuotaRead(mac), mac), UntilNextDay) \in Nat \ {0}
<1> DEFINE remaining == QuotaRemaining(QuotaRead(mac), mac)
<1>1. remaining \in 0 .. QuotaSec
  BY QuotaTypes, QuotaReadType DEF MacOrNone
<1>2. UntilNextDay \in Nat \ {0}
  <2>1. now \in Nat /\ wallOffset \in Nat
    BY QuotaTypes DEF TypeOK
  <2>2. WallSec \in Nat
    <3>1. TicksPerSec \in Nat \ {0} /\ DaySec \in Nat \ {0}
      BY PortalAssumption
    <3>2. now \div TicksPerSec \in Nat
      BY <2>1, <3>1, DivModNat
    <3> QED BY <2>1, <3>2 DEF WallSec
  <2>3. WallSec % DaySec \in 0 .. (DaySec - 1)
    BY <2>2, DivModNat, PortalAssumption
  <2> QED BY <2>3, PortalAssumption DEF UntilNextDay
<1> HIDE DEF remaining
<1>3. remaining > 0
  BY DEF remaining
<1>4. Lesser(remaining, UntilNextDay) \in Nat \ {0}
  BY <1>1, <1>2, <1>3, PortalAssumption DEF Lesser
<1> QED BY <1>4 DEF remaining

LEMMA LeaseKeepsAddrs ==
  ASSUME PortalInv, RegularAddrs, NEW m \in Mac, NEW ip \in Ip, IpAssigned(m, ip)
  PROVE  RegularAddrs'
<1>1. /\ addr' = [addr EXCEPT ![m] = ip] /\ leased' = leased \cup {m}
      /\ stations' = stations /\ m \in stations
      /\ \A n \in stations \ {m} : addr[n] # ip
  BY DEF IpAssigned
<1>2. addr \in AddrTable /\ ip # NoIp
  BY TakenApart, AclAssumption DEF EnvType
<1>3. addr'[m] = ip /\ \A n \in Mac \ {m} : addr'[n] = addr[n] /\ addr[n] # ip
  BY <1>1, <1>2 DEF AddrTable, RegularAddrs
<1>4. \A n \in Mac : addr'[n] # NoIp => n \in stations' \cap leased'
  BY <1>1, <1>3 DEF RegularAddrs
<1>5. \A n, p \in Mac : addr'[n] = addr'[p] /\ addr'[n] # NoIp => n = p
  BY <1>3 DEF RegularAddrs
<1> QED BY <1>4, <1>5 DEF RegularAddrs

LEMMA LeavingKeepsAddrs ==
  ASSUME PortalInv, RegularAddrs, "late" \notin Clients, NEW m \in Mac,
         Disconnected(m)
  PROVE  /\ RegularAddrs' /\ addr'[m] = NoIp
         /\ \A n \in Mac \ {m} : addr'[n] = addr[n]
<1>1. /\ stations' = stations \ {m} /\ leased' = leased \ {m}
      /\ addr' = [addr EXCEPT ![m] = NoIp]
  BY DEF Disconnected
<1>2. addr \in AddrTable
  BY TakenApart DEF EnvType
<1>3. addr'[m] = NoIp /\ \A n \in Mac \ {m} : addr'[n] = addr[n]
  BY <1>1, <1>2 DEF AddrTable
<1>4. \A n \in Mac : addr'[n] # NoIp => n \in stations' \cap leased'
  BY <1>1, <1>3 DEF RegularAddrs
<1>5. \A n, p \in Mac : addr'[n] = addr'[p] /\ addr'[n] # NoIp => n = p
  BY <1>3 DEF RegularAddrs
<1> QED BY <1>3, <1>4, <1>5 DEF RegularAddrs

LEMMA NothingCharged ==
  ASSUME PortalInv, NEW A, Homed(sessions, A), Fits(sessions, quota, Today),
         sessions' = sessions, quota' = quota
  PROVE  QuotaKept(A)
BY QuotaTypes DEF QuotaKept, Grows

LEMMA RefusedKeepsQuota ==
  ASSUME PortalInv, QuotaInv, NEW mac \in Mac, Refused(QuotaRead(mac))
  PROVE  QuotaKept(addr)
<1>1. sessions' = sessions /\ quota' = QuotaRead(mac)
  BY DEF Refused
<1> QED BY <1>1, QuotaTypes, QuotaReadFits DEF QuotaInv, QuotaKept

LEMMA RequestKeepsQuota ==
  ASSUME Leasing, PortalInv, QuotaInv, NEW ip \in Callers,
         \/ ConfirmRefused(ip) \/ ConfirmGranted(ip)
         \/ ProbeExpired(ip) \/ ProbeByMac(ip)
  PROVE  QuotaInv' /\ UsageKept
<1>1. UNCHANGED <<now, env>> /\ RegularAddrs
  BY DEF ConfirmRefused, ConfirmGranted, ProbeExpired, ProbeByMac, QuotaInv
<1>2. PICK m \in stations : /\ ip # NoIp /\ addr[m] = ip
                            /\ \A n \in Mac : addr[n] = ip => n = m
                            /\ LeaseHolder(ip) = {m} /\ ConfirmMac(ip) = {m}
  BY <1>1, RegularCaller
<1>3. m \in Mac /\ ip \in IpOrNone
  BY QuotaTypes, CallersType
<1>4. CASE ConfirmRefused(ip)
  <2>1. Refused(QuotaRead(m))
    BY <1>2, <1>4 DEF ConfirmRefused
  <2> QED BY <1>1, <1>3, <2>1, RefusedKeepsQuota, SameAddrs
<1>5. CASE ConfirmGranted(ip)
  <2> DEFINE q == QuotaRead(m)
             remaining == QuotaRemaining(q, m)
             granted == Lesser(remaining, UntilNextDay)
  <2>1. m # NoMac
    BY <1>3, AclAssumption
  <2>2. StartOrResume(ip, m, granted, q)
    BY <1>2, <1>5, <2>1 DEF ConfirmGranted
  <2>3. /\ Fits(sessions, q, Today) /\ Grows(quota, q, Today) /\ q \in QuotaTable
        /\ remaining \in 0 .. QuotaSec /\ q[m].used + remaining = QuotaSec
    BY <1>3, QuotaTypes, QuotaReadFits DEF QuotaInv
  <2>4. UntilNextDay \in Nat /\ q[m].used \in Nat /\ QuotaSec \in Nat
    BY <1>3, <2>3, DaysAreNat, QuotaTypes, PortalAssumption
       DEF TypeOK, QuotaTable, QuotaRecord
  <2> HIDE DEF q, remaining
  <2>5. granted \in Nat /\ granted + q[m].used <= QuotaSec
    BY <2>3, <2>4 DEF Lesser
  <2> HIDE DEF granted
  <2>6. QuotaKept(addr)
    <3>1. stations \in SUBSET Mac /\ Homed(sessions, addr)
      BY QuotaTypes DEF QuotaInv
    <3> QED BY <1>2, <1>3, <2>2, <2>3, <2>5, <3>1, StartKeepsQuota
  <2> QED BY <1>1, <2>6, SameAddrs
<1>6. CASE ProbeExpired(ip)
  <2>1. PICK i \in Expired(sessions) : Revoke({i})
    BY <1>6 DEF ProbeExpired
  <2>2. {i} \in SUBSET Live(sessions)
    BY DEF Expired
  <2> QED BY <1>1, <2>1, <2>2, RevokeKeepsQuota, SameAddrs
<1>7. CASE ProbeByMac(ip)
  <2> DEFINE i == FirstOf(ByMac(sessions, m))
  <2>1. /\ ByMac(sessions, m) # {}
        /\ \/ Revoke({i})
           \/ /\ sessions' = [sessions EXCEPT ![i].ip = ip]
              /\ UNCHANGED quota
    BY <1>2, <1>7 DEF ProbeByMac
  <2>2. i \in ByMac(sessions, m) /\ i \in Slot
    BY <2>1, SearchesAreSlots, FirstSlot
  <2>3. i \in Live(sessions) /\ sessions[i].mac = m
    BY <2>2 DEF ByMac
  <2> HIDE DEF i
  <2>4. CASE Revoke({i})
    <3>1. {i} \in SUBSET Live(sessions)
      BY <2>3
    <3> QED BY <1>1, <2>4, <3>1, RevokeKeepsQuota, SameAddrs
  <2>5. CASE sessions' = [sessions EXCEPT ![i].ip = ip] /\ quota' = quota
    <3>1. sessions \in SessionTable /\ sessions[i] \in Session
      BY <2>2, QuotaTypes DEF SessionTable
    <3>2. /\ \A j \in Slot \ {i} : sessions'[j] = sessions[j]
          /\ Like(sessions'[i], sessions[i]) /\ sessions'[i].ip = ip
      BY <2>2, <2>5, <3>1 DEF Like, Session, SessionTable
    <3>3. \A j \in Live(sessions') : /\ j \in Live(sessions)
                                     /\ Like(sessions'[j], sessions[j])
                                     /\ j # i => sessions'[j] = sessions[j]
      BY <2>3, <3>2 DEF Live, Like
    <3>4. \A j \in Live(sessions') \ {i} :
            j \in Expired(sessions) => j \in Expired(sessions')
      BY <3>3 DEF Expired
    <3>5. Fits(sessions', quota, Today)
      BY <1>3, <3>3, QuotaTypes, FitsCarries DEF QuotaInv
    <3>6. Homed(sessions', addr)
      BY <1>2, <2>3, <3>2, <3>3, <3>4 DEF QuotaInv, Homed, Like
    <3>7. QuotaKept(addr)
      BY <2>5, <3>5, <3>6, QuotaTypes DEF QuotaKept, Grows
    <3> QED BY <1>1, <3>7, SameAddrs
  <2> QED BY <2>1, <2>4, <2>5
<1> QED BY <1>4, <1>5, <1>6, <1>7

LEMMA ConnectKeepsQuota ==
  ASSUME PortalInv, QuotaInv, NEW m \in Mac, ConnectToPortal(m) \/ ConnectResumed(m)
  PROVE  QuotaInv' /\ UsageKept
<1>1. /\ m \notin stations /\ stations' = stations \cup {m}
      /\ now' = now /\ clockSet' = clockSet /\ wallOffset' = wallOffset
      /\ addr' = addr /\ leased' = leased
  BY DEF ConnectToPortal, ConnectResumed, Associated
<1>2. RegularAddrs'
  BY <1>1 DEF QuotaInv, RegularAddrs
<1>3. QuotaKept(addr)
  <2>1. CASE Refused(quota)
    BY <2>1, NothingCharged DEF Refused, QuotaInv
  <2>2. CASE Refused(QuotaRead(m))
    BY <2>2, RefusedKeepsQuota
  <2>3. CASE ConnectResumed(m)
    <3> DEFINE q == QuotaRead(m)
               remaining == QuotaRemaining(q, m)
    <3>1. StartOrResume(NoIp, m, remaining, q)
      BY <2>3 DEF ConnectResumed
    <3>2. /\ Fits(sessions, q, Today) /\ Grows(quota, q, Today) /\ q \in QuotaTable
          /\ remaining \in 0 .. QuotaSec /\ q[m].used + remaining = QuotaSec
      BY QuotaTypes, QuotaReadFits DEF QuotaInv
    <3>3. q[m].used \in Nat /\ QuotaSec \in Nat
      BY <3>2, PortalAssumption DEF QuotaTable, QuotaRecord
    <3> HIDE DEF q, remaining
    <3>4. remaining \in Nat /\ remaining + q[m].used <= QuotaSec
      BY <3>2, <3>3
    <3>5. ByMac(sessions, m) = {}
      BY <1>1, QuotaTypes DEF ByMac, Proper, Belongs
    <3>6. /\ stations' \in SUBSET Mac /\ stations \subseteq stations'
          /\ m \in stations' /\ Homed(sessions, addr) /\ NoIp \in IpOrNone
      BY <1>1, QuotaTypes DEF QuotaInv, IpOrNone
    <3> QED BY <3>1, <3>2, <3>4, <3>5, <3>6, StartKeepsQuota
  <2> QED BY <2>1, <2>2, <2>3 DEF ConnectToPortal
<1> QED BY <1>1, <1>2, <1>3, SameDay

LEMMA IpAssignedKeepsQuota ==
  ASSUME Leasing, PortalInv, QuotaInv, NEW m \in Mac, NEW ip \in Ip,
         IpAssigned(m, ip)
  PROVE  QuotaInv' /\ UsageKept
<1> DEFINE mine == ByMac(sessions, m) \ Expired(sessions)
           i == FirstOf(mine)
           t == [sessions EXCEPT ![i].ip = ip, ![i].admitted = TRUE]
           A == [addr EXCEPT ![m] = ip]
<1>1. /\ addr' = A /\ leased' = leased \cup {m} /\ stations' = stations
      /\ now' = now /\ clockSet' = clockSet /\ wallOffset' = wallOffset
      /\ m \in stations
      /\ \A n \in stations \ {m} : addr[n] # ip
      /\ IF mine = {} THEN UNCHANGED core
         ELSE Refresh(t, {}, quota, globalEnd, napt)
  BY DEF IpAssigned
<1>2. /\ addr \in AddrTable /\ RegularAddrs /\ Homed(sessions, addr)
      /\ Fits(sessions, quota, Today)
  BY TakenApart DEF EnvType, QuotaInv
<1>3. ip # NoIp /\ ip \in IpOrNone
  BY AclAssumption DEF IpOrNone
<1>4. A[m] = ip /\ \A n \in Mac \ {m} : A[n] = addr[n]
  BY <1>2 DEF AddrTable
<1> HIDE DEF A
<1>6. RegularAddrs'
  BY <1>2, LeaseKeepsAddrs
<1>7. \A j \in Live(sessions) : sessions[j].mac \in Mac
  BY <1>2 DEF Fits
<1>8. \A j \in Live(sessions) \ Expired(sessions) :
        sessions[j].mac # m => sessions[j].ip \in {NoIp, A[sessions[j].mac]}
  BY <1>2, <1>4, <1>7 DEF Homed
<1>10. m # NoMac
  BY AclAssumption
<1>9. QuotaKept(A)
  <2>1. CASE mine = {}
    <3>1. sessions' = sessions /\ quota' = quota
      BY <1>1, <2>1 DEF core
    <3>2. Homed(sessions, A)
      BY <1>8, <1>10, <2>1 DEF Homed, ByMac
    <3> QED BY <1>2, <3>1, <3>2, NothingCharged
  <2>2. CASE mine # {}
    <3>1. i \in ByMac(sessions, m)
      BY <2>2, SearchesAreSlots, FirstSlot
    <3>2. i \in Live(sessions) /\ i \in Slot /\ sessions[i].mac = m
      BY <3>1, SearchesAreSlots DEF ByMac
    <3> HIDE DEF i
    <3>3. sessions \in SessionTable /\ sessions[i] \in Session
      BY <3>2, QuotaTypes DEF SessionTable
    <3>4. Proper(t, stations) /\ t = [sessions EXCEPT ![i].ip = ip]
      BY <1>3, <3>2, QuotaTypes, ReboundAddress
    <3>5. Refresh(t, {}, quota, globalEnd, napt)
      BY <1>1, <2>2 DEF i
    <3>6. /\ \A j \in Slot \ {i} : t[j] = sessions[j]
          /\ Like(t[i], sessions[i]) /\ t[i].ip = ip
      BY <3>2, <3>3, <3>4 DEF Like, Session, SessionTable
    <3> HIDE DEF t
    <3>7. \A j \in Live(t) : /\ j \in Live(sessions)
                             /\ Like(t[j], sessions[j])
                             /\ j # i => t[j] = sessions[j]
      BY <3>2, <3>6 DEF Live, Like
    <3>8. Fits(t, quota, Today)
      BY <1>2, <3>7, QuotaTypes, FitsCarries
    <3>9. Homed(t, A)
      <4>1. ASSUME NEW j \in Live(t) \ Expired(t), j # i
            PROVE  t[j].ip \in {NoIp, A[t[j].mac]}
        <5>1. t[j] = sessions[j] /\ j \in Live(sessions) \ Expired(sessions)
          BY <3>7, <4>1 DEF Expired
        <5>2. sessions[j].mac # m
          BY <1>10, <3>2, <4>1, <5>1, QuotaTypes DEF MacsOnce
        <5> QED BY <1>8, <5>1, <5>2
      <4> QED BY <1>4, <3>2, <3>6, <4>1 DEF Homed, Like
    <3>10. {} \in SUBSET Live(t)
      OBVIOUS
    <3> QED BY <3>4, <3>5, <3>8, <3>9, <3>10, QuotaTypes, RefreshFits
            DEF QuotaKept
  <2> QED BY <2>1, <2>2
<1> QED BY <1>1, <1>6, <1>9, SameDay

LEMMA DisconnectedKeepsQuota ==
  ASSUME Leasing, PortalInv, QuotaInv, NEW m \in Mac, Disconnected(m)
  PROVE  QuotaInv' /\ UsageKept
<1>1. /\ stations' = stations \ {m} /\ leased' = leased \ {m}
      /\ addr' = [addr EXCEPT ![m] = NoIp]
      /\ now' = now /\ clockSet' = clockSet /\ wallOffset' = wallOffset
      /\ IF Ended(m) = {} THEN UNCHANGED core ELSE Revoke(Ended(m))
  BY DEF Disconnected, Leasing
<1>2. /\ addr \in AddrTable /\ RegularAddrs /\ Homed(sessions, addr)
      /\ Fits(sessions, quota, Today)
  BY TakenApart DEF EnvType, QuotaInv
<1>3. /\ RegularAddrs' /\ addr'[m] = NoIp
      /\ \A n \in Mac \ {m} : addr'[n] = addr[n]
  BY <1>2, LeavingKeepsAddrs DEF Leasing
<1>5. Proper(sessions, stations)
  BY QuotaTypes
<1>6. ByMac(sessions, m) \subseteq Ended(m) /\ Ended(m) \in SUBSET Live(sessions)
  BY SearchesAreSlots DEF Ended
<1>7. m # NoMac
  BY AclAssumption
<1>8. QuotaKept(addr')
  <2>1. CASE Ended(m) = {}
    <3>1. sessions' = sessions /\ quota' = quota
      BY <1>1, <2>1 DEF core
    <3>2. \A i \in Live(sessions) : sessions[i].mac \in Mac \ {m}
      BY <1>2, <1>6, <1>7, <2>1 DEF Fits, ByMac
    <3>3. Homed(sessions, addr')
      BY <1>2, <1>3, <3>2 DEF Homed
    <3> QED BY <1>2, <3>1, <3>3, NothingCharged
  <2>2. CASE Ended(m) # {}
    <3>1. Revoke(Ended(m))
      BY <1>1, <2>2
    <3>2. QuotaKept(addr)
      BY <1>6, <3>1, RevokeKeepsQuota
    <3>3. sessions' = Without(sessions, Ended(m) \cup Expired(sessions))
      BY <3>1 DEF Revoke, Refresh
    <3>4. \A i \in Live(sessions') : /\ i \in Live(sessions) \ Ended(m)
                                     /\ sessions'[i] = sessions[i]
      <4> DEFINE R == Ended(m) \cup Expired(sessions)
      <4>1. /\ Live(Without(sessions, R)) = Live(sessions) \ R
            /\ \A i \in Slot \ R : Without(sessions, R)[i] = sessions[i]
        BY <1>5, WithoutProper
      <4>2. Live(sessions) \in SUBSET Slot
        BY SearchesAreSlots
      <4> QED BY <3>3, <4>1, <4>2
    <3>5. \A i \in Live(sessions') : sessions'[i].mac \in Mac \ {m}
      BY <1>2, <1>6, <1>7, <3>4 DEF Fits, ByMac
    <3>6. Homed(sessions', addr')
      BY <1>3, <3>2, <3>5 DEF QuotaKept, Homed
    <3> QED BY <3>2, <3>6 DEF QuotaKept
  <2> QED BY <2>1, <2>2
<1> QED BY <1>1, <1>3, <1>8, SameDay

LEMMA HeartbeatKeepsQuota ==
  ASSUME PortalInv, QuotaInv, NEW i \in Slot, Heartbeat(i)
  PROVE  QuotaInv' /\ UsageKept
<1>1. /\ UNCHANGED <<now, env>> /\ i \in Live(sessions)
      /\ \/ /\ sessions' = [sessions EXCEPT ![i].accounted =
                              Accounted(sessions[i])]
            /\ quota' = Charged(quota, sessions, {i})
         \/ Revoke({i})
  BY DEF Heartbeat
<1>2. /\ RegularAddrs /\ Homed(sessions, addr) /\ Fits(sessions, quota, Today)
      /\ {i} \in SUBSET Live(sessions)
  BY <1>1 DEF QuotaInv
<1>3. CASE Revoke({i})
  BY <1>1, <1>2, <1>3, RevokeKeepsQuota, SameAddrs
<1>4. CASE /\ sessions' = [sessions EXCEPT ![i].accounted =
                             Accounted(sessions[i])]
           /\ quota' = Charged(quota, sessions, {i})
  <2> DEFINE s == [sessions[i] EXCEPT !.accounted = Accounted(sessions[i])]
  <2>1. sessions[i] \in Session /\ sessions \in SessionTable
    BY QuotaTypes DEF SessionTable
  <2>2. /\ s.mac = sessions[i].mac /\ s.ip = sessions[i].ip
        /\ s.active = sessions[i].active
        /\ s.start = sessions[i].start /\ s.granted = sessions[i].granted
    BY <2>1 DEF Session
  <2>3. /\ sessions'[i] = s
        /\ \A j \in Slot \ {i} : sessions'[j] = sessions[j]
    BY <1>4, <2>1 DEF SessionTable
  <2>4. /\ Grows(quota, quota', Today)
        /\ \A m \in Mac : quota'[m].day <= Today
        /\ \A j \in Live(sessions) \ {i} :
              FitsOne(quota'[sessions[j].mac], sessions[j], Today)
        /\ FitsOne(quota'[sessions[i].mac], s, Today)
    BY <1>2, <1>4, QuotaTypes, ChargedFits
  <2> HIDE DEF s
  <2>5. \A j \in Live(sessions') : /\ j \in Live(sessions)
                                   /\ sessions'[j].mac = sessions[j].mac
                                   /\ sessions'[j].ip = sessions[j].ip
                                   /\ EndTime(sessions'[j]) = EndTime(sessions[j])
    BY <1>1, <2>2, <2>3 DEF Live, EndTime
  <2>6. Fits(sessions', quota', Today)
    <3>1. ASSUME NEW j \in Live(sessions')
          PROVE  /\ sessions'[j].mac \in Mac
                 /\ FitsOne(quota'[sessions'[j].mac], sessions'[j], Today)
      <4>1. /\ sessions'[j].mac = sessions[j].mac /\ sessions[j].mac \in Mac
            /\ j \in Live(sessions) /\ j \in Slot
        BY <1>2, <2>5, SearchesAreSlots DEF Fits
      <4>2. CASE j = i
        BY <2>3, <2>4, <4>1, <4>2
      <4>3. CASE j # i
        BY <2>3, <2>4, <4>1, <4>3
      <4> QED BY <4>1, <4>2, <4>3
    <3> QED BY <2>4, <3>1 DEF Fits
  <2>7. Homed(sessions', addr)
    BY <1>2, <2>5 DEF Homed, Expired
  <2>8. QuotaKept(addr)
    BY <2>4, <2>6, <2>7 DEF QuotaKept
  <2> QED BY <1>1, <1>2, <2>8, SameAddrs
<1> QED BY <1>1, <1>3, <1>4

-----------------------------------------------------------------------------
(* The days.                                                               *)

LEMMA DivGrows ==
  ASSUME NEW x \in Nat, NEW y \in Nat, x <= y, NEW d \in Nat \ {0}
  PROVE  x \div d <= y \div d
<1> DEFINE a == x \div d
           b == y \div d
<1>1. /\ a \in Nat /\ b \in Nat
      /\ a * d <= x /\ y < (b + 1) * d
  OBVIOUS
<1> HIDE DEF a, b
<1>2. ASSUME b + 1 <= a PROVE FALSE
  <2>1. (b + 1) * d <= a * d
    BY <1>1, <1>2
  <2>2. (b + 1) * d \in Nat /\ a * d \in Nat
    BY <1>1
  <2> QED BY <1>1, <2>1, <2>2
<1>3. a <= b
  BY <1>1, <1>2
<1> QED BY <1>3 DEF a, b

\* Nothing but the time and the day are others, and they are later ones.
LEMMA LaterDay ==
  ASSUME PortalInv, QuotaInv, Today' \in Nat, Today <= Today',
         now' \in Nat, now <= now',
         UNCHANGED <<sessions, quota, addr, stations, leased>>
  PROVE  QuotaInv' /\ UsageKept
<1> DEFINE d == Today'
<1>1. /\ RegularAddrs /\ Homed(sessions, addr) /\ Fits(sessions, quota, Today)
      /\ Today \in Nat /\ QuotaSec \in Nat
  BY QuotaTypes, PortalAssumption DEF QuotaInv
<1>2. d \in Nat /\ Today <= d
  OBVIOUS
<1> HIDE DEF d
<1>3. ASSUME NEW i \in Live(sessions)
      PROVE  FitsOne(quota[sessions[i].mac], sessions[i], d)
  <2>1. /\ sessions[i].mac \in Mac
        /\ FitsOne(quota[sessions[i].mac], sessions[i], Today)
        /\ quota[sessions[i].mac].day <= Today
        /\ quota[sessions[i].mac].day \in Nat
        /\ sessions[i].day \in Nat
    BY <1>1, QuotaTypes DEF Fits, Live, SessionTable, Session
  <2>2. CASE d = Today
    BY <2>1, <2>2
  <2>3. CASE d # Today
    <3>1. quota[sessions[i].mac].day # d /\ sessions[i].day <= d
      BY <1>1, <1>2, <2>1, <2>3 DEF FitsOne, Dated
    <3> QED BY <2>1, <3>1 DEF FitsOne, Dated
  <2> QED BY <2>2, <2>3
<1>4. \A m \in Mac : quota[m].day <= d
  BY <1>1, <1>2, QuotaTypes DEF Fits
<1>5. Fits(sessions, quota, d)
  BY <1>1, <1>3, <1>4 DEF Fits
<1>6. Fits(sessions, quota, Today)'
  BY <1>5 DEF Fits, FitsOne, Owed, Dated, Live, d
<1>7. (RegularAddrs /\ Homed(sessions, addr))'
  <2>1. \A i \in Live(sessions) : EndTime(sessions[i]) \in Nat
    <3>1. \A x, y \in Nat : x + y * TicksPerSec \in Nat
      BY PortalAssumption
    <3> QED BY <3>1, QuotaTypes DEF EndTime, Live, SessionTable, Session
  <2>2. Expired(sessions) \subseteq Expired(sessions)'
    <3>1. \A i \in Live(sessions) : EndTime(sessions[i])' = EndTime(sessions[i])
      BY DEF EndTime
    <3>2. Live(sessions)' = Live(sessions)
      BY DEF Live
    <3>3. now \in Nat
      BY QuotaTypes
    <3> QED BY <2>1, <3>1, <3>2, <3>3 DEF Expired
  <2>3. Homed(sessions, addr)'
    BY <1>1, <2>2 DEF Homed, Live
  <2> QED BY <1>1, <2>3 DEF RegularAddrs
<1>8. UsageKept
  BY QuotaTypes DEF UsageKept, Grows
<1> QED BY <1>6, <1>7, <1>8 DEF QuotaInv

LEMMA OutsideKeepsQuota ==
  ASSUME PortalInv, QuotaInv, Uplink \/ TimeSync \/ Tick \/ UNCHANGED vars
  PROVE  QuotaInv' /\ UsageKept
<1>1. UNCHANGED <<sessions, quota, addr, stations, leased, wallOffset>>
  BY DEF Uplink, TimeSync, Tick, vars, core, env
<1>2. /\ now \in Nat /\ wallOffset \in Nat /\ clockSet \in BOOLEAN
      /\ TicksPerSec \in Nat \ {0} /\ DaySec \in Nat \ {0} /\ Today \in Nat
  BY QuotaTypes, TakenApart, PortalAssumption DEF EnvType
<1>3. now' \in Nat /\ now <= now'
  BY <1>2 DEF Uplink, TimeSync, Tick, vars
<1>4. now' \div TicksPerSec \in Nat /\ now \div TicksPerSec \in Nat
      /\ now \div TicksPerSec <= now' \div TicksPerSec
  BY <1>2, <1>3, DivModNat, DivGrows
<1>5. WallSec \in Nat /\ WallSec' \in Nat /\ WallSec <= WallSec'
  BY <1>1, <1>2, <1>4 DEF WallSec
<1>6. /\ WallSec \div DaySec \in Nat /\ WallSec' \div DaySec \in Nat
      /\ WallSec \div DaySec <= WallSec' \div DaySec
  BY <1>2, <1>5, DivModNat, DivGrows
<1>7. clockSet' = clockSet \/ (~clockSet /\ clockSet' = TRUE)
  BY DEF Uplink, TimeSync, Tick, vars, env
<1>8. /\ Today = IF clockSet THEN 2 + WallSec \div DaySec ELSE 1
      /\ Today' = IF clockSet' THEN 2 + WallSec' \div DaySec ELSE 1
  BY DEF Today
<1>9. Today' \in Nat /\ Today <= Today'
  BY <1>6, <1>7, <1>8
<1> QED BY <1>1, <1>3, <1>9, LaterDay

-----------------------------------------------------------------------------
LEMMA InitiallyQuotaInv == Init => QuotaInv
<1> SUFFICES ASSUME Init PROVE QuotaInv
  OBVIOUS
<1>1. /\ addr = [m \in Mac |-> NoIp] /\ sessions = [i \in Slot |-> NoSession]
      /\ quota = [m \in Mac |-> [day |-> 0, used |-> 0]]
  BY DEF Init
<1>2. Live(sessions) = {}
  BY <1>1 DEF Live, NoSession
<1>3. Today \in Nat
  BY InitiallyPortalInv, QuotaTypes
<1>4. \A m \in Mac : addr[m] = NoIp /\ quota[m].day = 0
  BY <1>1
<1> QED BY <1>2, <1>3, <1>4 DEF QuotaInv, RegularAddrs, Homed, Fits

LEMMA QuotaInvKept ==
  ASSUME Leasing, PortalInv, QuotaInv, [Next]_vars
  PROVE  QuotaInv' /\ UsageKept
<1>1. CASE Request
  BY <1>1, RequestKeepsQuota DEF Request
<1>2. CASE WifiEvent
  <2>1. PICK m \in Mac :
          \/ ConnectToPortal(m)
          \/ ConnectResumed(m)
          \/ \E ip \in Ip : IpAssigned(m, ip) \/ StaticAddress(m, ip)
          \/ Disconnected(m)
    BY <1>2 DEF WifiEvent
  <2>2. \A ip \in Ip : ~StaticAddress(m, ip)
    BY DEF StaticAddress, Leasing
  <2> QED BY <2>1, <2>2, ConnectKeepsQuota, IpAssignedKeepsQuota,
             DisconnectedKeepsQuota
<1>3. CASE \E i \in Slot : Heartbeat(i)
  BY <1>3, HeartbeatKeepsQuota
<1>4. CASE Uplink \/ TimeSync \/ Tick \/ UNCHANGED vars
  BY <1>4, OutsideKeepsQuota
<1> QED BY <1>1, <1>2, <1>3, <1>4 DEF Next

LEMMA QuotaInvAlways ==
  ASSUME Leasing PROVE Spec => [](PortalInv /\ QuotaInv)
<1>1. Init => PortalInv /\ QuotaInv
  BY InitiallyPortalInv, InitiallyQuotaInv
<1>2. PortalInv /\ QuotaInv /\ [Next]_vars => (PortalInv /\ QuotaInv)'
  BY PortalInvKept, QuotaInvKept
<1> QED BY <1>1, <1>2, PTL DEF Spec

(* What a session may still use and what its device has used today never   *)
(* exceed the quota together: no order of confirmations, reconnects,       *)
(* leases, heartbeats and midnights makes a session outgrow what is left   *)
(* of the record that checkpoint_session_usage charges.                    *)
THEOREM GrantsStayWithinQuota ==
  ASSUME Leasing PROVE Spec => []GrantWithinQuota
<1>1. QuotaInv => GrantWithinQuota
  BY DEF QuotaInv, Fits, FitsOne, Owed, GrantWithinQuota
<1> QED BY <1>1, QuotaInvAlways, PTL

(* Usage charged to the current day is kept until the day is over: neither *)
(* the renewal of a record nor the late checkpoint of a session that began *)
(* the day before forgets it.                                              *)
THEOREM UsageIsNotForgotten ==
  ASSUME Leasing PROVE Spec => UsageNotForgotten
<1>1. PortalInv /\ QuotaInv /\ [Next]_vars =>
        [\A m \in Mac :
           /\ quota[m].day = Today /\ Today' = Today
           /\ quota[m].used > 0
           => quota'[m].day = Today /\ quota'[m].used >= quota[m].used]_vars
  BY QuotaInvKept DEF UsageKept, Grows
<1> QED BY <1>1, QuotaInvAlways, PTL DEF Spec, UsageNotForgotten

-----------------------------------------------------------------------------
(* The packet filter mirrors the session table, for stations that keep     *)
(* their address while they are associated and a filter with an entry for  *)
(* each of them.                                                           *)

InFilter(a, ip, m) == \E k \in AclSlot : a[k].ip = ip /\ a[k].mac = m
InTable(t, ip, m)  == \E i \in Live(t) : t[i].ip = ip /\ t[i].mac = m

Mirrors(a, t) ==
  /\ \A ip \in Ip, m \in Mac : InFilter(a, ip, m) <=> InTable(t, ip, m)
  /\ \A k \in AclSlot : a[k].ip # NoIp => a[k].mac \in Mac

Apart(a) == a \in AclTable /\ MacsDiffer(a) /\ EntriesDiffer(a)

\* Every session, over or not, is at the address of its station or at none.
Settled(t, A) ==
  \A i \in Live(t) : t[i].mac \in Mac /\ t[i].ip \in {NoIp, A[t[i].mac]}

OneHolder(A) == \A m, n \in Mac : A[m] = A[n] /\ A[m] # NoIp => m = n

MirrorInv ==
  Apart(acl) /\ Settled(sessions, addr) /\ Mirrors(acl, sessions)

\* Regular clients, with room for all of them in the packet filter.
Regular == Clients = {} /\ Cardinality(Mac) <= AclMaxClients

-----------------------------------------------------------------------------
(* Room: distinct stations in every slot but none of them mac.             *)
LEMMA NotAllTaken ==
  ASSUME NEW N \in Nat \ {0}, Cardinality(Mac) <= N, NEW mac \in Mac,
         NEW f \in [0 .. (N - 1) -> Mac \ {mac}],
         \A i, j \in 0 .. (N - 1) : f[i] = f[j] => i = j
  PROVE  FALSE
<1>1. IsFiniteSet(Mac) /\ Cardinality(Mac) \in Nat
  BY PortalAssumption, FS_CardinalityType
<1>2. /\ IsFiniteSet(Mac \ {mac})
      /\ Cardinality(Mac \ {mac}) = Cardinality(Mac) - 1
  BY <1>1, FS_RemoveElement
<1>3. Cardinality(0 .. (N - 1)) = N
  BY FS_Interval
<1>4. f \in Injection(0 .. (N - 1), Mac \ {mac})
  BY DEF Injection, IsInjective
<1>5. Cardinality(0 .. (N - 1)) <= Cardinality(Mac \ {mac})
  BY <1>2, <1>4, FS_Injection
<1> QED BY <1>1, <1>2, <1>3, <1>5

LEMMA FilterHasRoom ==
  ASSUME NEW a, Apart(a), \A k \in AclSlot : a[k].ip # NoIp => a[k].mac \in Mac,
         NEW mac \in Mac, AclByMac(a, mac) = {}, Cardinality(Mac) <= AclMaxClients
  PROVE  AclFree(a) # {}
<1> SUFFICES ASSUME AclFree(a) = {} PROVE FALSE
  OBVIOUS
<1> DEFINE f == [k \in 0 .. (AclMaxClients - 1) |-> a[k].mac]
<1>1. mac # NoMac /\ AclMaxClients \in Nat \ {0} /\ NoMac \notin Mac
  BY AclAssumption
<1>2. \A k \in 0 .. (AclMaxClients - 1) : a[k].mac \in Mac \ {mac}
  BY <1>1 DEF AclFree, AclByMac, AclSlot
<1>3. \A j, k \in 0 .. (AclMaxClients - 1) : a[j].mac = a[k].mac => j = k
  BY <1>1, <1>2 DEF Apart, MacsDiffer, AclSlot
<1>4. f \in [0 .. (AclMaxClients - 1) -> Mac \ {mac}]
  BY <1>2
<1>5. \A j, k \in 0 .. (AclMaxClients - 1) : f[j] = f[k] => j = k
  BY <1>3
<1> HIDE DEF f
<1> QED BY <1>1, <1>4, <1>5, NotAllTaken

LEMMA TableHasRoom ==
  ASSUME NEW t, MacsOnce(t), \A i \in Live(t) : t[i].mac \in Mac,
         NEW mac \in Mac, ByMac(t, mac) = {}
  PROVE  FreeSlot(t) # {}
<1> SUFFICES ASSUME FreeSlot(t) = {} PROVE FALSE
  OBVIOUS
<1> DEFINE f == [i \in 0 .. (MaxClients - 1) |-> t[i].mac]
<1>1. mac # NoMac /\ MaxClients \in Nat \ {0} /\ NoMac \notin Mac
      /\ Cardinality(Mac) <= MaxClients
  BY AclAssumption, PortalAssumption
<1>2. \A i \in 0 .. (MaxClients - 1) : i \in Live(t) /\ t[i].mac \in Mac \ {mac}
  BY <1>1 DEF FreeSlot, ByMac, Slot
<1>3. \A i, j \in 0 .. (MaxClients - 1) : t[i].mac = t[j].mac => i = j
  BY <1>1, <1>2 DEF MacsOnce
<1>4. f \in [0 .. (MaxClients - 1) -> Mac \ {mac}]
  BY <1>2
<1>5. \A i, j \in 0 .. (MaxClients - 1) : f[i] = f[j] => i = j
  BY <1>3
<1> HIDE DEF f
<1> QED BY <1>1, <1>4, <1>5, NotAllTaken

-----------------------------------------------------------------------------
(* The two tables, side by side.                                           *)

\* Sessions that go take their entries with them, and no others.
LEMMA CutMirrors ==
  ASSUME NEW t, MacsOnce(t), NEW A, Settled(t, A), OneHolder(A),
         NEW a, Apart(a), Mirrors(a, t), NEW R \in SUBSET Live(t)
  PROVE  /\ Apart(Cut(a, t, R)) /\ Mirrors(Cut(a, t, R), Without(t, R))
         /\ Settled(Without(t, R), A)
<1> DEFINE b == Cut(a, t, R)
           u == Without(t, R)
           Hit(k) == \E i \in R : k \in AclByIp(a, t[i].ip)
                                        \cup AclByMac(a, t[i].mac)
<1>1. /\ NoIp \notin Ip /\ NoMac \notin Mac
      /\ \A k \in AclSlot : b[k] = IF Hit(k) THEN NoEntry ELSE a[k]
      /\ NoEntry.ip = NoIp /\ NoEntry.mac = NoMac
  BY AclAssumption DEF Cut, NoEntry
<1>2. b \in AclTable
  BY CutType DEF Apart
<1>3. Live(u) = Live(t) \ R /\ \A i \in Live(u) : u[i] = t[i] /\ i \in Live(t)
  BY DEF Live, Without, NoSession
<1> HIDE DEF b, u
<1>4. Apart(b)
  BY <1>1, <1>2 DEF Apart, MacsDiffer, EntriesDiffer
<1>5. \A k \in AclSlot :
        b[k].ip # NoIp => b[k] = a[k] /\ b[k].mac \in Mac /\ ~Hit(k)
  BY <1>1 DEF Mirrors
<1>6. ASSUME NEW ip \in Ip, NEW m \in Mac, InFilter(b, ip, m)
      PROVE  InTable(u, ip, m)
  <2>1. PICK k \in AclSlot : b[k].ip = ip /\ b[k].mac = m
    BY <1>6 DEF InFilter
  <2>2. a[k].ip = ip /\ a[k].mac = m /\ ~Hit(k)
    BY <1>1, <1>5, <2>1
  <2>3. PICK i \in Live(t) : t[i].ip = ip /\ t[i].mac = m
    BY <2>2 DEF Mirrors, InFilter, InTable
  <2>4. i \notin R
    BY <1>1, <2>2, <2>3 DEF AclByIp
  <2> QED BY <1>3, <2>3, <2>4 DEF InTable
<1>7. ASSUME NEW ip \in Ip, NEW m \in Mac, InTable(u, ip, m)
      PROVE  InFilter(b, ip, m)
  <2>1. PICK i \in Live(t) : i \notin R /\ t[i].ip = ip /\ t[i].mac = m
    BY <1>3, <1>7 DEF InTable
  <2>2. PICK k \in AclSlot : a[k].ip = ip /\ a[k].mac = m
    BY <2>1 DEF Mirrors, InFilter, InTable
  <2>3. ASSUME NEW j \in R, k \in AclByIp(a, t[j].ip) \cup AclByMac(a, t[j].mac)
        PROVE  FALSE
    <3>1. j \in Live(t) /\ t[j].mac \in Mac
      BY DEF Settled
    <3>2. t[j].ip = ip \/ t[j].mac = m
      BY <2>2, <2>3 DEF AclByIp, AclByMac
    <3>3. t[j].mac = m
      BY <1>1, <2>1, <3>1, <3>2 DEF Settled, OneHolder
    <3> QED BY <1>1, <2>1, <3>1, <3>3 DEF MacsOnce
  <2> QED BY <1>1, <2>2, <2>3 DEF InFilter
<1>8. Settled(u, A)
  BY <1>3 DEF Settled
<1> QED BY <1>4, <1>5, <1>6, <1>7, <1>8 DEF Mirrors, b, u

\* An admission gives the station the address, and takes the one it had.
LEMMA AdmitBinds ==
  ASSUME Cardinality(Mac) <= AclMaxClients, NEW a, Apart(a),
         \A k \in AclSlot : a[k].ip # NoIp => a[k].mac \in Mac,
         NEW ip \in Ip, NEW mac \in Mac,
         \A k \in AclSlot : a[k].ip = ip => a[k].mac = mac
  PROVE  LET b == AclAdmit(a, ip, mac)
         IN  /\ Apart(b)
             /\ \A k \in AclSlot : b[k].ip # NoIp => b[k].mac \in Mac
             /\ \A p \in Ip, m \in Mac :
                  InFilter(b, p, m) <=> IF m = mac THEN p = ip
                                        ELSE InFilter(a, p, m)
<1> DEFINE b == AclAdmit(a, ip, mac)
<1>1. ip # NoIp /\ mac # NoMac /\ NoMac \notin Mac
  BY AclAssumption
<1>2. Apart(b)
  BY AdmitType, AdmitKeepsApart DEF Apart
<1>3. AclByMac(a, mac) = {} => AclByIp(a, ip) = {} /\ AclFree(a) # {}
  BY <1>1, FilterHasRoom DEF AclByMac, AclByIp
<1>4. PICK k \in AclSlot :
        /\ b = [a EXCEPT ![k] = [ip |-> ip, mac |-> mac]]
        /\ \/ k \in AclByMac(a, mac)
           \/ AclByMac(a, mac) = {} /\ k \in AclFree(a)
  BY <1>1, <1>3, AdmitCases DEF Apart
<1> HIDE DEF b
<1>5. /\ b[k].ip = ip /\ b[k].mac = mac
      /\ \A j \in AclSlot \ {k} : b[j] = a[j]
  BY <1>4 DEF Apart, AclTable
<1>6. \A j \in AclSlot \ {k} : a[j].mac # mac
  BY <1>1, <1>4 DEF AclByMac, Apart, MacsDiffer
<1>7. \A p \in Ip : a[k].ip = p => a[k].mac = mac
  BY <1>4, AclAssumption DEF AclByMac, AclFree
<1>8. \A p \in Ip, m \in Mac :
        InFilter(b, p, m) <=> IF m = mac THEN p = ip ELSE InFilter(a, p, m)
  BY <1>5, <1>6, <1>7 DEF InFilter
<1>9. \A j \in AclSlot : b[j].ip # NoIp => b[j].mac \in Mac
  BY <1>5
<1> QED BY <1>2, <1>8, <1>9 DEF b

\* A table that mirrors another in which a station takes an address.
LEMMA AdmitMirrors ==
  ASSUME Cardinality(Mac) <= AclMaxClients,
         NEW t, NEW A, Settled(t, A), NEW a, Apart(a), Mirrors(a, t),
         NEW ip \in Ip, NEW mac \in Mac, \A n \in Mac \ {mac} : A[n] # ip,
         NEW u,
         \A p \in Ip, m \in Mac :
           InTable(u, p, m) <=> IF m = mac THEN p = ip ELSE InTable(t, p, m)
  PROVE  Apart(AclAdmit(a, ip, mac)) /\ Mirrors(AclAdmit(a, ip, mac), u)
<1>1. ip # NoIp
  BY AclAssumption
<1>2. ASSUME NEW k \in AclSlot, a[k].ip = ip PROVE a[k].mac = mac
  <2>1. a[k].mac \in Mac
    BY <1>1, <1>2 DEF Mirrors
  <2>2. PICK i \in Live(t) : t[i].ip = ip /\ t[i].mac = a[k].mac
    BY <1>2, <2>1 DEF Mirrors, InFilter, InTable
  <2> QED BY <1>1, <2>1, <2>2 DEF Settled
<1>3. \A k \in AclSlot : a[k].ip # NoIp => a[k].mac \in Mac
  BY DEF Mirrors
<1> DEFINE b == AclAdmit(a, ip, mac)
<1>4. /\ Apart(b)
      /\ \A k \in AclSlot : b[k].ip # NoIp => b[k].mac \in Mac
      /\ \A p \in Ip, m \in Mac :
           InFilter(b, p, m) <=> IF m = mac THEN p = ip ELSE InFilter(a, p, m)
  BY <1>2, <1>3, AdmitBinds
<1> HIDE DEF b
<1>5. \A p \in Ip, m \in Mac : InFilter(b, p, m) <=> InTable(u, p, m)
  BY <1>4 DEF Mirrors
<1> QED BY <1>4, <1>5 DEF Mirrors, b

LEMMA MoveMirrors ==
  ASSUME Cardinality(Mac) <= AclMaxClients,
         NEW t \in SessionTable, MacsOnce(t), NEW A, Settled(t, A),
         NEW a, Apart(a), Mirrors(a, t),
         NEW ip \in Ip, NEW i \in Live(t), NEW B, B[t[i].mac] = ip,
         \A n \in Mac \ {t[i].mac} : B[n] = A[n] /\ A[n] # ip
  PROVE  LET u == [t EXCEPT ![i].ip = ip]
             b == AclAdmit(a, ip, t[i].mac)
         IN  Apart(b) /\ Mirrors(b, u) /\ Settled(u, B)
<1> DEFINE u == [t EXCEPT ![i].ip = ip]
           mac == t[i].mac
<1>1. /\ i \in Slot /\ t[i] \in Session /\ mac \in Mac
      /\ ip # NoIp /\ mac # NoMac
  BY AclAssumption DEF Live, SessionTable, Settled
<1>2. /\ u[i].ip = ip /\ u[i].mac = mac /\ u[i].active = t[i].active
      /\ \A j \in Slot \ {i} : u[j] = t[j]
  BY <1>1 DEF Session, SessionTable
<1>3. \A j \in Live(t) \ {i} : t[j].mac # mac
  BY <1>1 DEF MacsOnce
<1> HIDE DEF u, mac
<1>4. Live(u) = Live(t)
  BY <1>1, <1>2 DEF Live
<1>5. \A p \in Ip, m \in Mac :
        InTable(u, p, m) <=> IF m = mac THEN p = ip ELSE InTable(t, p, m)
  BY <1>1, <1>2, <1>3, <1>4 DEF InTable, mac, Live
<1>6. Settled(u, B)
  BY <1>1, <1>2, <1>3, <1>4 DEF Settled, mac, Live
<1>7. Apart(AclAdmit(a, ip, mac)) /\ Mirrors(AclAdmit(a, ip, mac), u)
  BY <1>1, <1>5, AdmitMirrors DEF mac
<1> QED BY <1>6, <1>7 DEF u, mac

LEMMA ProductPositive ==
  ASSUME NEW x \in Nat \ {0}, NEW y \in Nat \ {0}
  PROVE  x * y \in Nat \ {0}
OBVIOUS

\* Every session has a known MAC.
Named(t) == \A i \in Live(t) : t[i].mac \in Mac

(* From t to u a session of mac at ip, which is not over, is written to    *)
(* slot k, and the sessions in F are cleared: at most one, of the same     *)
(* MAC, or one that is over and at ip if there is none of the MAC.         *)
Turns(t, u, ip, mac, k, F) ==
  /\ k \in Live(u) \ Expired(u) /\ u[k].mac = mac /\ u[k].ip = ip
  /\ \A j \in Live(u) \ {k} : j \in Live(t) /\ u[j] = t[j] /\ t[j].mac # mac
  /\ \A j \in Live(t) : t[j].mac = mac \/ j \in Live(u) \ {k} \/ j \in F
  /\ \A i, j \in F : i = j
  /\ \A j \in F : \/ t[j].mac = mac
                  \/ /\ ip # NoIp /\ ByMac(t, mac) = {}
                     /\ j \in Expired(t) /\ t[j].ip = ip

(* What starting or resuming a session at the address of its station, or   *)
(* at none, does to the table.                                             *)
LEMMA StartedTurns ==
  ASSUME NEW t \in SessionTable, MacsOnce(t), Named(t),
         NEW A, Homed(t, A), OneHolder(A),
         now \in Nat, NEW mac \in Mac, NEW ip \in IpOrNone,
         NEW granted \in Nat \ {0}, ip # NoIp => A[mac] = ip
  PROVE  \E k \in Slot, F \in SUBSET Live(t) :
           Turns(t, Started(t, ip, mac, granted), ip, mac, k, F)
<1> DEFINE found == Found(t, ip, mac)
           rest == Without(t, found)
           i == FirstOf(found)
           k == NewSlot(rest, found, mac)
           u == Started(t, ip, mac, granted)
<1>1. mac # NoMac /\ TicksPerSec \in Nat \ {0}
  BY AclAssumption, PortalAssumption
<1>2. /\ found \in SUBSET Live(t) /\ found \in SUBSET Slot
      /\ found # {} => i \in found
      /\ \A j, l \in found : j = l
  BY FoundCases, SearchesAreSlots DEF Found
<1>3. \A j \in found : \/ t[j].mac = mac
                       \/ /\ ip # NoIp /\ ByMac(t, mac) = {}
                          /\ j \in Expired(t) /\ t[j].ip = ip
  <2>1. CASE ip = NoIp
    BY <2>1 DEF Found
  <2>2. CASE ip # NoIp /\ ByMac(t, mac) # {}
    <3>1. found = {FirstOf(ByMac(t, mac))}
      BY <2>2 DEF Found
    <3>2. FirstOf(ByMac(t, mac)) \in ByMac(t, mac)
      BY <2>2, SearchesAreSlots, FirstSlot
    <3> QED BY <3>1, <3>2 DEF ByMac
  <2>3. CASE ip # NoIp /\ ByMac(t, mac) = {}
    <3> SUFFICES ASSUME NEW j \in found
                 PROVE  t[j].mac = mac \/ (j \in Expired(t) /\ t[j].ip = ip)
      BY <2>3
    <3>1. j = FirstOf(ByIp(t, ip)) /\ ByIp(t, ip) # {}
      BY <2>3 DEF Found
    <3>2. j \in ByIp(t, ip)
      BY <3>1, SearchesAreSlots, FirstSlot
    <3>3. j \in Live(t) /\ t[j].ip = ip /\ t[j].mac \in Mac
      BY <3>2 DEF ByIp, Named
    <3>4. j \notin Expired(t) => A[t[j].mac] = ip
      BY <2>3, <3>3 DEF Homed
    <3> QED BY <2>3, <3>3, <3>4 DEF OneHolder
  <2> QED BY <2>1, <2>2, <2>3
<1>4. \A j, l \in Live(t) : t[j].mac = mac /\ t[l].mac = mac => j = l
  BY <1>1 DEF MacsOnce
<1>5. CASE found \ Expired(t) # {}
  <2>1. i \in Live(t) /\ i \in Slot /\ i \notin Expired(t) /\ t[i].mac = mac
    BY <1>2, <1>3, <1>5
  <2>2. u = Rebound(t, i, ip, mac)
    BY <1>5 DEF Started
  <2> HIDE DEF i, found, u
  <2>3. t[i] \in Session
    BY <2>1 DEF SessionTable
  <2>4. /\ u[i].mac = mac /\ u[i].ip = ip /\ u[i].active = t[i].active
        /\ u[i].start = t[i].start /\ u[i].granted = t[i].granted
        /\ \A j \in Slot \ {i} : u[j] = t[j]
    BY <1>1, <2>1, <2>2, <2>3 DEF Rebound, SessionTable, Session
  <2>5. i \in Live(u) \ Expired(u)
    BY <2>1, <2>4 DEF Live, Expired, EndTime
  <2>6. \A j \in Live(u) \ {i} : j \in Live(t) /\ u[j] = t[j] /\ t[j].mac # mac
    BY <1>4, <2>1, <2>4 DEF Live
  <2>7. \A j \in Live(t) : t[j].mac = mac \/ j \in Live(u) \ {i}
    BY <2>1, <2>4 DEF Live
  <2>8. {} \in SUBSET Live(t) /\ \A j, l \in {} : j = l
    OBVIOUS
  <2> QED BY <2>1, <2>4, <2>5, <2>6, <2>7, <2>8 DEF u, Turns
<1>6. CASE found \ Expired(t) = {}
  <2> DEFINE s == NewSession(ip, mac, granted)
  <2>1. u = [rest EXCEPT ![k] = s]
    BY <1>6 DEF Started
  <2>2. /\ Live(rest) = Live(t) \ found
        /\ \A j \in Live(rest) : rest[j] = t[j] /\ j \in Live(t)
        /\ rest = [j \in Slot |-> rest[j]]
    BY DEF Without, Live, NoSession
  <2>3. MacsOnce(rest) /\ Named(rest)
    <3> HIDE DEF rest
    <3> QED BY <2>2 DEF MacsOnce, Named
  <2> HIDE DEF rest
  <2>4. /\ k \in Slot
        /\ k \in Live(rest) => rest[k].mac = mac
        /\ \A j \in Live(rest) \ {k} : rest[j].mac # mac
    <3>1. CASE ByMac(rest, mac) # {}
      <4>1. k = FirstOf(ByMac(rest, mac))
        BY <3>1 DEF NewSlot
      <4>2. k \in ByMac(rest, mac) /\ k \in Slot
        BY <3>1, <4>1, SearchesAreSlots, FirstSlot
      <4> HIDE DEF k
      <4> QED BY <1>1, <2>3, <4>2 DEF ByMac, MacsOnce
    <3>2. CASE ByMac(rest, mac) = {}
      <4>1. FreeSlot(rest) # {}
        BY <2>3, <3>2, TableHasRoom DEF Named
      <4>2. k = FirstOf(FreeSlot(rest))
        BY <1>1, <3>2, <4>1 DEF NewSlot
      <4>3. k \in FreeSlot(rest) /\ k \in Slot
        BY <4>1, <4>2, SearchesAreSlots, FirstSlot
      <4> HIDE DEF k
      <4> QED BY <1>1, <3>2, <4>3 DEF FreeSlot, ByMac
    <3> QED BY <3>1, <3>2
  <2> HIDE DEF k, found
  <2>6. /\ s.active /\ s.mac = mac /\ s.ip = ip
        /\ s.start = now /\ s.granted = granted
    BY DEF NewSession
  <2> HIDE DEF s, u
  <2>7. u[k] = s /\ \A j \in Slot \ {k} : u[j] = rest[j]
    BY <2>1, <2>2, <2>4
  <2>8. k \in Live(u) \ Expired(u)
    <3>1. EndTime(u[k]) = now + granted * TicksPerSec
      BY <2>6, <2>7 DEF EndTime
    <3>2. granted * TicksPerSec \in Nat \ {0}
      BY <1>1, ProductPositive
    <3> QED BY <2>4, <2>6, <2>7, <3>1, <3>2 DEF Live, Expired
  <2>9. \A j \in Slot \ {k} : j \in Live(u) <=> j \in Live(rest)
    BY <2>7 DEF Live
  <2>10. \A j \in Live(u) \ {k} : j \in Live(t) /\ u[j] = t[j] /\ t[j].mac # mac
    <3> SUFFICES ASSUME NEW j \in Live(u) \ {k}
                 PROVE  j \in Live(t) /\ u[j] = t[j] /\ t[j].mac # mac
      OBVIOUS
    <3>1. j \in Slot /\ j \in Live(rest)
      BY <2>9, SearchesAreSlots
    <3> QED BY <2>2, <2>4, <2>7, <3>1
  <2>11. ASSUME NEW j \in Live(t), t[j].mac # mac, j \notin found
         PROVE  j \in Live(u) \ {k}
    <3>1. j \in Slot /\ j \in Live(rest) /\ rest[j] = t[j]
      BY <2>2, <2>11, SearchesAreSlots
    <3> QED BY <2>4, <2>9, <2>11, <3>1
  <2> QED BY <1>2, <1>3, <2>4, <2>6, <2>7, <2>8, <2>10, <2>11 DEF u, Turns
<1> QED BY <1>5, <1>6

\* Of the sessions only that of the station changes.
LEMMA StartedIs ==
  ASSUME NEW t \in SessionTable, MacsOnce(t), NEW A, Settled(t, A), OneHolder(A),
         now \in Nat, NEW mac \in Mac, NEW ip \in IpOrNone,
         NEW granted \in Nat \ {0},
         ip = NoIp => ByMac(t, mac) = {}, ip # NoIp => A[mac] = ip
  PROVE  LET u == Started(t, ip, mac, granted)
         IN  \E k \in Slot :
               /\ k \in Live(u) \ Expired(u) /\ u[k].mac = mac /\ u[k].ip = ip
               /\ k \in Live(t) => t[k].mac = mac
               /\ \A j \in Slot \ {k} :
                    /\ j \in Live(u) <=> j \in Live(t) /\ t[j].mac # mac
                    /\ j \in Live(u) => u[j] = t[j]
<1> DEFINE u == Started(t, ip, mac, granted)
<1>1. Named(t) /\ Homed(t, A) /\ mac # NoMac
  BY AclAssumption DEF Settled, Named, Homed
<1> HIDE DEF u
<1>2. PICK k \in Slot, F \in SUBSET Live(t) : Turns(t, u, ip, mac, k, F)
  BY <1>1, StartedTurns DEF u
<1>3. ASSUME NEW j \in F PROVE t[j].mac = mac
  <2>1. ip # NoIp /\ t[j].ip = ip => t[j].mac = mac
    BY DEF Settled, OneHolder
  <2> QED BY <1>2, <2>1 DEF Turns
<1>4. k \in Live(t) => t[k].mac = mac
  BY <1>2, <1>3 DEF Turns
<1>5. \A j \in Slot \ {k} : /\ j \in Live(u) <=> j \in Live(t) /\ t[j].mac # mac
                            /\ j \in Live(u) => u[j] = t[j]
  BY <1>2, <1>3 DEF Turns
<1> QED BY <1>2, <1>4, <1>5 DEF u, Turns

LEMMA StartMirrors ==
  ASSUME Cardinality(Mac) <= AclMaxClients,
         NEW t \in SessionTable, MacsOnce(t), NEW A, Settled(t, A), OneHolder(A),
         NEW a, Apart(a), Mirrors(a, t),
         now \in Nat, NEW mac \in Mac, NEW ip \in IpOrNone,
         NEW granted \in Nat \ {0},
         ip = NoIp => ByMac(t, mac) = {}, ip # NoIp => A[mac] = ip
  PROVE  LET u == Started(t, ip, mac, granted)
             b == AclAdmit(Cut(a, u, Expired(u)), ip, mac)
             v == Without(u, Expired(u))
         IN  Apart(b) /\ Mirrors(b, v) /\ Settled(v, A)
<1> DEFINE u == Started(t, ip, mac, granted)
           X == Expired(u)
           c == Cut(a, u, X)
           w == Without(t, X)
           v == Without(u, X)
<1>1. PICK k \in Slot :
        /\ k \in Live(u) \ X /\ u[k].mac = mac /\ u[k].ip = ip
        /\ k \in Live(t) => t[k].mac = mac
        /\ \A j \in Slot \ {k} :
             /\ j \in Live(u) <=> j \in Live(t) /\ t[j].mac # mac
             /\ j \in Live(u) => u[j] = t[j]
  BY StartedIs
<1>2. /\ X \subseteq Live(u) /\ Live(u) \subseteq Slot /\ Live(t) \subseteq Slot
      /\ mac # NoMac /\ NoIp \notin Ip
  BY AclAssumption DEF Expired, Live
<1> HIDE DEF u, X
<1>3. \A j \in X : j \in Live(t) /\ u[j] = t[j]
  BY <1>1, <1>2
<1>4. c = Cut(a, t, X)
  BY <1>3 DEF Cut
<1>5. Apart(c) /\ Mirrors(c, w) /\ Settled(w, A)
  <2>1. X \in SUBSET Live(t)
    BY <1>3
  <2> HIDE DEF c, w
  <2> QED BY <1>4, <2>1, CutMirrors DEF w
<1>6. /\ Live(w) = Live(t) \ X /\ \A j \in Live(w) : w[j] = t[j]
      /\ Live(v) = Live(u) \ X /\ \A j \in Live(v) : v[j] = u[j]
  BY DEF Live, Without, NoSession
<1> HIDE DEF c, w, v
<1>7. /\ k \in Live(v) /\ v[k].mac = mac /\ v[k].ip = ip
      /\ \A j \in Slot \ {k} : /\ j \in Live(v) <=> j \in Live(w) /\ t[j].mac # mac
                               /\ j \in Live(v) => v[j] = w[j] /\ w[j] = t[j]
  BY <1>1, <1>2, <1>6
<1>8. \A p \in Ip, m \in Mac :
        InTable(v, p, m) <=> IF m = mac THEN p = ip ELSE InTable(w, p, m)
  <2>1. ASSUME NEW p \in Ip, NEW m \in Mac, m # mac
        PROVE  InTable(v, p, m) <=> InTable(w, p, m)
    <3>1. ASSUME NEW j \in Live(v), v[j].ip = p, v[j].mac = m
          PROVE  InTable(w, p, m)
      BY <1>2, <1>6, <1>7, <2>1, <3>1 DEF InTable
    <3>2. ASSUME NEW j \in Live(w), w[j].ip = p, w[j].mac = m
          PROVE  InTable(v, p, m)
      <4>1. j \in Slot /\ j \in Live(t) /\ t[j].mac = m
        BY <1>2, <1>6, <3>2
      <4>2. j # k
        BY <1>1, <2>1, <4>1
      <4> QED BY <1>7, <2>1, <3>2, <4>1, <4>2 DEF InTable
    <3> QED BY <3>1, <3>2 DEF InTable
  <2>2. ASSUME NEW p \in Ip PROVE InTable(v, p, mac) <=> p = ip
    BY <1>2, <1>6, <1>7 DEF InTable
  <2> QED BY <2>1, <2>2
<1>9. \A n \in Mac : ip # NoIp /\ A[n] = ip => n = mac
  BY DEF OneHolder
<1>10. Settled(v, A)
  BY <1>1, <1>2, <1>6, <1>7 DEF Settled
<1>11. Apart(AclAdmit(c, ip, mac)) /\ Mirrors(AclAdmit(c, ip, mac), v)
  <2>1. CASE ip = NoIp
    <3>1. AclAdmit(c, ip, mac) = c
      BY <2>1 DEF AclAdmit
    <3>2. \A p \in Ip : ~InTable(w, p, mac)
      BY <1>2, <1>6, <2>1 DEF InTable, ByMac
    <3>3. \A p \in Ip, m \in Mac : InTable(v, p, m) <=> InTable(w, p, m)
      BY <1>2, <1>8, <2>1, <3>2
    <3> QED BY <1>5, <3>1, <3>3 DEF Mirrors
  <2>2. CASE ip # NoIp
    <3>1. ip \in Ip /\ \A n \in Mac \ {mac} : A[n] # ip
      BY <1>9, <2>2 DEF IpOrNone
    <3> QED BY <1>5, <1>8, <3>1, AdmitMirrors
  <2> QED BY <2>1, <2>2
<1> QED BY <1>10, <1>11 DEF c, v, u, X

-----------------------------------------------------------------------------
(* The actions again.                                                      *)

\* What a handler leaves behind, with A the addresses after it.
MirrorKept(A) ==
  Apart(acl') /\ Settled(sessions', A) /\ Mirrors(acl', sessions')

LEMMA MirrorFacts ==
  ASSUME PortalInv, QuotaInv, MirrorInv
  PROVE  /\ now \in Nat /\ sessions \in SessionTable /\ MacsOnce(sessions)
         /\ Settled(sessions, addr) /\ OneHolder(addr)
         /\ Apart(acl) /\ Mirrors(acl, sessions)
         /\ Live(sessions) \in SUBSET Slot /\ addr \in AddrTable
BY QuotaTypes, SearchesAreSlots, TakenApart
   DEF QuotaInv, RegularAddrs, MirrorInv, OneHolder, EnvType

LEMMA MirrorNext ==
  ASSUME NEW A, addr' = A, MirrorKept(A)
  PROVE  MirrorInv'
BY DEF MirrorKept, MirrorInv, Apart, Settled, Mirrors, InFilter, InTable, Live,
       MacsDiffer, EntriesDiffer

LEMMA NothingMirrored ==
  ASSUME MirrorInv, NEW A, Settled(sessions, A), UNCHANGED <<sessions, acl>>
  PROVE  MirrorKept(A)
<1>1. sessions' = sessions /\ acl' = acl
  OBVIOUS
<1> QED BY <1>1 DEF MirrorKept, MirrorInv

LEMMA RevokeMirrors ==
  ASSUME PortalInv, QuotaInv, MirrorInv, NEW R \in SUBSET Live(sessions),
         Revoke(R)
  PROVE  MirrorKept(addr)
<1> DEFINE gone == R \cup Expired(sessions)
<1>1. sessions' = Without(sessions, gone) /\ acl' = Cut(acl, sessions, gone)
  BY DEF Revoke, Refresh
<1>2. gone \in SUBSET Live(sessions)
  BY DEF Expired
<1> HIDE DEF gone
<1> QED BY <1>1, <1>2, MirrorFacts, CutMirrors DEF MirrorKept

LEMMA StartKeepsMirror ==
  ASSUME Cardinality(Mac) <= AclMaxClients, PortalInv, QuotaInv, MirrorInv,
         NEW mac \in Mac, NEW ip \in IpOrNone, NEW granted \in Nat \ {0}, NEW q,
         ip = NoIp => ByMac(sessions, mac) = {}, ip # NoIp => addr[mac] = ip,
         StartOrResume(ip, mac, granted, q)
  PROVE  MirrorKept(addr)
<1> DEFINE early == IF ip = NoIp THEN Expired(sessions) ELSE {}
           t == Without(sessions, early)
           a == Cut(acl, sessions, early)
           u == Started(t, ip, mac, granted)
           b == AclAdmit(Cut(a, u, Expired(u)), ip, mac)
           v == Without(u, Expired(u))
<1>1. sessions' = v /\ acl' = b
  <2>1. {} \cup Expired(u) = Expired(u)
    OBVIOUS
  <2> QED BY <2>1 DEF StartOrResume, Refresh
<1>2. early \in SUBSET Live(sessions)
  BY DEF Expired
<1>3. Proper(sessions, stations)
  BY QuotaTypes
<1> HIDE DEF early
<1>4. Apart(a) /\ Mirrors(a, t) /\ Settled(t, addr)
  BY <1>2, MirrorFacts, CutMirrors
<1>5. t \in SessionTable /\ MacsOnce(t)
  BY <1>3, WithoutProper DEF Proper
<1>6. ip = NoIp => ByMac(t, mac) = {}
  <2>1. \A i \in Live(t) : i \in Live(sessions) /\ t[i] = sessions[i]
    BY DEF Live, Without, NoSession
  <2> QED BY <2>1 DEF ByMac
<1> HIDE DEF t, a
<1>7. Apart(b) /\ Mirrors(b, v) /\ Settled(v, addr)
  BY <1>4, <1>5, <1>6, MirrorFacts, StartMirrors
<1> HIDE DEF b, v
<1> QED BY <1>1, <1>7 DEF MirrorKept

LEMMA RequestMirrors ==
  ASSUME Regular, PortalInv, QuotaInv, MirrorInv, NEW ip \in Callers,
         \/ ConfirmRefused(ip) \/ ConfirmGranted(ip)
         \/ ProbeExpired(ip) \/ ProbeByMac(ip)
  PROVE  MirrorKept(addr)
<1>1. RegularAddrs /\ Leasing /\ Cardinality(Mac) <= AclMaxClients
  BY DEF QuotaInv, Regular, Leasing
<1>2. PICK m \in stations : /\ ip # NoIp /\ addr[m] = ip
                            /\ \A n \in Mac : addr[n] = ip => n = m
                            /\ LeaseHolder(ip) = {m} /\ ConfirmMac(ip) = {m}
  BY <1>1, RegularCaller
<1>3. m \in Mac /\ m # NoMac /\ ip \in IpOrNone /\ ip \in Ip
  BY <1>2, QuotaTypes, CallersType, AclAssumption DEF IpOrNone
<1>4. CASE ConfirmRefused(ip)
  <2>1. UNCHANGED <<sessions, acl>>
    BY <1>4 DEF ConfirmRefused, Refused
  <2> QED BY <2>1, MirrorFacts, NothingMirrored
<1>5. CASE ConfirmGranted(ip)
  <2> DEFINE q == QuotaRead(m)
             remaining == QuotaRemaining(q, m)
             granted == Lesser(remaining, UntilNextDay)
  <2>1. StartOrResume(ip, m, granted, q) /\ remaining > 0
    BY <1>2, <1>3, <1>5 DEF ConfirmGranted
  <2>2. granted \in Nat \ {0}
    BY <1>3, <2>1, GrantsArePositive
  <2> HIDE DEF q, granted
  <2> QED BY <1>1, <1>2, <1>3, <2>1, <2>2, StartKeepsMirror
<1>6. CASE ProbeExpired(ip)
  <2>1. PICK i \in Expired(sessions) : Revoke({i})
    BY <1>6 DEF ProbeExpired
  <2>2. {i} \in SUBSET Live(sessions)
    BY DEF Expired
  <2> QED BY <2>1, <2>2, RevokeMirrors
<1>7. CASE ProbeByMac(ip)
  <2> DEFINE i == FirstOf(ByMac(sessions, m))
             u == [sessions EXCEPT ![i].ip = ip]
             b == AclAdmit(acl, ip, sessions[i].mac)
  <2>1. /\ ByMac(sessions, m) # {}
        /\ \/ Revoke({i})
           \/ sessions' = u /\ acl' = AclAdmit(acl, ip, m)
    BY <1>2, <1>7 DEF ProbeByMac
  <2>2. i \in ByMac(sessions, m) /\ i \in Slot
    BY <2>1, SearchesAreSlots, FirstSlot
  <2>3. i \in Live(sessions) /\ sessions[i].mac = m
    BY <2>2 DEF ByMac
  <2> HIDE DEF i
  <2>4. CASE Revoke({i})
    <3>1. {i} \in SUBSET Live(sessions)
      BY <2>3
    <3> QED BY <2>4, <3>1, RevokeMirrors
  <2>5. CASE sessions' = u /\ acl' = AclAdmit(acl, ip, m)
    <3>1. /\ addr[sessions[i].mac] = ip
          /\ \A n \in Mac \ {sessions[i].mac} : addr[n] # ip
      BY <1>2, <2>3
    <3>2. Apart(b) /\ Mirrors(b, u) /\ Settled(u, addr)
      BY <1>1, <1>3, <2>3, <3>1, MirrorFacts, MoveMirrors
    <3> HIDE DEF u
    <3> QED BY <2>3, <2>5, <3>2 DEF MirrorKept
  <2> QED BY <2>1, <2>4, <2>5
<1> QED BY <1>4, <1>5, <1>6, <1>7

LEMMA ConnectMirrors ==
  ASSUME Regular, PortalInv, QuotaInv, MirrorInv, NEW m \in Mac,
         ConnectToPortal(m) \/ ConnectResumed(m)
  PROVE  MirrorKept(addr)
<1>1. CASE ConnectToPortal(m)
  <2>1. UNCHANGED <<sessions, acl>>
    BY <1>1 DEF ConnectToPortal, Refused
  <2> QED BY <2>1, MirrorFacts, NothingMirrored
<1>2. CASE ConnectResumed(m)
  <2> DEFINE q == QuotaRead(m)
             remaining == QuotaRemaining(q, m)
  <2>1. /\ StartOrResume(NoIp, m, remaining, q)
        /\ remaining \in 1 .. (QuotaSec - 1) /\ m \notin stations
    BY <1>2 DEF ConnectResumed, Associated
  <2> HIDE DEF q, remaining
  <2>2. remaining \in Nat \ {0}
    BY <2>1, PortalAssumption
  <2>3. ByMac(sessions, m) = {}
    BY <2>1, QuotaTypes DEF ByMac, Proper, Belongs
  <2>4. NoIp \in IpOrNone /\ Cardinality(Mac) <= AclMaxClients
    BY DEF IpOrNone, Regular
  <2> QED BY <2>1, <2>2, <2>3, <2>4, StartKeepsMirror
<1> QED BY <1>1, <1>2

LEMMA IpAssignedMirrors ==
  ASSUME Regular, PortalInv, QuotaInv, MirrorInv, QuotaInv',
         NEW m \in Mac, NEW ip \in Ip, IpAssigned(m, ip)
  PROVE  MirrorKept(addr')
<1> DEFINE mine == ByMac(sessions, m) \ Expired(sessions)
           i == FirstOf(mine)
           t == [sessions EXCEPT ![i].ip = ip, ![i].admitted = TRUE]
           a == IF sessions[i].ip = ip THEN acl
                ELSE AclRevokeByIp(acl, sessions[i].ip)
           A == [addr EXCEPT ![m] = ip]
<1>1. /\ addr' = A
      /\ addr[m] \in {ip, NoIp} \/ m \notin leased
      /\ \A n \in stations \ {m} : addr[n] # ip
      /\ IF mine = {} THEN UNCHANGED core
         ELSE /\ Refresh(t, {}, quota, globalEnd, napt)
              /\ acl' = Cut(AclAdmit(a, ip, m), t, Expired(t))
  BY DEF IpAssigned, Regular
<1>2. ip # NoIp /\ ip \in IpOrNone /\ m # NoMac
  BY AclAssumption DEF IpOrNone
<1>3. addr[m] \in {ip, NoIp} /\ \A n \in Mac \ {m} : addr[n] # ip
  BY <1>1, <1>2 DEF QuotaInv, RegularAddrs
<1>4. A[m] = ip /\ \A n \in Mac \ {m} : A[n] = addr[n]
  BY MirrorFacts DEF AddrTable
<1>5. OneHolder(A)
  BY <1>1 DEF QuotaInv, RegularAddrs, OneHolder
<1> HIDE DEF A
<1>6. CASE mine = {}
  <2>1. UNCHANGED <<sessions, acl>>
    BY <1>1, <1>6 DEF core
  <2>2. Settled(sessions, A)
    BY <1>3, <1>4, MirrorFacts DEF Settled
  <2> QED BY <1>1, <2>1, <2>2, NothingMirrored
<1>7. CASE mine # {}
  <2>1. i \in ByMac(sessions, m)
    BY <1>7, SearchesAreSlots, FirstSlot
  <2>2. i \in Live(sessions) /\ sessions[i].mac = m
    BY <2>1 DEF ByMac
  <2>3. /\ acl' = Cut(AclAdmit(a, ip, m), t, Expired(t))
        /\ sessions' = Without(t, Expired(t))
    <3>1. {} \cup Expired(t) = Expired(t)
      OBVIOUS
    <3> QED BY <1>1, <1>7, <3>1 DEF Refresh
  <2> HIDE DEF i
  <2>4. a = acl
    <3>1. sessions[i].ip \in {ip, NoIp}
      BY <1>3, <2>2, MirrorFacts DEF Settled
    <3>2. AclRevokeByIp(acl, NoIp) = acl
      BY MirrorFacts DEF AclRevokeByIp, AclByIp, Apart, AclTable
    <3> QED BY <3>1, <3>2
  <2>5. Proper(t, stations) /\ t = [sessions EXCEPT ![i].ip = ip]
    BY <1>2, <2>2, QuotaTypes, ReboundAddress
  <2> HIDE DEF t, a
  <2> DEFINE b == AclAdmit(acl, ip, m)
  <2>6. Apart(b) /\ Mirrors(b, t) /\ Settled(t, A)
    <3>1. /\ A[sessions[i].mac] = ip
          /\ \A n \in Mac \ {sessions[i].mac} : A[n] = addr[n] /\ addr[n] # ip
      BY <1>3, <1>4, <2>2
    <3>2. Cardinality(Mac) <= AclMaxClients
      BY DEF Regular
    <3> DEFINE u == [sessions EXCEPT ![i].ip = ip]
               c == AclAdmit(acl, ip, sessions[i].mac)
    <3>3. Apart(c) /\ Mirrors(c, u) /\ Settled(u, A)
      BY <2>2, <3>1, <3>2, MirrorFacts, MoveMirrors
    <3>4. c = b /\ u = t
      BY <2>2, <2>5
    <3> HIDE DEF c, u, b
    <3> QED BY <3>3, <3>4
  <2>7. Expired(t) \in SUBSET Live(t) /\ MacsOnce(t)
    BY <2>5 DEF Expired, Proper
  <2> HIDE DEF b
  <2>8. /\ Apart(Cut(b, t, Expired(t)))
        /\ Mirrors(Cut(b, t, Expired(t)), Without(t, Expired(t)))
        /\ Settled(Without(t, Expired(t)), A)
    BY <1>5, <2>6, <2>7, CutMirrors
  <2> QED BY <1>1, <2>3, <2>4, <2>8 DEF MirrorKept, b
<1> QED BY <1>6, <1>7

LEMMA DisconnectedMirrors ==
  ASSUME Regular, PortalInv, QuotaInv, MirrorInv, NEW m \in Mac, Disconnected(m)
  PROVE  MirrorKept(addr')
<1>1. /\ addr' = [addr EXCEPT ![m] = NoIp]
      /\ IF Ended(m) = {} THEN UNCHANGED core ELSE Revoke(Ended(m))
  BY DEF Disconnected, Regular
<1>2. \A n \in Mac \ {m} : addr'[n] = addr[n]
  BY <1>1, MirrorFacts DEF AddrTable
<1>3. ByMac(sessions, m) \subseteq Ended(m) /\ Ended(m) \in SUBSET Live(sessions)
  BY SearchesAreSlots DEF Ended
<1>4. m # NoMac
  BY AclAssumption
<1>5. CASE Ended(m) = {}
  <2>1. UNCHANGED <<sessions, acl>>
    BY <1>1, <1>5 DEF core
  <2>2. Settled(sessions, addr')
    BY <1>2, <1>3, <1>4, <1>5, MirrorFacts DEF Settled, ByMac
  <2> QED BY <2>1, <2>2, NothingMirrored
<1>6. CASE Ended(m) # {}
  <2>1. Revoke(Ended(m))
    BY <1>1, <1>6
  <2>2. MirrorKept(addr)
    BY <1>3, <2>1, RevokeMirrors
  <2>3. sessions' = Without(sessions, Ended(m) \cup Expired(sessions))
    BY <2>1 DEF Revoke, Refresh
  <2>4. \A i \in Live(sessions') : /\ i \in Live(sessions) \ Ended(m)
                                   /\ sessions'[i] = sessions[i]
    BY <2>3 DEF Live, Without, NoSession
  <2>5. \A i \in Live(sessions') : sessions'[i].mac # m
    BY <1>3, <1>4, <2>4 DEF ByMac
  <2>6. Settled(sessions', addr')
    BY <1>2, <2>2, <2>5 DEF MirrorKept, Settled
  <2> QED BY <2>2, <2>6 DEF MirrorKept
<1> QED BY <1>5, <1>6

LEMMA HeartbeatMirrors ==
  ASSUME PortalInv, QuotaInv, MirrorInv, NEW i \in Slot, Heartbeat(i)
  PROVE  MirrorKept(addr)
<1>1. /\ i \in Live(sessions)
      /\ \/ /\ sessions' = [sessions EXCEPT ![i].accounted =
                              Accounted(sessions[i])]
            /\ acl' = acl
         \/ Revoke({i})
  BY DEF Heartbeat
<1>2. CASE Revoke({i})
  <2>1. {i} \in SUBSET Live(sessions)
    BY <1>1
  <2> QED BY <1>2, <2>1, RevokeMirrors
<1>3. CASE /\ sessions' = [sessions EXCEPT ![i].accounted =
                             Accounted(sessions[i])]
           /\ acl' = acl
  <2>1. sessions[i] \in Session
    BY MirrorFacts DEF SessionTable
  <2>2. /\ sessions'[i].mac = sessions[i].mac /\ sessions'[i].ip = sessions[i].ip
        /\ sessions'[i].active = sessions[i].active
        /\ \A j \in Slot \ {i} : sessions'[j] = sessions[j]
    BY <1>3, <2>1, MirrorFacts DEF SessionTable, Session
  <2>3. /\ Live(sessions') = Live(sessions)
        /\ \A j \in Live(sessions) : /\ sessions'[j].mac = sessions[j].mac
                                     /\ sessions'[j].ip = sessions[j].ip
    BY <1>1, <2>2 DEF Live
  <2>4. Settled(sessions', addr)
    BY <2>3, MirrorFacts DEF Settled
  <2>5. \A p \in Ip, m \in Mac :
          InTable(sessions', p, m) <=> InTable(sessions, p, m)
    BY <2>3 DEF InTable
  <2>6. Apart(acl') /\ Mirrors(acl', sessions')
    BY <1>3, <2>5, MirrorFacts DEF Mirrors
  <2> QED BY <2>4, <2>6 DEF MirrorKept
<1> QED BY <1>1, <1>2, <1>3

LEMMA MirrorInvKept ==
  ASSUME Regular, PortalInv, QuotaInv, MirrorInv, QuotaInv', [Next]_vars
  PROVE  MirrorInv'
<1>1. CASE Request
  <2>1. PICK ip \in Callers : \/ ConfirmRefused(ip) \/ ConfirmGranted(ip)
                              \/ ProbeExpired(ip) \/ ProbeByMac(ip)
    BY <1>1 DEF Request
  <2>2. addr' = addr
    BY <2>1 DEF ConfirmRefused, ConfirmGranted, ProbeExpired, ProbeByMac, env
  <2> QED BY <2>1, <2>2, RequestMirrors, MirrorNext
<1>2. CASE WifiEvent
  <2>1. PICK m \in Mac :
          \/ ConnectToPortal(m)
          \/ ConnectResumed(m)
          \/ \E ip \in Ip : IpAssigned(m, ip) \/ StaticAddress(m, ip)
          \/ Disconnected(m)
    BY <1>2 DEF WifiEvent
  <2>2. \A ip \in Ip : ~StaticAddress(m, ip)
    BY DEF StaticAddress, Regular
  <2>3. CASE ConnectToPortal(m) \/ ConnectResumed(m)
    <3>1. addr' = addr
      BY <2>3 DEF ConnectToPortal, ConnectResumed, Associated
    <3> QED BY <2>3, <3>1, ConnectMirrors, MirrorNext
  <2>4. CASE \E ip \in Ip : IpAssigned(m, ip)
    BY <2>4, IpAssignedMirrors, MirrorNext
  <2>5. CASE Disconnected(m)
    BY <2>5, DisconnectedMirrors, MirrorNext
  <2> QED BY <2>1, <2>2, <2>3, <2>4, <2>5
<1>3. CASE \E i \in Slot : Heartbeat(i)
  <2>1. PICK i \in Slot : Heartbeat(i)
    BY <1>3
  <2>2. addr' = addr
    BY <2>1 DEF Heartbeat, env
  <2> QED BY <2>1, <2>2, HeartbeatMirrors, MirrorNext
<1>4. CASE Uplink \/ TimeSync \/ Tick \/ UNCHANGED vars
  <2>1. UNCHANGED <<sessions, acl, addr>>
    BY <1>4 DEF Uplink, TimeSync, Tick, vars, core, env
  <2> QED BY <2>1, MirrorFacts, NothingMirrored, MirrorNext
<1> QED BY <1>1, <1>2, <1>3, <1>4 DEF Next

LEMMA InitiallyMirrorInv == Init => MirrorInv
<1> SUFFICES ASSUME Init PROVE MirrorInv
  OBVIOUS
<1>1. /\ sessions = [i \in Slot |-> NoSession]
      /\ acl = [k \in AclSlot |-> NoEntry] /\ AclInit
  BY DEF Init, AclInit
<1>2. Live(sessions) = {}
  BY <1>1 DEF Live, NoSession
<1>3. \A k \in AclSlot : acl[k].ip = NoIp
  BY <1>1 DEF NoEntry
<1>4. Apart(acl)
  BY <1>1, AclInvInitially DEF AclInv, AclTypeOK, AclTable, Apart
<1> QED BY <1>2, <1>3, <1>4, AclAssumption
        DEF MirrorInv, Settled, Mirrors, InFilter, InTable

LEMMA MirrorInvAlways ==
  ASSUME Regular PROVE Spec => []MirrorInv
<1>1. Leasing
  BY DEF Regular, Leasing
<1>2. Init => PortalInv /\ QuotaInv /\ MirrorInv
  BY InitiallyPortalInv, InitiallyQuotaInv, InitiallyMirrorInv
<1>3. PortalInv /\ QuotaInv /\ MirrorInv /\ [Next]_vars
        => (PortalInv /\ QuotaInv /\ MirrorInv)'
  BY <1>1, PortalInvKept, QuotaInvKept, MirrorInvKept
<1> QED BY <1>2, <1>3, PTL DEF Spec

(* The packet filter and the session table, updated side by side in every  *)
(* handler, name the same addresses, for clients that keep their address   *)
(* while they are associated and a filter with room for all of them.       *)
THEOREM FilterMirrorsSessions ==
  ASSUME Regular PROVE Spec => []AclMirrorsSessions
<1>1. MirrorInv => AclMirrorsSessions
  <2> SUFFICES ASSUME MirrorInv, NEW ip \in Ip
               PROVE  AclIsAdmitted(acl, ip) <=>
                        \E i \in Live(sessions) : sessions[i].ip = ip
    BY DEF AclMirrorsSessions
  <2>1. ip # NoIp
    BY AclAssumption
  <2>2. AclIsAdmitted(acl, ip) <=> \E m \in Mac : InFilter(acl, ip, m)
    BY <2>1 DEF AclIsAdmitted, AclByIp, InFilter, MirrorInv, Mirrors
  <2>3. (\E i \in Live(sessions) : sessions[i].ip = ip)
          <=> \E m \in Mac : InTable(sessions, ip, m)
    BY DEF InTable, MirrorInv, Settled
  <2> QED BY <2>2, <2>3 DEF MirrorInv, Mirrors
<1> QED BY <1>1, MirrorInvAlways, PTL

-----------------------------------------------------------------------------
(* Changing leases and unknown peers.  Filter and table do not mirror each *)
(* other any more: a running session may be at no address while the filter *)
(* has the one of its station, and an expired one at an address its        *)
(* station has left.  What remains is that every entry has an owner of its *)
(* own MAC, and is at the address of the station while the owner runs.     *)

\* Requests are handled while their sender is there, at an address it
\* leased, or at none that the router can tell.
Present == Clients \subseteq {"renumber", "no_peer"}

\* Session i of t owns the entry e of the filter.
OwnerOf(t, i, e, A) ==
  /\ t[i].mac = e.mac /\ t[i].ip \in {e.ip, NoIp}
  /\ i \notin Expired(t) => e.ip = A[e.mac]

Owned(a, t, A) ==
  \A k \in AclSlot :
     a[k].ip # NoIp => a[k].mac \in Mac /\ \E i \in Live(t) : OwnerOf(t, i, a[k], A)

Tidy(a, t, A) == Apart(a) /\ Named(t) /\ Homed(t, A) /\ Owned(a, t, A)

OwnerInv == RegularAddrs /\ Tidy(acl, sessions, addr)

\* The owner of an entry goes only if the entry does.
LEMMA CutTidy ==
  ASSUME NEW t, NEW A, NEW a, Tidy(a, t, A), NEW R \in SUBSET Live(t)
  PROVE  Tidy(Cut(a, t, R), Without(t, R), A)
<1> DEFINE b == Cut(a, t, R)
           u == Without(t, R)
           Hit(k) == \E i \in R : k \in AclByIp(a, t[i].ip)
                                        \cup AclByMac(a, t[i].mac)
<1>1. /\ NoIp \notin Ip /\ NoMac \notin Mac
      /\ \A k \in AclSlot : b[k] = IF Hit(k) THEN NoEntry ELSE a[k]
      /\ NoEntry.ip = NoIp /\ NoEntry.mac = NoMac
  BY AclAssumption DEF Cut, NoEntry
<1>2. b \in AclTable
  BY CutType DEF Tidy, Apart
<1>3. Live(u) = Live(t) \ R /\ \A i \in Live(u) : u[i] = t[i] /\ i \in Live(t)
  BY DEF Live, Without, NoSession
<1> HIDE DEF b, u
<1>4. Apart(b)
  BY <1>1, <1>2 DEF Tidy, Apart, MacsDiffer, EntriesDiffer
<1>5. \A i \in Live(u) : i \in Expired(u) <=> i \in Expired(t)
  BY <1>3 DEF Expired
<1>6. Named(u) /\ Homed(u, A)
  BY <1>3, <1>5 DEF Tidy, Named, Homed
<1>7. ASSUME NEW k \in AclSlot, b[k].ip # NoIp
      PROVE  b[k].mac \in Mac /\ \E i \in Live(u) : OwnerOf(u, i, b[k], A)
  <2>1. b[k] = a[k] /\ ~Hit(k)
    BY <1>1, <1>7
  <2>2. a[k].mac \in Mac
    BY <1>7, <2>1 DEF Tidy, Owned
  <2>3. PICK i \in Live(t) : OwnerOf(t, i, a[k], A)
    BY <1>7, <2>1 DEF Tidy, Owned
  <2>4. i \notin R
    BY <1>1, <2>1, <2>2, <2>3 DEF OwnerOf, AclByMac
  <2>5. OwnerOf(u, i, a[k], A)
    BY <1>3, <1>5, <2>3, <2>4 DEF OwnerOf
  <2> QED BY <1>3, <2>1, <2>2, <2>4, <2>5
<1> QED BY <1>4, <1>6, <1>7 DEF Tidy, Owned, b, u

\* An admission leaves no other entry of the station, and none of another
\* station where it was the only one at the address.
LEMMA AdmitEntries ==
  ASSUME NEW a, Apart(a), NEW ip \in Ip, NEW mac \in Mac
  PROVE  LET b == AclAdmit(a, ip, mac)
         IN  /\ Apart(b)
             /\ \A k \in AclSlot : \/ b[k] = [ip |-> ip, mac |-> mac]
                                   \/ b[k] = a[k] /\ a[k].mac # mac
             /\ AclByMac(a, mac) = {} =>
                  \A k \in AclByIp(a, ip) :
                     AclByIp(a, ip) = {k} => b[k] = [ip |-> ip, mac |-> mac]
<1> DEFINE b == AclAdmit(a, ip, mac)
           e == [ip |-> ip, mac |-> mac]
<1>1. ip # NoIp /\ mac # NoMac
  BY AclAssumption
<1>2. Apart(b)
  BY AdmitType, AdmitKeepsApart DEF Apart
<1>3. \/ b = a /\ AclByMac(a, mac) = {} /\ AclByIp(a, ip) = {}
      \/ \E k \in AclSlot :
           /\ b = [a EXCEPT ![k] = e]
           /\ \/ k \in AclByMac(a, mac)
              \/ AclByMac(a, mac) = {} /\ k \in AclByIp(a, ip)
              \/ AclByMac(a, mac) = {} /\ AclByIp(a, ip) = {}
  BY <1>1, AdmitCases DEF Apart
<1> HIDE DEF b
<1>4. CASE b = a /\ AclByMac(a, mac) = {} /\ AclByIp(a, ip) = {}
  BY <1>1, <1>2, <1>4 DEF AclByMac, b
<1>5. ASSUME NEW k \in AclSlot, b = [a EXCEPT ![k] = e],
             \/ k \in AclByMac(a, mac)
             \/ AclByMac(a, mac) = {} /\ k \in AclByIp(a, ip)
             \/ AclByMac(a, mac) = {} /\ AclByIp(a, ip) = {}
      PROVE  /\ \A j \in AclSlot : b[j] = e \/ (b[j] = a[j] /\ a[j].mac # mac)
             /\ AclByMac(a, mac) = {} =>
                  \A j \in AclByIp(a, ip) : AclByIp(a, ip) = {j} => b[j] = e
  <2>1. b[k] = e /\ \A j \in AclSlot \ {k} : b[j] = a[j]
    BY <1>5 DEF Apart, AclTable
  <2>2. \A j \in AclSlot \ {k} : a[j].mac # mac
    BY <1>1, <1>5 DEF AclByMac, Apart, MacsDiffer
  <2> QED BY <1>5, <2>1, <2>2
<1> QED BY <1>2, <1>3, <1>4, <1>5 DEF b

LEMMA MoveTidy ==
  ASSUME NEW t \in SessionTable, MacsOnce(t), NEW A, NEW a, Tidy(a, t, A),
         NEW ip \in Ip, NEW i \in Live(t), NEW B, B[t[i].mac] = ip,
         \A n \in Mac \ {t[i].mac} : B[n] = A[n]
  PROVE  Tidy(AclAdmit(a, ip, t[i].mac), [t EXCEPT ![i].ip = ip], B)
<1> DEFINE u == [t EXCEPT ![i].ip = ip]
           mac == t[i].mac
           b == AclAdmit(a, ip, mac)
<1>1. /\ i \in Slot /\ t[i] \in Session /\ mac \in Mac
      /\ ip # NoIp /\ mac # NoMac
  BY AclAssumption DEF Live, SessionTable, Tidy, Named
<1>2. /\ u[i].ip = ip /\ u[i].mac = mac /\ u[i].active = t[i].active
      /\ \A j \in Slot \ {i} : u[j] = t[j]
  BY <1>1 DEF Session, SessionTable
<1>3. \A j \in Live(t) \ {i} : t[j].mac # mac
  BY <1>1 DEF MacsOnce
<1>4. Apart(b) /\ \A k \in AclSlot : \/ b[k] = [ip |-> ip, mac |-> mac]
                                     \/ b[k] = a[k] /\ a[k].mac # mac
  BY <1>1, AdmitEntries DEF Tidy
<1> HIDE DEF u, mac, b
<1>5. Live(u) = Live(t) /\ Live(t) \in SUBSET Slot
  BY <1>1, <1>2 DEF Live
<1>6. \A j \in Live(t) \ {i} : /\ u[j] = t[j]
                               /\ j \in Expired(u) <=> j \in Expired(t)
  BY <1>2, <1>5 DEF Expired
<1>7. Named(u) /\ Homed(u, B)
  BY <1>1, <1>2, <1>3, <1>5, <1>6 DEF Tidy, Named, Homed, mac
<1>8. ASSUME NEW k \in AclSlot, b[k].ip # NoIp
      PROVE  b[k].mac \in Mac /\ \E j \in Live(u) : OwnerOf(u, j, b[k], B)
  <2>1. CASE b[k] = [ip |-> ip, mac |-> mac]
    <3>1. OwnerOf(u, i, b[k], B)
      BY <1>2, <2>1 DEF OwnerOf, mac
    <3> QED BY <1>1, <1>5, <2>1, <3>1
  <2>2. CASE b[k] = a[k] /\ a[k].mac # mac
    <3>1. PICK j \in Live(t) : OwnerOf(t, j, a[k], A)
      BY <1>8, <2>2 DEF Tidy, Owned
    <3>2. a[k].mac \in Mac /\ B[a[k].mac] = A[a[k].mac]
      BY <1>8, <2>2 DEF Tidy, Owned, mac
    <3>3. j # i
      BY <2>2, <3>1 DEF OwnerOf, mac
    <3>4. OwnerOf(u, j, b[k], B)
      BY <1>6, <2>2, <3>1, <3>2, <3>3 DEF OwnerOf
    <3> QED BY <1>5, <2>2, <3>2, <3>4
  <2> QED BY <1>4, <2>1, <2>2
<1> QED BY <1>4, <1>7, <1>8 DEF Tidy, Owned, u, b, mac

\* A session is started or resumed, and those that are over are cut.  The
\* entry of a session that was displaced is the only one at its address, so
\* the admission takes it over.
LEMMA StartTidy ==
  ASSUME NEW t \in SessionTable, MacsOnce(t), NEW A, OneHolder(A),
         NEW a, Tidy(a, t, A),
         now \in Nat, NEW mac \in Mac, NEW ip \in IpOrNone,
         NEW granted \in Nat \ {0},
         ip # NoIp => A[mac] = ip, ip = NoIp => Expired(t) = {}
  PROVE  LET u == Started(t, ip, mac, granted)
         IN  Tidy(AclAdmit(Cut(a, u, Expired(u)), ip, mac),
                  Without(u, Expired(u)), A)
<1> DEFINE u == Started(t, ip, mac, granted)
           X == Expired(u)
           c == Cut(a, u, X)
           w == Without(t, X)
           v == Without(u, X)
           b == AclAdmit(c, ip, mac)
           e == [ip |-> ip, mac |-> mac]
<1> HIDE DEF u
<1>1. PICK k \in Slot, F \in SUBSET Live(t) : Turns(t, u, ip, mac, k, F)
  BY StartedTurns DEF u, Tidy
<1>2. /\ X \subseteq Live(u) /\ Live(u) \subseteq Slot /\ Live(t) \subseteq Slot
      /\ mac # NoMac /\ NoIp \notin Ip /\ NoMac \notin Mac
  BY AclAssumption DEF Expired, Live
<1>3. \A j \in Live(u) \ {k} : j \in X <=> j \in Expired(t)
  BY <1>1 DEF Turns, Expired
<1>4. /\ Live(w) = Live(t) \ X /\ \A j \in Live(w) : w[j] = t[j]
      /\ Live(v) = Live(u) \ X /\ \A j \in Live(v) : v[j] = u[j]
  BY DEF Live, Without, NoSession
<1>5. \A j \in Live(w) : j \in Expired(w) <=> j \in Expired(t)
  BY <1>4 DEF Expired
<1>6. Tidy(c, w, A)
  <2>1. X \in SUBSET Live(t) /\ \A j \in X : u[j] = t[j]
    BY <1>1, <1>2 DEF Turns
  <2> HIDE DEF X
  <2>2. c = Cut(a, t, X)
    BY <2>1 DEF Cut
  <2>3. Tidy(Cut(a, t, X), Without(t, X), A)
    BY <2>1, CutTidy
  <2> QED BY <2>2, <2>3
<1> HIDE DEF X, c, w, v, b
<1>7. /\ k \in Live(v) /\ v[k].mac = mac /\ v[k].ip = ip
      /\ \A j \in Live(v) \ {k} : /\ j \in Live(t) \ Expired(t)
                                  /\ v[j] = t[j]
  BY <1>1, <1>3, <1>4 DEF Turns, X
<1>8. Named(v) /\ Homed(v, A)
  BY <1>7 DEF Tidy, Named, Homed
<1>9. ASSUME NEW l \in AclSlot, c[l].ip # NoIp
      PROVE  /\ c[l].mac \in Mac
             /\ \E j \in Live(t) : t[j].mac = c[l].mac
             /\ \/ c[l].mac = mac /\ (Expired(t) = {} => c[l].ip = A[mac])
                \/ c[l].ip = A[c[l].mac]
                     /\ \E j \in Live(v) : OwnerOf(v, j, c[l], A)
                \/ /\ ip # NoIp /\ c[l].ip = ip /\ ByMac(t, mac) = {}
                   /\ \E j \in F : t[j].mac = c[l].mac
  <2>1. c[l].mac \in Mac
    BY <1>6, <1>9 DEF Tidy, Owned
  <2>2. PICK j \in Live(w) : OwnerOf(w, j, c[l], A)
    BY <1>6, <1>9 DEF Tidy, Owned
  <2>3. /\ j \in Live(t) \ X /\ t[j].mac = c[l].mac
        /\ t[j].ip \in {c[l].ip, NoIp}
        /\ j \notin Expired(t) => c[l].ip = A[c[l].mac]
    BY <1>4, <1>5, <2>2 DEF OwnerOf
  <2>4. CASE t[j].mac = mac
    BY <2>1, <2>3, <2>4
  <2>5. CASE j \in Live(u) \ {k}
    <3>1. j \in Live(v) \ {k} /\ v[j] = t[j] /\ j \notin Expired(t)
      BY <1>4, <1>7, <2>3, <2>5
    <3>2. OwnerOf(v, j, c[l], A) /\ c[l].ip = A[c[l].mac]
      BY <2>3, <3>1 DEF OwnerOf
    <3> QED BY <2>1, <2>3, <3>1, <3>2
  <2>6. CASE t[j].mac # mac /\ j \in F
    <3>1. ip # NoIp /\ ByMac(t, mac) = {} /\ t[j].ip = ip
      BY <1>1, <2>6 DEF Turns
    <3> QED BY <2>1, <2>3, <2>6, <3>1
  <2> QED BY <1>1, <2>3, <2>4, <2>5, <2>6 DEF Turns
<1>10. CASE ip = NoIp
  <2>1. b = c
    BY <1>10 DEF b, AclAdmit
  <2>2. ASSUME NEW l \in AclSlot, c[l].ip # NoIp
        PROVE  c[l].mac \in Mac /\ \E j \in Live(v) : OwnerOf(v, j, c[l], A)
    <3>1. CASE c[l].mac = mac /\ c[l].ip = A[mac]
      BY <1>7, <1>9, <1>10, <2>2, <3>1 DEF OwnerOf
    <3> QED BY <1>9, <1>10, <2>2, <3>1
  <2> QED BY <1>6, <1>8, <2>1, <2>2 DEF Tidy, Owned, b, c, v, u, X
<1>11. CASE ip # NoIp
  <2>1. ip \in Ip
    BY <1>11 DEF IpOrNone
  <2>2. /\ Apart(b)
        /\ \A l \in AclSlot : b[l] = e \/ (b[l] = c[l] /\ c[l].mac # mac)
        /\ AclByMac(c, mac) = {} =>
             \A l \in AclByIp(c, ip) : AclByIp(c, ip) = {l} => b[l] = e
    BY <1>6, <2>1, AdmitEntries DEF Tidy, b
  <2>3. ASSUME NEW l \in AclSlot, b[l].ip # NoIp
        PROVE  b[l].mac \in Mac /\ \E j \in Live(v) : OwnerOf(v, j, b[l], A)
    <3>1. CASE b[l] = e
      BY <1>7, <1>11, <3>1 DEF OwnerOf
    <3>2. CASE b[l] = c[l] /\ c[l].mac # mac
      <4>1. CASE \E j \in Live(v) : OwnerOf(v, j, c[l], A)
        BY <1>9, <2>3, <3>2, <4>1
      <4>2. CASE c[l].ip = ip /\ ByMac(t, mac) = {} /\ \E j \in F : t[j].mac = c[l].mac
        <5>1. \A n \in AclSlot : c[n].ip # NoIp => c[n].mac # mac
          BY <1>2, <1>9, <4>2 DEF ByMac
        <5>2. \A n \in AclSlot : c[n].ip = NoIp => c[n].mac # mac
          BY <1>2, <1>6 DEF Tidy, Apart, AclTable, AclEntry, NoEntry
        <5>3. AclByMac(c, mac) = {}
          BY <5>1, <5>2 DEF AclByMac
        <5>4. ASSUME NEW n \in AclSlot, c[n].ip = ip PROVE n = l
          <6>1. c[n].mac \in Mac /\ c[n].mac # mac
            BY <1>9, <1>11, <5>1, <5>4
          <6>2. c[n].ip # A[c[n].mac]
            BY <1>11, <5>4, <6>1 DEF OneHolder
          <6>3. \E j \in F : t[j].mac = c[n].mac
            BY <1>9, <1>11, <5>4, <6>1, <6>2
          <6>4. c[n].mac = c[l].mac /\ c[n].mac # NoMac
            BY <1>1, <1>2, <4>2, <6>1, <6>3 DEF Turns
          <6> QED BY <1>6, <6>4 DEF Tidy, Apart, MacsDiffer
        <5>5. AclByIp(c, ip) = {l}
          BY <1>11, <4>2, <5>4 DEF AclByIp
        <5>6. b[l] = e
          BY <2>2, <5>3, <5>5
        <5> QED BY <3>2, <5>6
      <4> QED BY <1>9, <2>3, <3>2, <4>1, <4>2
    <3> QED BY <2>2, <3>1, <3>2
  <2> QED BY <1>8, <2>2, <2>3 DEF Tidy, Owned, b, c, v, u, X
<1> QED BY <1>10, <1>11

-----------------------------------------------------------------------------
(* The actions, once more.                                                 *)

\* What a handler leaves behind, with A the addresses after it.
TidyKept(A) == Tidy(acl', sessions', A)

LEMMA OwnerFacts ==
  ASSUME PortalInv, OwnerInv
  PROVE  /\ now \in Nat /\ sessions \in SessionTable /\ MacsOnce(sessions)
         /\ OneHolder(addr) /\ Tidy(acl, sessions, addr) /\ RegularAddrs
         /\ Live(sessions) \in SUBSET Slot /\ addr \in AddrTable
         /\ stations \in SUBSET Mac
BY QuotaTypes, SearchesAreSlots, TakenApart
   DEF OwnerInv, RegularAddrs, OneHolder, EnvType

LEMMA OwnerNext ==
  ASSUME NEW A, addr' = A, now' = now, RegularAddrs', TidyKept(A)
  PROVE  OwnerInv'
<1>1. Named(sessions)' /\ Homed(sessions, addr)' /\ Owned(acl, sessions, addr)'
  BY DEF TidyKept, Tidy, Named, Homed, Owned, OwnerOf, Live, Expired, EndTime
<1>2. Apart(acl)'
  BY DEF TidyKept, Tidy, Apart, MacsDiffer, EntriesDiffer
<1> QED BY <1>1, <1>2 DEF OwnerInv, Tidy

\* The same for handlers of requests, which leave the addresses alone.
LEMMA OwnerSameAddrs ==
  ASSUME OwnerInv, UNCHANGED <<now, env>>, TidyKept(addr)
  PROVE  OwnerInv'
<1>1. addr' = addr /\ now' = now /\ stations' = stations /\ leased' = leased
  BY DEF env
<1>2. RegularAddrs'
  BY <1>1 DEF OwnerInv, RegularAddrs
<1> QED BY <1>1, <1>2, OwnerNext

LEMMA NothingMoved ==
  ASSUME NEW A, Tidy(acl, sessions, A), UNCHANGED <<sessions, acl>>
  PROVE  TidyKept(A)
<1>1. sessions' = sessions /\ acl' = acl
  OBVIOUS
<1> QED BY <1>1 DEF TidyKept

LEMMA RevokeTidy ==
  ASSUME PortalInv, OwnerInv, NEW R \in SUBSET Live(sessions), Revoke(R)
  PROVE  TidyKept(addr)
<1> DEFINE gone == R \cup Expired(sessions)
<1>1. sessions' = Without(sessions, gone) /\ acl' = Cut(acl, sessions, gone)
  BY DEF Revoke, Refresh
<1>2. gone \in SUBSET Live(sessions)
  BY DEF Expired
<1> HIDE DEF gone
<1> QED BY <1>1, <1>2, OwnerFacts, CutTidy DEF TidyKept

LEMMA StartKeepsTidy ==
  ASSUME PortalInv, OwnerInv, NEW mac \in Mac, NEW ip \in IpOrNone,
         NEW granted \in Nat \ {0}, NEW q, ip # NoIp => addr[mac] = ip,
         StartOrResume(ip, mac, granted, q)
  PROVE  TidyKept(addr)
<1> DEFINE early == IF ip = NoIp THEN Expired(sessions) ELSE {}
           t == Without(sessions, early)
           a == Cut(acl, sessions, early)
           u == Started(t, ip, mac, granted)
           b == AclAdmit(Cut(a, u, Expired(u)), ip, mac)
           v == Without(u, Expired(u))
<1>1. sessions' = v /\ acl' = b
  <2>1. {} \cup Expired(u) = Expired(u)
    OBVIOUS
  <2> QED BY <2>1 DEF StartOrResume, Refresh
<1>2. early \in SUBSET Live(sessions)
  BY DEF Expired
<1>3. Proper(sessions, stations)
  BY QuotaTypes
<1>4. Tidy(a, t, addr)
  <2> HIDE DEF early
  <2> QED BY <1>2, OwnerFacts, CutTidy
<1>5. t \in SessionTable /\ MacsOnce(t)
  BY <1>3, WithoutProper DEF Proper
<1>6. ip = NoIp => Expired(t) = {}
  BY DEF Live, Without, NoSession, Expired
<1> HIDE DEF t, a
<1>7. Tidy(b, v, addr)
  BY <1>4, <1>5, <1>6, OwnerFacts, StartTidy
<1> HIDE DEF b, v
<1> QED BY <1>1, <1>7 DEF TidyKept

(* A caller is the station at its address, or some station that is there.  *)
LEMMA PresentCaller ==
  ASSUME Present, PortalInv, RegularAddrs, NEW ip \in Callers
  PROVE  \A m \in ConfirmMac(ip) :
           m \in stations /\ m \in Mac /\ (ip # NoIp => addr[m] = ip)
<1>1. stations \in SUBSET Mac /\ lastMac \in stations \cup {NoMac}
  BY DEF PortalInv, TypeOK
<1>2. CASE ip = NoIp
  <2>1. stations # {} /\ LeaseHolder(ip) = {}
    BY <1>2 DEF Callers, LeaseHolder
  <2> QED BY <1>1, <1>2, <2>1 DEF ConfirmMac
<1>3. CASE ip # NoIp
  <2>1. PICK m \in Mac : addr[m] = ip /\ m \in stations
    BY <1>3 DEF Callers, Present
  <2>2. LeaseHolder(ip) # {} /\ \A n \in LeaseHolder(ip) : n = m
    BY <1>1, <1>3, <2>1 DEF LeaseHolder, RegularAddrs
  <2> QED BY <2>1, <2>2 DEF ConfirmMac
<1> QED BY <1>2, <1>3

LEMMA RequestKeepsOwners ==
  ASSUME Present, PortalInv, OwnerInv, NEW ip \in Callers,
         \/ ConfirmRefused(ip) \/ ConfirmGranted(ip)
         \/ ProbeExpired(ip) \/ ProbeByMac(ip)
  PROVE  OwnerInv'
<1>1. UNCHANGED <<now, env>> /\ ip \in IpOrNone
  BY CallersType DEF ConfirmRefused, ConfirmGranted, ProbeExpired, ProbeByMac
<1>2. CASE ConfirmRefused(ip)
  <2>1. UNCHANGED <<sessions, acl>>
    BY <1>2 DEF ConfirmRefused, Refused
  <2> QED BY <1>1, <2>1, OwnerFacts, NothingMoved, OwnerSameAddrs
<1>3. CASE ConfirmGranted(ip)
  <2>1. PICK m \in ConfirmMac(ip) :
          LET remaining == QuotaRemaining(QuotaRead(m), m)
              granted == IF m = NoMac THEN QuotaSec
                         ELSE Lesser(remaining, UntilNextDay)
          IN  remaining > 0 /\ StartOrResume(ip, m, granted, QuotaRead(m))
    BY <1>3 DEF ConfirmGranted
  <2>2. m \in Mac /\ m # NoMac /\ (ip # NoIp => addr[m] = ip)
    BY OwnerFacts, PresentCaller, AclAssumption
  <2>3. QuotaRemaining(QuotaRead(m), m) > 0
    BY <2>1
  <2> DEFINE granted == Lesser(QuotaRemaining(QuotaRead(m), m), UntilNextDay)
             q == QuotaRead(m)
  <2>4. granted \in Nat \ {0}
    BY <2>2, <2>3, GrantsArePositive
  <2>5. StartOrResume(ip, m, granted, q)
    BY <2>1, <2>2
  <2> HIDE DEF granted, q
  <2> QED BY <1>1, <2>2, <2>4, <2>5, StartKeepsTidy, OwnerSameAddrs
<1>4. CASE ProbeExpired(ip)
  <2>1. PICK i \in Expired(sessions) : Revoke({i})
    BY <1>4 DEF ProbeExpired
  <2>2. {i} \in SUBSET Live(sessions)
    BY DEF Expired
  <2> QED BY <1>1, <2>1, <2>2, RevokeTidy, OwnerSameAddrs
<1>5. CASE ProbeByMac(ip)
  <2>1. PICK m \in LeaseHolder(ip) :
          /\ ByMac(sessions, m) # {}
          /\ LET i == FirstOf(ByMac(sessions, m))
             IN  \/ Revoke({i})
                 \/ /\ sessions' = [sessions EXCEPT ![i].ip = ip]
                    /\ acl' = AclAdmit(acl, ip, m)
    BY <1>5 DEF ProbeByMac
  <2>2. ip \in Ip /\ addr[m] = ip
    BY <1>1 DEF LeaseHolder, IpOrNone
  <2> DEFINE i == FirstOf(ByMac(sessions, m))
             u == [sessions EXCEPT ![i].ip = ip]
             b == AclAdmit(acl, ip, sessions[i].mac)
  <2>3. i \in ByMac(sessions, m)
    BY <2>1, SearchesAreSlots, FirstSlot
  <2>4. \/ Revoke({i})
        \/ sessions' = u /\ acl' = AclAdmit(acl, ip, m)
    BY <2>1
  <2> HIDE DEF i
  <2>5. i \in Live(sessions) /\ sessions[i].mac = m
    BY <2>3 DEF ByMac
  <2>6. CASE Revoke({i})
    <3>1. {i} \in SUBSET Live(sessions)
      BY <2>5
    <3> QED BY <1>1, <2>6, <3>1, RevokeTidy, OwnerSameAddrs
  <2>7. CASE sessions' = u /\ acl' = AclAdmit(acl, ip, m)
    <3>1. addr[sessions[i].mac] = ip
      BY <2>2, <2>5
    <3>2. Tidy(b, u, addr)
      BY <2>2, <2>5, <3>1, OwnerFacts, MoveTidy
    <3> HIDE DEF u
    <3>3. TidyKept(addr)
      BY <2>5, <2>7, <3>2 DEF TidyKept
    <3> QED BY <1>1, <3>3, OwnerSameAddrs
  <2> QED BY <2>4, <2>6, <2>7
<1> QED BY <1>2, <1>3, <1>4, <1>5

LEMMA ConnectKeepsOwners ==
  ASSUME PortalInv, OwnerInv, NEW m \in Mac, ConnectToPortal(m) \/ ConnectResumed(m)
  PROVE  OwnerInv'
<1>1. /\ stations' = stations \cup {m} /\ now' = now
      /\ addr' = addr /\ leased' = leased
  BY DEF ConnectToPortal, ConnectResumed, Associated
<1>2. RegularAddrs'
  BY <1>1 DEF OwnerInv, RegularAddrs
<1>3. TidyKept(addr)
  <2>1. CASE ConnectToPortal(m)
    <3>1. UNCHANGED <<sessions, acl>>
      BY <2>1 DEF ConnectToPortal, Refused
    <3> QED BY <3>1, OwnerFacts, NothingMoved
  <2>2. CASE ConnectResumed(m)
    <3> DEFINE q == QuotaRead(m)
               remaining == QuotaRemaining(q, m)
    <3>1. /\ StartOrResume(NoIp, m, remaining, q)
          /\ remaining \in 1 .. (QuotaSec - 1)
      BY <2>2 DEF ConnectResumed
    <3> HIDE DEF q, remaining
    <3>2. remaining \in Nat \ {0} /\ NoIp \in IpOrNone
      BY <3>1, PortalAssumption DEF IpOrNone
    <3> QED BY <3>1, <3>2, StartKeepsTidy
  <2> QED BY <2>1, <2>2
<1> QED BY <1>1, <1>2, <1>3, OwnerNext

\* A lease is taken by one station of those that are there.
LEMMA IpAssignedKeepsOwners ==
  ASSUME PortalInv, OwnerInv, NEW m \in Mac, NEW ip \in Ip, IpAssigned(m, ip)
  PROVE  OwnerInv'
<1> DEFINE mine == ByMac(sessions, m) \ Expired(sessions)
           i == FirstOf(mine)
           t == [sessions EXCEPT ![i].ip = ip, ![i].admitted = TRUE]
           a == IF sessions[i].ip = ip THEN acl
                ELSE AclRevokeByIp(acl, sessions[i].ip)
           A == [addr EXCEPT ![m] = ip]
           b == AclAdmit(a, ip, m)
<1>1. /\ addr' = A /\ now' = now
      /\ IF mine = {} THEN UNCHANGED core
         ELSE /\ Refresh(t, {}, quota, globalEnd, napt)
              /\ acl' = Cut(b, t, Expired(t))
  BY DEF IpAssigned
<1>2. RegularAddrs'
  BY OwnerFacts, LeaseKeepsAddrs
<1>3. ip \in IpOrNone /\ m # NoMac
  BY AclAssumption DEF IpOrNone
<1>4. A[m] = ip /\ \A n \in Mac \ {m} : A[n] = addr[n]
  BY OwnerFacts DEF AddrTable
<1> HIDE DEF A
<1>5. CASE mine = {}
  <2>1. UNCHANGED <<sessions, acl>>
    BY <1>1, <1>5 DEF core
  <2>2. \A j \in Live(sessions) : sessions[j].mac = m => j \in Expired(sessions)
    BY <1>3, <1>5 DEF ByMac
  <2>3. Homed(sessions, A)
    BY <1>4, <2>2, OwnerFacts DEF Tidy, Named, Homed
  <2>4. ASSUME NEW k \in AclSlot, acl[k].ip # NoIp
        PROVE  /\ acl[k].mac \in Mac
               /\ \E j \in Live(sessions) : OwnerOf(sessions, j, acl[k], A)
    <3>1. acl[k].mac \in Mac
      BY <2>4, OwnerFacts DEF Tidy, Owned
    <3>2. PICK j \in Live(sessions) : OwnerOf(sessions, j, acl[k], addr)
      BY <2>4, OwnerFacts DEF Tidy, Owned
    <3>3. OwnerOf(sessions, j, acl[k], A)
      BY <1>4, <2>2, <3>1, <3>2 DEF OwnerOf
    <3> QED BY <3>1, <3>3
  <2>5. Tidy(acl, sessions, A)
    BY <2>3, <2>4, OwnerFacts DEF Tidy, Owned
  <2> QED BY <1>1, <1>2, <2>1, <2>5, NothingMoved, OwnerNext
<1>6. CASE mine # {}
  <2>1. i \in ByMac(sessions, m)
    BY <1>6, SearchesAreSlots, FirstSlot
  <2>2. i \in Live(sessions) /\ sessions[i].mac = m
    BY <2>1 DEF ByMac
  <2>3. /\ acl' = Cut(b, t, Expired(t))
        /\ sessions' = Without(t, Expired(t))
    <3>1. {} \cup Expired(t) = Expired(t)
      OBVIOUS
    <3> QED BY <1>1, <1>6, <3>1 DEF Refresh
  <2> HIDE DEF i
  <2>4. Tidy(a, sessions, addr)
    <3>1. CASE a = acl
      BY <3>1, OwnerFacts
    <3>2. CASE a = AclRevokeByIp(acl, sessions[i].ip)
      <4>1. acl \in AclTable /\ MacsDiffer(acl) /\ EntriesDiffer(acl)
        BY OwnerFacts DEF Tidy, Apart
      <4>2. Apart(a)
        BY <3>2, <4>1, RevokeType, RevokeKeepsApart DEF Apart
      <4>3. \A k \in AclSlot : a[k].ip # NoIp => a[k] = acl[k]
        BY <3>2 DEF AclRevokeByIp, NoEntry
      <4> HIDE DEF a
      <4> QED BY <4>2, <4>3, OwnerFacts DEF Tidy, Owned
    <3> QED BY <3>1, <3>2
  <2>5. t = [sessions EXCEPT ![i].ip = ip]
    BY <1>3, <2>2, QuotaTypes, ReboundAddress
  <2> HIDE DEF t, a
  <2>6. Tidy(b, t, A)
    <3> DEFINE u == [sessions EXCEPT ![i].ip = ip]
               c == AclAdmit(a, ip, sessions[i].mac)
    <3>1. Tidy(c, u, A)
      BY <1>4, <2>2, <2>4, OwnerFacts, MoveTidy
    <3>2. c = b /\ u = t
      BY <2>2, <2>5
    <3> HIDE DEF c, u, b
    <3> QED BY <3>1, <3>2
  <2> HIDE DEF b
  <2>7. Expired(t) \in SUBSET Live(t)
    BY DEF Expired
  <2>8. TidyKept(A)
    BY <2>3, <2>6, <2>7, CutTidy DEF TidyKept
  <2> QED BY <1>1, <1>2, <2>8, OwnerNext
<1> QED BY <1>5, <1>6

LEMMA DisconnectedKeepsOwners ==
  ASSUME Present, PortalInv, OwnerInv, NEW m \in Mac, Disconnected(m)
  PROVE  OwnerInv'
<1>1. /\ now' = now
      /\ IF Ended(m) = {} THEN UNCHANGED core ELSE Revoke(Ended(m))
  BY DEF Disconnected
<1>2. RegularAddrs' /\ \A n \in Mac \ {m} : addr'[n] = addr[n]
  BY OwnerFacts, LeavingKeepsAddrs DEF Present
<1>3. ByMac(sessions, m) \subseteq Ended(m) /\ Ended(m) \in SUBSET Live(sessions)
  BY SearchesAreSlots DEF Ended
<1>4. m # NoMac
  BY AclAssumption
<1>5. ASSUME TidyKept(addr), \A i \in Live(sessions') : sessions'[i].mac # m
      PROVE  TidyKept(addr')
  <2> DEFINE t == sessions'
             a == acl'
             A == addr'
  <2>1. Tidy(a, t, addr) /\ \A i \in Live(t) : t[i].mac # m
    BY <1>5 DEF TidyKept
  <2>2. \A n \in Mac \ {m} : A[n] = addr[n]
    BY <1>2
  <2> HIDE DEF t, a, A
  <2>3. Homed(t, A)
    BY <2>1, <2>2 DEF Tidy, Named, Homed
  <2>4. Owned(a, t, A)
    BY <2>1, <2>2 DEF Tidy, Owned, OwnerOf
  <2>5. Tidy(a, t, A)
    BY <2>1, <2>3, <2>4 DEF Tidy
  <2> QED BY <2>5 DEF TidyKept, t, a, A
<1>6. CASE Ended(m) = {}
  <2>1. UNCHANGED <<sessions, acl>>
    BY <1>1, <1>6 DEF core
  <2>2. \A i \in Live(sessions) : sessions[i].mac # m
    BY <1>3, <1>4, <1>6 DEF ByMac
  <2>3. \A i \in Live(sessions') : sessions'[i].mac # m
    BY <2>1, <2>2 DEF Live
  <2> QED BY <1>1, <1>2, <1>5, <2>1, <2>3, OwnerFacts, NothingMoved, OwnerNext
<1>7. CASE Ended(m) # {}
  <2>1. Revoke(Ended(m))
    BY <1>1, <1>7
  <2>2. TidyKept(addr)
    BY <1>3, <2>1, RevokeTidy
  <2>3. sessions' = Without(sessions, Ended(m) \cup Expired(sessions))
    BY <2>1 DEF Revoke, Refresh
  <2>4. \A i \in Live(sessions') : /\ i \in Live(sessions) \ Ended(m)
                                   /\ sessions'[i] = sessions[i]
    BY <2>3 DEF Live, Without, NoSession
  <2>5. \A i \in Live(sessions') : sessions'[i].mac # m
    BY <1>3, <1>4, <2>4 DEF ByMac
  <2> QED BY <1>1, <1>2, <1>5, <2>2, <2>5, OwnerNext
<1> QED BY <1>6, <1>7

LEMMA HeartbeatKeepsOwners ==
  ASSUME PortalInv, OwnerInv, NEW i \in Slot, Heartbeat(i)
  PROVE  OwnerInv'
<1>1. /\ i \in Live(sessions) /\ UNCHANGED <<now, env>>
      /\ \/ /\ sessions' = [sessions EXCEPT ![i].accounted =
                              Accounted(sessions[i])]
            /\ acl' = acl
         \/ Revoke({i})
  BY DEF Heartbeat
<1>2. CASE Revoke({i})
  <2>1. {i} \in SUBSET Live(sessions)
    BY <1>1
  <2> QED BY <1>1, <1>2, <2>1, RevokeTidy, OwnerSameAddrs
<1>3. CASE /\ sessions' = [sessions EXCEPT ![i].accounted =
                             Accounted(sessions[i])]
           /\ acl' = acl
  <2>1. sessions[i] \in Session
    BY OwnerFacts DEF SessionTable
  <2> DEFINE t == sessions'
  <2>2. /\ t[i].mac = sessions[i].mac /\ t[i].ip = sessions[i].ip
        /\ t[i].active = sessions[i].active
        /\ t[i].start = sessions[i].start /\ t[i].granted = sessions[i].granted
        /\ \A j \in Slot \ {i} : t[j] = sessions[j]
    BY <1>3, <2>1, OwnerFacts DEF SessionTable, Session
  <2> HIDE DEF t
  <2>3. /\ Live(t) = Live(sessions)
        /\ \A j \in Live(sessions) : /\ t[j].mac = sessions[j].mac
                                     /\ t[j].ip = sessions[j].ip
    BY <1>1, <2>2 DEF Live
  <2>4. \A j \in Live(sessions) : j \in Expired(t) <=> j \in Expired(sessions)
    BY <2>2, <2>3, OwnerFacts DEF Expired, EndTime
  <2>5. Tidy(acl, t, addr)
    BY <2>3, <2>4, OwnerFacts DEF Tidy, Named, Homed, Owned, OwnerOf
  <2>6. TidyKept(addr)
    BY <1>3, <2>5 DEF TidyKept, t
  <2> QED BY <1>1, <2>6, OwnerSameAddrs
<1> QED BY <1>1, <1>2, <1>3

\* As time passes more sessions are over, which asks less of their entries.
LEMMA OutsideKeepsOwners ==
  ASSUME PortalInv, OwnerInv, Uplink \/ TimeSync \/ Tick \/ UNCHANGED vars
  PROVE  OwnerInv'
<1>1. /\ sessions' = sessions /\ acl' = acl /\ addr' = addr
      /\ stations' = stations /\ leased' = leased
  BY DEF Uplink, TimeSync, Tick, vars, core, env
<1>2. now' = now \/ now' = now + 1
  BY DEF Uplink, TimeSync, Tick, vars
<1>3. RegularAddrs'
  BY <1>1, OwnerFacts DEF RegularAddrs
<1>4. Live(sessions)' = Live(sessions)
  BY <1>1 DEF Live
<1>5. \A i \in Live(sessions) : i \in Expired(sessions) => i \in Expired(sessions)'
  <2>1. \A i \in Live(sessions) : EndTime(sessions[i]) \in Nat
    <3>1. \A x, y \in Nat : x + y * TicksPerSec \in Nat
      BY PortalAssumption
    <3> QED BY <3>1, OwnerFacts DEF EndTime, Live, SessionTable, Session
  <2>2. \A i \in Live(sessions) : EndTime(sessions[i])' = EndTime(sessions[i])
    BY <1>1 DEF EndTime
  <2>3. now \in Nat
    BY OwnerFacts
  <2>4. \A x \in Nat : x <= now => x <= now'
    BY <1>2, <2>3
  <2> QED BY <1>4, <2>1, <2>2, <2>4 DEF Expired
<1>6. Named(sessions)' /\ Homed(sessions, addr)'
  BY <1>1, <1>4, <1>5, OwnerFacts DEF Tidy, Named, Homed
<1>7. Owned(acl, sessions, addr)'
  BY <1>1, <1>4, <1>5, OwnerFacts DEF Tidy, Owned, OwnerOf
<1>8. Apart(acl)'
  BY <1>1, OwnerFacts DEF Tidy, Apart, MacsDiffer, EntriesDiffer
<1> QED BY <1>3, <1>6, <1>7, <1>8 DEF OwnerInv, Tidy

LEMMA InitiallyOwnerInv == Init => OwnerInv
<1> SUFFICES ASSUME Init PROVE OwnerInv
  OBVIOUS
<1>1. /\ sessions = [i \in Slot |-> NoSession] /\ addr = [m \in Mac |-> NoIp]
      /\ acl = [k \in AclSlot |-> NoEntry] /\ AclInit
  BY DEF Init, AclInit
<1>2. Live(sessions) = {}
  BY <1>1 DEF Live, NoSession
<1>3. (\A k \in AclSlot : acl[k].ip = NoIp) /\ \A m \in Mac : addr[m] = NoIp
  BY <1>1 DEF NoEntry
<1>4. Apart(acl)
  BY <1>1, AclInvInitially DEF AclInv, AclTypeOK, AclTable, Apart
<1> QED BY <1>2, <1>3, <1>4
        DEF OwnerInv, RegularAddrs, Tidy, Named, Homed, Owned

LEMMA OwnerInvKept ==
  ASSUME Present, PortalInv, OwnerInv, [Next]_vars
  PROVE  OwnerInv'
<1>1. CASE Request
  BY <1>1, RequestKeepsOwners DEF Request
<1>2. CASE WifiEvent
  <2>1. PICK m \in Mac :
          \/ ConnectToPortal(m)
          \/ ConnectResumed(m)
          \/ \E ip \in Ip : IpAssigned(m, ip) \/ StaticAddress(m, ip)
          \/ Disconnected(m)
    BY <1>2 DEF WifiEvent
  <2>2. \A ip \in Ip : ~StaticAddress(m, ip)
    BY DEF StaticAddress, Present
  <2> QED BY <2>1, <2>2, ConnectKeepsOwners, IpAssignedKeepsOwners,
             DisconnectedKeepsOwners
<1>3. CASE \E i \in Slot : Heartbeat(i)
  BY <1>3, HeartbeatKeepsOwners
<1>4. CASE Uplink \/ TimeSync \/ Tick \/ UNCHANGED vars
  BY <1>4, OutsideKeepsOwners
<1> QED BY <1>1, <1>2, <1>3, <1>4 DEF Next

LEMMA OwnerInvAlways ==
  ASSUME Present PROVE Spec => [](PortalInv /\ OwnerInv)
<1>1. Init => PortalInv /\ OwnerInv
  BY InitiallyPortalInv, InitiallyOwnerInv
<1>2. PortalInv /\ OwnerInv /\ [Next]_vars => (PortalInv /\ OwnerInv)'
  BY PortalInvKept, OwnerInvKept
<1> QED BY <1>1, <1>2, PTL DEF Spec

(* Whom the packet filter admits has a session: whatever a lease, a        *)
(* rebinding, an expiry or a disconnect does to the session table, the     *)
(* entry goes with the session or stays with another of the same address   *)
(* or station.  The filter may be smaller than the number of stations.     *)
THEOREM AdmissionsHaveSessions ==
  ASSUME Present PROVE Spec => []AdmittedHaveSession
<1>1. OwnerInv => AdmittedHaveSession
  <2> SUFFICES ASSUME OwnerInv, NEW k \in AclSlot, acl[k] # NoEntry
               PROVE  Owners(k) # {}
    BY DEF AdmittedHaveSession
  <2>1. acl[k].ip # NoIp
    BY AclAssumption DEF OwnerInv, Tidy, Apart, AclTable, AclEntry
  <2>2. acl[k].mac \in Mac /\ acl[k].mac # NoMac
    BY <2>1, AclAssumption DEF OwnerInv, Tidy, Owned
  <2>3. PICK i \in Live(sessions) : sessions[i].mac = acl[k].mac
    BY <2>1 DEF OwnerInv, Tidy, Owned, OwnerOf
  <2>4. k \in AclByMac(acl, sessions[i].mac)
    BY <2>2, <2>3 DEF AclByMac
  <2> QED BY <2>4 DEF Owners
<1> QED BY <1>1, OwnerInvAlways, PTL

-----------------------------------------------------------------------------
(* Running sessions.  Of stations that keep their address while they are   *)
(* associated, but may confirm without a peer address, every session at an *)
(* address has its entry in the filter, given room there: no handler takes *)
(* an address from a session without the entry, or the other way round.    *)

\* Addresses are kept, and the filter has room for all stations.
Keeping == Clients \subseteq {"no_peer"} /\ Cardinality(Mac) <= AclMaxClients

\* Every entry is at the present address of its station.
AtHome(a, A) == \A k \in AclSlot : a[k].ip # NoIp => a[k].ip = A[a[k].mac]

\* Every session at an address has its entry.
Entered(a, t) ==
  \A i \in Live(t) : t[i].ip # NoIp => InFilter(a, t[i].ip, t[i].mac)

Complete(a, t, A) == Settled(t, A) /\ AtHome(a, A) /\ Entered(a, t)

OpenInv == OwnerInv /\ Complete(acl, sessions, addr)

\* The sessions that go take no entry of the others.
LEMMA CutComplete ==
  ASSUME NEW t, MacsOnce(t), NEW A, OneHolder(A), NEW a, Complete(a, t, A),
         NEW R \in SUBSET Live(t)
  PROVE  Complete(Cut(a, t, R), Without(t, R), A)
<1> DEFINE b == Cut(a, t, R)
           u == Without(t, R)
           Hit(k) == \E i \in R : k \in AclByIp(a, t[i].ip)
                                        \cup AclByMac(a, t[i].mac)
<1>1. /\ NoIp \notin Ip /\ NoMac \notin Mac
      /\ \A k \in AclSlot : b[k] = IF Hit(k) THEN NoEntry ELSE a[k]
      /\ NoEntry.ip = NoIp /\ NoEntry.mac = NoMac
  BY AclAssumption DEF Cut, NoEntry
<1>2. Live(u) = Live(t) \ R /\ \A i \in Live(u) : u[i] = t[i] /\ i \in Live(t)
  BY DEF Live, Without, NoSession
<1> HIDE DEF b, u
<1>3. Settled(u, A)
  BY <1>2 DEF Complete, Settled
<1>4. AtHome(b, A)
  BY <1>1 DEF Complete, AtHome
<1>5. ASSUME NEW i \in Live(u), u[i].ip # NoIp PROVE InFilter(b, u[i].ip, u[i].mac)
  <2>1. i \in Live(t) /\ i \notin R /\ u[i] = t[i]
    BY <1>2
  <2>2. PICK k \in AclSlot : a[k].ip = t[i].ip /\ a[k].mac = t[i].mac
    BY <1>5, <2>1 DEF Complete, Entered, InFilter
  <2>3. ASSUME NEW j \in R, k \in AclByIp(a, t[j].ip) \cup AclByMac(a, t[j].mac)
        PROVE  FALSE
    <3>1. j \in Live(t) /\ t[j].mac \in Mac /\ t[i].mac \in Mac
      BY <2>1 DEF Complete, Settled
    <3>2. t[j].ip = t[i].ip \/ t[j].mac = t[i].mac
      BY <2>2, <2>3 DEF AclByIp, AclByMac
    <3>3. t[j].mac = t[i].mac
      BY <1>5, <2>1, <3>1, <3>2 DEF Complete, Settled, OneHolder
    <3> QED BY <1>1, <2>1, <3>1, <3>3 DEF MacsOnce
  <2> QED BY <1>1, <2>1, <2>2, <2>3 DEF InFilter
<1> QED BY <1>3, <1>4, <1>5 DEF Complete, Entered, b, u

\* An admission at the station's own address takes no entry of the others.
LEMMA AdmitKeepsOthers ==
  ASSUME Keeping, NEW a, NEW t, NEW A, OneHolder(A), Tidy(a, t, A), AtHome(a, A),
         NEW ip \in Ip, NEW mac \in Mac, A[mac] = ip
  PROVE  LET b == AclAdmit(a, ip, mac)
         IN  /\ AtHome(b, A)
             /\ InFilter(b, ip, mac)
             /\ \A p \in Ip, m \in Mac \ {mac} : InFilter(a, p, m) => InFilter(b, p, m)
<1> DEFINE b == AclAdmit(a, ip, mac)
<1>1. ip # NoIp
  BY AclAssumption
<1>2. \A k \in AclSlot : a[k].ip # NoIp => a[k].mac \in Mac
  BY DEF Tidy, Owned
<1>3. \A k \in AclSlot : a[k].ip = ip => a[k].mac = mac
  BY <1>1, <1>2 DEF AtHome, OneHolder
<1>4. \A p \in Ip, m \in Mac :
        InFilter(b, p, m) <=> IF m = mac THEN p = ip ELSE InFilter(a, p, m)
  BY <1>2, <1>3, AdmitBinds DEF Tidy, Keeping
<1>5. \A k \in AclSlot : \/ b[k] = [ip |-> ip, mac |-> mac]
                         \/ b[k] = a[k] /\ a[k].mac # mac
  BY AdmitEntries DEF Tidy
<1> HIDE DEF b
<1>6. AtHome(b, A)
  BY <1>5 DEF AtHome
<1> QED BY <1>4, <1>6 DEF b

\* A station moves to the address it has taken, or has had.
LEMMA MoveComplete ==
  ASSUME Keeping, NEW t \in SessionTable, MacsOnce(t), NEW A, OneHolder(A),
         NEW a, Tidy(a, t, A), Complete(a, t, A),
         NEW i \in Live(t), A[t[i].mac] \in Ip
  PROVE  LET ip == A[t[i].mac]
         IN  Complete(AclAdmit(a, ip, t[i].mac), [t EXCEPT ![i].ip = ip], A)
<1> DEFINE mac == t[i].mac
           ip == A[mac]
           u == [t EXCEPT ![i].ip = ip]
           b == AclAdmit(a, ip, mac)
<1>1. i \in Slot /\ t[i] \in Session /\ mac \in Mac /\ mac # NoMac
  BY AclAssumption DEF Live, SessionTable, Complete, Settled
<1>2. /\ u[i].ip = ip /\ u[i].mac = mac /\ u[i].active = t[i].active
      /\ \A j \in Slot \ {i} : u[j] = t[j]
  BY <1>1 DEF Session, SessionTable
<1>3. \A j \in Live(t) \ {i} : t[j].mac # mac
  BY <1>1 DEF MacsOnce
<1>4. /\ AtHome(b, A) /\ InFilter(b, ip, mac)
      /\ \A p \in Ip, m \in Mac \ {mac} : InFilter(a, p, m) => InFilter(b, p, m)
  BY <1>1, AdmitKeepsOthers DEF Complete
<1> HIDE DEF u, b
<1>5. Live(u) = Live(t)
  BY <1>1, <1>2 DEF Live
<1>6. Settled(u, A)
  BY <1>1, <1>2, <1>5 DEF Complete, Settled, Live
<1>7. \A j \in Live(t) : t[j].ip \in IpOrNone
  BY DEF Live, SessionTable, Session
<1>8. \A j \in Live(u) : u[j].ip # NoIp => InFilter(b, u[j].ip, u[j].mac)
  <2> HIDE DEF ip, mac
  <2>1. \A j \in Live(t) \ {i} : /\ u[j] = t[j] /\ t[j].mac \in Mac \ {mac}
                                 /\ t[j].ip \in Ip \cup {NoIp}
    BY <1>2, <1>3, <1>7 DEF Complete, Settled, Live, IpOrNone
  <2> QED BY <1>2, <1>4, <1>5, <2>1 DEF Complete, Entered
<1> QED BY <1>4, <1>6, <1>8 DEF Complete, Entered, u, b

\* A session is started or resumed, and those that are over are cut.
LEMMA StartComplete ==
  ASSUME Keeping, NEW t \in SessionTable, MacsOnce(t), NEW A, OneHolder(A),
         NEW a, Tidy(a, t, A), Complete(a, t, A),
         now \in Nat, NEW mac \in Mac, NEW ip \in IpOrNone,
         NEW granted \in Nat \ {0}, ip # NoIp => A[mac] = ip
  PROVE  LET u == Started(t, ip, mac, granted)
         IN  Complete(AclAdmit(Cut(a, u, Expired(u)), ip, mac),
                      Without(u, Expired(u)), A)
<1> DEFINE u == Started(t, ip, mac, granted)
           X == Expired(u)
           c == Cut(a, u, X)
           w == Without(t, X)
           v == Without(u, X)
           b == AclAdmit(c, ip, mac)
<1> HIDE DEF u
<1>1. PICK k \in Slot, F \in SUBSET Live(t) : Turns(t, u, ip, mac, k, F)
  BY StartedTurns DEF u, Tidy
<1>2. X \in SUBSET Live(t) /\ \A j \in X : u[j] = t[j]
  BY <1>1 DEF Turns, Expired
<1>3. \A j \in Live(u) \ {k} : j \in X <=> j \in Expired(t)
  BY <1>1 DEF Turns, Expired
<1>4. /\ Live(w) = Live(t) \ X /\ \A j \in Live(w) : w[j] = t[j]
      /\ Live(v) = Live(u) \ X /\ \A j \in Live(v) : v[j] = u[j]
  BY DEF Live, Without, NoSession
<1> HIDE DEF X
<1>5. c = Cut(a, t, X)
  BY <1>2 DEF Cut
<1>6. Tidy(c, w, A) /\ Complete(c, w, A)
  <2>1. Tidy(Cut(a, t, X), Without(t, X), A)
    BY <1>2, CutTidy
  <2>2. Complete(Cut(a, t, X), Without(t, X), A)
    BY <1>2, CutComplete
  <2> QED BY <1>5, <2>1, <2>2
<1> HIDE DEF c, w, v, b
<1>7. /\ v[k].mac = mac /\ v[k].ip = ip
      /\ \A j \in Live(v) \ {k} :
           j \in Live(w) /\ v[j] = w[j] /\ w[j].mac \in Mac \ {mac}
             /\ w[j].ip \in Ip \cup {NoIp}
  <2>1. k \in Live(v)
    BY <1>1, <1>4 DEF Turns, X
  <2>2. v[k].mac = mac /\ v[k].ip = ip
    BY <1>1, <1>4, <2>1 DEF Turns
  <2>3. ASSUME NEW j \in Live(v) \ {k}
        PROVE  j \in Live(w) /\ v[j] = w[j] /\ w[j].mac \in Mac \ {mac}
                 /\ w[j].ip \in Ip \cup {NoIp}
    <3>1. j \in Live(t) \ X /\ u[j] = t[j] /\ t[j].mac # mac
      BY <1>1, <1>4 DEF Turns
    <3>2. j \in Live(w) /\ v[j] = w[j] /\ w[j] = t[j]
      BY <1>4, <3>1
    <3>3. t[j].mac \in Mac /\ t[j].ip \in Ip \cup {NoIp}
      BY <3>1 DEF Tidy, Named, Live, SessionTable, Session, IpOrNone
    <3> QED BY <3>1, <3>2, <3>3
  <2> QED BY <2>2, <2>3
<1>8. Settled(v, A)
  BY <1>6, <1>7 DEF Complete, Settled
<1>9. CASE ip = NoIp
  <2>1. b = c
    BY <1>9 DEF b, AclAdmit
  <2>2. Entered(c, v)
    BY <1>6, <1>7, <1>9 DEF Complete, Entered
  <2>3. Complete(b, v, A)
    BY <1>6, <1>8, <2>1, <2>2 DEF Complete
  <2> QED BY <2>3 DEF b, c, v, u, X
<1>10. CASE ip # NoIp
  <2>1. ip \in Ip /\ A[mac] = ip
    BY <1>10 DEF IpOrNone
  <2>2. /\ AtHome(b, A) /\ InFilter(b, ip, mac)
        /\ \A p \in Ip, m \in Mac \ {mac} : InFilter(c, p, m) => InFilter(b, p, m)
    BY <1>6, <2>1, AdmitKeepsOthers DEF b, Complete
  <2>3. Entered(b, v)
    BY <1>6, <1>7, <2>2 DEF Complete, Entered
  <2>4. Complete(b, v, A)
    BY <1>8, <2>2, <2>3 DEF Complete
  <2> QED BY <2>4 DEF b, c, v, u, X
<1> QED BY <1>9, <1>10

\* What a handler leaves behind, with A the addresses after it.
CompleteKept(A) == Complete(acl', sessions', A)

LEMMA OpenFacts ==
  ASSUME PortalInv, OpenInv
  PROVE  /\ OwnerInv /\ now \in Nat /\ sessions \in SessionTable
         /\ MacsOnce(sessions) /\ OneHolder(addr) /\ Tidy(acl, sessions, addr)
         /\ Complete(acl, sessions, addr) /\ Live(sessions) \in SUBSET Slot
         /\ stations \in SUBSET Mac /\ addr \in AddrTable
BY OwnerFacts DEF OpenInv

LEMMA OpenNext ==
  ASSUME OwnerInv', NEW A, addr' = A, CompleteKept(A)
  PROVE  OpenInv'
BY DEF OpenInv, CompleteKept, Complete, Settled, AtHome, Entered, InFilter, Live

LEMMA NothingTaken ==
  ASSUME NEW A, Complete(acl, sessions, A), UNCHANGED <<sessions, acl>>
  PROVE  CompleteKept(A)
<1>1. sessions' = sessions /\ acl' = acl
  OBVIOUS
<1> QED BY <1>1 DEF CompleteKept

LEMMA RevokeComplete ==
  ASSUME PortalInv, OpenInv, NEW R \in SUBSET Live(sessions), Revoke(R)
  PROVE  CompleteKept(addr)
<1> DEFINE gone == R \cup Expired(sessions)
<1>1. sessions' = Without(sessions, gone) /\ acl' = Cut(acl, sessions, gone)
  BY DEF Revoke, Refresh
<1>2. gone \in SUBSET Live(sessions)
  BY DEF Expired
<1> HIDE DEF gone
<1> QED BY <1>1, <1>2, OpenFacts, CutComplete DEF CompleteKept

LEMMA StartKeepsComplete ==
  ASSUME Keeping, PortalInv, OpenInv, NEW mac \in Mac, NEW ip \in IpOrNone,
         NEW granted \in Nat \ {0}, NEW q, ip # NoIp => addr[mac] = ip,
         StartOrResume(ip, mac, granted, q)
  PROVE  CompleteKept(addr)
<1> DEFINE early == IF ip = NoIp THEN Expired(sessions) ELSE {}
           t == Without(sessions, early)
           a == Cut(acl, sessions, early)
           u == Started(t, ip, mac, granted)
           b == AclAdmit(Cut(a, u, Expired(u)), ip, mac)
           v == Without(u, Expired(u))
<1>1. sessions' = v /\ acl' = b
  <2>1. {} \cup Expired(u) = Expired(u)
    OBVIOUS
  <2> QED BY <2>1 DEF StartOrResume, Refresh
<1>2. early \in SUBSET Live(sessions)
  BY DEF Expired
<1>3. Tidy(a, t, addr) /\ Complete(a, t, addr)
  <2> HIDE DEF early
  <2> QED BY <1>2, OpenFacts, CutTidy, CutComplete
<1>4. t \in SessionTable /\ MacsOnce(t)
  <2>1. Proper(sessions, stations)
    BY QuotaTypes
  <2> QED BY <2>1, WithoutProper DEF Proper
<1> HIDE DEF t, a
<1>5. Complete(b, v, addr)
  BY <1>3, <1>4, OpenFacts, StartComplete
<1> HIDE DEF b, v
<1> QED BY <1>1, <1>5 DEF CompleteKept

LEMMA KeepingIsPresent == Keeping => Present
BY DEF Keeping, Present

LEMMA RequestKeepsComplete ==
  ASSUME Keeping, PortalInv, OpenInv, NEW ip \in Callers,
         \/ ConfirmRefused(ip) \/ ConfirmGranted(ip)
         \/ ProbeExpired(ip) \/ ProbeByMac(ip)
  PROVE  addr' = addr /\ CompleteKept(addr)
<1>1. addr' = addr /\ ip \in IpOrNone
  BY CallersType DEF ConfirmRefused, ConfirmGranted, ProbeExpired, ProbeByMac, env
<1>2. CASE ConfirmRefused(ip)
  <2>1. UNCHANGED <<sessions, acl>>
    BY <1>2 DEF ConfirmRefused, Refused
  <2> QED BY <1>1, <2>1, OpenFacts, NothingTaken
<1>3. CASE ConfirmGranted(ip)
  <2>1. PICK m \in ConfirmMac(ip) :
          LET remaining == QuotaRemaining(QuotaRead(m), m)
              granted == IF m = NoMac THEN QuotaSec
                         ELSE Lesser(remaining, UntilNextDay)
          IN  remaining > 0 /\ StartOrResume(ip, m, granted, QuotaRead(m))
    BY <1>3 DEF ConfirmGranted
  <2>2. m \in Mac /\ m # NoMac /\ (ip # NoIp => addr[m] = ip)
    BY KeepingIsPresent, PresentCaller, AclAssumption DEF OpenInv, OwnerInv
  <2>3. QuotaRemaining(QuotaRead(m), m) > 0
    BY <2>1
  <2> DEFINE granted == Lesser(QuotaRemaining(QuotaRead(m), m), UntilNextDay)
             q == QuotaRead(m)
  <2>4. granted \in Nat \ {0}
    BY <2>2, <2>3, GrantsArePositive
  <2>5. StartOrResume(ip, m, granted, q)
    BY <2>1, <2>2
  <2> HIDE DEF granted, q
  <2> QED BY <1>1, <2>2, <2>4, <2>5, StartKeepsComplete
<1>4. CASE ProbeExpired(ip)
  <2>1. PICK i \in Expired(sessions) : Revoke({i})
    BY <1>4 DEF ProbeExpired
  <2>2. {i} \in SUBSET Live(sessions)
    BY DEF Expired
  <2> QED BY <1>1, <2>1, <2>2, RevokeComplete
<1>5. CASE ProbeByMac(ip)
  <2>1. PICK m \in LeaseHolder(ip) :
          /\ ByMac(sessions, m) # {}
          /\ LET i == FirstOf(ByMac(sessions, m))
             IN  \/ Revoke({i})
                 \/ /\ sessions' = [sessions EXCEPT ![i].ip = ip]
                    /\ acl' = AclAdmit(acl, ip, m)
    BY <1>5 DEF ProbeByMac
  <2>2. ip \in Ip /\ addr[m] = ip
    BY <1>1 DEF LeaseHolder, IpOrNone
  <2> DEFINE i == FirstOf(ByMac(sessions, m))
             u == [sessions EXCEPT ![i].ip = ip]
             b == AclAdmit(acl, ip, m)
  <2>3. i \in ByMac(sessions, m)
    BY <2>1, SearchesAreSlots, FirstSlot
  <2>4. Revoke({i}) \/ (sessions' = u /\ acl' = b)
    BY <2>1
  <2> HIDE DEF i
  <2>5. i \in Live(sessions) /\ sessions[i].mac = m
    BY <2>3 DEF ByMac
  <2>6. CASE Revoke({i})
    <3>1. {i} \in SUBSET Live(sessions)
      BY <2>5
    <3> QED BY <1>1, <2>6, <3>1, RevokeComplete
  <2>7. CASE sessions' = u /\ acl' = b
    <3> DEFINE c == AclAdmit(acl, addr[sessions[i].mac], sessions[i].mac)
               v == [sessions EXCEPT ![i].ip = addr[sessions[i].mac]]
    <3>1. Complete(c, v, addr)
      BY <2>2, <2>5, OpenFacts, MoveComplete
    <3>2. c = b /\ v = u
      BY <2>2, <2>5
    <3> HIDE DEF u, b, c, v
    <3> QED BY <1>1, <2>7, <3>1, <3>2 DEF CompleteKept
  <2> QED BY <2>4, <2>6, <2>7
<1> QED BY <1>2, <1>3, <1>4, <1>5

LEMMA ConnectKeepsComplete ==
  ASSUME Keeping, PortalInv, OpenInv, NEW m \in Mac,
         ConnectToPortal(m) \/ ConnectResumed(m)
  PROVE  addr' = addr /\ CompleteKept(addr)
<1>1. addr' = addr
  BY DEF ConnectToPortal, ConnectResumed, Associated
<1>2. CASE ConnectToPortal(m)
  <2>1. UNCHANGED <<sessions, acl>>
    BY <1>2 DEF ConnectToPortal, Refused
  <2> QED BY <1>1, <2>1, OpenFacts, NothingTaken
<1>3. CASE ConnectResumed(m)
  <2> DEFINE q == QuotaRead(m)
             remaining == QuotaRemaining(q, m)
  <2>1. /\ StartOrResume(NoIp, m, remaining, q)
        /\ remaining \in 1 .. (QuotaSec - 1)
    BY <1>3 DEF ConnectResumed
  <2> HIDE DEF q, remaining
  <2>2. remaining \in Nat \ {0} /\ NoIp \in IpOrNone
    BY <2>1, PortalAssumption DEF IpOrNone
  <2> QED BY <1>1, <2>1, <2>2, StartKeepsComplete
<1> QED BY <1>2, <1>3

\* A station without an address has no entry, so a lease finds its table
\* complete already.
LEMMA LeaseComplete ==
  ASSUME Keeping, PortalInv, OpenInv, NEW m \in Mac, NEW ip \in Ip, IpAssigned(m, ip)
  PROVE  LET A == [addr EXCEPT ![m] = ip]
         IN  /\ A[m] = ip /\ addr[m] \in {ip, NoIp}
             /\ OneHolder(A) /\ Tidy(acl, sessions, A)
             /\ Complete(acl, sessions, A)
<1> DEFINE A == [addr EXCEPT ![m] = ip]
<1>1. addr[m] \in {ip, NoIp}
  BY OpenFacts DEF IpAssigned, Keeping, OwnerInv, RegularAddrs
<1>2. A[m] = ip /\ \A n \in Mac \ {m} : A[n] = addr[n]
  BY OpenFacts DEF AddrTable
<1>3. OneHolder(A)
  <2>1. \A n \in Mac \ {m} : addr[n] # ip
    BY OpenFacts, AclAssumption DEF IpAssigned, OwnerInv, RegularAddrs
  <2> HIDE DEF A
  <2> QED BY <1>2, <2>1, OpenFacts DEF OneHolder
<1> HIDE DEF A
<1>4. NoIp \notin Ip
  BY AclAssumption
<1>5. Complete(acl, sessions, A)
  <2>1. Settled(sessions, A)
    BY <1>1, <1>2, OpenFacts DEF Complete, Settled
  <2>2. \A k \in AclSlot : acl[k].ip # NoIp => acl[k].mac \in Mac
    BY OpenFacts DEF Tidy, Owned
  <2>3. AtHome(acl, A)
    BY <1>1, <1>2, <2>2, OpenFacts DEF Complete, AtHome
  <2> QED BY <2>1, <2>3, OpenFacts DEF Complete
<1>6. Tidy(acl, sessions, A)
  <2>1. Homed(sessions, A)
    BY <1>5 DEF Complete, Settled, Homed
  <2>2. Owned(acl, sessions, A)
    BY <1>5, OpenFacts DEF Complete, AtHome, Tidy, Owned, OwnerOf
  <2> QED BY <2>1, <2>2, OpenFacts DEF Tidy
<1> QED BY <1>1, <1>2, <1>3, <1>5, <1>6 DEF A

LEMMA IpAssignedKeepsComplete ==
  ASSUME Keeping, PortalInv, OpenInv, NEW m \in Mac, NEW ip \in Ip, IpAssigned(m, ip)
  PROVE  CompleteKept(addr')
<1> DEFINE mine == ByMac(sessions, m) \ Expired(sessions)
           i == FirstOf(mine)
           t == [sessions EXCEPT ![i].ip = ip, ![i].admitted = TRUE]
           a == IF sessions[i].ip = ip THEN acl
                ELSE AclRevokeByIp(acl, sessions[i].ip)
           A == [addr EXCEPT ![m] = ip]
           b == AclAdmit(a, ip, m)
<1>1. /\ addr' = A
      /\ IF mine = {} THEN UNCHANGED core
         ELSE /\ Refresh(t, {}, quota, globalEnd, napt)
              /\ acl' = Cut(b, t, Expired(t))
  BY DEF IpAssigned
<1>2. /\ A[m] = ip /\ addr[m] \in {ip, NoIp}
      /\ OneHolder(A) /\ Tidy(acl, sessions, A) /\ Complete(acl, sessions, A)
  BY LeaseComplete
<1> HIDE DEF A
<1>3. CASE mine = {}
  <2>1. UNCHANGED <<sessions, acl>>
    BY <1>1, <1>3 DEF core
  <2> QED BY <1>1, <1>2, <2>1, NothingTaken
<1>4. CASE mine # {}
  <2>1. i \in ByMac(sessions, m)
    BY <1>4, SearchesAreSlots, FirstSlot
  <2>2. i \in Live(sessions) /\ sessions[i].mac = m
    BY <2>1 DEF ByMac
  <2>3. /\ acl' = Cut(b, t, Expired(t))
        /\ sessions' = Without(t, Expired(t))
    <3>1. {} \cup Expired(t) = Expired(t)
      OBVIOUS
    <3> QED BY <1>1, <1>4, <3>1 DEF Refresh
  <2> HIDE DEF i
  <2>4. a = acl
    <3>1. sessions[i].ip \in {NoIp, addr[m]}
      BY <2>2, OpenFacts DEF Complete, Settled
    <3>2. sessions[i].ip \in {NoIp, ip}
      BY <1>2, <3>1
    <3>3. CASE sessions[i].ip = NoIp
      <4>1. acl = [k \in AclSlot |-> acl[k]]
        BY OpenFacts DEF Tidy, Apart, AclTable
      <4>2. AclRevokeByIp(acl, NoIp) = [k \in AclSlot |-> acl[k]]
        BY DEF AclRevokeByIp, AclByIp
      <4> QED BY <3>3, <4>1, <4>2
    <3> QED BY <3>2, <3>3
  <2>5. t = [sessions EXCEPT ![i].ip = ip] /\ MacsOnce(t)
    <3>1. ip \in IpOrNone
      BY DEF IpOrNone
    <3>2. Proper(sessions, stations)
      BY QuotaTypes
    <3>3. /\ Proper([sessions EXCEPT ![i].ip = ip], stations)
          /\ t = [sessions EXCEPT ![i].ip = ip]
      BY <2>2, <3>1, <3>2, ReboundAddress
    <3> QED BY <3>3 DEF Proper
  <2> HIDE DEF t, a
  <2>6. Complete(b, t, A)
    <3> DEFINE c == AclAdmit(acl, A[sessions[i].mac], sessions[i].mac)
               u == [sessions EXCEPT ![i].ip = A[sessions[i].mac]]
    <3>1. Complete(c, u, A)
      BY <1>2, <2>2, OpenFacts, MoveComplete
    <3>2. c = b /\ u = t
      BY <1>2, <2>2, <2>4, <2>5
    <3> HIDE DEF c, u, b
    <3> QED BY <3>1, <3>2
  <2> HIDE DEF b
  <2>7. Expired(t) \in SUBSET Live(t)
    BY DEF Expired
  <2>8. Complete(Cut(b, t, Expired(t)), Without(t, Expired(t)), A)
    BY <1>2, <2>5, <2>6, <2>7, CutComplete
  <2> QED BY <1>1, <2>3, <2>8 DEF CompleteKept
<1> QED BY <1>3, <1>4

LEMMA DisconnectedKeepsComplete ==
  ASSUME Keeping, PortalInv, OpenInv, NEW m \in Mac, Disconnected(m)
  PROVE  CompleteKept(addr')
<1>1. IF Ended(m) = {} THEN UNCHANGED core ELSE Revoke(Ended(m))
  BY DEF Disconnected
<1>2. \A n \in Mac \ {m} : addr'[n] = addr[n]
  BY LeavingKeepsAddrs DEF Keeping, OpenInv, OwnerInv
<1>3. /\ ByMac(sessions, m) \subseteq Ended(m) /\ Ended(m) \in SUBSET Live(sessions)
      /\ m # NoMac
  BY SearchesAreSlots, AclAssumption DEF Ended
<1>4. CompleteKept(addr) /\ \A i \in Live(sessions') : sessions'[i].mac # m
  <2>1. CASE Ended(m) = {}
    <3>1. UNCHANGED <<sessions, acl>>
      BY <1>1, <2>1 DEF core
    <3>2. \A i \in Live(sessions) : sessions[i].mac # m
      BY <1>3, <2>1 DEF ByMac
    <3> QED BY <3>1, <3>2, OpenFacts, NothingTaken DEF Live
  <2>2. CASE Ended(m) # {}
    <3>1. Revoke(Ended(m))
      BY <1>1, <2>2
    <3>2. sessions' = Without(sessions, Ended(m) \cup Expired(sessions))
      BY <3>1 DEF Revoke, Refresh
    <3>3. \A i \in Live(sessions') : /\ i \in Live(sessions) \ Ended(m)
                                     /\ sessions'[i] = sessions[i]
      BY <3>2 DEF Live, Without, NoSession
    <3>4. \A i \in Live(sessions') : sessions'[i].mac # m
      BY <1>3, <3>3 DEF ByMac
    <3> QED BY <1>3, <3>1, <3>4, RevokeComplete
  <2> QED BY <2>1, <2>2
<1>5. OwnerInv'
  BY KeepingIsPresent, DisconnectedKeepsOwners DEF OpenInv
<1>6. \A k \in AclSlot : acl'[k].ip # NoIp => acl'[k].mac \in Mac \ {m}
  BY <1>4, <1>5 DEF OwnerInv, Tidy, Owned, OwnerOf, Live
<1> DEFINE t == sessions'
           a == acl'
           A == addr'
<1>7. Complete(a, t, addr)
  BY <1>4 DEF CompleteKept
<1>8. (\A n \in Mac \ {m} : A[n] = addr[n]) /\ (\A i \in Live(t) : t[i].mac # m)
      /\ (\A k \in AclSlot : a[k].ip # NoIp => a[k].mac \in Mac \ {m})
  BY <1>2, <1>4, <1>6
<1> HIDE DEF t, a, A
<1>9. Settled(t, A)
  BY <1>7, <1>8 DEF Complete, Settled
<1>10. AtHome(a, A)
  BY <1>7, <1>8 DEF Complete, AtHome
<1>11. Complete(a, t, A)
  BY <1>7, <1>9, <1>10 DEF Complete
<1> QED BY <1>11 DEF CompleteKept, t, a, A

LEMMA HeartbeatKeepsComplete ==
  ASSUME PortalInv, OpenInv, NEW i \in Slot, Heartbeat(i)
  PROVE  addr' = addr /\ CompleteKept(addr)
<1>1. /\ i \in Live(sessions) /\ addr' = addr
      /\ \/ /\ sessions' = [sessions EXCEPT ![i].accounted =
                              Accounted(sessions[i])]
            /\ acl' = acl
         \/ Revoke({i})
  BY DEF Heartbeat, env
<1>2. CASE Revoke({i})
  <2>1. {i} \in SUBSET Live(sessions)
    BY <1>1
  <2> QED BY <1>1, <1>2, <2>1, RevokeComplete
<1>3. CASE /\ sessions' = [sessions EXCEPT ![i].accounted =
                             Accounted(sessions[i])]
           /\ acl' = acl
  <2> DEFINE t == sessions'
  <2>1. \A j \in Slot : /\ t[j].mac = sessions[j].mac /\ t[j].ip = sessions[j].ip
                        /\ t[j].active = sessions[j].active
    BY <1>3, OpenFacts DEF SessionTable, Session
  <2> HIDE DEF t
  <2>2. Complete(acl, t, addr)
    BY <2>1, OpenFacts DEF Complete, Settled, AtHome, Entered, Live
  <2> QED BY <1>1, <1>3, <2>2 DEF CompleteKept, t
<1> QED BY <1>1, <1>2, <1>3

LEMMA OpenInvKept ==
  ASSUME Keeping, PortalInv, OpenInv, [Next]_vars
  PROVE  OpenInv'
<1>1. OwnerInv'
  BY KeepingIsPresent, OwnerInvKept DEF OpenInv
<1>2. CompleteKept(addr')
  <2>1. CASE Request
    <3>1. addr' = addr /\ CompleteKept(addr)
      BY <2>1, RequestKeepsComplete DEF Request
    <3> QED BY <3>1
  <2>2. ASSUME NEW m \in Mac, ConnectToPortal(m) \/ ConnectResumed(m)
        PROVE  CompleteKept(addr')
    <3>1. addr' = addr /\ CompleteKept(addr)
      BY <2>2, ConnectKeepsComplete
    <3> QED BY <3>1
  <2>3. ASSUME NEW m \in Mac, NEW ip \in Ip, IpAssigned(m, ip) \/ StaticAddress(m, ip)
        PROVE  CompleteKept(addr')
    BY <2>3, IpAssignedKeepsComplete DEF StaticAddress, Keeping
  <2>4. ASSUME NEW m \in Mac, Disconnected(m) PROVE CompleteKept(addr')
    BY <2>4, DisconnectedKeepsComplete
  <2>5. ASSUME NEW i \in Slot, Heartbeat(i) PROVE CompleteKept(addr')
    <3>1. addr' = addr /\ CompleteKept(addr)
      BY <2>5, HeartbeatKeepsComplete
    <3> QED BY <3>1
  <2>6. CASE Uplink \/ TimeSync \/ Tick \/ UNCHANGED vars
    <3>1. UNCHANGED <<sessions, acl>> /\ addr' = addr
      BY <2>6 DEF Uplink, TimeSync, Tick, vars, core, env
    <3> QED BY <3>1, OpenFacts, NothingTaken
  <2> QED BY <2>1, <2>2, <2>3, <2>4, <2>5, <2>6 DEF Next, WifiEvent
<1> QED BY <1>1, <1>2, OpenNext

LEMMA OpenInvAlways ==
  ASSUME Keeping PROVE Spec => [](PortalInv /\ OpenInv)
<1>1. Init => PortalInv /\ OpenInv
  <2> SUFFICES ASSUME Init PROVE PortalInv /\ OpenInv
    OBVIOUS
  <2>1. sessions = [i \in Slot |-> NoSession] /\ acl = [k \in AclSlot |-> NoEntry]
    BY DEF Init, AclInit
  <2>2. Live(sessions) = {}
    BY <2>1 DEF Live, NoSession
  <2>3. \A k \in AclSlot : acl[k].ip = NoIp
    BY <2>1 DEF NoEntry
  <2>4. Complete(acl, sessions, addr)
    BY <2>2, <2>3 DEF Complete, Settled, AtHome, Entered
  <2> QED BY <2>4, InitiallyPortalInv, InitiallyOwnerInv DEF OpenInv
<1>2. PortalInv /\ OpenInv /\ [Next]_vars => (PortalInv /\ OpenInv)'
  BY PortalInvKept, OpenInvKept
<1> QED BY <1>1, <1>2, PTL DEF Spec

(* Whoever has a session at an address is let through, whatever the other  *)
(* stations do: no lease, resumed session, expiry or disconnect of another *)
(* station takes the address from the filter, as long as stations keep     *)
(* theirs.  One that renumbers is enough to break it.                      *)
THEOREM RunningAreAdmitted ==
  ASSUME Keeping PROVE Spec => []RunningIsAdmitted
<1>1. OpenInv => RunningIsAdmitted
  <2> SUFFICES ASSUME OpenInv, NEW i \in Live(sessions), sessions[i].ip # NoIp
               PROVE  AclIsAdmitted(acl, sessions[i].ip)
    BY DEF RunningIsAdmitted
  <2>1. InFilter(acl, sessions[i].ip, sessions[i].mac)
    BY DEF OpenInv, Complete, Entered
  <2> QED BY <2>1 DEF InFilter, AclIsAdmitted, AclByIp
<1> QED BY <1>1, OpenInvAlways, PTL

-----------------------------------------------------------------------------
(* Cutting off.  An entry of the filter that outlives the end of its       *)
(* session has an expired session of its own MAC.  Every step that drops   *)
(* or writes a session drops the expired ones, so until then that session  *)
(* stays where it is, and the heartbeat finds it.                          *)

\* The heartbeat looks only at sessions with a hash.
Hashed(t) == \A i \in Live(t) : t[i].mac # NoMac => t[i].hash

\* Session i is over and has the MAC of the entry k.
LateOwner(k, i) ==
  acl[k] # NoEntry /\ i \in Expired(sessions) /\ sessions[i].mac = acl[k].mac

LEMMA HashedWithout ==
  ASSUME NEW t, Hashed(t), NEW R PROVE Hashed(Without(t, R))
BY DEF Hashed, Without, Live, NoSession

LEMMA StartedHashed ==
  ASSUME NEW t \in SessionTable, Hashed(t), NEW ip, NEW mac, NEW granted
  PROVE  Hashed(Started(t, ip, mac, granted))
<1> DEFINE found == Found(t, ip, mac)
           rest == Without(t, found)
           i == FirstOf(found)
           k == NewSlot(rest, found, mac)
           s == NewSession(ip, mac, granted)
<1>1. CASE found \ Expired(t) # {}
  <2> DEFINE u == Rebound(t, i, ip, mac)
  <2> HIDE DEF i
  <2>1. /\ \A j \in Slot \ {i} : u[j] = t[j]
        /\ i \in Slot => /\ u[i].active = t[i].active
                         /\ u[i].mac = IF mac = NoMac THEN t[i].mac ELSE mac
                         /\ u[i].hash = (t[i].hash \/ mac # NoMac \/ ip # NoIp)
    BY DEF Rebound, SessionTable, Session
  <2> HIDE DEF u
  <2>2. Hashed(u)
    BY <2>1 DEF Hashed, Live
  <2> QED BY <1>1, <2>2 DEF Started, u, i
<1>2. CASE found \ Expired(t) = {}
  <2> DEFINE u == [rest EXCEPT ![k] = s]
  <2>1. s.mac = mac /\ s.hash = (mac # NoMac \/ ip # NoIp)
    BY DEF NewSession
  <2>2. Hashed(rest) /\ rest = [j \in Slot |-> rest[j]]
    <3>1. Hashed(rest)
      BY HashedWithout
    <3> QED BY <3>1 DEF Without
  <2> HIDE DEF k, s, rest
  <2>3. Hashed(u)
    BY <2>1, <2>2 DEF Hashed, Live
  <2> QED BY <1>2, <2>3 DEF Started, u, k, s, rest
<1> QED BY <1>1, <1>2

LEMMA RefreshSweeps ==
  ASSUME NEW t, Hashed(t), NEW R, NEW q, NEW global, NEW natOn,
         Refresh(t, R, q, global, natOn), now' = now
  PROVE  Hashed(sessions') /\ Expired(sessions)' = {}
<1> DEFINE gone == R \cup Expired(t)
<1>1. sessions' = Without(t, gone)
  BY DEF Refresh
<1>2. Hashed(sessions')
  BY <1>1, HashedWithout
<1>3. \A i \in Slot : sessions'[i] = IF i \in gone THEN NoSession ELSE t[i]
  BY <1>1 DEF Without
<1>4. \A i \in Slot : sessions'[i].active => t[i].active /\ ~(EndTime(t[i]) <= now)
  BY <1>3 DEF NoSession, Expired, Live
<1>5. \A i \in Slot : sessions'[i].active => sessions'[i] = t[i]
  BY <1>3 DEF NoSession
<1> QED BY <1>2, <1>4, <1>5 DEF Expired, Live, EndTime

\* A step that leaves every session where it is, of whom it is, and admits
\* only stations whose session runs.
Rests ==
  /\ \A i \in Slot : /\ sessions'[i].active = sessions[i].active
                     /\ sessions'[i].mac = sessions[i].mac
                     /\ sessions'[i].hash = sessions[i].hash
  /\ \A k \in AclSlot :
       \/ acl'[k] = acl[k]
       \/ \E i \in Live(sessions) \ Expired(sessions)' :
             acl'[k].mac = sessions[i].mac

LEMMA StartSweeps ==
  ASSUME PortalInv, Hashed(sessions), NEW ip, NEW mac, NEW granted, NEW q,
         StartOrResume(ip, mac, granted, q), now' = now
  PROVE  Hashed(sessions') /\ Expired(sessions)' = {}
<1> DEFINE early == IF ip = NoIp THEN Expired(sessions) ELSE {}
           t == Without(sessions, early)
           next == Started(t, ip, mac, granted)
<1>1. PICK q2, global : Refresh(next, {}, q2, global, TRUE)
  BY DEF StartOrResume
<1>2. Hashed(t)
  BY HashedWithout
<1>3. t \in SessionTable
  <2>1. Proper(sessions, stations)
    BY QuotaTypes
  <2> QED BY <2>1, WithoutProper DEF Proper
<1>4. Hashed(next)
  BY <1>2, <1>3, StartedHashed
<1> QED BY <1>1, <1>4, RefreshSweeps

LEMMA RequestSweeps ==
  ASSUME PortalInv, OwnerInv, Hashed(sessions), NEW ip \in Callers,
         \/ ConfirmRefused(ip) \/ ConfirmGranted(ip)
         \/ ProbeExpired(ip) \/ ProbeByMac(ip)
  PROVE  (Hashed(sessions') /\ Expired(sessions)' = {}) \/ Rests
<1>1. now' = now
  BY DEF ConfirmRefused, ConfirmGranted, ProbeExpired, ProbeByMac
<1>2. CASE ConfirmRefused(ip)
  BY <1>2 DEF ConfirmRefused, Refused, Rests
<1>3. CASE ConfirmGranted(ip)
  <2>1. PICK mac, granted, q : StartOrResume(ip, mac, granted, q)
    BY <1>3 DEF ConfirmGranted
  <2> QED BY <1>1, <2>1, StartSweeps
<1>4. CASE ProbeExpired(ip)
  <2>1. PICK R : Revoke(R)
    BY <1>4 DEF ProbeExpired
  <2> QED BY <1>1, <2>1, RefreshSweeps DEF Revoke
<1>5. CASE ProbeByMac(ip)
  <2>1. PICK m \in LeaseHolder(ip) :
          LET i == FirstOf(ByMac(sessions, m))
          IN  /\ ByMac(sessions, m) # {}
              /\ \/ Revoke({i})
                 \/ /\ i \notin Expired(sessions)
                    /\ sessions' = [sessions EXCEPT ![i].ip = ip]
                    /\ acl' = AclAdmit(acl, ip, m)
    BY <1>5 DEF ProbeByMac
  <2> DEFINE i == FirstOf(ByMac(sessions, m))
  <2>2. CASE Revoke({i})
    BY <1>1, <2>2, RefreshSweeps DEF Revoke
  <2>3. i \in ByMac(sessions, m) /\ i \in Slot
    BY <2>1, SearchesAreSlots, FirstSlot
  <2>4. i \in Live(sessions) /\ sessions[i].mac = m
    BY <2>3 DEF ByMac
  <2>5. m \in Mac /\ ip \in Ip
    BY <2>1, CallersType, OwnerFacts DEF LeaseHolder, IpOrNone
  <2>6. CASE /\ i \notin Expired(sessions)
             /\ sessions' = [sessions EXCEPT ![i].ip = ip]
             /\ acl' = AclAdmit(acl, ip, m)
    <3> HIDE DEF i
    <3>1. sessions[i] \in Session /\ sessions \in SessionTable
      BY <2>3, OwnerFacts DEF SessionTable
    <3>2. /\ sessions'[i] = [sessions[i] EXCEPT !.ip = ip]
          /\ \A j \in Slot \ {i} : sessions'[j] = sessions[j]
      BY <2>3, <2>6, <3>1 DEF SessionTable
    <3>3. /\ sessions'[i].active = sessions[i].active
          /\ sessions'[i].mac = sessions[i].mac
          /\ sessions'[i].hash = sessions[i].hash
          /\ sessions'[i].start = sessions[i].start
          /\ sessions'[i].granted = sessions[i].granted
      BY <3>1, <3>2 DEF Session
    <3>4. i \notin Expired(sessions)'
      BY <1>1, <2>4, <2>6, <3>3 DEF Expired, EndTime
    <3>5. \A k \in AclSlot : acl'[k] = [ip |-> ip, mac |-> m] \/ acl'[k] = acl[k]
      BY <2>5, <2>6, AdmitEntries, OwnerFacts DEF Tidy
    <3>6. \A k \in AclSlot :
            \/ acl'[k] = acl[k]
            \/ \E j \in Live(sessions) \ Expired(sessions)' :
                  acl'[k].mac = sessions[j].mac
      BY <2>4, <3>4, <3>5
    <3>7. \A j \in Slot : /\ sessions'[j].active = sessions[j].active
                          /\ sessions'[j].mac = sessions[j].mac
                          /\ sessions'[j].hash = sessions[j].hash
      BY <3>2, <3>3
    <3> QED BY <3>6, <3>7 DEF Rests
  <2> QED BY <2>1, <2>2, <2>6
<1> QED BY <1>2, <1>3, <1>4, <1>5

\* A handler either sweeps or rests.
LEMMA SweepsOrRests ==
  ASSUME PortalInv, OwnerInv, Hashed(sessions), [Next]_vars
  PROVE  (Hashed(sessions') /\ Expired(sessions)' = {}) \/ Rests
<1>1. CASE Request
  BY <1>1, RequestSweeps DEF Request
<1>2. ASSUME NEW m \in Mac, ConnectToPortal(m) PROVE Rests
  BY <1>2 DEF ConnectToPortal, Refused, Rests
<1>3. ASSUME NEW m \in Mac, ConnectResumed(m)
      PROVE  Hashed(sessions') /\ Expired(sessions)' = {}
  <2>1. PICK granted, q : StartOrResume(NoIp, m, granted, q)
    BY <1>3 DEF ConnectResumed
  <2>2. now' = now
    BY <1>3 DEF ConnectResumed, Associated
  <2> QED BY <2>1, <2>2, StartSweeps
<1>4. ASSUME NEW m \in Mac, NEW ip \in Ip, IpAssigned(m, ip)
      PROVE  (Hashed(sessions') /\ Expired(sessions)' = {}) \/ Rests
  <2> DEFINE mine == ByMac(sessions, m) \ Expired(sessions)
             i == FirstOf(mine)
             t == [sessions EXCEPT ![i].ip = ip, ![i].admitted = TRUE]
  <2>1. /\ now' = now
        /\ IF mine = {} THEN UNCHANGED core
           ELSE Refresh(t, {}, quota, globalEnd, napt)
    BY <1>4 DEF IpAssigned
  <2>2. CASE mine = {}
    BY <2>1, <2>2 DEF core, Rests
  <2>3. CASE mine # {}
    <3>1. Hashed(t)
      <4> HIDE DEF i
      <4>1. \A j \in Slot : /\ t[j].active = sessions[j].active
                            /\ t[j].mac = sessions[j].mac
                            /\ t[j].hash = sessions[j].hash
        BY OwnerFacts DEF SessionTable, Session
      <4> HIDE DEF t
      <4> QED BY <4>1 DEF Hashed, Live
    <3> HIDE DEF t
    <3> QED BY <2>1, <2>3, <3>1, RefreshSweeps
  <2> QED BY <2>2, <2>3
<1>5. ASSUME NEW m \in Mac, NEW ip \in Ip, StaticAddress(m, ip) PROVE Rests
  BY <1>5 DEF StaticAddress, core, Rests
<1>6. ASSUME NEW m \in Mac, Disconnected(m)
      PROVE  (Hashed(sessions') /\ Expired(sessions)' = {}) \/ Rests
  <2>1. /\ now' = now
        /\ IF Ended(m) = {} THEN UNCHANGED core ELSE Revoke(Ended(m))
    BY <1>6 DEF Disconnected
  <2>2. CASE Ended(m) = {}
    BY <2>1, <2>2 DEF core, Rests
  <2>3. CASE Ended(m) # {}
    BY <2>1, <2>3, RefreshSweeps DEF Revoke
  <2> QED BY <2>2, <2>3
<1>7. ASSUME NEW i \in Slot, Heartbeat(i)
      PROVE  (Hashed(sessions') /\ Expired(sessions)' = {}) \/ Rests
  <2>1. /\ now' = now
        /\ \/ /\ sessions' = [sessions EXCEPT ![i].accounted = Accounted(sessions[i])]
              /\ acl' = acl
           \/ Revoke({i})
    BY <1>7 DEF Heartbeat
  <2>2. CASE Revoke({i})
    BY <2>1, <2>2, RefreshSweeps DEF Revoke
  <2>3. CASE /\ sessions' = [sessions EXCEPT ![i].accounted = Accounted(sessions[i])]
             /\ acl' = acl
    <3>1. \A j \in Slot : /\ sessions'[j].active = sessions[j].active
                          /\ sessions'[j].mac = sessions[j].mac
                          /\ sessions'[j].hash = sessions[j].hash
      BY <2>3, OwnerFacts DEF SessionTable, Session
    <3> QED BY <2>3, <3>1 DEF Rests
  <2> QED BY <2>1, <2>2, <2>3
<1>8. CASE Uplink \/ TimeSync \/ Tick \/ UNCHANGED vars
  BY <1>8 DEF Uplink, TimeSync, Tick, vars, core, Rests
<1> QED BY <1>1, <1>2, <1>3, <1>4, <1>5, <1>6, <1>7, <1>8 DEF Next, WifiEvent

CutInv == OwnerInv /\ Hashed(sessions)

LEMMA DivNotPositive ==
  ASSUME NEW a \in Int, a <= 0, NEW b \in Nat \ {0}
  PROVE  ~(a \div b > 0)
OBVIOUS

LEMMA CutInvKept ==
  ASSUME Present, PortalInv, CutInv, [Next]_vars
  PROVE  CutInv'
<1>1. OwnerInv'
  BY OwnerInvKept DEF CutInv
<1>2. CASE Rests
  <2>1. \A i \in Slot : /\ sessions'[i].active = sessions[i].active
                        /\ sessions'[i].mac = sessions[i].mac
                        /\ sessions'[i].hash = sessions[i].hash
    BY <1>2 DEF Rests
  <2>2. Hashed(sessions)'
    BY <2>1 DEF CutInv, Hashed, Live
  <2> QED BY <1>1, <2>2 DEF CutInv
<1>3. CASE Hashed(sessions')
  BY <1>1, <1>3 DEF CutInv, Hashed, Live
<1> QED BY <1>2, <1>3, SweepsOrRests DEF CutInv

LEMMA CutInvAlways ==
  ASSUME Present PROVE Spec => [](PortalInv /\ CutInv)
<1>1. Init => PortalInv /\ CutInv
  <2>1. Init => Hashed(sessions)
    BY DEF Init, Hashed, Live, NoSession
  <2> QED BY <2>1, InitiallyPortalInv, InitiallyOwnerInv DEF CutInv
<1>2. PortalInv /\ CutInv /\ [Next]_vars => (PortalInv /\ CutInv)'
  BY PortalInvKept, CutInvKept
<1> QED BY <1>1, <1>2, PTL DEF Spec

\* Whoever is overdue has an expired session of its own MAC.
OverdueHaveOwner ==
  \A k \in AclSlot : Overdue(k) => \E i \in Slot : LateOwner(k, i)

LEMMA OverdueHasOwner == OwnerInv => OverdueHaveOwner
<1> SUFFICES ASSUME OwnerInv, NEW k \in AclSlot, Overdue(k)
             PROVE  \E i \in Slot : LateOwner(k, i)
  BY DEF OverdueHaveOwner
<1>1. acl[k] # NoEntry /\ acl[k].ip # NoIp
  BY AclAssumption DEF OwnerInv, Tidy, Apart, AclTable, AclEntry, Overdue
<1>2. acl[k].mac \in Mac /\ acl[k].mac # NoMac
  BY <1>1, AclAssumption DEF OwnerInv, Tidy, Owned
<1>3. PICK i \in Live(sessions) : sessions[i].mac = acl[k].mac
  BY <1>1 DEF OwnerInv, Tidy, Owned, OwnerOf
<1>4. i \in Owners(k)
  BY <1>2, <1>3 DEF AclByMac, Owners
<1> QED BY <1>1, <1>3, <1>4, SearchesAreSlots DEF Overdue, LateOwner

LEMMA OverdueHasOwnerNext == OwnerInv' => OverdueHaveOwner'
BY OverdueHasOwner, PTL

\* A late owner stays until its entry is overdue no more.
LEMMA LateOwnerStays ==
  ASSUME Present, PortalInv, CutInv, [Next]_vars,
         NEW k \in AclSlot, NEW i \in Slot, LateOwner(k, i), Overdue(k)'
  PROVE  LateOwner(k, i)'
<1>1. PICK j \in Slot : LateOwner(k, j)'
  <2>1. OwnerInv'
    BY OwnerInvKept DEF CutInv
  <2> QED BY <2>1, OverdueHasOwnerNext DEF OverdueHaveOwner
<1>2. j \in Expired(sessions)' /\ sessions'[j].mac = acl'[k].mac /\ acl'[k] # NoEntry
  BY <1>1 DEF LateOwner
<1>3. Rests
  BY <1>2, SweepsOrRests DEF CutInv
<1>4. /\ sessions'[j].active = sessions[j].active
      /\ sessions'[j].mac = sessions[j].mac
      /\ j \in Live(sessions)
  BY <1>2, <1>3 DEF Rests, Expired, Live
<1>5. \A l \in Live(sessions) : sessions[l].mac = sessions[j].mac => l = j
  <2>1. sessions[j].mac # NoMac /\ MacsOnce(sessions)
    BY <1>4, AclAssumption, QuotaTypes DEF CutInv, OwnerInv, Tidy, Named
  <2> QED BY <1>4, <2>1 DEF MacsOnce
<1>6. acl'[k] = acl[k]
  BY <1>2, <1>3, <1>4, <1>5 DEF Rests
<1>7. i \in Live(sessions) /\ sessions[i].mac = sessions[j].mac
  BY <1>2, <1>4, <1>6 DEF LateOwner, Expired
<1> QED BY <1>1, <1>5, <1>7

\* The heartbeat of a late owner cuts it off.
LEMMA HeartbeatCutsOff ==
  ASSUME Present, PortalInv, CutInv,
         NEW k \in AclSlot, NEW i \in Slot, LateOwner(k, i), Heartbeat(i)
  PROVE  ~Overdue(k)'
<1>1. now' = now /\ now \in Nat /\ sessions[i] \in Session
  BY OwnerFacts DEF Heartbeat, CutInv, SessionTable
<1>2. ~((EndTime(sessions[i]) - now) \div TicksPerSec > 0)
  <2>1. EndTime(sessions[i]) <= now
    BY DEF LateOwner, Expired
  <2>2. EndTime(sessions[i]) \in Int
    BY <1>1, PortalAssumption DEF EndTime, Session
  <2>3. EndTime(sessions[i]) - now \in Int /\ EndTime(sessions[i]) - now <= 0
    BY <1>1, <2>1, <2>2
  <2> QED BY <2>3, PortalAssumption, DivNotPositive
<1>3. Revoke({i})
  BY <1>2 DEF Heartbeat
<1>4. Expired(sessions)' = {}
  BY <1>1, <1>3, RefreshSweeps DEF Revoke, CutInv
<1>5. OwnerInv'
  BY HeartbeatKeepsOwners DEF CutInv
<1>6. Overdue(k)' => \E j \in Slot : LateOwner(k, j)'
  BY <1>5, OverdueHasOwnerNext DEF OverdueHaveOwner
<1> QED BY <1>4, <1>6 DEF LateOwner

\* What a step of the heartbeat task needs: where weak fairness comes in.
HeartbeatReady ==
  \A i \in Slot :
    i \in Expired(sessions) /\ sessions[i].hash => ENABLED <<Heartbeat(i)>>_vars

LEMMA LateOwnersLeadOn ==
  ASSUME Present, NEW k \in AclSlot, NEW i \in Slot
  PROVE  FairSpec /\ []HeartbeatReady => [](LateOwner(k, i) => <>~Overdue(k))
<1>1. FairSpec => Spec /\ HeartbeatRuns(i)
  BY DEF FairSpec
<1>2. CutInv /\ LateOwner(k, i) /\ HeartbeatReady => ENABLED <<Heartbeat(i)>>_vars
  <2> SUFFICES ASSUME CutInv, LateOwner(k, i), HeartbeatReady
               PROVE  ENABLED <<Heartbeat(i)>>_vars
    OBVIOUS
  <2>1. sessions[i].hash
    BY AclAssumption
       DEF CutInv, OwnerInv, Tidy, Named, Hashed, LateOwner, Expired
  <2> QED BY <2>1 DEF HeartbeatReady, LateOwner
<1>3. PortalInv /\ CutInv /\ LateOwner(k, i) /\ [Next]_vars
        => LateOwner(k, i)' \/ ~Overdue(k)'
  BY LateOwnerStays
<1>4. PortalInv /\ CutInv /\ LateOwner(k, i) /\ <<Heartbeat(i)>>_vars
        => ~Overdue(k)'
  BY HeartbeatCutsOff
<1> QED BY <1>1, <1>2, <1>3, <1>4, CutInvAlways, PTL DEF Spec, HeartbeatRuns

(* Whoever is admitted beyond the end of the session is cut off by the     *)
(* heartbeat of the session, wherever it is in the table and whatever      *)
(* clients do in the meantime.  That the heartbeat can run is what the     *)
(* prover cannot see (HeartbeatReady).                                     *)
THEOREM HeartbeatCutsOverdue ==
  ASSUME Present PROVE FairSpec /\ []HeartbeatReady => OverdueIsCutOff
<1> SUFFICES ASSUME NEW k \in AclSlot
             PROVE  FairSpec /\ []HeartbeatReady => (Overdue(k) ~> ~Overdue(k))
  BY DEF OverdueIsCutOff
<1>1. FairSpec /\ []HeartbeatReady =>
        \A i \in Slot : [](LateOwner(k, i) => <>~Overdue(k))
  BY LateOwnersLeadOn
<1>2. (\A i \in Slot : [](LateOwner(k, i) => <>~Overdue(k)))
        => [](\A i \in Slot : LateOwner(k, i) => <>~Overdue(k))
  OBVIOUS
<1>3. (\A i \in Slot : LateOwner(k, i) => <>~Overdue(k))
        => ((\E i \in Slot : LateOwner(k, i)) => <>~Overdue(k))
  OBVIOUS
<1>4. CutInv => (Overdue(k) => \E i \in Slot : LateOwner(k, i))
  BY OverdueHasOwner DEF CutInv, OverdueHaveOwner
<1>5. FairSpec => Spec
  BY DEF FairSpec
<1> QED BY <1>1, <1>2, <1>3, <1>4, <1>5, CutInvAlways, PTL

-----------------------------------------------------------------------------
(* The schedule of the heartbeat (module PortalUsage).  A session may lose *)
(* what it used since the last heartbeat, when it is dropped without being *)
(* charged; what that can be is bounded by the period of the heartbeat.    *)

\* In u there are sessions of t, whose usage counts as before, and new ones.
Carried(u, t) ==
  \A i \in Live(u) :
    \/ i \in Live(t) /\ u[i].start = t[i].start /\ u[i].accounted = t[i].accounted
    \/ u[i].start = now /\ u[i].accounted = 0

LEMMA CarriedWithout ==
  ASSUME NEW u, NEW t, Carried(u, t), NEW R PROVE Carried(Without(u, R), t)
BY DEF Carried, Without, Live, NoSession

LEMMA CarriedRefresh ==
  ASSUME NEW u, NEW t, Carried(u, t), NEW R, NEW q, NEW global, NEW natOn,
         Refresh(u, R, q, global, natOn)
  PROVE  Carried(sessions', t)
BY CarriedWithout DEF Refresh

LEMMA CarriedStarted ==
  ASSUME NEW t \in SessionTable, NEW ip, NEW mac, NEW granted
  PROVE  Carried(Started(t, ip, mac, granted), t)
<1> DEFINE found == Found(t, ip, mac)
           rest == Without(t, found)
           i == FirstOf(found)
           k == NewSlot(rest, found, mac)
           s == NewSession(ip, mac, granted)
<1>1. CASE found \ Expired(t) # {}
  <2> DEFINE u == Rebound(t, i, ip, mac)
  <2> HIDE DEF i
  <2>1. \A j \in Slot : /\ u[j].active = t[j].active
                        /\ u[j].start = t[j].start
                        /\ u[j].accounted = t[j].accounted
    BY DEF Rebound, SessionTable, Session
  <2> HIDE DEF u
  <2>2. Carried(u, t)
    BY <2>1 DEF Carried, Live
  <2> QED BY <1>1, <2>2 DEF Started, u, i
<1>2. CASE found \ Expired(t) = {}
  <2> DEFINE u == [rest EXCEPT ![k] = s]
  <2>1. s.start = now /\ s.accounted = 0
    BY DEF NewSession
  <2>2. /\ rest = [j \in Slot |-> rest[j]]
        /\ \A j \in Slot : rest[j].active => t[j].active /\ rest[j] = t[j]
    BY DEF Without, NoSession
  <2> HIDE DEF k, s, rest
  <2>3. Carried(u, t)
    BY <2>1, <2>2 DEF Carried, Live
  <2> QED BY <1>2, <2>3 DEF Started, u, k, s, rest
<1> QED BY <1>1, <1>2

LEMMA StartCarries ==
  ASSUME PortalInv, NEW ip, NEW mac, NEW granted, NEW q,
         StartOrResume(ip, mac, granted, q)
  PROVE  Carried(sessions', sessions)
<1> DEFINE early == IF ip = NoIp THEN Expired(sessions) ELSE {}
           t == Without(sessions, early)
           next == Started(t, ip, mac, granted)
<1>1. PICK q2, global : Refresh(next, {}, q2, global, TRUE)
  BY DEF StartOrResume
<1>2. t \in SessionTable
  <2>1. Proper(sessions, stations)
    BY QuotaTypes
  <2> QED BY <2>1, WithoutProper DEF Proper
<1>3. Carried(next, t)
  BY <1>2, CarriedStarted
<1>4. \A j \in Live(t) : j \in Live(sessions) /\ t[j] = sessions[j]
  BY DEF Without, Live, NoSession
<1> HIDE DEF next, t
<1>5. Carried(next, sessions)
  BY <1>3, <1>4 DEF Carried
<1> QED BY <1>1, <1>5, CarriedRefresh

\* What a handler does to the sessions.
LEMMA HandlersCarry ==
  ASSUME PortalInv, Request \/ WifiEvent \/ Uplink \/ TimeSync
  PROVE  now' = now /\ Carried(sessions', sessions)
<1>1. sessions \in SessionTable /\ Carried(sessions, sessions)
  BY QuotaTypes DEF Carried
<1>2. ASSUME NEW R, Revoke(R) PROVE Carried(sessions', sessions)
  BY <1>1, <1>2, CarriedRefresh DEF Revoke
<1>3. ASSUME NEW i, NEW ip, sessions' = [sessions EXCEPT ![i].ip = ip]
      PROVE  Carried(sessions', sessions)
  BY <1>1, <1>3 DEF Carried, Live, SessionTable, Session
<1>4. CASE Request
  <2>1. PICK ip \in Callers : \/ ConfirmRefused(ip) \/ ConfirmGranted(ip)
                              \/ ProbeExpired(ip) \/ ProbeByMac(ip)
    BY <1>4 DEF Request
  <2>2. CASE ConfirmRefused(ip)
    BY <1>1, <2>2 DEF ConfirmRefused, Refused
  <2>3. CASE ConfirmGranted(ip)
    <3>1. PICK mac, granted, q : StartOrResume(ip, mac, granted, q)
      BY <2>3 DEF ConfirmGranted
    <3> QED BY <2>3, <3>1, StartCarries DEF ConfirmGranted
  <2>4. CASE ProbeExpired(ip)
    BY <1>2, <2>4 DEF ProbeExpired
  <2>5. CASE ProbeByMac(ip)
    BY <1>2, <1>3, <2>5 DEF ProbeByMac
  <2> QED BY <2>1, <2>2, <2>3, <2>4, <2>5
<1>5. ASSUME NEW m \in Mac, ConnectToPortal(m)
      PROVE  now' = now /\ Carried(sessions', sessions)
  BY <1>1, <1>5 DEF ConnectToPortal, Associated, Refused
<1>6. ASSUME NEW m \in Mac, ConnectResumed(m)
      PROVE  now' = now /\ Carried(sessions', sessions)
  <2>1. PICK granted, q : StartOrResume(NoIp, m, granted, q)
    BY <1>6 DEF ConnectResumed
  <2> QED BY <1>6, <2>1, StartCarries DEF ConnectResumed, Associated
<1>7. ASSUME NEW m \in Mac, NEW ip \in Ip, IpAssigned(m, ip)
      PROVE  now' = now /\ Carried(sessions', sessions)
  <2> DEFINE mine == ByMac(sessions, m) \ Expired(sessions)
             i == FirstOf(mine)
             t == [sessions EXCEPT ![i].ip = ip, ![i].admitted = TRUE]
  <2>1. /\ now' = now
        /\ IF mine = {} THEN UNCHANGED core
           ELSE Refresh(t, {}, quota, globalEnd, napt)
    BY <1>7 DEF IpAssigned
  <2> HIDE DEF i
  <2>2. Carried(t, sessions)
    BY <1>1 DEF Carried, Live, SessionTable, Session
  <2> HIDE DEF t
  <2> QED BY <1>1, <2>1, <2>2, CarriedRefresh DEF core
<1>8. ASSUME NEW m \in Mac, NEW ip \in Ip, StaticAddress(m, ip)
      PROVE  now' = now /\ Carried(sessions', sessions)
  BY <1>1, <1>8 DEF StaticAddress, core
<1>9. ASSUME NEW m \in Mac, Disconnected(m)
      PROVE  now' = now /\ Carried(sessions', sessions)
  BY <1>1, <1>2, <1>9 DEF Disconnected, core
<1>10. CASE Uplink \/ TimeSync
  BY <1>1, <1>10 DEF Uplink, TimeSync, core
<1> QED BY <1>4, <1>5, <1>6, <1>7, <1>8, <1>9, <1>10 DEF WifiEvent

(* The schedule adds nothing to what Portal can do: a round is heartbeats. *)
LEMMA VisitSlot ==
  ASSUME toVisit \in SUBSET Slot, toVisit # {}
  PROVE  FirstOf(toVisit) \in toVisit
BY FirstSlot

LEMMA UsageSteps ==
  ASSUME toVisit \in SUBSET Slot, [UsageNext]_usageVars
  PROVE  [Next]_vars /\ toVisit' \in SUBSET Slot
<1>1. CASE WakeUp
  BY <1>1 DEF WakeUp
<1>2. CASE Visit
  <2>1. FirstOf(toVisit) \in Slot
    BY <1>2, VisitSlot DEF Visit
  <2> QED BY <1>2, <2>1 DEF Visit, Next
<1>3. CASE Pass
  BY <1>3 DEF Pass, Next
<1>4. CASE Other
  BY <1>4 DEF Other, Next
<1>5. CASE UNCHANGED usageVars
  BY <1>5 DEF usageVars
<1> QED BY <1>1, <1>2, <1>3, <1>4, <1>5 DEF UsageNext

(* The session manager run on the schedule of its heartbeat task is one of *)
(* Portal's behaviours: what is proved of Portal holds of it.              *)
THEOREM UsageImplementsPortal == UsageSpec => Spec
<1>1. UsageInit => Init /\ toVisit \in SUBSET Slot
  BY DEF UsageInit
<1>2. toVisit \in SUBSET Slot /\ [UsageNext]_usageVars
        => [Next]_vars /\ (toVisit \in SUBSET Slot)'
  BY UsageSteps
<1> QED BY <1>1, <1>2, PTL DEF UsageSpec, Spec

Period == HeartbeatSec * TicksPerSec

\* Session s has been charged up to time t, short of its last full second.
ChargedTo(s, t) == t < s.start + (s.accounted + 1) * TicksPerSec

\* Who has been visited in this round is charged up to it, the others up to
\* the round before.
BeatInv ==
  /\ toVisit \in SUBSET Slot
  /\ beatAt \in Int
  /\ beatAt - Period <= now /\ now <= beatAt
  /\ toVisit # {} => now = beatAt - Period
  /\ \A i \in Live(sessions) :
        ChargedTo(sessions[i],
                  IF i \in toVisit THEN beatAt - 2 * Period ELSE beatAt - Period)

LEMMA PeriodIsNat == HeartbeatSec \in Nat => Period \in Nat
BY PortalAssumption DEF Period

\* A longer charge covers what a shorter one did.
LEMMA ChargedEarlier ==
  ASSUME NEW s \in Session, NEW t \in Int, NEW u \in Int, u <= t, ChargedTo(s, t)
  PROVE  ChargedTo(s, u)
<1> DEFINE e == s.start + (s.accounted + 1) * TicksPerSec
<1>1. e \in Int
  BY PortalAssumption DEF Session
<1>2. t < e
  BY DEF ChargedTo
<1> HIDE DEF e
<1>3. u < e
  BY <1>1, <1>2
<1> QED BY <1>3 DEF ChargedTo, e

LEMMA NewIsCharged ==
  ASSUME NEW s \in Session, NEW t \in Int, NEW n \in Int, t <= n,
         s.start = n, s.accounted = 0
  PROVE  ChargedTo(s, t)
BY PortalAssumption DEF ChargedTo

LEMMA BelowQuotient ==
  ASSUME NEW n \in Int, NEW d \in Nat \ {0}
  PROVE  n < (n \div d + 1) * d
OBVIOUS

LEMMA QuotientBelow ==
  ASSUME NEW n \in Int, NEW q \in Int, NEW d \in Nat \ {0}, n < q * d
  PROVE  n \div d < q
OBVIOUS

\* A heartbeat charges its session up to now, or drops it.
LEMMA HeartbeatCharges ==
  ASSUME PortalInv, CutInv, NEW i \in Slot, Heartbeat(i)
  PROVE  \A j \in Live(sessions') :
           /\ j \in Live(sessions)
           /\ j # i => sessions'[j] = sessions[j]
           /\ j = i => ChargedTo(sessions'[i], now)
<1> DEFINE s == sessions[i]
           left == EndTime(s) - now
<1>1. /\ sessions \in SessionTable /\ s \in Session /\ now \in Nat
      /\ s.start \in Nat /\ s.granted \in Nat /\ s.accounted \in Nat
  BY OwnerFacts DEF CutInv, SessionTable, Session
<1>2. CASE Revoke({i})
  <2>1. PICK R, q, g, n : Refresh(sessions, {i} \cup R, q, g, n)
    BY <1>2 DEF Revoke
  <2>2. \A j \in Slot : sessions'[j] = IF j \in {i} \cup R \cup Expired(sessions)
                                         THEN NoSession ELSE sessions[j]
    BY <2>1 DEF Refresh, Without
  <2>3. \A j \in Live(sessions') : j # i /\ sessions'[j] = sessions[j]
    BY <2>2 DEF Live, NoSession
  <2> QED BY <2>3 DEF Live
<1>3. CASE left \div TicksPerSec > 0
  <2>1. /\ sessions'[i] = [s EXCEPT !.accounted = Accounted(s)]
        /\ \A j \in Slot \ {i} : sessions'[j] = sessions[j]
        /\ i \in Live(sessions)
    BY <1>1, <1>3 DEF Heartbeat, SessionTable, Live
  <2>2. left \in Int /\ left = s.start + s.granted * TicksPerSec - now
    BY <1>1, PortalAssumption DEF EndTime
  <2> DEFINE e == (now - s.start) \div TicksPerSec
  <2>3. e \in Int /\ now - s.start < (e + 1) * TicksPerSec
    <3>1. now - s.start \in Int /\ TicksPerSec \in Nat \ {0}
      BY <1>1, PortalAssumption
    <3>2. now - s.start < (((now - s.start) \div TicksPerSec) + 1) * TicksPerSec
      BY <3>1, BelowQuotient, Zenon
    <3> QED BY <3>1, <3>2
  <2>4. e < s.granted
    <3>1. left > 0
      BY <1>3, <2>2, PortalAssumption, DivNotPositive
    <3>2. now - s.start \in Int /\ now - s.start < s.granted * TicksPerSec
      <4> DEFINE g == s.granted * TicksPerSec
      <4>1. g \in Int
        BY <1>1, PortalAssumption
      <4>2. left = s.start + g - now
        BY <2>2
      <4> HIDE DEF g, left
      <4>3. now - s.start < g
        BY <1>1, <2>2, <3>1, <4>1, <4>2
      <4>4. now - s.start \in Int
        BY <1>1
      <4> QED BY <4>3, <4>4 DEF g
    <3>3. TicksPerSec \in Nat \ {0} /\ s.granted \in Int
      BY <1>1, PortalAssumption
    <3> QED BY <3>2, <3>3, QuotientBelow, Zenon
  <2>5. Elapsed(s) = e
    <3> HIDE DEF e
    <3>1. Elapsed(s) = Lesser(e, s.granted)
      BY DEF Elapsed, e
    <3> QED BY <1>1, <2>3, <2>4, <3>1 DEF Lesser
  <2>6. s.mac # NoMac
    BY <2>1, AclAssumption DEF CutInv, OwnerInv, Tidy, Named
  <2>7. Accounted(s) \in Nat /\ e <= Accounted(s)
    <3> HIDE DEF e, s
    <3> QED BY <1>1, <2>3, <2>5, <2>6, AccountedType DEF Accounted
  <2>8. now < s.start + (Accounted(s) + 1) * TicksPerSec
    <3> DEFINE a == Accounted(s)
    <3> HIDE DEF e, a, s
    <3>1. (e + 1) * TicksPerSec <= (a + 1) * TicksPerSec
      BY <2>3, <2>7, PortalAssumption DEF a
    <3>2. (e + 1) * TicksPerSec \in Int /\ (a + 1) * TicksPerSec \in Int
      BY <2>3, <2>7, PortalAssumption DEF a
    <3> QED BY <1>1, <2>3, <3>1, <3>2 DEF a
  <2>9. ChargedTo(sessions'[i], now)
    BY <1>1, <2>1, <2>8 DEF ChargedTo, Session
  <2> QED BY <2>1, <2>9 DEF Live
<1> QED BY <1>2, <1>3 DEF Heartbeat

\* Up to which time slot i is charged at least.
Since(i) == IF i \in toVisit THEN beatAt - 2 * Period ELSE beatAt - Period

LEMMA VisitKeepsBeat ==
  ASSUME PortalInv, CutInv, Period \in Nat, BeatInv, Visit,
         sessions' \in SessionTable
  PROVE  BeatInv'
<1> DEFINE i == FirstOf(toVisit)
<1>1. i \in toVisit /\ i \in Slot
  BY VisitSlot DEF BeatInv, Visit
<1>2. toVisit' = toVisit \ {i} /\ beatAt' = beatAt /\ now = beatAt - Period
  BY DEF Visit, BeatInv
<1>3. /\ now' = now
      /\ \A j \in Live(sessions') :
           /\ j \in Live(sessions)
           /\ j # i => sessions'[j] = sessions[j]
           /\ j = i => ChargedTo(sessions'[i], now)
  <2>1. CASE Heartbeat(i)
    BY <1>1, <2>1, HeartbeatCharges DEF Heartbeat
  <2>2. CASE /\ i \notin Live(sessions) \/ ~sessions[i].hash
             /\ UNCHANGED vars
    <3>1. i \notin Live(sessions)
      BY <2>2, AclAssumption DEF CutInv, OwnerInv, Tidy, Named, Hashed
    <3> QED BY <2>2, <3>1 DEF vars, core
  <2> QED BY <2>1, <2>2 DEF Visit
<1> HIDE DEF i
<1>4. ASSUME NEW j \in Live(sessions')
      PROVE  ChargedTo(sessions'[j],
               IF j \in toVisit' THEN beatAt' - 2 * Period ELSE beatAt' - Period)
  <2>1. CASE j = i
    BY <1>1, <1>2, <1>3, <1>4, <2>1
  <2>2. CASE j # i
    BY <1>2, <1>3, <1>4, <2>2 DEF BeatInv
  <2> QED BY <2>1, <2>2
<1> QED BY <1>2, <1>3, <1>4 DEF BeatInv, Live, ChargedTo, Period

LEMMA UsageKeepsBeat ==
  ASSUME PortalInv, CutInv, PortalInv', Period \in Nat, BeatInv, [UsageNext]_usageVars
  PROVE  BeatInv'
<1>1. /\ now \in Nat /\ sessions \in SessionTable
      /\ sessions' \in SessionTable
      /\ \A i \in Live(sessions) : sessions[i] \in Session
      /\ \A i \in Live(sessions)' : sessions'[i] \in Session
  <2>1. sessions \in SessionTable /\ now \in Nat
    BY QuotaTypes
  <2>2. PortalInv' => (sessions \in SessionTable)'
    BY QuotaTypes, PTL
  <2> QED BY <2>1, <2>2 DEF SessionTable, Live
<1>2. CASE WakeUp
  <2>1. /\ UNCHANGED <<now, sessions>> /\ toVisit' = Slot
        /\ now = beatAt /\ toVisit = {} /\ beatAt' = beatAt + Period
    BY <1>2 DEF WakeUp, vars, core, Period
  <2>2. \A i \in Live(sessions) :
          i \in Slot /\ ChargedTo(sessions[i], beatAt - Period)
    BY <2>1 DEF BeatInv, Live
  <2>3. /\ beatAt' \in Int /\ beatAt' - Period = beatAt
        /\ beatAt' - 2 * Period = beatAt - Period /\ beatAt <= beatAt'
    BY <2>1 DEF BeatInv
  <2> QED BY <1>1, <2>1, <2>2, <2>3 DEF BeatInv, Live, ChargedTo, Period
<1>3. CASE Visit
  BY <1>1, <1>3, VisitKeepsBeat
<1>4. CASE Pass
  <2>1. /\ now' = now + 1 /\ now < beatAt /\ toVisit = {}
        /\ UNCHANGED <<sessions, toVisit, beatAt>>
    BY <1>4 DEF Pass, Tick, core
  <2> QED BY <1>1, <2>1 DEF BeatInv, Live, ChargedTo, Period
<1>5. CASE Other
  <2>1. UNCHANGED <<beatAt, toVisit>> /\ now' = now /\ Carried(sessions', sessions)
    BY <1>5, HandlersCarry DEF Other
  <2>2. ASSUME NEW i \in Live(sessions') PROVE ChargedTo(sessions'[i], Since(i))
    <3>1. CASE /\ i \in Live(sessions)
               /\ sessions'[i].start = sessions[i].start
               /\ sessions'[i].accounted = sessions[i].accounted
      BY <3>1 DEF BeatInv, ChargedTo, Since
    <3>2. CASE sessions'[i].start = now /\ sessions'[i].accounted = 0
      <4>1. Since(i) \in Int /\ Since(i) <= now
        BY <1>1 DEF Since, BeatInv
      <4> QED BY <1>1, <2>2, <3>2, <4>1, NewIsCharged DEF Live
    <3> QED BY <2>1, <2>2, <3>1, <3>2 DEF Carried
  <2> QED BY <2>1, <2>2 DEF BeatInv, Live, ChargedTo, Period, Since
<1>6. CASE UNCHANGED usageVars
  BY <1>6 DEF usageVars, vars, core, BeatInv, Live, ChargedTo, Period
<1> QED BY <1>2, <1>3, <1>4, <1>5, <1>6 DEF UsageNext

\* What a session has used and was not charged for.
UnchargedIsShort ==
  \A i \in Live(sessions) :
    Elapsed(sessions[i]) - sessions[i].accounted <= HeartbeatSec

LEMMA BeatBoundsUncharged ==
  ASSUME HeartbeatSec \in Nat, PortalInv, BeatInv
  PROVE  UnchargedIsShort
<1> SUFFICES ASSUME NEW i \in Live(sessions)
             PROVE  Elapsed(sessions[i]) - sessions[i].accounted <= HeartbeatSec
  BY DEF UnchargedIsShort
<1> DEFINE s == sessions[i]
           n == now - s.start
           q == s.accounted + 1 + HeartbeatSec
<1>1. /\ s \in Session /\ s.start \in Nat /\ s.accounted \in Nat
      /\ s.granted \in Nat /\ now \in Nat
  BY QuotaTypes DEF SessionTable, Session, Live
<1>2. Period \in Nat /\ TicksPerSec \in Nat \ {0}
  BY PeriodIsNat, PortalAssumption
<1>3. ChargedTo(s, now - Period)
  <2>1. Since(i) \in Int /\ now - Period <= Since(i) /\ now - Period \in Int
    BY <1>1, <1>2 DEF Since, BeatInv
  <2>2. ChargedTo(s, Since(i))
    BY DEF BeatInv, Since
  <2> QED BY <1>1, <2>1, <2>2, ChargedEarlier
<1>4. n < q * TicksPerSec
  <2> DEFINE a == (s.accounted + 1) * TicksPerSec
  <2>1. a \in Int /\ q * TicksPerSec = a + Period
    BY <1>1, <1>2 DEF Period
  <2>2. now - Period < s.start + a
    BY <1>3 DEF ChargedTo
  <2> HIDE DEF a, q, s
  <2> QED BY <1>1, <1>2, <2>1, <2>2
<1>5. n \div TicksPerSec \in Int /\ n \div TicksPerSec < q
  <2>1. n \in Int /\ q \in Int
    BY <1>1
  <2> HIDE DEF n, q
  <2> QED BY <1>2, <1>4, <2>1, QuotientBelow
<1>6. Elapsed(s) \in Int /\ Elapsed(s) <= n \div TicksPerSec
  <2>1. Elapsed(s) = Lesser(n \div TicksPerSec, s.granted)
    BY DEF Elapsed
  <2> HIDE DEF n, s
  <2> QED BY <1>1, <1>5, <2>1 DEF Lesser
<1> HIDE DEF n
<1> QED BY <1>1, <1>5, <1>6

(* The heartbeat bounds what escapes the quota: however clients behave, a  *)
(* session has never used more than one period of the heartbeat beyond     *)
(* what was charged, so that is what dropping it can lose.                 *)
THEOREM UnchargedIsBounded ==
  ASSUME Present, HeartbeatSec \in Nat
  PROVE  UsageSpec => []UnchargedIsShort
<1>1. Period \in Nat
  BY PeriodIsNat
<1>2. UsageInit => BeatInv
  BY <1>1 DEF UsageInit, Init, BeatInv, Live, NoSession, Period
<1>3. (PortalInv /\ CutInv /\ BeatInv) /\ PortalInv' /\ [UsageNext]_usageVars => BeatInv'
  BY <1>1, UsageKeepsBeat
<1>4. PortalInv /\ BeatInv => UnchargedIsShort
  BY BeatBoundsUncharged
<1> QED BY <1>2, <1>3, <1>4, UsageImplementsPortal, CutInvAlways, PTL DEF UsageSpec

=============================================================================
