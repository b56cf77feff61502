------------------------------- MODULE Portal -------------------------------
(***************************************************************************)
(* The session manager of main/http_server.c: the table of client sessions *)
(* with the daily quota, the admission list (module ClientAcl) and the     *)
(* NAPT switch it drives, and the Wi-Fi event handlers of                  *)
(* main/esp32_nat_router.c that call it.                                   *)
(*                                                                         *)
(* One action per handler, from its first to its last state change.  The   *)
(* handlers run in four tasks without a lock; this module is about what    *)
(* they do to the shared tables when they do not overlap.  Telemetry to    *)
(* Supabase is left out: nothing of it is ever read back here.             *)
(***************************************************************************)
EXTENDS Integers, FiniteSets, ClientAcl

CONSTANTS MaxClients,   \* MAX_CLIENTS: session slots
          QuotaSec,     \* DAILY_QUOTA_SEC, also SESSION_DURATION_SEC
          DaySec,       \* seconds of a UTC day
          TicksPerSec,  \* resolution of esp_timer_get_time
          WallOffsets,  \* seconds into a day at which the router may boot
          Clients,      \* what clients may do, see below
          MaxTime       \* bound on the clock, in ticks

(***************************************************************************)
(* Clients always associate, take a lease and renew it, send requests and  *)
(* leave.  The set Clients adds to that:                                   *)
(*   "renumber" a station takes another lease while it stays associated;   *)
(*   "late"     a request is handled after its sender left;                *)
(*   "no_peer"  get_client_ip cannot tell the address (pure IPv6 peer);    *)
(*   "static"   a station uses an address it did not lease.                *)
(***************************************************************************)

ASSUME PortalAssumption ==
  /\ MaxClients \in Nat \ {0}
  /\ QuotaSec \in Nat \ {0}
  /\ DaySec \in Nat \ {0}
  /\ TicksPerSec \in Nat \ {0}
  /\ WallOffsets \subseteq Nat
  /\ Clients \subseteq {"renumber", "late", "no_peer", "static"}
  /\ MaxTime \in Nat
  /\ IsFiniteSet(Mac) /\ Cardinality(Mac) <= MaxClients
         \* the quota table then holds a record for every device

VARIABLES
  now,           \* esp_timer_get_time, in ticks since the server started
  clockSet,      \* has_valid_system_time
  wallOffset,    \* wall clock at boot, known to the code once clockSet
  apConnect,     \* ap_connect: the uplink has an address
  stations,      \* esp_wifi_ap_get_sta_list: the stations associated now
  addr,          \* the address each station uses, or used last
  leased,        \* stations that have it from the router's DHCP server
  lastMac,       \* last_ap_client_mac, NoMac when not valid
  connectCount,  \* connect_count, uint16_t
  sessions,      \* sessions[]
  quota,         \* s_quota_records, as a function of the MAC
  globalEnd,     \* s_global_session_end_time
  authenticated, \* portal_authenticated
  napt           \* s_napt_enabled

env   == <<clockSet, wallOffset, apConnect, stations, addr, leased, lastMac,
           connectCount>>
core  == <<sessions, quota, acl, globalEnd, authenticated, napt>>
vars  == <<now, clockSet, wallOffset, apConnect, stations, addr, leased,
           lastMac, connectCount, sessions, quota, acl, globalEnd,
           authenticated, napt>>

Slot == 0 .. (MaxClients - 1)
MacOrNone == Mac \cup {NoMac}
IpOrNone == Ip \cup {NoIp}

(***************************************************************************)
(* A slot that is not active is never read before it is written again, so  *)
(* it is kept as NoSession.  end_time is always start_time plus the grant. *)
(***************************************************************************)
Session == [active : BOOLEAN, admitted : BOOLEAN, ip : IpOrNone,
            mac : MacOrNone, hash : BOOLEAN, start : Nat,
            granted : Nat, accounted : Nat, day : Nat]

NoSession == [active |-> FALSE, admitted |-> FALSE, ip |-> NoIp,
              mac |-> NoMac, hash |-> FALSE, start |-> 0,
              granted |-> 0, accounted |-> 0, day |-> 0]

QuotaRecord == [day : Nat, used : 0 .. QuotaSec]

SessionTable == [Slot -> Session]
QuotaTable == [Mac -> QuotaRecord]
AddrTable == [Mac -> IpOrNone]
Wrap == 65536
UInt16 == 0 .. (Wrap - 1)

(* Every variable keeps its type.                                          *)
TypeOK ==
  /\ now \in Nat
  /\ clockSet \in BOOLEAN
  /\ wallOffset \in Nat
  /\ apConnect \in BOOLEAN
  /\ stations \subseteq Mac
  /\ addr \in AddrTable
  /\ leased \subseteq Mac
  /\ lastMac \in MacOrNone
  /\ connectCount \in UInt16
  /\ sessions \in SessionTable
  /\ quota \in QuotaTable
  /\ AclTypeOK
  /\ globalEnd \in Nat
  /\ authenticated \in BOOLEAN
  /\ napt \in BOOLEAN

Lesser(a, b) == IF a < b THEN a ELSE b

-----------------------------------------------------------------------------
(* Time and days.                                                          *)

EndTime(s) == s.start + s.granted * TicksPerSec

WallSec == wallOffset + now \div TicksPerSec

\* get_current_day_id: 1 until the clock is set, then days counted from 2
\* (from about 20000 in the code).
Today == IF clockSet THEN 2 + WallSec \div DaySec ELSE 1

\* get_seconds_until_next_day
UntilNextDay == IF clockSet THEN DaySec - (WallSec % DaySec) ELSE QuotaSec

-----------------------------------------------------------------------------
(* The daily quota.                                                        *)

\* Mutation: a record is renewed even when it is of the same day.
QuotaOn_Fresh(record, day) == [day |-> day, used |-> 0]

\* find_or_alloc_quota_record: a record of another day starts afresh.
QuotaOn(record, day) ==
  IF record.day = day THEN record ELSE [day |-> day, used |-> 0]

\* get_quota_remaining_for_mac, which renews the record it reads.
QuotaRead(mac) ==
  [m \in Mac |-> IF m = mac THEN QuotaOn(quota[m], Today) ELSE quota[m]]

QuotaRemaining(q, mac) ==
  IF mac = NoMac THEN QuotaSec ELSE QuotaSec - q[mac].used

\* What checkpoint_session_usage charges: the whole seconds since the start
\* that are not accounted for yet, never beyond the grant.
Elapsed(s) == Lesser((now - s.start) \div TicksPerSec, s.granted)

\* Mutation: the checkpoint charges the record but not the session.
Accounted_Kept(s) == s.accounted

Accounted(s) ==
  IF s.mac # NoMac /\ Elapsed(s) > s.accounted THEN Elapsed(s) ELSE s.accounted

\* Mutation: every checkpoint charges all the time since the start.
Charge_Cumulative(record, s) ==
  [day |-> s.day, used |-> QuotaOn(record, s.day).used + Elapsed(s)]

Charge(record, s) ==
  IF Elapsed(s) <= s.accounted THEN record
  ELSE [day  |-> s.day,
        used |-> Lesser(QuotaOn(record, s.day).used
                          + (Elapsed(s) - s.accounted), QuotaSec)]

\* The checkpoint of every session of the table t in the slots R (no two of
\* them have the same MAC: OneSessionPerMac).
Charged(q, t, R) ==
  [m \in Mac |->
     IF \E i \in R : t[i].mac = m
       THEN Charge(q[m], t[CHOOSE i \in R : t[i].mac = m])
       ELSE q[m]]

-----------------------------------------------------------------------------
(* Lookups in a session table t.  The loops stop at the first match: each  *)
(* use takes FirstOf of one of these sets.                                 *)

Live(t)       == {i \in Slot : t[i].active}
ByIp(t, ip)   == {i \in Live(t) : t[i].ip = ip}
ByMac(t, mac) == {i \in Live(t) : mac # NoMac /\ t[i].mac = mac}
FreeSlot(t)   == Slot \ Live(t)
Expired(t)    == {i \in Live(t) : EndTime(t[i]) <= now}

Without(t, R) == [i \in Slot |-> IF i \in R THEN NoSession ELSE t[i]]

\* client_acl_revoke_by_ip and _by_mac for every session of t in R.
Cut(a, t, R) ==
  [k \in AclSlot |->
     IF \E i \in R : k \in AclByIp(a, t[i].ip) \cup AclByMac(a, t[i].mac)
       THEN NoEntry ELSE a[k]]

\* has_active_access
Access(t, global) ==
  \/ global > now
  \/ \E i \in Live(t) : t[i].admitted /\ EndTime(t[i]) > now

(***************************************************************************)
(* refresh_portal_auth_state on the tables t and q, after the sessions in  *)
(* R have been taken out of t by revoke_session, which checkpoints them    *)
(* the same way: the expired sessions go too, portal_authenticated is      *)
(* computed anew, and NAPT is switched off when nobody has access (the     *)
(* driver call may fail; natOn is the switch before).  The caller gives    *)
(* acl' (Cut), because some handlers admit a client afterwards.            *)
(***************************************************************************)
Refresh(t, R, q, global, natOn) ==
  LET gone == R \cup Expired(t)
      kept == Without(t, gone)
      left == IF global <= now THEN 0 ELSE global
  IN  /\ sessions' = kept
      /\ quota' = Charged(q, t, gone)
      /\ globalEnd' = left
      /\ authenticated' = Access(kept, left)
      /\ napt' \in IF Access(kept, left) THEN {natOn} ELSE {natOn, FALSE}

\* Mutation: the refresh drops expired sessions but leaves them admitted.
Revoke_NotExpired(R) ==
  /\ Refresh(sessions, R, quota, globalEnd, napt)
  /\ acl' = Cut(acl, sessions, R)

\* revoke_session for every slot of R.
Revoke(R) ==
  /\ Refresh(sessions, R, quota, globalEnd, napt)
  /\ acl' = Cut(acl, sessions, R \cup Expired(sessions))

(***************************************************************************)
(* start_or_resume_session.  Tokens are random and never match, so the     *)
(* searches by token are left out.                                         *)
(***************************************************************************)
NewSession(ip, mac, granted) ==
  [active |-> TRUE, admitted |-> TRUE, ip |-> ip, mac |-> mac,
   hash |-> mac # NoMac \/ ip # NoIp, start |-> now, granted |-> granted,
   accounted |-> 0, day |-> Today]

\* The running session i keeps its time and is bound to the caller.
Rebound(t, i, ip, mac) ==
  [t EXCEPT ![i].ip = ip,
            ![i].admitted = TRUE,
            ![i].mac = IF mac = NoMac THEN @ ELSE mac,
            ![i].hash = @ \/ mac # NoMac \/ ip # NoIp]

\* Mutation NewSlot_NoMacSearch: the second search by MAC is forgotten.
\* Where a new session goes, once the expired one that was found (if any) is
\* marked inactive in t: over a session of the same MAC, in the slot found,
\* in the first free slot, or over slot 0.
NewSlot_NoMacSearch(t, found, mac) ==
  IF mac = NoMac /\ found # {} THEN FirstOf(found)
  ELSE IF FreeSlot(t) # {} THEN FirstOf(FreeSlot(t))
  ELSE 0

NewSlot(t, found, mac) ==
  IF ByMac(t, mac) # {} THEN FirstOf(ByMac(t, mac))
  ELSE IF mac = NoMac /\ found # {} THEN FirstOf(found)
  ELSE IF FreeSlot(t) # {} THEN FirstOf(FreeSlot(t))
  ELSE 0

Found(t, ip, mac) ==
  IF ip = NoIp THEN {}
  ELSE IF ByMac(t, mac) # {} THEN {FirstOf(ByMac(t, mac))}
  ELSE IF ByIp(t, ip) # {} THEN {FirstOf(ByIp(t, ip))}
  ELSE {}

\* Mutation: a running session is never looked for.
Started_AlwaysNew(t, ip, mac, granted) ==
  [t EXCEPT ![IF FreeSlot(t) = {} THEN 0 ELSE FirstOf(FreeSlot(t))] =
     NewSession(ip, mac, granted)]

\* The table once the session is started or resumed.
Started(t, ip, mac, granted) ==
  LET found == Found(t, ip, mac)
      rest == Without(t, found)
  IN  IF found \ Expired(t) # {}
        THEN Rebound(t, FirstOf(found), ip, mac)
        ELSE [rest EXCEPT ![NewSlot(rest, found, mac)] =
                NewSession(ip, mac, granted)]

\* Mutation: the handler relies on NAPT being on since the last session.
StartOrResume_NaptAssumed(ip, mac, granted, q) ==
  LET next == Started(sessions, ip, mac, granted)
  IN  /\ Refresh(next, {}, q, globalEnd, napt)
      /\ acl' = AclAdmit(Cut(acl, next, Expired(next)), ip, mac)

\* The handler has switched NAPT on before it calls this; q is the quota
\* table after its own read.
StartOrResume(ip, mac, granted, q) ==
  LET early == IF ip = NoIp THEN Expired(sessions) ELSE {}
      t == Without(sessions, early)
      a == Cut(acl, sessions, early)
      next == Started(t, ip, mac, granted)
      resumed == Found(t, ip, mac) \ Expired(t) # {}
      global == IF ip = NoIp THEN now + granted * TicksPerSec
                ELSE IF resumed THEN globalEnd ELSE 0
  IN  /\ Refresh(next, {}, Charged(q, sessions, early), global, TRUE)
      /\ acl' = AclAdmit(Cut(a, next, Expired(next)), ip, mac)

-----------------------------------------------------------------------------
(* HTTP and DNS requests, by the address the handler sees.                 *)

Callers ==
  {addr[m] : m \in {n \in Mac : /\ addr[n] # NoIp
                                /\ n \in stations \/ "late" \in Clients}}
    \cup {ip \in {NoIp} : stations # {} /\ "no_peer" \in Clients}

\* get_client_mac_for_ip: the associated station that leased the address.
LeaseHolder(ip) == {m \in stations \cap leased : ip # NoIp /\ addr[m] = ip}

\* The MAC confirm_handler works with: the lease, else the station that
\* associated last, else any associated station, else none.
ConfirmMac(ip) ==
  IF LeaseHolder(ip) # {} THEN LeaseHolder(ip)
  ELSE IF lastMac # NoMac THEN {lastMac}
  ELSE IF stations # {} THEN stations
  ELSE {NoMac}

\* No grant: the quota is used up, the uplink is down, or NAPT cannot be
\* switched on.  Only the quota record may have been renewed.
Refused(q) ==
  /\ quota' = q
  /\ UNCHANGED <<sessions, acl, globalEnd, authenticated, napt>>

ConfirmRefused(ip) ==
  /\ \E mac \in ConfirmMac(ip) :
       /\ \/ QuotaRemaining(QuotaRead(mac), mac) = 0
          \/ ~apConnect
          \/ ~napt                       \* ensure_napt_enabled fails
       /\ Refused(QuotaRead(mac))
  /\ UNCHANGED <<now, env>>

\* confirm_handler; its last call get_remaining_seconds finds the session
\* just started and changes nothing.
ConfirmGranted(ip) ==
  /\ apConnect
  /\ \E mac \in ConfirmMac(ip) :
       LET q == QuotaRead(mac)
           remaining == QuotaRemaining(q, mac)
           granted == IF mac = NoMac THEN QuotaSec
                      ELSE Lesser(remaining, UntilNextDay)
       IN  /\ remaining > 0
           /\ StartOrResume(ip, mac, granted, q)
  /\ UNCHANGED <<now, env>>

Admitted(t, ip) == {i \in ByIp(t, ip) : ip # NoIp /\ t[i].admitted}

\* get_remaining_seconds, called for every DNS query and most HTTP requests,
\* when the session of the address is over.
ProbeExpired(ip) ==
  /\ Admitted(sessions, ip) # {}
  /\ LET i == FirstOf(Admitted(sessions, ip))
     IN  /\ i \in Expired(sessions)
         /\ Revoke({i})
  /\ UNCHANGED <<now, env>>

\* get_remaining_seconds for an address without a session whose lease holder
\* has one under another address.
ProbeByMac(ip) ==
  /\ Admitted(sessions, ip) = {}
  /\ \E m \in LeaseHolder(ip) :
       /\ ByMac(sessions, m) # {}
       /\ LET i == FirstOf(ByMac(sessions, m))
          IN  /\ sessions[i].admitted
              /\ \/ /\ i \in Expired(sessions)
                    /\ Revoke({i})
                 \/ /\ i \notin Expired(sessions)
                    /\ sessions' = [sessions EXCEPT ![i].ip = ip]
                    /\ acl' = AclAdmit(acl, ip, m)
                    /\ UNCHANGED <<quota, globalEnd, authenticated, napt>>
  /\ UNCHANGED <<now, env>>

-----------------------------------------------------------------------------
(* Wi-Fi events, in the order the event loop delivers them.                *)

\* WIFI_EVENT_AP_STACONNECTED up to its call of handle_client_connect.
Associated(m) ==
  /\ m \notin stations
  /\ stations' = stations \cup {m}
  /\ connectCount' = (connectCount + 1) % Wrap
  /\ lastMac' = m
  /\ UNCHANGED <<now, clockSet, wallOffset, apConnect, addr, leased>>

\* handle_client_connect when it leaves the client to the captive portal.
ConnectToPortal(m) ==
  /\ Associated(m)
  /\ \/ /\ ~apConnect
        /\ Refused(quota)
     \/ /\ apConnect
        /\ \/ QuotaRemaining(QuotaRead(m), m) \in {0, QuotaSec}
           \/ ~napt                      \* ensure_napt_enabled fails
        /\ Refused(QuotaRead(m))

\* handle_client_connect when it resumes the day's access of the client.
ConnectResumed(m) ==
  /\ Associated(m)
  /\ apConnect
  /\ LET q == QuotaRead(m)
         remaining == QuotaRemaining(q, m)
     IN  /\ remaining \in 1 .. (QuotaSec - 1)
         /\ StartOrResume(NoIp, m, remaining, q)

\* IP_EVENT_AP_STAIPASSIGNED and handle_client_ip_assigned.
IpAssigned(m, ip) ==
  /\ m \in stations
  /\ addr[m] \in {ip, NoIp} \/ m \notin leased \/ "renumber" \in Clients
  /\ \A n \in stations \ {m} : addr[n] # ip
  /\ addr' = [addr EXCEPT ![m] = ip]
  /\ leased' = leased \cup {m}
  /\ LET mine == ByMac(sessions, m) \ Expired(sessions)
         i == FirstOf(mine)
         t == [sessions EXCEPT ![i].ip = ip, ![i].admitted = TRUE]
         a == IF sessions[i].ip = ip THEN acl
              ELSE AclRevokeByIp(acl, sessions[i].ip)
     IN  IF mine = {}
           THEN UNCHANGED core
           ELSE /\ Refresh(t, {}, quota, globalEnd, napt)
                /\ acl' = Cut(AclAdmit(a, ip, m), t, Expired(t))
  /\ UNCHANGED <<now, clockSet, wallOffset, apConnect, stations, lastMac,
                 connectCount>>

\* A station that configures its address itself; the router sees no event.
StaticAddress(m, ip) ==
  /\ "static" \in Clients
  /\ m \in stations \ leased
  /\ \A n \in stations \ {m} : addr[n] # ip
  /\ addr' = [addr EXCEPT ![m] = ip]
  /\ UNCHANGED <<now, clockSet, wallOffset, apConnect, stations, leased,
                 lastMac, connectCount, core>>

\* Mutation: as for an assigned address, only a running session counts.
Ended_NotExpired(m) == ByMac(sessions, m) \ Expired(sessions)

\* The sessions handle_client_disconnect revokes: those of the station, else
\* the only session there is when the last station leaves.
Ended(m) ==
  IF ByMac(sessions, m) # {} THEN ByMac(sessions, m)
  ELSE {i \in Live(sessions) : /\ connectCount = 1
                               /\ Cardinality(Live(sessions)) = 1}

\* Mutation: the cache outlives the station.
LastMacWithout_Kept(m) == lastMac

LastMacWithout(m) == IF lastMac = m THEN NoMac ELSE lastMac

\* WIFI_EVENT_AP_STADISCONNECTED and handle_client_disconnect.
Disconnected(m) ==
  /\ m \in stations
  /\ stations' = stations \ {m}
  /\ leased' = leased \ {m}
  /\ addr' = IF "late" \in Clients THEN addr ELSE [addr EXCEPT ![m] = NoIp]
  /\ connectCount' = (connectCount + Wrap - 1) % Wrap
  /\ lastMac' = LastMacWithout(m)
  /\ IF Ended(m) = {} THEN UNCHANGED core ELSE Revoke(Ended(m))
  /\ UNCHANGED <<now, clockSet, wallOffset, apConnect>>

-----------------------------------------------------------------------------
(* supabase_heartbeat_task: one iteration of its loop over the slots.      *)

\* Mutation: the loop leaves an expired session to the next request.
Heartbeat_NoRevoke(i) ==
  /\ i \in Live(sessions)
  /\ sessions[i].hash
  /\ sessions' = [sessions EXCEPT ![i].accounted = Accounted(sessions[i])]
  /\ quota' = Charged(quota, sessions, {i})
  /\ UNCHANGED <<acl, globalEnd, authenticated, napt, now, env>>

Heartbeat(i) ==
  /\ i \in Live(sessions)
  /\ sessions[i].hash
  /\ IF (EndTime(sessions[i]) - now) \div TicksPerSec > 0
       THEN /\ sessions' = [sessions EXCEPT ![i].accounted =
                              Accounted(sessions[i])]
            /\ quota' = Charged(quota, sessions, {i})
            /\ UNCHANGED <<acl, globalEnd, authenticated, napt>>
       ELSE Revoke({i})
  /\ UNCHANGED <<now, env>>

-----------------------------------------------------------------------------
UplinkUp   == ~apConnect /\ apConnect' = TRUE
UplinkDown == apConnect /\ apConnect' = FALSE

Uplink ==
  /\ UplinkUp \/ UplinkDown
  /\ UNCHANGED <<now, clockSet, wallOffset, stations, addr, leased, lastMac,
                 connectCount, core>>

\* SNTP, started with the uplink, sets the clock.
TimeSync ==
  /\ apConnect /\ ~clockSet
  /\ clockSet' = TRUE
  /\ UNCHANGED <<now, wallOffset, apConnect, stations, addr, leased, lastMac,
                 connectCount, core>>

Tick ==
  /\ now < MaxTime
  /\ now' = now + 1
  /\ UNCHANGED <<env, core>>

-----------------------------------------------------------------------------
\* start_webserver and init_sessions after a power-up or a restart.  This
\* build erases the stored quota there (DEV_RESET_QUOTA_ON_BOOT), so nothing
\* survives a boot and a restart is a new behaviour.  The wall clock may
\* survive a software restart.
Init ==
  /\ now = 0
  /\ clockSet \in BOOLEAN
  /\ wallOffset \in WallOffsets
  /\ apConnect = FALSE
  /\ stations = {}
  /\ addr = [m \in Mac |-> NoIp]
  /\ leased = {}
  /\ lastMac = NoMac
  /\ connectCount = 0
  /\ sessions = [i \in Slot |-> NoSession]
  /\ quota = [m \in Mac |-> [day |-> 0, used |-> 0]]
  /\ AclInit
  /\ globalEnd = 0
  /\ authenticated = FALSE
  /\ napt = FALSE

Request ==
  \E ip \in Callers :
    \/ ConfirmRefused(ip)
    \/ ConfirmGranted(ip)
    \/ ProbeExpired(ip)
    \/ ProbeByMac(ip)

WifiEvent ==
  \E m \in Mac :
    \/ ConnectToPortal(m)
    \/ ConnectResumed(m)
    \/ \E ip \in Ip : IpAssigned(m, ip) \/ StaticAddress(m, ip)
    \/ Disconnected(m)

Next ==
  \/ Request
  \/ WifiEvent
  \/ \E i \in Slot : Heartbeat(i)
  \/ Uplink
  \/ TimeSync
  \/ Tick

Spec == Init /\ [][Next]_vars

\* The task visits every slot again and again.
HeartbeatRuns(i) == WF_vars(Heartbeat(i))

FairSpec == Spec /\ \A i \in Slot : HeartbeatRuns(i)

-----------------------------------------------------------------------------
(* No station ever has two sessions at once, whatever finds or makes its    *)
(* session: a request, an association, an address.  Two would count the     *)
(* same minute twice, and a disconnect, a heartbeat and a lookup that stops *)
(* at the first would disagree on which of them is the session.             *)
OneSessionPerMac ==
  \A i, j \in Live(sessions) :
    sessions[i].mac = sessions[j].mac /\ sessions[i].mac # NoMac => i = j

(* NAPT stays on for as long as anybody has access: it is switched off for  *)
(* all clients at once by whichever handler believes it ended the last      *)
(* session, the global one included.                                        *)
NaptServesAccess == authenticated \/ Access(sessions, globalEnd) => napt

(* No session outlives the association of its station, so nobody who comes  *)
(* later with the same address or cached MAC walks into a running session.  *)
SessionsOfStations ==
  \A i \in Live(sessions) : sessions[i].mac \in stations \cup {NoMac}

\* The sessions an entry of the packet filter belongs to.
Owners(k) ==
  {i \in Live(sessions) :
     sessions[i].ip = acl[k].ip \/ k \in AclByMac(acl, sessions[i].mac)}

(* Whom the packet filter admits has a session: no revocation, by MAC, by   *)
(* address, by expiry or by a rebinding, leaves an entry behind for which   *)
(* nobody is charged.                                                       *)
AdmittedHaveSession ==
  \A k \in AclSlot : acl[k] # NoEntry => Owners(k) # {}

(* The packet filter and the session table, which the code updates side by  *)
(* side in eight places, name the same addresses.                           *)
AclMirrorsSessions ==
  \A ip \in Ip :
    AclIsAdmitted(acl, ip) <=> \E i \in Live(sessions) : sessions[i].ip = ip

(* A client whose session runs is admitted: when a lease lands, the session *)
(* is bound to the address and the address is added to the filter, so that  *)
(* the client is not sent through the captive portal again.                 *)
RunningIsAdmitted ==
  \A i \in Live(sessions) \ Expired(sessions) :
    sessions[i].ip # NoIp => AclIsAdmitted(acl, sessions[i].ip)

(* What a running session may still use and what its device has used today  *)
(* never exceed the quota together, across reconnects, resumed sessions,    *)
(* midnight and the clock being set.                                        *)
GrantWithinQuota ==
  \A i \in Live(sessions) :
    LET s == sessions[i] IN
      s.mac # NoMac /\ quota[s.mac].day = s.day =>
        quota[s.mac].used + (s.granted - s.accounted) <= QuotaSec

(* Usage charged to the current day is never lost before the day is over,   *)
(* not even to a late checkpoint of a session that began the day before.    *)
UsageNotForgotten ==
  [][\A m \in Mac :
       /\ quota[m].day = Today /\ Today' = Today
       /\ quota[m].used > 0
       => quota'[m].day = Today /\ quota'[m].used >= quota[m].used]_vars

(* An address is admitted, but every session it belongs to is over.         *)
Overdue(k) == acl[k] # NoEntry /\ Owners(k) \subseteq Expired(sessions)

(* Who is admitted beyond the end of the session is cut off, by the         *)
(* heartbeat if nothing else happens: traffic through the packet filter     *)
(* does not look at the session table.                                      *)
OverdueIsCutOff == \A k \in AclSlot : Overdue(k) ~> ~Overdue(k)

=============================================================================
