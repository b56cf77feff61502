----------------------------- MODULE PortalUsage -----------------------------
(***************************************************************************)
(* The session manager with the schedule of its heartbeat task and with    *)
(* the time each station has really been served, to compare it with the    *)
(* time its quota record was charged.  In Portal a heartbeat may come at   *)
(* any time or never; here it visits all slots every HeartbeatSec seconds, *)
(* so what is not charged is not merely waiting for a late heartbeat.      *)
(***************************************************************************)
EXTENDS Portal

CONSTANT HeartbeatSec     \* the vTaskDelay of the task, 30 s in the code

VARIABLES
  beatAt,    \* when the task wakes up next
  toVisit,   \* the slots its present round has still to visit
  served     \* ghost: ticks of access each station had since the day began

usageVars == <<vars, beatAt, toVisit, served>>

UsageInit ==
  /\ Init
  /\ beatAt = HeartbeatSec * TicksPerSec
  /\ toVisit = {}
  /\ served = [m \in Mac |-> 0]

WakeUp ==
  /\ now = beatAt /\ toVisit = {}
  /\ beatAt' = now + HeartbeatSec * TicksPerSec
  /\ toVisit' = Slot
  /\ UNCHANGED <<vars, served>>

\* One iteration: a session is looked after, any other slot is skipped.
Visit ==
  /\ toVisit # {}
  /\ LET i == FirstOf(toVisit)
     IN  /\ toVisit' = toVisit \ {i}
         /\ \/ Heartbeat(i)
            \/ /\ i \notin Live(sessions) \/ ~sessions[i].hash
               /\ UNCHANGED vars
  /\ UNCHANGED <<beatAt, served>>

\* The clock passes while no heartbeat is due.
Pass ==
  /\ toVisit = {} /\ now < beatAt
  /\ Tick
  /\ served' = [m \in Mac |->
        IF Today' # Today THEN 0
        ELSE IF \E i \in ByMac(sessions, m) \ Expired(sessions) :
                  AclIsAdmitted(acl, sessions[i].ip)
          THEN served[m] + 1
          ELSE served[m]]
  /\ UNCHANGED <<beatAt, toVisit>>

\* A new day starts with the clock being set, too: the code's day changes.
Other ==
  /\ Request \/ WifiEvent \/ Uplink \/ TimeSync
  /\ served' = IF Today' # Today THEN [m \in Mac |-> 0] ELSE served
  /\ UNCHANGED <<beatAt, toVisit>>

UsageNext == WakeUp \/ Visit \/ Pass \/ Other

UsageSpec == UsageInit /\ [][UsageNext]_usageVars

-----------------------------------------------------------------------------
(* Each device gets one quota of access a day, however often it confirms,   *)
(* leaves, comes back or lets its session run out.                          *)
DailyLimit == \A m \in Mac : served[m] <= QuotaSec * TicksPerSec

=============================================================================
