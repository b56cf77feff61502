------------------------------ MODULE NaptTasks ------------------------------
(***************************************************************************)
(* NAPT between the tasks of the router.  In Portal every handler is one   *)
(* step; here the HTTP server's task, which confirms sessions, and the     *)
(* tasks that end them (Wi-Fi events, DNS, heartbeat) are interleaved at   *)
(* each access to s_napt_enabled, the session table and the driver, as     *)
(* they may be: they run on two cores and no lock is held.                 *)
(***************************************************************************)
CONSTANTS Client, Ender   \* stations; tasks that end sessions

VARIABLES
  naptDriver,   \* the driver translates addresses
  naptFlag,     \* s_napt_enabled
  counting,     \* clients with an active, admitted session
  confirming,   \* how far confirm_handler is, and for whom
  ending        \* how far each other task is

naptVars == <<naptDriver, naptFlag, counting, confirming, ending>>

Idle == [at |-> "idle"]

NaptInit ==
  /\ naptDriver = FALSE /\ naptFlag = FALSE
  /\ counting = {}
  /\ confirming = Idle
  /\ ending = [e \in Ender |-> "idle"]

At(place) == confirming # Idle /\ confirming.at = place
ConfirmMoves(place) == confirming' = [confirming EXCEPT !.at = place]
EnderMoves(e, from, to) == ending[e] = from /\ ending' = [ending EXCEPT ![e] = to]

\* ensure_napt_enabled looks at the flag.
ConfirmChecks(c) ==
  /\ confirming = Idle
  /\ confirming' = [at |-> IF naptFlag THEN "start" ELSE "enable", client |-> c]
  /\ UNCHANGED <<naptDriver, naptFlag, counting, ending>>

\* esp_netif_napt_enable, which may fail; then no session starts.
ConfirmEnables ==
  /\ At("enable")
  /\ \/ naptDriver' = TRUE /\ ConfirmMoves("enabled")
     \/ UNCHANGED naptDriver /\ confirming' = Idle
  /\ UNCHANGED <<naptFlag, counting, ending>>

ConfirmSetsFlag ==
  /\ At("enabled")
  /\ naptFlag' = TRUE
  /\ ConfirmMoves("start")
  /\ UNCHANGED <<naptDriver, counting, ending>>

\* start_or_resume_session; its own refresh finds this session.
StartCounting ==
  /\ At("start")
  /\ counting' = counting \cup {confirming.client}
  /\ confirming' = Idle
  /\ UNCHANGED <<naptDriver, naptFlag, ending>>

\* revoke_session, or an end that refresh_portal_auth_state itself notices
EndSession(e, c) ==
  /\ c \in counting
  /\ EnderMoves(e, "idle", "refresh")
  /\ counting' = counting \ {c}
  /\ UNCHANGED <<naptDriver, naptFlag, confirming>>

\* refresh_portal_auth_state and maybe_disable_napt_if_idle look for access.
LookForAccess(e) ==
  /\ EnderMoves(e, "refresh", IF naptFlag /\ counting = {} THEN "disable" ELSE "idle")
  /\ UNCHANGED <<naptDriver, naptFlag, counting, confirming>>

\* esp_netif_napt_disable, which may fail
DisableDriver(e) ==
  /\ \/ naptDriver' = FALSE /\ EnderMoves(e, "disable", "disabled")
     \/ UNCHANGED naptDriver /\ EnderMoves(e, "disable", "idle")
  /\ UNCHANGED <<naptFlag, counting, confirming>>

ClearFlag(e) ==
  /\ EnderMoves(e, "disabled", "idle")
  /\ naptFlag' = FALSE
  /\ UNCHANGED <<naptDriver, counting, confirming>>

NaptNext ==
  \/ \E c \in Client : ConfirmChecks(c)
  \/ ConfirmEnables \/ ConfirmSetsFlag \/ StartCounting
  \/ \E e \in Ender :
        \/ \E c \in Client : EndSession(e, c)
        \/ LookForAccess(e) \/ DisableDriver(e) \/ ClearFlag(e)

NaptSpec == NaptInit /\ [][NaptNext]_naptVars

-----------------------------------------------------------------------------
(* A session that starts to count has its access to the internet: NAPT is  *)
(* on at that moment, as the comment in confirm_handler has it.            *)
CountingNeedsNapt ==
  [][\A c \in Client : c \in counting' \ counting => naptDriver]_naptVars

=============================================================================
