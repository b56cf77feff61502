------------------------------- MODULE NetDiag -------------------------------
(***************************************************************************)
(* The diagnostics task of main/net_diag.c.  Any task may ask for a round  *)
(* of connection probes by leaving a reason in the one-slot buffer         *)
(* s_pending_reason; the diagnostics task picks it up, probes for up to    *)
(* eight seconds and clears the buffer afterwards, together with whatever  *)
(* was put there in the meantime.                                          *)
(***************************************************************************)

CONSTANT ProbeReason   \* what the callers of net_diag_schedule_probe pass

NoReason == "none"
BootReason == "boot"

ASSUME DiagAssumption == ProbeReason # {} /\ NoReason \notin ProbeReason

VARIABLES
  diagTask,       \* s_diag_task_handle is set: the task runs
  diagPending,    \* s_pending_reason, NoReason when empty
  diagNotified,   \* the task's notification count is not zero
  diagProbing,    \* where the task is: "waiting", "requested", "periodic"
  diagOnline,     \* s_portal_authenticated && ap_connect
  diagAsked       \* ghost: probes were asked for and none has ended since

diagVars == <<diagTask, diagPending, diagNotified, diagProbing, diagOnline,
              diagAsked>>

(* Every variable keeps its type.                                          *)
DiagTypeOK ==
  /\ diagTask \in BOOLEAN
  /\ diagPending \in ProbeReason \cup {BootReason, NoReason}
  /\ diagNotified \in BOOLEAN
  /\ diagProbing \in {"waiting", "requested", "periodic"}
  /\ diagOnline \in BOOLEAN
  /\ diagAsked \in BOOLEAN

DiagInit ==
  /\ diagTask = FALSE
  /\ diagPending = BootReason
  /\ diagNotified = FALSE
  /\ diagProbing = "waiting"
  /\ diagOnline = FALSE
  /\ diagAsked = TRUE

\* net_diag_start_task
DiagStart ==
  /\ ~diagTask
  /\ diagTask' = TRUE
  /\ UNCHANGED <<diagPending, diagNotified, diagProbing, diagOnline, diagAsked>>

\* net_diag_schedule_probe: the last reason wins; without a task there is
\* nobody to notify.
ScheduleProbe(reason) ==
  /\ diagPending' = reason
  /\ diagNotified' = (diagNotified \/ diagTask)
  /\ diagAsked' = TRUE
  /\ UNCHANGED <<diagTask, diagProbing, diagOnline>>

\* net_diag_set_portal_state, and the uplink coming or going
DiagSetOnline ==
  /\ diagOnline' = ~diagOnline
  /\ UNCHANGED <<diagTask, diagPending, diagNotified, diagProbing, diagAsked>>

\* Mutation: the task sleeps until it is notified.
DiagWakes_NotifiedOnly == diagTask /\ diagProbing = "waiting" /\ diagNotified

\* ulTaskNotifyTake returns, notified or after a second.
DiagWakes == diagTask /\ diagProbing = "waiting"

\* A reason is pending: its probes begin.
BeginRequested ==
  /\ DiagWakes /\ diagPending # NoReason
  /\ diagNotified' = FALSE
  /\ diagProbing' = "requested"
  /\ UNCHANGED <<diagTask, diagPending, diagOnline, diagAsked>>

\* None is: probes begin when the last ones are 15 s back, or the task
\* waits again.
BeginPeriodic ==
  /\ DiagWakes /\ diagPending = NoReason
  /\ diagNotified' = FALSE
  /\ \/ diagOnline /\ diagProbing' = "periodic"
     \/ diagNotified /\ UNCHANGED diagProbing
  /\ UNCHANGED <<diagTask, diagPending, diagOnline, diagAsked>>

\* run_active_probes returns.  Only requested probes clear the buffer.
EndProbes ==
  /\ diagProbing # "waiting"
  /\ diagPending' = IF diagProbing = "requested" THEN NoReason ELSE diagPending
  /\ diagProbing' = "waiting"
  /\ diagAsked' = (diagAsked /\ diagProbing = "periodic")
  /\ UNCHANGED <<diagTask, diagNotified, diagOnline>>

DiagNext ==
  \/ DiagStart
  \/ \E reason \in ProbeReason : ScheduleProbe(reason)
  \/ DiagSetOnline
  \/ BeginRequested
  \/ BeginPeriodic
  \/ EndProbes

=============================================================================
