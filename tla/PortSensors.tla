----------------------------- MODULE PortSensors -----------------------------
(***************************************************************************)
(* One charging port of main/port_sensors.c, with PORT_SENSORS_ENABLED and *)
(* PORT_SENSORS_SUPABASE_SYNC_ENABLED set: the sync task polls its INA219, *)
(* adds up the seconds in use, and posts the status to the row of the port *)
(* when it has changed or was posted long ago.  The handlers of            *)
(* main/admin_ports.c read the sensor, and post to the same row, in the    *)
(* HTTP server's task.  The four ports do not affect each other but for    *)
(* the time between two polls, which is arbitrary here.                    *)
(*                                                                         *)
(* External: the load, the sensor's answers and the row at Supabase.  A    *)
(* post that fails may have arrived.  Times are relative, so that the      *)
(* clock need not be bounded.                                              *)
(***************************************************************************)
EXTENDS Integers

CONSTANTS
  PollGap,     \* longest time between two polls, in ticks
  PortTicks,   \* ticks per second
  BeatTicks,   \* PORT_SENSORS_HEARTBEAT_INTERVAL_MS
  GapLimit,    \* 60000 ms: a longer gap is not counted
  PortDayTicks \* ticks of a UTC day

ASSUME PortSensorsAssumption ==
  /\ PollGap \in Nat \ {0} /\ PortTicks \in Nat \ {0} /\ BeatTicks \in Nat \ {0}
  /\ GapLimit \in Nat \ {0} /\ PortDayTicks \in Nat \ {0}
  /\ PollGap < PortDayTicks

VARIABLES
  load,         \* what the port is: "available" or "in_use"
  answers,      \* the INA219 answers on the bus
  present,      \* s_sensor_present
  lastPushed,   \* s_last_pushed_status
  sincePushed,  \* time since s_last_pushed_ts_ms, at most BeatTicks
  dailySec,     \* s_daily_in_use_seconds
  sinceAccum,   \* time from s_last_accum_ts_ms to the last poll, at most
                \* GapLimit, Never as long as that is 0
  dayClock,     \* wall clock, within the day
  dayAnchored,  \* s_utc_day_anchor is of this day
  sinceReset,   \* ghost: time since the last reading before the last reset
  adminPost,    \* the status an HTTP handler is posting
  portRow       \* status in the row

portVars == <<load, answers, present, lastPushed, sincePushed, dailySec,
              sinceAccum, dayClock, dayAnchored, sinceReset, adminPost, portRow>>
pollVars == <<present, lastPushed, sincePushed, dailySec, sinceAccum, dayClock,
              dayAnchored, sinceReset>>

Availability == {"available", "in_use"}
PortStatus == Availability \cup {"offline", "fault"}
NotReady == "offline"
NoPost == "none"
Never == -1
AtMost(limit, x) == IF x > limit THEN limit ELSE x

(* Every variable keeps its type.                                          *)
PortTypeOK ==
  /\ load \in Availability /\ answers \in BOOLEAN /\ present \in BOOLEAN
  /\ lastPushed \in Availability \cup {NotReady}
  /\ sincePushed \in 0 .. BeatTicks
  /\ dailySec \in Nat
  /\ sinceAccum \in Never .. GapLimit
  /\ dayClock \in 0 .. (PortDayTicks - 1) /\ dayAnchored \in BOOLEAN
  /\ sinceReset \in Nat
  /\ adminPost \in PortStatus \cup {NoPost}
  /\ portRow \in PortStatus

\* port_sensors_init probed the sensor; the row is as an earlier start left
\* it, and the first poll is due.
PortInit ==
  /\ load \in Availability /\ answers \in BOOLEAN /\ present = answers
  /\ lastPushed = NotReady /\ sincePushed = BeatTicks
  /\ dailySec = 0 /\ sinceAccum = Never
  /\ dayClock = 0 /\ dayAnchored = FALSE
  /\ sinceReset = 0
  /\ adminPost = NoPost
  /\ portRow \in PortStatus

-----------------------------------------------------------------------------
(* Readings.                                                               *)

\* Mutation: a sensor once lost is not looked for again.
Answered_PresentOnly == answers /\ present

\* port_sensors_read: ensure_sensor_ready probes and configures a sensor
\* that is not present; any transfer that fails makes it not present.
Answered == answers

\* The threshold on the current
StatusRead == load

-----------------------------------------------------------------------------
(* One round of port_sensors_sync_task, dt after the one before.           *)

\* update_daily_anchor_and_maybe_reset finds another day than the anchor's.
NewDay(dt) == ~dayAnchored \/ dayClock + dt >= PortDayTicks

\* Mutation: the counter runs on at midnight.
SecondsKept_All(dt) == dailySec

SecondsKept(dt) == IF NewDay(dt) THEN 0 ELSE dailySec

\* now_ms - s_last_accum_ts_ms at this poll
Gap(dt) == sinceAccum + dt

\* What it counts for, in whole seconds
SecondsAdded(dt) ==
  IF StatusRead = "in_use" /\ sinceAccum # Never /\ Gap(dt) < GapLimit
  THEN Gap(dt) \div PortTicks ELSE 0

\* Mutation: nothing is posted without a change.
PushDue_Changed(dt) == StatusRead # lastPushed

PushDue(dt) == StatusRead # lastPushed \/ sincePushed + dt >= BeatTicks

PassTime(dt) ==
  /\ dayClock' = (dayClock + dt) % PortDayTicks
  /\ dayAnchored' = TRUE
  /\ sinceReset' = IF ~NewDay(dt) THEN sinceReset + dt
                   ELSE IF sinceAccum = Never THEN dt ELSE Gap(dt)

NotPushed(dt) ==
  /\ sincePushed' = AtMost(BeatTicks, sincePushed + dt)
  /\ UNCHANGED lastPushed

\* The sensor does not answer: nothing is counted or posted.
PollSilent(dt) ==
  /\ ~Answered
  /\ present' = FALSE
  /\ dailySec' = SecondsKept(dt)
  /\ sinceAccum' = IF sinceAccum = Never THEN Never ELSE AtMost(GapLimit, Gap(dt))
  /\ PassTime(dt) /\ NotPushed(dt)
  /\ UNCHANGED portRow

PollReading(dt) ==
  /\ Answered
  /\ present' = TRUE
  /\ dailySec' = SecondsKept(dt) + SecondsAdded(dt)
  /\ sinceAccum' = 0
  /\ PassTime(dt)

PollQuiet(dt) ==
  /\ PollReading(dt) /\ ~PushDue(dt)
  /\ NotPushed(dt)
  /\ UNCHANGED portRow

\* sync_reading_to_supabase succeeds.
PollPushed(dt) ==
  /\ PollReading(dt) /\ PushDue(dt)
  /\ portRow' = StatusRead
  /\ lastPushed' = StatusRead /\ sincePushed' = 0

\* It fails: the next poll posts again.
PollNotPushed(dt) ==
  /\ PollReading(dt) /\ PushDue(dt)
  /\ portRow' \in {portRow, StatusRead}
  /\ NotPushed(dt)

Poll ==
  /\ \E dt \in 1 .. PollGap :
        PollSilent(dt) \/ PollQuiet(dt) \/ PollPushed(dt) \/ PollNotPushed(dt)
  /\ UNCHANGED <<load, answers, adminPost>>

PollSucceeds ==
  /\ \E dt \in 1 .. PollGap : PollQuiet(dt) \/ PollPushed(dt)
  /\ UNCHANGED <<load, answers, adminPost>>

-----------------------------------------------------------------------------
(* The HTTP server's task.                                                 *)

\* api_ports_sensor_readings_handler reads all sensors.
ReadByAdmin ==
  /\ adminPost = NoPost
  /\ present' = Answered
  /\ UNCHANGED <<load, answers, lastPushed, sincePushed, dailySec, sinceAccum,
                 dayClock, dayAnchored, sinceReset, adminPost, portRow>>

\* api_ports_sensor_sync_handler: port_sensors_sync_once reads and posts.
SyncByAdmin ==
  /\ adminPost = NoPost /\ Answered
  /\ present' = TRUE
  /\ adminPost' = StatusRead
  /\ UNCHANGED <<load, answers, lastPushed, sincePushed, dailySec, sinceAccum,
                 dayClock, dayAnchored, sinceReset, portRow>>

\* api_ports_handler: the status is given in the request.
SetByAdmin ==
  /\ adminPost = NoPost
  /\ adminPost' \in PortStatus
  /\ UNCHANGED <<load, answers, pollVars, portRow>>

AdminPostEnds ==
  /\ adminPost # NoPost
  /\ portRow' \in {portRow, adminPost}
  /\ adminPost' = NoPost
  /\ UNCHANGED <<load, answers, pollVars>>

-----------------------------------------------------------------------------
\* A device is plugged in or out; the sensor fails or comes back.
PortChanges ==
  /\ \/ load' \in Availability \ {load} /\ UNCHANGED answers
     \/ answers' = ~answers /\ UNCHANGED load
  /\ UNCHANGED <<pollVars, adminPost, portRow>>

\* Only the row survives a restart.
PortRestart ==
  /\ present' = answers
  /\ lastPushed' = NotReady /\ sincePushed' = BeatTicks
  /\ dailySec' = 0 /\ sinceAccum' = Never
  /\ dayAnchored' = FALSE /\ sinceReset' = 0
  /\ adminPost' = NoPost
  /\ UNCHANGED <<load, answers, dayClock, portRow>>

PortNext ==
  \/ Poll
  \/ ReadByAdmin \/ SyncByAdmin \/ SetByAdmin \/ AdminPostEnds
  \/ PortChanges \/ PortRestart

PortSpec ==
  /\ PortInit /\ [][PortNext]_portVars
  /\ WF_pollVars(Poll) /\ SF_pollVars(PollSucceeds)

-----------------------------------------------------------------------------
(* If the port stays as it is, with a sensor that answers, its row shows   *)
(* that again and again, whoever overwrites it and however late: a sensor  *)
(* that was lost is found again, a failed post is repeated, and what is    *)
(* overwritten is posted once more after BeatTicks.                        *)
PortRowCatchesUp ==
  \A s \in Availability :
     <>[](load = s /\ answers) => []<>(portRow = s)

(* The seconds in use since the last reset fit into the time since then,   *)
(* across midnight, missed polls and long gaps; the first gap of a day     *)
(* belongs to it as a whole.                                               *)
DailySecondsFit == dailySec * PortTicks <= sinceReset

=============================================================================
