------------------------------- MODULE AcMeter -------------------------------
(***************************************************************************)
(* The task of main/pzem_reader.c: every few seconds it reads the AC meter *)
(* and posts the energy of the day, as the difference to the meter's       *)
(* counter at the first reading of the day, to the row of the station, and *)
(* the state of the outlet to the row of that port when it has changed.    *)
(* The handlers of main/admin_ports.c show the last reading and may set    *)
(* the outlet's row themselves; they and everything else go on while the   *)
(* task waits for an answer to one of its posts.                           *)
(*                                                                         *)
(* External: the meter, whose counter runs on across restarts and can be   *)
(* reset, the wall clock, and the rows, in which a post that was given up  *)
(* does not arrive later.  uint32_t is AcWrap wide.                        *)
(***************************************************************************)
EXTENDS Integers

CONSTANTS
  AcWrap,   \* 2^32
  AcEnergy, \* bound on the meter's counter
  AcDays    \* bound on the days that pass

ASSUME AcMeterAssumption ==
  /\ AcEnergy \in Nat /\ AcWrap \in Nat /\ AcEnergy < AcWrap
  /\ AcDays \in Nat \ {0}

VARIABLES
  acStep,          \* what the task does next
  meter,           \* the cumulative counter
  outlet,          \* a load is plugged in
  acDay,           \* time(NULL) / 86400
  midnightWh,      \* s_energy_wh_at_midnight
  acAnchor,        \* s_pzem_utc_day_anchor
  lastReading,     \* s_last_reading: whether its power is above the threshold
  lastOutlet,      \* last_outlet_in_use, NotPublished until the first post
  todayWh,         \* ac_energy_wh_today as it was last worked out
  outletRow,       \* status in the row
  used,            \* ghost: energy metered since the first reading of the day,
                   \* at most AcEnergy
  outletUnsure     \* ghost: the last post failed, or someone else wrote the row

acVars == <<acStep, meter, outlet, acDay, midnightWh, acAnchor, lastReading, lastOutlet,
            todayWh, outletRow, used, outletUnsure>>

NotPublished == "not published"
NoDay == -1
NoReading == "no reading"
InUse(plugged) == IF plugged THEN "in_use" ELSE "available"

\* Waiting for the next round, posting the row of the station or that of
\* the outlet, keeping what was posted
AcStep == {"wait", "station", "outlet", "keep"}

(* Every variable keeps its type.                                          *)
AcTypeOK ==
  /\ acStep \in AcStep
  /\ meter \in 0 .. AcEnergy /\ outlet \in BOOLEAN
  /\ acDay \in 0 .. AcDays /\ acAnchor \in NoDay .. AcDays
  /\ midnightWh \in 0 .. (AcWrap - 1) /\ todayWh \in 0 .. (AcWrap - 1)
  /\ lastReading \in {NoReading, "in_use", "available"}
  /\ lastOutlet \in {NotPublished, "in_use", "available"}
  /\ outletRow \in {"in_use", "available", "offline", "fault"}
  /\ used \in 0 .. AcEnergy /\ outletUnsure \in BOOLEAN

AcInit ==
  /\ acStep = "wait"
  /\ meter \in 0 .. AcEnergy /\ outlet \in BOOLEAN
  /\ acDay = 0
  /\ midnightWh = 0 /\ acAnchor = NoDay
  /\ lastReading = NoReading /\ lastOutlet = NotPublished
  /\ todayWh = 0
  /\ outletRow \in {"in_use", "available", "offline", "fault"}
  /\ used = 0 /\ outletUnsure = FALSE

-----------------------------------------------------------------------------
\* Mutation: the counter is trusted to run on.
SnapshotWh_DayOnly == IF acAnchor # acDay THEN meter ELSE midnightWh

\* energy_wh_today: a new day, or a counter that went back, is the origin.
SnapshotWh == IF acAnchor # acDay \/ meter < midnightWh THEN meter ELSE midnightWh

\* The difference, as a uint32_t
TodayWh == (meter - midnightWh') % AcWrap

\* pzem_task reads the meter, caches the reading and works out the energy
\* of the day for the first post.
ReadMeter ==
  /\ acStep = "wait" /\ acStep' = "station"
  /\ lastReading' = InUse(outlet)
  /\ midnightWh' = SnapshotWh
  /\ acAnchor' = acDay
  /\ todayWh' = TodayWh
  /\ used' = IF acAnchor # acDay THEN 0 ELSE used
  /\ UNCHANGED <<meter, outlet, acDay, lastOutlet, outletRow, outletUnsure>>

\* Mutation: "available" is taken to be published at the start.
OutletChanged_Published == (lastReading = "in_use") # (lastOutlet = "in_use")

OutletChanged == lastReading # lastOutlet

\* The row of the station was posted, or not.
StationPosted ==
  /\ acStep = "station"
  /\ acStep' = IF OutletChanged THEN "outlet" ELSE "wait"
  /\ UNCHANGED <<meter, outlet, acDay, midnightWh, acAnchor, lastReading,
                 lastOutlet, todayWh, outletRow, used, outletUnsure>>

\* The row of the outlet was posted, or not: nobody looks at the result.
OutletPosted ==
  /\ acStep = "outlet" /\ acStep' = "keep"
  /\ \/ outletRow' = lastReading /\ outletUnsure' = FALSE
     \/ outletRow' \in {outletRow, lastReading} /\ outletUnsure' = TRUE
  /\ UNCHANGED <<meter, outlet, acDay, midnightWh, acAnchor, lastReading,
                 lastOutlet, todayWh, used>>

OutletKept ==
  /\ acStep = "keep" /\ acStep' = "wait"
  /\ lastOutlet' = lastReading
  /\ UNCHANGED <<meter, outlet, acDay, midnightWh, acAnchor, lastReading,
                 todayWh, outletRow, used, outletUnsure>>

\* The read fails: nothing happens.  Otherwise energy is used, ...
EnergyUsed ==
  /\ meter < AcEnergy
  /\ meter' = meter + 1 /\ used' = IF used < AcEnergy THEN used + 1 ELSE used
  /\ UNCHANGED <<acStep, outlet, acDay, midnightWh, acAnchor, lastReading,
                 lastOutlet, todayWh, outletRow, outletUnsure>>

\* ... the meter is reset, ...
MeterReset ==
  /\ meter' = 0
  /\ UNCHANGED <<acStep, outlet, acDay, midnightWh, acAnchor, lastReading,
                 lastOutlet, todayWh, outletRow, used, outletUnsure>>

\* ... a load comes or goes, or another day begins.
AcChanges ==
  /\ \/ outlet' = ~outlet /\ UNCHANGED acDay
     \/ acDay < AcDays /\ acDay' = acDay + 1 /\ UNCHANGED outlet
  /\ UNCHANGED <<acStep, meter, midnightWh, acAnchor, lastReading, lastOutlet,
                 todayWh, outletRow, used, outletUnsure>>

\* api_ports_handler with port_key "outlet"
OutletSetByAdmin ==
  /\ outletRow' \in {"in_use", "available", "offline", "fault"}
  /\ outletUnsure' = TRUE
  /\ UNCHANGED <<acStep, meter, outlet, acDay, midnightWh, acAnchor, lastReading,
                 lastOutlet, todayWh, used>>

AcRestart ==
  /\ acStep' = "wait"
  /\ midnightWh' = 0 /\ acAnchor' = NoDay
  /\ lastReading' = NoReading /\ lastOutlet' = NotPublished
  /\ todayWh' = 0 /\ used' = 0
  /\ outletUnsure' = FALSE
  /\ UNCHANGED <<meter, outlet, acDay, outletRow>>

AcNext ==
  \/ ReadMeter \/ StationPosted \/ OutletPosted \/ OutletKept
  \/ EnergyUsed \/ MeterReset \/ AcChanges
  \/ OutletSetByAdmin \/ AcRestart

AcSpec == AcInit /\ [][AcNext]_acVars

-----------------------------------------------------------------------------
(* The energy of the day never exceeds what has been metered since its     *)
(* first reading, even if the meter's counter is reset in between, once or *)
(* several times, or a day passes without a reading.                       *)
EnergyTodayIsMetered == acAnchor # NoDay => todayWh <= used

(* The row of the outlet lags behind by no more than the round under way:  *)
(* while a reading waits for its post the row shows what was posted last,  *)
(* so that the pages show a newer state than the row, and from then on the *)
(* reading.  What is not posted is there already.  Not so if the last post *)
(* failed or someone else has written the row since.                       *)
OutletRowIsRead ==
  LET awaited == acStep \in {"station", "outlet"}
      shown == IF awaited THEN lastOutlet ELSE lastReading
  IN  shown \in {"in_use", "available"} /\ ~outletUnsure => outletRow = shown

=============================================================================
