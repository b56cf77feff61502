------------------------------- MODULE Battery -------------------------------
(***************************************************************************)
(* battery_task of main/battery_sensor.c: the state machine that turns     *)
(* battery voltages into service levels, with its debouncing, its start    *)
(* after a power cut, and the switch of the users' access point            *)
(* (set_user_ap_enabled in main/esp32_nat_router.c).                       *)
(*                                                                         *)
(* Voltages are in tenths of a volt.  The charging ports are represented   *)
(* here by the permission the battery task writes; how the RFID task uses  *)
(* it is in PowerGate.                                                     *)
(***************************************************************************)
EXTENDS Integers, Sequences

CONSTANTS Voltages,   \* what the battery may read
          Debounce    \* BATTERY_DEBOUNCE_SAMPLES, 6 in the code

ASSUME BatteryAssumption ==
  /\ Voltages \subseteq Nat
  /\ Debounce \in Nat \ {0}

VARIABLES volt,          \* the voltage of the battery
          booted,        \* battery_task has chosen its first state
          level,         \* s_state
          toWarning, toCritical, toCharging, toNormal,   \* s_dbc_to_*
          portsAllowed,  \* s_ports_allowed_by_battery
          userAp,        \* s_user_ap_enabled
          recent         \* ghost: the readings since the last transition

counters == <<toWarning, toCritical, toCharging, toNormal>>
battery  == <<volt, booted, level, counters, portsAllowed, userAp, recent>>

Levels == INSTANCE ServiceLevels

Count == 0 .. Debounce - 1

(* Every variable keeps its type; a counter never stays at the limit.      *)
BatteryTypeOK ==
  /\ volt \in Voltages
  /\ booted \in BOOLEAN
  /\ level \in Levels!Level
  /\ toWarning \in Count /\ toCritical \in Count
  /\ toCharging \in Count /\ toNormal \in Count
  /\ portsAllowed \in BOOLEAN
  /\ userAp \in BOOLEAN
  /\ recent \in Seq(Voltages) /\ Len(recent) <= Debounce

BelowWarning(v)  == v < 126
BelowCritical(v) == v < 118
AboveCharging(v) == v > 128
AboveNormal(v)   == v > 132

-----------------------------------------------------------------------------
\* Mutation: the charging ports are forgotten.
ApplyActions_ApOnly(l) ==
  /\ userAp' \in {Levels!ApOn(l), userAp}
  /\ UNCHANGED portsAllowed

\* apply_actions_for_state.  esp_wifi_set_mode may fail; set_user_ap_enabled
\* then keeps its flag, and nothing tries again before the next transition.
ApplyActions(l) ==
  /\ userAp' \in {Levels!ApOn(l), userAp}
  /\ portsAllowed' = Levels!PortsOn(l)

TransitionTo(l) ==
  /\ level' = l
  /\ toWarning' = 0 /\ toCritical' = 0 /\ toCharging' = 0 /\ toNormal' = 0
  /\ ApplyActions(l)
  /\ recent' = <<>>

\* Mutation: one reading that fails the predicate does not start over.
Counted_NoReset(c, holds) == IF holds THEN c + 1 ELSE c

\* A counter after one more reading.
Counted(c, holds) == IF holds THEN c + 1 ELSE 0

Remember(v) ==
  recent' = SubSeq(Append(recent, v),
                   IF Len(recent) = Debounce THEN 2 ELSE 1, Len(recent) + 1)

\* No transition: the counters keep their new values.
Stay(v) ==
  /\ Remember(v)
  /\ UNCHANGED <<level, portsAllowed, userAp>>

\* Mutation: the transition waits for one reading too many.
InNormal_OffByOne(v) ==
  /\ level = "normal"
  /\ LET c == Counted(toWarning, BelowWarning(v))
     IN  IF c > Debounce
           THEN TransitionTo("warning")
           ELSE /\ toWarning' = c
                /\ UNCHANGED <<toCritical, toCharging, toNormal>>
                /\ Stay(v)

(***************************************************************************)
(* evaluate_transitions, one action per state.  In "warning" the two       *)
(* predicates exclude each other, so at most one transition is taken.      *)
(***************************************************************************)
InNormal(v) ==
  /\ level = "normal"
  /\ LET c == Counted(toWarning, BelowWarning(v))
     IN  IF c >= Debounce
           THEN TransitionTo("warning")
           ELSE /\ toWarning' = c
                /\ UNCHANGED <<toCritical, toCharging, toNormal>>
                /\ Stay(v)

InWarning(v) ==
  /\ level = "warning"
  /\ LET c == Counted(toCritical, BelowCritical(v))
         n == Counted(toNormal, AboveNormal(v))
     IN  CASE c >= Debounce -> TransitionTo("critical")
           [] n >= Debounce -> TransitionTo("normal")
           [] OTHER -> /\ toCritical' = c /\ toNormal' = n
                       /\ UNCHANGED <<toWarning, toCharging>>
                       /\ Stay(v)

\* Mutation: there is no case for "wake_up".
InLow_CriticalOnly(v) ==
  /\ level = "critical"
  /\ LET c == Counted(toCharging, AboveCharging(v))
     IN  IF c >= Debounce
           THEN TransitionTo("charging_on")
           ELSE /\ toCharging' = c
                /\ UNCHANGED <<toWarning, toCritical, toNormal>>
                /\ Stay(v)

InLow(v) ==
  /\ level \in {"critical", "wake_up"}
  /\ LET c == Counted(toCharging, AboveCharging(v))
     IN  IF c >= Debounce
           THEN TransitionTo("charging_on")
           ELSE /\ toCharging' = c
                /\ UNCHANGED <<toWarning, toCritical, toNormal>>
                /\ Stay(v)

InChargingOn(v) ==
  /\ level = "charging_on"
  /\ LET n == Counted(toNormal, AboveNormal(v))
     IN  IF n >= Debounce
           THEN TransitionTo("normal")
           ELSE /\ toNormal' = n
                /\ UNCHANGED <<toWarning, toCritical, toCharging>>
                /\ Stay(v)

\* One round of the loop of battery_task.  A failed read changes nothing.
Sample ==
  /\ booted
  /\ InNormal(volt) \/ InWarning(volt) \/ InLow(volt) \/ InChargingOn(volt)
  /\ UNCHANGED <<volt, booted>>

\* determine_boot_state
BootState(v) ==
  CASE v > 132 -> "normal"
    [] v > 128 /\ v <= 132 -> "charging_on"
    [] v > 124 /\ v <= 128 -> "wake_up"
    [] v > 118 /\ v <= 124 -> "warning"
    [] v <= 118 -> "critical"

\* The start of battery_task: the average of the readings that succeeded,
\* or 0 if none did.
Boot ==
  /\ ~booted
  /\ booted' = TRUE
  /\ \E v \in {volt, 0} :
       /\ level' = BootState(v)
       /\ ApplyActions(BootState(v))
  /\ UNCHANGED <<volt, counters, recent>>

\* The battery is drained and charged while the program does other things.
Drift ==
  /\ volt' \in Voltages \ {volt}
  /\ UNCHANGED <<booted, level, counters, portsAllowed, userAp, recent>>

\* The charge controller cuts the power, or the chip restarts: static
\* storage gets its initial values again.
PowerCycle ==
  /\ booted' = FALSE
  /\ level' = "normal"
  /\ toWarning' = 0 /\ toCritical' = 0 /\ toCharging' = 0 /\ toNormal' = 0
  /\ portsAllowed' = TRUE
  /\ userAp' = TRUE
  /\ recent' = <<>>
  /\ UNCHANGED volt

BatteryInit ==
  /\ volt \in Voltages
  /\ booted = FALSE
  /\ level = "normal"
  /\ toWarning = 0 /\ toCritical = 0 /\ toCharging = 0 /\ toNormal = 0
  /\ portsAllowed = TRUE
  /\ userAp = TRUE
  /\ recent = <<>>

BatteryNext == Sample \/ Boot \/ Drift \/ PowerCycle

BatterySpec == BatteryInit /\ [][BatteryNext]_battery

\* The task is scheduled and its reads do not fail for ever.
FairBattery == BatterySpec /\ WF_battery(Sample) /\ WF_battery(Boot)

-----------------------------------------------------------------------------
\* The readings that justify the move from level l to level k.
Justifies(l, k, v) ==
  CASE k = "warning"     -> BelowWarning(v)
    [] k = "critical"    -> BelowCritical(v)
    [] k = "charging_on" -> AboveCharging(v)
    [] k = "normal"      -> AboveNormal(v)

(* A level is left only after Debounce readings in a row, all taken at that *)
(* level, that each justify the move: no dip, no reading from before the    *)
(* last transition and no counter of another transition contributes.        *)
MovesAreSustained ==
  [][booted /\ booted' /\ level' # level =>
       LET seen == Append(recent, volt)
           first == Len(seen) - Debounce + 1
       IN  /\ first >= 1
           /\ \A i \in first .. Len(seen) : Justifies(level, level', seen[i])
    ]_battery

(* The state machine with its counters implements ServiceLevels: levels are *)
(* changed along its arrows only, and the permissions follow the level.     *)
ImplementsServiceLevels == Levels!LevelsSpec

(* A charged battery brings the whole service back, from whatever level the *)
(* station was at, unless the station keeps losing power.                   *)
ChargedIsNormal ==
  <>[](AboveNormal(volt)) /\ <>[][~PowerCycle]_battery
    => <>[](level = "normal")

(* A battery that stays below 11.8 V blocks the charging ports.             *)
DrainedBlocksPorts ==
  <>[](BelowCritical(volt)) /\ <>[][~PowerCycle]_battery
    => <>[](~portsAllowed)

=============================================================================
