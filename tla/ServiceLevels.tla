---------------------------- MODULE ServiceLevels ----------------------------
(***************************************************************************)
(* What the battery monitor promises to the rest of the station, with no   *)
(* voltages, samples or counters: the station is at one of five levels,    *)
(* moves between them only along the arrows below, and each level says     *)
(* whether charging is permitted and whether users get Wi-Fi.  Battery is  *)
(* shown to implement this specification; PowerGate builds on it.          *)
(***************************************************************************)
EXTENDS Naturals

VARIABLES booted,         \* the first level has been chosen
          level,          \* battery_state_t
          portsAllowed,   \* may the charging ports be powered
          userAp          \* is the access point for users up

Level == {"normal", "warning", "critical", "wake_up", "charging_on"}

PortsOn(l) == l \in {"normal", "warning", "charging_on"}
ApOn(l)    == l = "normal"

\* The levels a station can go to.  Wake-up is entered only by a restart.
After(l) ==
  CASE l = "normal"      -> {"warning"}
    [] l = "warning"     -> {"critical", "normal"}
    [] l = "critical"    -> {"charging_on"}
    [] l = "wake_up"     -> {"charging_on"}
    [] l = "charging_on" -> {"normal"}

\* Switching the access point may fail; the next level tries again.
Enter(l) ==
  /\ level' = l
  /\ portsAllowed' = PortsOn(l)
  /\ userAp' \in {ApOn(l), userAp}

LevelsInit ==
  /\ booted = FALSE
  /\ level = "normal"
  /\ portsAllowed = TRUE
  /\ userAp = TRUE

\* The first level after a restart depends on the battery alone.
Choose ==
  /\ ~booted /\ booted' = TRUE
  /\ \E l \in Level : Enter(l)

Change ==
  /\ booted /\ UNCHANGED booted
  /\ \E l \in After(level) : Enter(l)

Restart ==
  /\ booted' = FALSE
  /\ level' = "normal"
  /\ portsAllowed' = TRUE
  /\ userAp' = TRUE

LevelsNext == Choose \/ Change \/ Restart

LevelsSpec == LevelsInit /\ [][LevelsNext]_<<booted, level, portsAllowed, userAp>>

=============================================================================
