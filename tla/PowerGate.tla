------------------------------ MODULE PowerGate ------------------------------
(***************************************************************************)
(* The power outputs of the charging station (main/rfid_reader.c): the     *)
(* RFID task switches them on for an authorized card, the battery task     *)
(* forces them off through rfid_reader_set_ports_allowed.  Both run        *)
(* set_power_state with the same priority on two cores and without a lock, *)
(* so every read and write of a shared variable is a step of its own here. *)
(* The levels the battery task goes through are those of ServiceLevels,    *)
(* which Battery implements.  A restart drives every output low and begins *)
(* a new behaviour.                                                        *)
(***************************************************************************)
EXTENDS ServiceLevels

CONSTANT NumPins      \* RFID_NUM_POWER_PINS, 6 in the code

ASSUME PowerAssumption == NumPins \in Nat \ {0}

VARIABLES card,         \* what lies on the reader
          fresh,        \* now - last_valid_tick is within the timeout
          present,      \* s_card_present
          portsActive,  \* s_ports_active
          pins,         \* the levels of the GPIOs
          rfid,         \* where the RFID task is in its loop
          call,         \* the call of set_power_state of each task
          loops         \* ghost: see Counts

outside == <<booted, level, portsAllowed, userAp, card>>
gate    == <<booted, level, portsAllowed, userAp, card, fresh, present,
             portsActive, pins, rfid, call, loops>>

Task == {"rfid", "battery"}
Pin  == 1 .. NumPins
NoCall == [at |-> "none", on |-> FALSE, pin |-> 0]

Call == [at : {"none", "check", "gate", "compare", "record", "write"},
         on : BOOLEAN, pin : 0 .. NumPins]

(* Every variable keeps its type.                                          *)
PowerTypeOK ==
  /\ booted \in BOOLEAN /\ level \in Level
  /\ portsAllowed \in BOOLEAN /\ userAp \in BOOLEAN
  /\ card \in {"none", "valid", "invalid"}
  /\ fresh \in BOOLEAN /\ present \in BOOLEAN
  /\ portsActive \in BOOLEAN
  /\ pins \in [Pin -> BOOLEAN]
  /\ rfid \in {"top", "poll", "end"}
  /\ call \in [Task -> Call]
  /\ loops \in 0 .. 2

-----------------------------------------------------------------------------
(* set_power_state, step by step.                                          *)

Enters(t, on) ==
  call' = [call EXCEPT ![t] = [at |-> "gate", on |-> on, pin |-> 0]]
Goes(t, at)   == call' = [call EXCEPT ![t].at = at]
Returns(t)    == call' = [call EXCEPT ![t] = NoCall]

\* Mutation: the RFID task does not ask the battery.
Gate_Open(t) ==
  /\ call[t].at = "gate"
  /\ Goes(t, "compare")
  /\ UNCHANGED <<portsActive, pins>>

\* The battery says no: the request is turned into switching off.
Gate(t) ==
  /\ call[t].at = "gate"
  /\ call' = [call EXCEPT ![t].at = "compare",
                          ![t].on = @ /\ portsAllowed]
  /\ UNCHANGED <<portsActive, pins>>

\* Mutation: nothing is done unless something is to be switched off.
Compare_OffOnly(t) ==
  /\ call[t].at = "compare"
  /\ IF ~portsActive THEN Returns(t) ELSE Goes(t, "record")
  /\ UNCHANGED <<portsActive, pins>>

Compare(t) ==
  /\ call[t].at = "compare"
  /\ IF portsActive = call[t].on THEN Returns(t) ELSE Goes(t, "record")
  /\ UNCHANGED <<portsActive, pins>>

Record(t) ==
  /\ call[t].at = "record"
  /\ portsActive' = call[t].on
  /\ call' = [call EXCEPT ![t].at = "write", ![t].pin = 1]
  /\ UNCHANGED pins

\* Mutation: the loop over the pins runs once too often.
WritePin_OffByOne(t) ==
  /\ call[t].at = "write"
  /\ pins' = [pins EXCEPT ![call[t].pin] = call[t].on]
  /\ IF call[t].pin > NumPins
       THEN Returns(t)
       ELSE call' = [call EXCEPT ![t].pin = @ + 1]
  /\ UNCHANGED portsActive

WritePin(t) ==
  /\ call[t].at = "write"
  /\ pins' = [pins EXCEPT ![call[t].pin] = call[t].on]
  /\ IF call[t].pin = NumPins
       THEN Returns(t)
       ELSE call' = [call EXCEPT ![t].pin = @ + 1]
  /\ UNCHANGED portsActive

SetPowerState(t) ==
  /\ Gate(t) \/ Compare(t) \/ Record(t) \/ WritePin(t)
  /\ UNCHANGED <<outside, fresh, present, rfid, loops>>

-----------------------------------------------------------------------------
(* rfid_task.                                                              *)

(***************************************************************************)
(* Levels change 30 s apart, a stale read is noticed after 1 s and a loop  *)
(* takes less than 100 ms.  So at least two loops that found the last read *)
(* stale or made an authorized one begin between two changes of level,     *)
(* after the battery task has returned.  loops counts them up to 2.        *)
(***************************************************************************)
Counts(effective) ==
  loops' = IF effective /\ loops < 2 /\ call["battery"] = NoCall
             THEN loops + 1 ELSE loops

\* The last authorized read is stale: the power is cut before polling.
Top ==
  /\ rfid = "top" /\ call["rfid"] = NoCall
  /\ rfid' = "poll"
  /\ IF portsActive /\ ~fresh THEN Enters("rfid", FALSE) ELSE UNCHANGED call
  /\ Counts(~fresh)
  /\ UNCHANGED <<outside, fresh, present, portsActive, pins>>

PollAuthorized ==
  /\ rfid = "poll" /\ call["rfid"] = NoCall
  /\ card = "valid"
  /\ rfid' = "end"
  /\ fresh' = TRUE
  /\ present' = TRUE
  /\ Enters("rfid", TRUE)
  /\ Counts(TRUE)
  /\ UNCHANGED <<outside, portsActive, pins>>

PollUnauthorized ==
  /\ rfid = "poll" /\ call["rfid"] = NoCall
  /\ card = "invalid"
  /\ rfid' = "end"
  /\ present' = FALSE
  /\ Enters("rfid", FALSE)
  /\ UNCHANGED <<outside, fresh, portsActive, pins, loops>>

\* No card answers, or its UID cannot be read (then it is not yet absent).
PollNothing ==
  /\ rfid = "poll" /\ call["rfid"] = NoCall
  /\ rfid' = "end"
  /\ present' \in {present} \cup {present /\ fresh}
  /\ UNCHANGED <<outside, fresh, portsActive, pins, call, loops>>

LoopEnd ==
  /\ rfid = "end" /\ call["rfid"] = NoCall
  /\ rfid' = "top"
  /\ UNCHANGED <<outside, fresh, present, portsActive, pins, call, loops>>

\* One second passes without an authorized read.  A card that lies badly may
\* go unread that long.
Timeout ==
  /\ fresh
  /\ fresh' = FALSE
  /\ UNCHANGED <<outside, present, portsActive, pins, rfid, call, loops>>

MoveCard ==
  /\ card' \in {"none", "valid", "invalid"} \ {card}
  /\ UNCHANGED <<booted, level, portsAllowed, userAp, fresh, present,
                 portsActive, pins, rfid, call, loops>>

-----------------------------------------------------------------------------
(* battery_task, where it changes the level.                               *)

\* rfid_reader_set_ports_allowed up to its write of the permission.
NewLevel ==
  /\ call["battery"] = NoCall
  /\ loops = 2
  /\ Choose \/ Change
  /\ loops' = 0
  /\ IF portsAllowed /\ ~portsAllowed'
       THEN Goes("battery", "check") ELSE UNCHANGED call
  /\ UNCHANGED <<card, fresh, present, portsActive, pins, rfid>>

\* Its test of s_ports_active after the write.
Check ==
  /\ call["battery"].at = "check"
  /\ IF portsActive THEN Enters("battery", FALSE) ELSE Returns("battery")
  /\ UNCHANGED <<outside, fresh, present, portsActive, pins, rfid, loops>>

-----------------------------------------------------------------------------
GateInit ==
  /\ LevelsInit
  /\ card = "none" /\ fresh = FALSE /\ present = FALSE
  /\ portsActive = FALSE
  /\ pins = [p \in Pin |-> FALSE]
  /\ rfid = "top"
  /\ call = [t \in Task |-> NoCall]
  /\ loops = 2

RfidTask ==
  \/ Top \/ PollAuthorized \/ PollUnauthorized \/ PollNothing \/ LoopEnd
  \/ SetPowerState("rfid")

BatteryTask == NewLevel \/ Check \/ SetPowerState("battery")

GateNext == RfidTask \/ BatteryTask \/ Timeout \/ MoveCard

GateSpec == GateInit /\ [][GateNext]_gate

\* Both tasks are scheduled; a card that stays on the reader is read, and a
\* card that does not is timed out.
FairGate ==
  /\ GateSpec
  /\ WF_gate(RfidTask)
  /\ SF_gate(PollAuthorized)
  /\ WF_gate(Check \/ SetPowerState("battery"))
  /\ WF_gate(card # "valid" /\ Timeout)

-----------------------------------------------------------------------------
(* While the battery blocks the outputs none is switched on any more, apart *)
(* from the call of the RFID task that was under way when the block came    *)
(* (it has returned when loops counts again).                               *)
BlockedPinsDoNotRise ==
  [][ ~portsAllowed /\ loops > 0 => \A p \in Pin : pins'[p] => pins[p] ]_gate

(* Users who hold an authorized card on the reader while charging is        *)
(* allowed get power on every output, again after every timeout, whatever   *)
(* the tasks did before: no race leaves the station refusing a valid card.  *)
CardIsServed ==
  <>[](portsAllowed /\ card = "valid") => []<>(\A p \in Pin : pins[p])

(* The battery state machine forces the power outputs off in the critical   *)
(* state, regardless of card presence.                                      *)
BlockedGoesOff ==
  ~portsAllowed ~> (portsAllowed \/ \A p \in Pin : ~pins[p])

=============================================================================
