--------------------------- MODULE PowerGateProofs ---------------------------
(***************************************************************************)
(* Proofs about module PowerGate, for any number of outputs: every         *)
(* variable keeps its type, and no output rises while the battery blocks   *)
(* them, apart from the call that was under way when the block came.       *)
(***************************************************************************)
EXTENDS PowerGate, TLAPS

Places == {"none", "check", "gate", "compare", "record", "write"}
Polls  == {"top", "poll", "end"}

\* The parts of the type invariant that the steps of the tasks change.
CallType ==
  /\ call \in [Task -> Call]
  /\ rfid \in Polls
  /\ loops \in 0 .. 2
  /\ card \in {"none", "valid", "invalid"}

(***************************************************************************)
(* A call past the gate switches off if the battery blocks the outputs and *)
(* a loop has been counted since; the battery task only ever switches off. *)
(***************************************************************************)
Passed == {"compare", "record", "write"}

GateHolds ==
  /\ ~ call["battery"].on
  /\ ~ portsAllowed /\ loops > 0 =>
       (call["rfid"].at \in Passed => ~ call["rfid"].on)

PowerInv == PowerTypeOK /\ GateHolds

LEMMA TaskNames == "rfid" \in Task /\ "battery" \in Task
BY DEF Task

LEMMA NoCallType == NoCall \in Call /\ NoCall.at = "none" /\ ~ NoCall.on
BY PowerAssumption DEF NoCall, Call

(* What set_power_state does to the call it is in.                         *)
LEMMA EntersCall ==
  ASSUME call \in [Task -> Call], NEW t \in Task, NEW on \in BOOLEAN,
         Enters(t, on)
  PROVE  /\ call' \in [Task -> Call]
         /\ call'[t] = [at |-> "gate", on |-> on, pin |-> 0]
         /\ \A u \in Task \ {t} : call'[u] = call[u]
<1> DEFINE c == [at |-> "gate", on |-> on, pin |-> 0]
<1>1. c \in Call
  BY PowerAssumption DEF Call
<1>2. call' = [call EXCEPT ![t] = c]
  BY DEF Enters
<1> HIDE DEF c
<1>3. call' \in [Task -> Call] /\ call'[t] = c
      /\ \A u \in Task \ {t} : call'[u] = call[u]
  BY <1>1, <1>2
<1> QED BY <1>3 DEF c

LEMMA GoesCall ==
  ASSUME call \in [Task -> Call], NEW t \in Task, NEW at \in Places,
         Goes(t, at)
  PROVE  /\ call' \in [Task -> Call]
         /\ call'[t].at = at /\ call'[t].on = call[t].on
         /\ \A u \in Task \ {t} : call'[u] = call[u]
BY PowerAssumption DEF Goes, Call, Places

LEMMA ReturnsCall ==
  ASSUME call \in [Task -> Call], NEW t \in Task, Returns(t)
  PROVE  /\ call' \in [Task -> Call]
         /\ call'[t] = NoCall
         /\ \A u \in Task \ {t} : call'[u] = call[u]
BY NoCallType DEF Returns

-----------------------------------------------------------------------------
(* The type invariant in parts that no step changes all at once.           *)
LevelsType ==
  /\ booted \in BOOLEAN /\ level \in Level
  /\ portsAllowed \in BOOLEAN /\ userAp \in BOOLEAN

FlagsType == fresh \in BOOLEAN /\ present \in BOOLEAN

PinsType == portsActive \in BOOLEAN /\ pins \in [Pin -> BOOLEAN]

LEMMA TypeParts ==
  PowerTypeOK <=> LevelsType /\ FlagsType /\ PinsType /\ CallType
BY DEF PowerTypeOK, LevelsType, FlagsType, PinsType, CallType, Polls

LEMMA TypePartsNext ==
  LevelsType' /\ FlagsType' /\ PinsType' /\ CallType' => PowerTypeOK'
BY DEF PowerTypeOK, LevelsType, FlagsType, PinsType, CallType, Polls

LEMMA LevelsUnchanged ==
  ASSUME LevelsType, UNCHANGED <<booted, level, portsAllowed, userAp>>
  PROVE  LevelsType'
BY DEF LevelsType

LEMMA PinsUnchanged ==
  ASSUME PinsType, UNCHANGED <<portsActive, pins>> PROVE PinsType'
BY DEF PinsType

LEMMA FlagsUnchanged ==
  ASSUME FlagsType, UNCHANGED <<fresh, present>> PROVE FlagsType'
BY DEF FlagsType

-----------------------------------------------------------------------------
(* The steps of set_power_state: a request to switch on gets past the gate *)
(* only while the battery permits it, and never turns into one.            *)
CallStep(t) ==
  /\ call' \in [Task -> Call]
  /\ \A u \in Task \ {t} : call'[u] = call[u]
  /\ call'[t].on => call[t].on
  /\ call'[t].at \in Passed =>
       call[t].at \in Passed \/ (call'[t].on => portsAllowed)

LEMMA GateStep ==
  ASSUME CallType, portsAllowed \in BOOLEAN, NEW t \in Task, Gate(t)
  PROVE  CallStep(t)
<1> DEFINE c == [call[t] EXCEPT !.at = "compare",
                                !.on = call[t].on /\ portsAllowed]
<1>1. call \in [Task -> Call] /\ call[t] \in Call
  BY DEF CallType
<1>2. call' = [call EXCEPT ![t] = c]
  BY <1>1 DEF Gate, Call
<1>3. /\ c \in Call /\ c.at = "compare"
      /\ c.on => call[t].on /\ portsAllowed
  BY <1>1 DEF Call
<1> HIDE DEF c
<1>4. call' \in [Task -> Call] /\ call'[t] = c
      /\ \A u \in Task \ {t} : call'[u] = call[u]
  BY <1>1, <1>2, <1>3
<1> QED BY <1>3, <1>4 DEF CallStep

LEMMA ReturnStep ==
  ASSUME CallType, NEW t \in Task, Returns(t)
  PROVE  CallStep(t)
<1>1. /\ call' \in [Task -> Call] /\ call'[t] = NoCall
      /\ \A u \in Task \ {t} : call'[u] = call[u]
  BY ReturnsCall DEF CallType
<1> QED BY <1>1, NoCallType DEF CallStep, Passed

LEMMA CompareStep ==
  ASSUME CallType, NEW t \in Task, Compare(t)
  PROVE  CallStep(t)
<1>1. CASE Returns(t)
  BY <1>1, ReturnStep
<1>2. CASE Goes(t, "record")
  <2>1. /\ call' \in [Task -> Call]
        /\ call'[t].at = "record" /\ call'[t].on = call[t].on
        /\ \A u \in Task \ {t} : call'[u] = call[u]
    BY <1>2, GoesCall DEF CallType, Places
  <2>2. call[t].at \in Passed
    BY DEF Compare, Passed
  <2> QED BY <2>1, <2>2 DEF CallStep
<1> QED BY <1>1, <1>2 DEF Compare

LEMMA RecordStep ==
  ASSUME CallType, NEW t \in Task, Record(t)
  PROVE  CallStep(t) /\ portsActive' \in BOOLEAN
<1>1. /\ call \in [Task -> Call] /\ call[t] \in Call
      /\ 1 \in 0 .. NumPins
  BY PowerAssumption DEF CallType
<1>2. /\ call' = [call EXCEPT ![t].at = "write", ![t].pin = 1]
      /\ portsActive' = call[t].on
      /\ call[t].at \in Passed
  BY DEF Record, Passed
<1>3. /\ call' \in [Task -> Call]
      /\ \A u \in Task \ {t} : call'[u] = call[u]
      /\ call'[t].on = call[t].on
  BY <1>1, <1>2 DEF Call
<1>4. portsActive' \in BOOLEAN
  BY <1>1, <1>2 DEF Call
<1> QED BY <1>2, <1>3, <1>4 DEF CallStep

LEMMA WritePinStep ==
  ASSUME CallType, pins \in [Pin -> BOOLEAN], NEW t \in Task, WritePin(t)
  PROVE  CallStep(t) /\ pins' \in [Pin -> BOOLEAN]
<1>1. call \in [Task -> Call] /\ call[t] \in Call /\ NumPins \in Nat
  BY PowerAssumption DEF CallType
<1>2. pins' = [pins EXCEPT ![call[t].pin] = call[t].on]
      /\ call[t].at \in Passed
  BY DEF WritePin, Passed
<1>3. pins' \in [Pin -> BOOLEAN]
  BY <1>1, <1>2 DEF Call
<1>4. CASE Returns(t)
  BY <1>3, <1>4, ReturnStep
<1>5. CASE /\ call[t].pin # NumPins
           /\ call' = [call EXCEPT ![t].pin = @ + 1]
  <2>1. call[t].pin + 1 \in 0 .. NumPins
    BY <1>1, <1>5 DEF Call
  <2>2. /\ call' \in [Task -> Call]
        /\ \A u \in Task \ {t} : call'[u] = call[u]
        /\ call'[t].on = call[t].on
    BY <1>1, <1>5, <2>1 DEF Call
  <2> QED BY <1>2, <1>3, <2>2 DEF CallStep
<1> QED BY <1>4, <1>5 DEF WritePin

LEMMA SetPowerStep ==
  ASSUME PowerTypeOK, NEW t \in Task, SetPowerState(t)
  PROVE  CallStep(t) /\ PinsType'
<1>1. CallType /\ PinsType /\ portsAllowed \in BOOLEAN
  BY TypeParts DEF LevelsType
<1>2. CASE Gate(t)
  BY <1>1, <1>2, GateStep, PinsUnchanged DEF Gate
<1>3. CASE Compare(t)
  BY <1>1, <1>3, CompareStep, PinsUnchanged DEF Compare
<1>4. CASE Record(t)
  <2>1. pins' = pins
    BY <1>4 DEF Record
  <2> QED BY <1>1, <1>4, <2>1, RecordStep DEF PinsType
<1>5. CASE WritePin(t)
  <2>1. portsActive' = portsActive
    BY <1>5 DEF WritePin
  <2> QED BY <1>1, <1>5, <2>1, WritePinStep DEF PinsType
<1> QED BY <1>2, <1>3, <1>4, <1>5 DEF SetPowerState

-----------------------------------------------------------------------------
(* The actions.  Each keeps the invariant.                                 *)

\* A step that leaves the calls in a state where the rfid task is not past
\* the gate, or as they were.
LEMMA NotPassedHolds ==
  ASSUME ~ call'["battery"].on, call'["rfid"].at \notin Passed
  PROVE  GateHolds'
BY DEF GateHolds

LEMMA CountsType ==
  ASSUME loops \in 0 .. 2, NEW effective, Counts(effective)
  PROVE  loops' \in 0 .. 2
BY DEF Counts

LEMMA InvParts ==
  PowerInv => /\ LevelsType /\ FlagsType /\ PinsType /\ CallType
              /\ ~ call["battery"].on
              /\ call \in [Task -> Call] /\ loops \in 0 .. 2
BY TypeParts DEF PowerInv, GateHolds, CallType

LEMMA SetPowerKeeps ==
  ASSUME PowerInv, NEW t \in Task, SetPowerState(t)
  PROVE  PowerInv'
<1>1. /\ UNCHANGED <<booted, level, portsAllowed, userAp>>
      /\ UNCHANGED <<fresh, present>>
      /\ card' = card /\ rfid' = rfid /\ loops' = loops
      /\ portsAllowed' = portsAllowed
  BY DEF SetPowerState, outside
<1>2. CallStep(t) /\ PinsType'
  BY SetPowerStep DEF PowerInv
<1>3. LevelsType' /\ FlagsType'
  BY <1>1, InvParts, LevelsUnchanged, FlagsUnchanged
<1>4. CallType'
  BY <1>1, <1>2, InvParts DEF CallStep, CallType
<1>5. ~ call'["battery"].on
  BY <1>2, InvParts, TaskNames DEF CallStep
<1>6. ~ portsAllowed /\ loops > 0 /\ call'["rfid"].at \in Passed
        => ~ call'["rfid"].on
  BY <1>2, TaskNames DEF CallStep, PowerInv, GateHolds
<1>7. GateHolds'
  BY <1>1, <1>5, <1>6 DEF GateHolds
<1> QED BY <1>2, <1>3, <1>4, <1>7, TypePartsNext DEF PowerInv

\* The loop of the rfid task enters set_power_state or leaves it alone.
LEMMA RfidCall ==
  ASSUME PowerInv, call["rfid"] = NoCall, NEW on \in BOOLEAN,
         Enters("rfid", on) \/ UNCHANGED call
  PROVE  /\ call' \in [Task -> Call]
         /\ GateHolds'
<1>1. "gate" \notin Passed /\ "none" \notin Passed
  BY DEF Passed
<1>2. "battery" \in Task \ {"rfid"} /\ "rfid" \in Task
  BY DEF Task
<1>3. CASE Enters("rfid", on)
  <2>1. /\ call' \in [Task -> Call]
        /\ call'["rfid"] = [at |-> "gate", on |-> on, pin |-> 0]
        /\ call'["battery"] = call["battery"]
    BY <1>2, <1>3, InvParts, EntersCall
  <2>2. call'["rfid"].at = "gate"
    BY <2>1
  <2> QED BY <1>1, <2>1, <2>2, InvParts, NotPassedHolds
<1>4. CASE UNCHANGED call
  BY <1>1, <1>4, InvParts, NoCallType, NotPassedHolds
<1> QED BY <1>3, <1>4

LEMMA RfidLoopKeeps ==
  ASSUME PowerInv, call["rfid"] = NoCall, NEW on \in BOOLEAN,
         Enters("rfid", on) \/ UNCHANGED call,
         loops' \in 0 .. 2, rfid' \in Polls, FlagsType',
         UNCHANGED <<outside, portsActive, pins>>
  PROVE  PowerInv'
<1>1. /\ UNCHANGED <<booted, level, portsAllowed, userAp>>
      /\ card' = card /\ UNCHANGED <<portsActive, pins>>
  BY DEF outside
<1>2. LevelsType' /\ PinsType'
  BY <1>1, InvParts, LevelsUnchanged, PinsUnchanged
<1>3. CallType' /\ GateHolds'
  BY <1>1, InvParts, RfidCall DEF CallType
<1> QED BY <1>2, <1>3, TypePartsNext DEF PowerInv

LEMMA TopKeeps == ASSUME PowerInv, Top PROVE PowerInv'
<1>1. /\ call["rfid"] = NoCall
      /\ Enters("rfid", FALSE) \/ UNCHANGED call
      /\ UNCHANGED <<outside, portsActive, pins>>
      /\ UNCHANGED <<fresh, present>>
      /\ rfid' \in Polls
  BY DEF Top, Polls
<1>2. loops' \in 0 .. 2
  BY InvParts, CountsType DEF Top
<1>3. FlagsType'
  BY <1>1, InvParts, FlagsUnchanged
<1> QED BY <1>1, <1>2, <1>3, RfidLoopKeeps

LEMMA PollAuthorizedKeeps == ASSUME PowerInv, PollAuthorized PROVE PowerInv'
<1>1. /\ call["rfid"] = NoCall /\ Enters("rfid", TRUE)
      /\ UNCHANGED <<outside, portsActive, pins>>
      /\ rfid' \in Polls
  BY DEF PollAuthorized, Polls
<1>2. loops' \in 0 .. 2
  BY InvParts, CountsType DEF PollAuthorized
<1>3. FlagsType'
  BY DEF PollAuthorized, FlagsType
<1> QED BY <1>1, <1>2, <1>3, RfidLoopKeeps

LEMMA PollUnauthorizedKeeps ==
  ASSUME PowerInv, PollUnauthorized PROVE PowerInv'
<1>1. /\ call["rfid"] = NoCall /\ Enters("rfid", FALSE)
      /\ UNCHANGED <<outside, portsActive, pins>>
      /\ rfid' \in Polls /\ loops' = loops
  BY DEF PollUnauthorized, Polls
<1>2. FlagsType'
  BY InvParts DEF PollUnauthorized, FlagsType
<1> QED BY <1>1, <1>2, InvParts, RfidLoopKeeps

LEMMA PollNothingKeeps == ASSUME PowerInv, PollNothing PROVE PowerInv'
<1>1. /\ call["rfid"] = NoCall /\ UNCHANGED call
      /\ UNCHANGED <<outside, portsActive, pins>>
      /\ rfid' \in Polls /\ loops' = loops
  BY DEF PollNothing, Polls
<1>2. FlagsType'
  BY InvParts DEF PollNothing, FlagsType
<1> QED BY <1>1, <1>2, InvParts, RfidLoopKeeps

LEMMA LoopEndKeeps == ASSUME PowerInv, LoopEnd PROVE PowerInv'
<1>1. /\ call["rfid"] = NoCall /\ UNCHANGED call
      /\ UNCHANGED <<outside, portsActive, pins>>
      /\ UNCHANGED <<fresh, present>>
      /\ rfid' \in Polls /\ loops' = loops
  BY DEF LoopEnd, Polls
<1> QED BY <1>1, InvParts, FlagsUnchanged, RfidLoopKeeps

\* Steps of the world: a second passes, a card is moved.
LEMMA WorldKeeps == ASSUME PowerInv, Timeout \/ MoveCard PROVE PowerInv'
<1>1. /\ UNCHANGED <<booted, level, portsAllowed, userAp>>
      /\ UNCHANGED <<portsActive, pins>>
      /\ call' = call /\ loops' = loops /\ rfid' = rfid
      /\ portsAllowed' = portsAllowed
  BY DEF Timeout, MoveCard, outside
<1>2. LevelsType' /\ PinsType'
  BY <1>1, InvParts, LevelsUnchanged, PinsUnchanged
<1>3. FlagsType'
  BY InvParts DEF Timeout, MoveCard, FlagsType
<1>4. card' \in {"none", "valid", "invalid"}
  BY InvParts DEF Timeout, MoveCard, outside, CallType
<1>5. CallType'
  BY <1>1, <1>4, InvParts DEF CallType
<1>6. GateHolds'
  BY <1>1 DEF PowerInv, GateHolds
<1> QED BY <1>2, <1>3, <1>5, <1>6, TypePartsNext DEF PowerInv

LEMMA EnterType ==
  ASSUME LevelsType, NEW l \in Level, Enter(l), booted' \in BOOLEAN
  PROVE  LevelsType'
<1>1. /\ (portsAllowed' = PortsOn(l))
      /\ (userAp' = ApOn(l)) \/ (userAp' = userAp)
      /\ userAp \in BOOLEAN /\ level' = l
  BY DEF Enter, LevelsType
<1>2. PortsOn(l) \in BOOLEAN /\ ApOn(l) \in BOOLEAN
  BY DEF PortsOn, ApOn
<1>3. portsAllowed' \in BOOLEAN /\ userAp' \in BOOLEAN
  BY <1>1, <1>2
<1> QED BY <1>1, <1>3 DEF LevelsType

LEMMA AfterType ==
  ASSUME NEW l \in Level PROVE After(l) \in SUBSET Level
BY DEF After, Level

\* Where the battery's call goes, it never asks to switch on.
LEMMA BatteryCall ==
  ASSUME PowerInv,
         \/ Goes("battery", "check") /\ call["battery"] = NoCall
         \/ Enters("battery", FALSE)
         \/ Returns("battery")
         \/ UNCHANGED call
  PROVE  /\ call' \in [Task -> Call]
         /\ ~ call'["battery"].on
         /\ call'["rfid"] = call["rfid"]
<1>1. "rfid" \in Task \ {"battery"} /\ "battery" \in Task
  BY DEF Task
<1>2. CASE Goes("battery", "check") /\ call["battery"] = NoCall
  BY <1>1, <1>2, InvParts, GoesCall, NoCallType DEF Places
<1>3. CASE Enters("battery", FALSE)
  <2>1. /\ call' \in [Task -> Call] /\ call'["rfid"] = call["rfid"]
        /\ call'["battery"] = [at |-> "gate", on |-> FALSE, pin |-> 0]
    BY <1>1, <1>3, InvParts, EntersCall
  <2>2. ~ call'["battery"].on
    BY <2>1
  <2> QED BY <2>1, <2>2
<1>4. CASE Returns("battery")
  BY <1>1, <1>4, InvParts, ReturnsCall, NoCallType
<1>5. CASE UNCHANGED call
  BY <1>5, InvParts
<1> QED BY <1>2, <1>3, <1>4, <1>5

LEMMA NewLevelKeeps == ASSUME PowerInv, NewLevel PROVE PowerInv'
<1>1. /\ UNCHANGED <<portsActive, pins>> /\ UNCHANGED <<fresh, present>>
      /\ card' = card /\ rfid' = rfid /\ loops' = 0
  BY DEF NewLevel
<1>2. LevelsType'
  <2>1. LevelsType
    BY InvParts
  <2>2. level \in Level
    BY <2>1 DEF LevelsType
  <2>3. CASE Choose
    BY <2>1, <2>3, EnterType DEF Choose
  <2>4. CASE Change
    <3>1. PICK l \in After(level) : Enter(l)
      BY <2>4 DEF Change
    <3>2. l \in Level /\ booted' = booted
      BY <2>2, <2>4, AfterType DEF Change
    <3>3. booted' \in BOOLEAN
      BY <2>1, <3>2 DEF LevelsType
    <3> QED BY <2>1, <3>1, <3>2, <3>3, EnterType
  <2> QED BY <2>3, <2>4 DEF NewLevel
<1>3. /\ call["battery"] = NoCall
      /\ Goes("battery", "check") \/ UNCHANGED call
  BY DEF NewLevel
<1>4. call' \in [Task -> Call] /\ ~ call'["battery"].on
  BY <1>3, BatteryCall
<1>5. CallType'
  BY <1>1, <1>4, InvParts DEF CallType
<1>6. GateHolds'
  BY <1>1, <1>4 DEF GateHolds
<1>7. PinsType' /\ FlagsType'
  BY <1>1, InvParts, PinsUnchanged, FlagsUnchanged
<1> QED BY <1>2, <1>5, <1>6, <1>7, TypePartsNext DEF PowerInv

LEMMA CheckKeeps == ASSUME PowerInv, Check PROVE PowerInv'
<1>1. /\ UNCHANGED <<booted, level, portsAllowed, userAp>>
      /\ UNCHANGED <<portsActive, pins>> /\ UNCHANGED <<fresh, present>>
      /\ card' = card /\ rfid' = rfid /\ loops' = loops
      /\ portsAllowed' = portsAllowed
      /\ Enters("battery", FALSE) \/ Returns("battery")
  BY DEF Check, outside
<1>2. /\ call' \in [Task -> Call] /\ ~ call'["battery"].on
      /\ call'["rfid"] = call["rfid"]
  BY <1>1, BatteryCall
<1>3. CallType'
  BY <1>1, <1>2, InvParts DEF CallType
<1>4. GateHolds'
  BY <1>1, <1>2 DEF PowerInv, GateHolds
<1>5. LevelsType' /\ PinsType' /\ FlagsType'
  BY <1>1, InvParts, LevelsUnchanged, PinsUnchanged, FlagsUnchanged
<1> QED BY <1>3, <1>4, <1>5, TypePartsNext DEF PowerInv

-----------------------------------------------------------------------------
(* The invariant holds initially and every step keeps it.                  *)
LEMMA PowerInvInitially == ASSUME GateInit PROVE PowerInv
<1>1. LevelsType
  BY DEF GateInit, LevelsInit, LevelsType, Level
<1>2. FlagsType
  BY DEF GateInit, FlagsType
<1>3. PinsType
  BY DEF GateInit, PinsType
<1>4. call = [t \in Task |-> NoCall] /\ call \in [Task -> Call]
  BY NoCallType DEF GateInit
<1>5. CallType
  BY <1>4 DEF GateInit, CallType, Polls
<1>6. GateHolds
  BY <1>4, NoCallType, TaskNames DEF GateHolds, Passed
<1> QED BY <1>1, <1>2, <1>3, <1>5, <1>6, TypeParts DEF PowerInv

LEMMA PowerInvKept == ASSUME PowerInv, [GateNext]_gate PROVE PowerInv'
<1>1. CASE RfidTask
  <2>1. CASE SetPowerState("rfid")
    BY <2>1, TaskNames, SetPowerKeeps
  <2> QED BY <1>1, <2>1, TopKeeps, PollAuthorizedKeeps,
             PollUnauthorizedKeeps, PollNothingKeeps, LoopEndKeeps
          DEF RfidTask
<1>2. CASE BatteryTask
  <2>1. CASE SetPowerState("battery")
    BY <2>1, TaskNames, SetPowerKeeps
  <2> QED BY <1>2, <2>1, NewLevelKeeps, CheckKeeps DEF BatteryTask
<1>3. CASE Timeout \/ MoveCard
  BY <1>3, WorldKeeps
<1>4. CASE UNCHANGED gate
  <2>1. /\ UNCHANGED <<booted, level, portsAllowed, userAp>>
        /\ UNCHANGED <<fresh, present>> /\ UNCHANGED <<portsActive, pins>>
        /\ portsAllowed' = portsAllowed /\ call' = call
        /\ rfid' = rfid /\ loops' = loops /\ card' = card
    BY <1>4 DEF gate
  <2>2. LevelsType' /\ FlagsType' /\ PinsType'
    BY <2>1, InvParts, LevelsUnchanged, FlagsUnchanged, PinsUnchanged
  <2>3. CallType'
    BY <2>1, InvParts DEF CallType
  <2>4. GateHolds'
    BY <2>1 DEF PowerInv, GateHolds
  <2> QED BY <2>2, <2>3, <2>4, TypePartsNext DEF PowerInv
<1> QED BY <1>1, <1>2, <1>3, <1>4 DEF GateNext

LEMMA PowerInvAlways == GateSpec => []PowerInv
<1>1. GateInit => PowerInv
  BY PowerInvInitially
<1>2. PowerInv /\ [GateNext]_gate => PowerInv'
  BY PowerInvKept
<1> QED BY <1>1, <1>2, PTL DEF GateSpec

(* The variables of both tasks keep their types: in particular no call     *)
(* ever writes a pin outside the six outputs.                              *)
THEOREM PowerTypeCorrect == GateSpec => []PowerTypeOK
<1>1. PowerInv => PowerTypeOK
  BY DEF PowerInv
<1> QED BY <1>1, PowerInvAlways, PTL

-----------------------------------------------------------------------------
(* Only set_power_state writes the outputs, and past its gate no call      *)
(* switches on while the battery blocks them.                              *)
LEMMA PinsRiseInWritePin ==
  ASSUME PowerInv, [GateNext]_gate, ~ portsAllowed, loops > 0,
         NEW p \in Pin, pins'[p]
  PROVE  pins[p]
<1>1. CASE UNCHANGED pins
  BY <1>1
<1>2. CASE \E t \in Task : WritePin(t)
  <2>1. PICK t \in Task : WritePin(t)
    BY <1>2
  <2>2. call[t].at \in Passed
    BY <2>1 DEF WritePin, Passed
  <2>3. ~ call[t].on
    BY <2>2 DEF PowerInv, GateHolds, Task
  <2>4. pins' = [pins EXCEPT ![call[t].pin] = call[t].on]
    BY <2>1 DEF WritePin
  <2>5. pins \in [Pin -> BOOLEAN]
    BY InvParts DEF PinsType
  <2>6. p = call[t].pin => pins'[p] = call[t].on
    BY <2>4, <2>5
  <2>7. p # call[t].pin => pins'[p] = pins[p]
    BY <2>4, <2>5
  <2> QED BY <2>3, <2>6, <2>7
<1>3. UNCHANGED pins \/ \E t \in Task : WritePin(t)
  <2>1. CASE \E t \in Task : SetPowerState(t)
    BY <2>1 DEF SetPowerState, Gate, Compare, Record
  <2>2. CASE ~ \E t \in Task : SetPowerState(t)
    BY <2>2, TaskNames DEF GateNext, RfidTask, BatteryTask, gate, Top,
       PollAuthorized, PollUnauthorized, PollNothing, LoopEnd, NewLevel,
       Check, Timeout, MoveCard
  <2> QED BY <2>1, <2>2
<1> QED BY <1>1, <1>2, <1>3

(* While the battery blocks the outputs none is switched on any more, for  *)
(* every number of outputs and every interleaving of the two tasks, apart  *)
(* from the call that was under way when the block came.                   *)
THEOREM BlockedOutputsDoNotRise == GateSpec => BlockedPinsDoNotRise
<1>1. PowerInv /\ [GateNext]_gate =>
        [~ portsAllowed /\ loops > 0 =>
           \A p \in Pin : pins'[p] => pins[p]]_gate
  BY PinsRiseInWritePin
<1>2. GateSpec => [][GateNext]_gate
  BY DEF GateSpec
<1>3. GateSpec => [][~ portsAllowed /\ loops > 0 =>
                       \A p \in Pin : pins'[p] => pins[p]]_gate
  BY <1>1, <1>2, PowerInvAlways, PTL
<1> QED BY <1>3 DEF BlockedPinsDoNotRise

=============================================================================
