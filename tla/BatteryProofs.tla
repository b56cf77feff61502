---------------------------- MODULE BatteryProofs ----------------------------
(***************************************************************************)
(* Proofs about module Battery, for any set of voltages and any number of  *)
(* debouncing samples: the counters stay below the limit, every change of  *)
(* level is backed by that many readings in a row, and the state machine   *)
(* implements ServiceLevels.                                               *)
(***************************************************************************)
EXTENDS Battery, TLAPS

\* The last c elements of r exist and are in the set S.
Backs(r, c, S) ==
  /\ c <= Len(r)
  /\ \A i \in 1 .. Len(r) : i > Len(r) - c => r[i] \in S

Low  == {v \in Voltages : BelowWarning(v)}
Flat == {v \in Voltages : BelowCritical(v)}
Up   == {v \in Voltages : AboveCharging(v)}
Full == {v \in Voltages : AboveNormal(v)}

(***************************************************************************)
(* The inductive invariant: each counter is a number of last readings that *)
(* all passed its test, which holds only because a counter that the        *)
(* present level does not use is zero, and because nothing is counted      *)
(* before the first level has been chosen.                                 *)
(***************************************************************************)
Backed ==
  /\ Backs(recent, toWarning, Low)
  /\ Backs(recent, toCritical, Flat)
  /\ Backs(recent, toCharging, Up)
  /\ Backs(recent, toNormal, Full)

UnusedAreZero ==
  /\ level # "normal" => toWarning = 0
  /\ level # "warning" => toCritical = 0
  /\ level \notin {"critical", "wake_up"} => toCharging = 0
  /\ level \notin {"warning", "charging_on"} => toNormal = 0

Unbooted ==
  ~booted => /\ toWarning = 0 /\ toCritical = 0
             /\ toCharging = 0 /\ toNormal = 0 /\ recent = <<>>

BatteryInv == BatteryTypeOK /\ Backed /\ UnusedAreZero /\ Unbooted

-----------------------------------------------------------------------------
Remembered(r, v) ==
  SubSeq(Append(r, v), IF Len(r) = Debounce THEN 2 ELSE 1, Len(r) + 1)

LEMMA RememberedType ==
  ASSUME NEW r \in Seq(Voltages), Len(r) <= Debounce, NEW v \in Voltages
  PROVE  /\ Remembered(r, v) \in Seq(Voltages)
         /\ Len(Remembered(r, v)) =
              IF Len(r) = Debounce THEN Debounce ELSE Len(r) + 1
         /\ \A i \in 1 .. Len(Remembered(r, v)) :
              Remembered(r, v)[i] =
                Append(r, v)[IF Len(r) = Debounce THEN i + 1 ELSE i]
<1>1. CASE Len(r) = Debounce
  BY <1>1, BatteryAssumption DEF Remembered
<1>2. CASE Len(r) # Debounce
  BY <1>2, BatteryAssumption DEF Remembered
<1> QED BY <1>1, <1>2

(* A counter that is counted up or cleared still counts the last readings. *)
LEMMA CountedBacks ==
  ASSUME NEW r \in Seq(Voltages), Len(r) <= Debounce, NEW v \in Voltages,
         NEW S, NEW c \in Count, Backs(r, c, S),
         NEW holds \in BOOLEAN, holds => v \in S,
         Counted(c, holds) < Debounce
  PROVE  /\ Counted(c, holds) \in Count
         /\ Backs(Remembered(r, v), Counted(c, holds), S)
<1> DEFINE n == Remembered(r, v)
<1>1. Debounce \in Nat \ {0} /\ c \in Nat /\ Len(r) \in Nat
  BY BatteryAssumption DEF Count
<1>2. /\ n \in Seq(Voltages)
      /\ Len(n) = IF Len(r) = Debounce THEN Debounce ELSE Len(r) + 1
      /\ \A i \in 1 .. Len(n) :
           n[i] = Append(r, v)[IF Len(r) = Debounce THEN i + 1 ELSE i]
  BY RememberedType
<1>3. /\ \A i \in 1 .. Len(r) : Append(r, v)[i] = r[i]
      /\ Append(r, v)[Len(r) + 1] = v
  OBVIOUS
<1> HIDE DEF n
<1>4. CASE holds
  <2>1. Counted(c, holds) = c + 1
    BY <1>4 DEF Counted
  <2>2. c + 1 <= Len(n)
    BY <1>1, <1>2, <2>1 DEF Backs
  <2>3. ASSUME NEW i \in 1 .. Len(n), i > Len(n) - (c + 1) PROVE n[i] \in S
    <3> DEFINE k == IF Len(r) = Debounce THEN i + 1 ELSE i
    <3>1. /\ k \in 1 .. (Len(r) + 1) /\ k > Len(r) - c
          /\ n[i] = Append(r, v)[k]
      BY <1>1, <1>2, <2>3
    <3> HIDE DEF k
    <3>2. CASE k = Len(r) + 1
      BY <1>3, <1>4, <3>1, <3>2
    <3>3. CASE k # Len(r) + 1
      <4>1. k \in 1 .. Len(r)
        BY <1>1, <3>1, <3>3
      <4> QED BY <1>3, <3>1, <4>1 DEF Backs
    <3> QED BY <3>2, <3>3
  <2>4. c + 1 \in Count
    BY <1>1, <2>1 DEF Count
  <2> QED BY <2>1, <2>2, <2>3, <2>4 DEF Backs, n
<1>5. CASE ~ holds
  <2>1. Counted(c, holds) = 0
    BY <1>5 DEF Counted
  <2> QED BY <1>1, <1>2, <2>1 DEF Backs, Count, n
<1> QED BY <1>4, <1>5

LEMMA ZeroBacks ==
  ASSUME NEW r \in Seq(Voltages), NEW S
  PROVE  Backs(r, 0, S)
BY DEF Backs

-----------------------------------------------------------------------------
(* A reading that leads to no transition.  Every counter counts it, or is  *)
(* zero and stays zero, which is what Counted does when its test fails.    *)
CountsOn(c, d, S) ==
  \E holds \in BOOLEAN :
    (holds => volt \in S) /\ d = Counted(c, holds) /\ d < Debounce

LEMMA StayKeeps ==
  ASSUME BatteryInv, booted, Stay(volt), UNCHANGED <<volt, booted>>,
         CountsOn(toWarning, toWarning', Low),
         CountsOn(toCritical, toCritical', Flat),
         CountsOn(toCharging, toCharging', Up),
         CountsOn(toNormal, toNormal', Full),
         UnusedAreZero'
  PROVE  BatteryInv'
<1>1. /\ recent \in Seq(Voltages) /\ Len(recent) <= Debounce
      /\ volt \in Voltages
      /\ toWarning \in Count /\ toCritical \in Count
      /\ toCharging \in Count /\ toNormal \in Count
  BY DEF BatteryInv, BatteryTypeOK
<1>2. /\ recent' = Remembered(recent, volt) /\ volt' = volt
      /\ level' = level /\ booted' = booted
      /\ portsAllowed' = portsAllowed /\ userAp' = userAp
  BY DEF Stay, Remember, Remembered
<1>3. /\ recent' \in Seq(Voltages) /\ Len(recent') <= Debounce
  BY <1>1, <1>2, RememberedType, BatteryAssumption
<1>4. ASSUME NEW c \in Count, NEW d, NEW S, Backs(recent, c, S),
             CountsOn(c, d, S)
      PROVE  d \in Count /\ Backs(recent', d, S)
  BY <1>1, <1>2, <1>4, CountedBacks DEF CountsOn
<1>5. /\ toWarning' \in Count /\ Backs(recent', toWarning', Low)
      /\ toCritical' \in Count /\ Backs(recent', toCritical', Flat)
      /\ toCharging' \in Count /\ Backs(recent', toCharging', Up)
      /\ toNormal' \in Count /\ Backs(recent', toNormal', Full)
  BY <1>1, <1>4 DEF BatteryInv, Backed
<1>6. BatteryTypeOK'
  <2>1. /\ volt' \in Voltages /\ booted' \in BOOLEAN
        /\ level' \in Levels!Level
        /\ portsAllowed' \in BOOLEAN /\ userAp' \in BOOLEAN
    BY <1>1, <1>2 DEF BatteryInv, BatteryTypeOK
  <2> QED BY <1>3, <1>5, <2>1 DEF BatteryTypeOK
<1>7. Backed'
  BY <1>5 DEF Backed, Backs, Low, Flat, Up, Full
<1>8. Unbooted'
  BY <1>2 DEF Unbooted
<1> QED BY <1>6, <1>7, <1>8 DEF BatteryInv

LEMMA ApplyActionsType ==
  ASSUME BatteryTypeOK, NEW l, ApplyActions(l)
  PROVE  portsAllowed' \in BOOLEAN /\ userAp' \in BOOLEAN
<1>1. /\ (portsAllowed' = Levels!PortsOn(l))
      /\ (userAp' = Levels!ApOn(l)) \/ (userAp' = userAp)
      /\ userAp \in BOOLEAN
  BY DEF ApplyActions, BatteryTypeOK
<1>2. Levels!PortsOn(l) \in BOOLEAN /\ Levels!ApOn(l) \in BOOLEAN
  BY DEF Levels!PortsOn, Levels!ApOn
<1> QED BY <1>1, <1>2

(* Everything starts from nothing after a transition, and after a restart. *)
LEMMA ClearedInv ==
  ASSUME toWarning' = 0, toCritical' = 0, toCharging' = 0, toNormal' = 0,
         recent' = <<>>, volt' \in Voltages, booted' \in BOOLEAN,
         level' \in Levels!Level,
         portsAllowed' \in BOOLEAN, userAp' \in BOOLEAN
  PROVE  BatteryInv'
<1>1. 0 \in Count /\ <<>> \in Seq(Voltages) /\ Len(<<>>) <= Debounce
  BY BatteryAssumption DEF Count
<1>2. BatteryTypeOK'
  BY <1>1 DEF BatteryTypeOK
<1>3. Backed'
  BY <1>1, ZeroBacks DEF Backed, Backs
<1>4. UnusedAreZero' /\ Unbooted'
  BY DEF UnusedAreZero, Unbooted
<1> QED BY <1>2, <1>3, <1>4 DEF BatteryInv

LEMMA TransitionKeeps ==
  ASSUME BatteryInv, NEW l \in Levels!Level, TransitionTo(l),
         UNCHANGED <<volt, booted>>
  PROVE  BatteryInv'
<1>1. /\ level' = l /\ toWarning' = 0 /\ toCritical' = 0
      /\ toCharging' = 0 /\ toNormal' = 0 /\ recent' = <<>>
      /\ ApplyActions(l) /\ volt' = volt /\ booted' = booted
  BY DEF TransitionTo
<1>2. BatteryTypeOK
  BY DEF BatteryInv
<1>3. volt' \in Voltages /\ booted' \in BOOLEAN
  BY <1>1, <1>2 DEF BatteryTypeOK
<1>4. portsAllowed' \in BOOLEAN /\ userAp' \in BOOLEAN
  BY <1>1, <1>2, ApplyActionsType
<1> QED BY <1>1, <1>3, <1>4, ClearedInv

-----------------------------------------------------------------------------
(* The rounds of the loop, by level.                                       *)

\* A counter that is left at zero counts a failed test.
LEMMA ZeroCountsOn ==
  ASSUME NEW S PROVE CountsOn(0, 0, S)
<1>1. Counted(0, FALSE) = 0 /\ 0 < Debounce
  BY BatteryAssumption DEF Counted
<1>2. (FALSE => volt \in S) /\ 0 = Counted(0, FALSE) /\ 0 < Debounce
  BY <1>1
<1>3. \E holds \in BOOLEAN :
        (holds => volt \in S) /\ 0 = Counted(0, holds) /\ 0 < Debounce
  BY <1>2, Zenon
<1> QED BY <1>3 DEF CountsOn

LEMMA TestCountsOn ==
  ASSUME volt \in Voltages, NEW c,
         NEW holds \in BOOLEAN, NEW S, holds => volt \in S,
         ~ (Counted(c, holds) >= Debounce), c \in Count
  PROVE  CountsOn(c, Counted(c, holds), S)
<1>1. Counted(c, holds) < Debounce
  BY BatteryAssumption DEF Counted, Count
<1> QED BY <1>1 DEF CountsOn

LEMMA TestsAreSets ==
  ASSUME volt \in Voltages
  PROVE  /\ BelowWarning(volt) \in BOOLEAN /\ BelowCritical(volt) \in BOOLEAN
         /\ AboveCharging(volt) \in BOOLEAN /\ AboveNormal(volt) \in BOOLEAN
         /\ BelowWarning(volt) => volt \in Low
         /\ BelowCritical(volt) => volt \in Flat
         /\ AboveCharging(volt) => volt \in Up
         /\ AboveNormal(volt) => volt \in Full
BY DEF BelowWarning, BelowCritical, AboveCharging, AboveNormal,
       Low, Flat, Up, Full

LEMMA InvTypes ==
  BatteryInv => /\ volt \in Voltages
                /\ toWarning \in Count /\ toCritical \in Count
                /\ toCharging \in Count /\ toNormal \in Count
BY DEF BatteryInv, BatteryTypeOK

LEMMA InNormalKeeps ==
  ASSUME BatteryInv, booted, InNormal(volt), UNCHANGED <<volt, booted>>
  PROVE  BatteryInv'
<1> DEFINE c == Counted(toWarning, BelowWarning(volt))
<1>1. level = "normal" /\ toCritical = 0 /\ toCharging = 0 /\ toNormal = 0
  BY DEF InNormal, BatteryInv, UnusedAreZero
<1>2. CASE c >= Debounce
  BY <1>2, TransitionKeeps DEF InNormal, Levels!Level
<1>3. CASE ~ (c >= Debounce)
  <2>1. /\ toWarning' = c /\ toCritical' = 0 /\ toCharging' = 0
        /\ toNormal' = 0 /\ Stay(volt) /\ level' = level
    BY <1>1, <1>3 DEF InNormal, Stay
  <2>2. CountsOn(toWarning, toWarning', Low)
    BY <1>3, <2>1, InvTypes, TestsAreSets, TestCountsOn
  <2>3. /\ CountsOn(toCritical, toCritical', Flat)
        /\ CountsOn(toCharging, toCharging', Up)
        /\ CountsOn(toNormal, toNormal', Full)
    BY <1>1, <2>1, ZeroCountsOn
  <2>4. UnusedAreZero'
    BY <1>1, <2>1 DEF UnusedAreZero
  <2> QED BY <2>1, <2>2, <2>3, <2>4, StayKeeps
<1> QED BY <1>2, <1>3

LEMMA InWarningKeeps ==
  ASSUME BatteryInv, booted, InWarning(volt), UNCHANGED <<volt, booted>>
  PROVE  BatteryInv'
<1> DEFINE c == Counted(toCritical, BelowCritical(volt))
           n == Counted(toNormal, AboveNormal(volt))
<1>1. level = "warning" /\ toWarning = 0 /\ toCharging = 0
  BY DEF InWarning, BatteryInv, UnusedAreZero
<1>2. CASE TransitionTo("critical") \/ TransitionTo("normal")
  BY <1>2, TransitionKeeps DEF Levels!Level
<1>3. CASE /\ ~ (c >= Debounce) /\ ~ (n >= Debounce)
           /\ toCritical' = c /\ toNormal' = n
           /\ UNCHANGED <<toWarning, toCharging>>
           /\ Stay(volt)
  <2>1. /\ toWarning' = 0 /\ toCharging' = 0 /\ level' = level
    BY <1>1, <1>3 DEF Stay
  <2>2. /\ CountsOn(toCritical, toCritical', Flat)
        /\ CountsOn(toNormal, toNormal', Full)
    BY <1>3, InvTypes, TestsAreSets, TestCountsOn
  <2>3. /\ CountsOn(toWarning, toWarning', Low)
        /\ CountsOn(toCharging, toCharging', Up)
    BY <1>1, <2>1, ZeroCountsOn
  <2>4. UnusedAreZero'
    BY <1>1, <2>1 DEF UnusedAreZero
  <2> QED BY <1>3, <2>2, <2>3, <2>4, StayKeeps
<1> QED BY <1>2, <1>3 DEF InWarning

LEMMA InLowKeeps ==
  ASSUME BatteryInv, booted, InLow(volt), UNCHANGED <<volt, booted>>
  PROVE  BatteryInv'
<1> DEFINE c == Counted(toCharging, AboveCharging(volt))
<1>1. /\ level \in {"critical", "wake_up"}
      /\ toWarning = 0 /\ toCritical = 0 /\ toNormal = 0
  BY DEF InLow, BatteryInv, UnusedAreZero
<1>2. CASE c >= Debounce
  BY <1>2, TransitionKeeps DEF InLow, Levels!Level
<1>3. CASE ~ (c >= Debounce)
  <2>1. /\ toCharging' = c /\ toWarning' = 0 /\ toCritical' = 0
        /\ toNormal' = 0 /\ Stay(volt) /\ level' = level
    BY <1>1, <1>3 DEF InLow, Stay
  <2>2. CountsOn(toCharging, toCharging', Up)
    BY <1>3, <2>1, InvTypes, TestsAreSets, TestCountsOn
  <2>3. /\ CountsOn(toWarning, toWarning', Low)
        /\ CountsOn(toCritical, toCritical', Flat)
        /\ CountsOn(toNormal, toNormal', Full)
    BY <1>1, <2>1, ZeroCountsOn
  <2>4. UnusedAreZero'
    BY <1>1, <2>1 DEF UnusedAreZero
  <2> QED BY <2>1, <2>2, <2>3, <2>4, StayKeeps
<1> QED BY <1>2, <1>3

LEMMA InChargingOnKeeps ==
  ASSUME BatteryInv, booted, InChargingOn(volt), UNCHANGED <<volt, booted>>
  PROVE  BatteryInv'
<1> DEFINE n == Counted(toNormal, AboveNormal(volt))
<1>1. /\ level = "charging_on"
      /\ toWarning = 0 /\ toCritical = 0 /\ toCharging = 0
  BY DEF InChargingOn, BatteryInv, UnusedAreZero
<1>2. CASE n >= Debounce
  BY <1>2, TransitionKeeps DEF InChargingOn, Levels!Level
<1>3. CASE ~ (n >= Debounce)
  <2>1. /\ toNormal' = n /\ toWarning' = 0 /\ toCritical' = 0
        /\ toCharging' = 0 /\ Stay(volt) /\ level' = level
    BY <1>1, <1>3 DEF InChargingOn, Stay
  <2>2. CountsOn(toNormal, toNormal', Full)
    BY <1>3, <2>1, InvTypes, TestsAreSets, TestCountsOn
  <2>3. /\ CountsOn(toWarning, toWarning', Low)
        /\ CountsOn(toCritical, toCritical', Flat)
        /\ CountsOn(toCharging, toCharging', Up)
    BY <1>1, <2>1, ZeroCountsOn
  <2>4. UnusedAreZero'
    BY <1>1, <2>1 DEF UnusedAreZero
  <2> QED BY <2>1, <2>2, <2>3, <2>4, StayKeeps
<1> QED BY <1>2, <1>3

-----------------------------------------------------------------------------
(* The other actions.                                                      *)

LEMMA BootStateType ==
  ASSUME NEW v \in Nat
  PROVE  BootState(v) \in Levels!Level
BY DEF BootState, Levels!Level

LEMMA BootKeeps == ASSUME BatteryInv, Boot PROVE BatteryInv'
<1>1. PICK v \in {volt, 0} :
        level' = BootState(v) /\ ApplyActions(BootState(v))
  BY DEF Boot
<1>2. BatteryTypeOK /\ volt \in Nat /\ volt \in Voltages
  BY BatteryAssumption DEF BatteryInv, BatteryTypeOK
<1>3. level' \in Levels!Level
  BY <1>1, <1>2, BootStateType
<1>4. portsAllowed' \in BOOLEAN /\ userAp' \in BOOLEAN
  BY <1>1, <1>2, ApplyActionsType
<1>5. /\ ~ booted /\ booted' = TRUE /\ volt' = volt
      /\ UNCHANGED <<counters, recent>>
  BY DEF Boot
<1>6. /\ toWarning' = 0 /\ toCritical' = 0 /\ toCharging' = 0
      /\ toNormal' = 0 /\ recent' = <<>>
  BY <1>5 DEF BatteryInv, Unbooted, counters
<1> QED BY <1>2, <1>3, <1>4, <1>5, <1>6, ClearedInv

LEMMA DriftKeeps == ASSUME BatteryInv, Drift PROVE BatteryInv'
<1>1. /\ volt' \in Voltages /\ booted' = booted /\ level' = level
      /\ toWarning' = toWarning /\ toCritical' = toCritical
      /\ toCharging' = toCharging /\ toNormal' = toNormal
      /\ portsAllowed' = portsAllowed /\ userAp' = userAp
      /\ recent' = recent
  BY DEF Drift, counters
<1>2. BatteryTypeOK'
  BY <1>1 DEF BatteryInv, BatteryTypeOK
<1>3. Backed' /\ UnusedAreZero' /\ Unbooted'
  BY <1>1 DEF BatteryInv, Backed, Backs, UnusedAreZero, Unbooted,
              Low, Flat, Up, Full
<1> QED BY <1>2, <1>3 DEF BatteryInv

LEMMA PowerCycleKeeps == ASSUME BatteryInv, PowerCycle PROVE BatteryInv'
<1>1. volt' \in Voltages
  BY DEF PowerCycle, BatteryInv, BatteryTypeOK
<1>2. level' \in Levels!Level
  BY DEF PowerCycle, Levels!Level
<1> QED BY <1>1, <1>2, ClearedInv DEF PowerCycle

LEMMA BatteryInvInitially == BatteryInit => BatteryInv
<1> SUFFICES ASSUME BatteryInit PROVE BatteryInv
  OBVIOUS
<1>1. BatteryTypeOK
  <2>1. /\ 0 \in Count /\ <<>> \in Seq(Voltages) /\ Len(<<>>) <= Debounce
        /\ "normal" \in Levels!Level
    BY BatteryAssumption DEF Count, Levels!Level
  <2> QED BY <2>1, Zenon DEF BatteryInit, BatteryTypeOK
<1>2. Backed
  BY DEF BatteryInit, Backed, Backs
<1>3. UnusedAreZero /\ Unbooted
  BY DEF BatteryInit, UnusedAreZero, Unbooted
<1> QED BY <1>1, <1>2, <1>3 DEF BatteryInv

LEMMA BatteryInvKept == BatteryInv /\ [BatteryNext]_battery => BatteryInv'
<1> SUFFICES ASSUME BatteryInv, [BatteryNext]_battery PROVE BatteryInv'
  OBVIOUS
<1>1. CASE Sample
  BY <1>1, InNormalKeeps, InWarningKeeps, InLowKeeps, InChargingOnKeeps
     DEF Sample
<1>2. CASE Boot
  BY <1>2, BootKeeps
<1>3. CASE Drift
  BY <1>3, DriftKeeps
<1>4. CASE PowerCycle
  BY <1>4, PowerCycleKeeps
<1>5. CASE UNCHANGED battery
  <2>1. /\ volt' = volt /\ booted' = booted /\ level' = level
        /\ toWarning' = toWarning /\ toCritical' = toCritical
        /\ toCharging' = toCharging /\ toNormal' = toNormal
        /\ portsAllowed' = portsAllowed /\ userAp' = userAp
        /\ recent' = recent
    BY <1>5 DEF battery, counters
  <2>2. BatteryTypeOK'
    BY <2>1 DEF BatteryInv, BatteryTypeOK
  <2>3. Backed' /\ UnusedAreZero' /\ Unbooted'
    BY <2>1 DEF BatteryInv, Backed, Backs, UnusedAreZero, Unbooted,
                Low, Flat, Up, Full
  <2> QED BY <2>2, <2>3 DEF BatteryInv
<1> QED BY <1>1, <1>2, <1>3, <1>4, <1>5 DEF BatteryNext

LEMMA BatteryInvAlways == BatterySpec => []BatteryInv
BY BatteryInvInitially, BatteryInvKept, PTL DEF BatterySpec

(* Every variable keeps its type, and no counter stays at the limit.       *)
THEOREM BatteryTypeCorrect == BatterySpec => []BatteryTypeOK
<1>1. BatteryInv => BatteryTypeOK
  BY DEF BatteryInv
<1> QED BY <1>1, BatteryInvAlways, PTL

-----------------------------------------------------------------------------
(* Every move is backed by Debounce readings in a row.                     *)

Sustained(S) ==
  LET seen == Append(recent, volt)
      first == Len(seen) - Debounce + 1
  IN  /\ first >= 1
      /\ \A i \in first .. Len(seen) : seen[i] \in S

LEMMA LimitIsSustained ==
  ASSUME BatteryInv, NEW S, NEW c \in Count, Backs(recent, c, S),
         NEW holds \in BOOLEAN, holds => volt \in S,
         Counted(c, holds) >= Debounce
  PROVE  Sustained(S)
<1>1. /\ recent \in Seq(Voltages) /\ volt \in Voltages
      /\ Debounce \in Nat \ {0} /\ c \in Nat /\ Len(recent) \in Nat
  BY BatteryAssumption DEF BatteryInv, BatteryTypeOK, Count
<1>2. volt \in S /\ c + 1 >= Debounce
  BY <1>1 DEF Counted
<1> DEFINE seen == Append(recent, volt)
<1>3. /\ Len(seen) = Len(recent) + 1 /\ seen[Len(recent) + 1] = volt
      /\ \A i \in 1 .. Len(recent) : seen[i] = recent[i]
  BY <1>1
<1> HIDE DEF seen
<1>4. Len(seen) - Debounce + 1 >= 1
  BY <1>1, <1>2, <1>3 DEF Backs
<1>5. ASSUME NEW i \in (Len(seen) - Debounce + 1) .. Len(seen)
      PROVE  seen[i] \in S
  <2>1. CASE i = Len(recent) + 1
    BY <1>2, <1>3, <2>1
  <2>2. CASE i # Len(recent) + 1
    <3>1. i \in 1 .. Len(recent) /\ i > Len(recent) - c
      BY <1>1, <1>2, <1>3, <1>4, <2>2
    <3> QED BY <1>3, <3>1 DEF Backs
  <2> QED BY <2>1, <2>2
<1> QED BY <1>4, <1>5 DEF Sustained, seen

LEMMA MoveIsSustained ==
  ASSUME BatteryInv, BatteryNext, booted, booted', level' # level
  PROVE  \/ level' = "warning" /\ Sustained(Low)
         \/ level' = "critical" /\ Sustained(Flat)
         \/ level' = "charging_on" /\ Sustained(Up)
         \/ level' = "normal" /\ Sustained(Full)
<1>1. Sample
  BY DEF BatteryNext, Boot, Drift, PowerCycle
<1>2. /\ Backs(recent, toWarning, Low) /\ Backs(recent, toCritical, Flat)
      /\ Backs(recent, toCharging, Up) /\ Backs(recent, toNormal, Full)
  BY DEF BatteryInv, Backed
<1>3. CASE InNormal(volt)
  <2>1. /\ Counted(toWarning, BelowWarning(volt)) >= Debounce
        /\ level' = "warning"
    BY <1>3 DEF InNormal, Stay, TransitionTo
  <2> QED BY <1>2, <2>1, InvTypes, TestsAreSets, LimitIsSustained
<1>4. CASE InWarning(volt)
  <2>1. \/ /\ Counted(toCritical, BelowCritical(volt)) >= Debounce
           /\ level' = "critical"
        \/ /\ Counted(toNormal, AboveNormal(volt)) >= Debounce
           /\ level' = "normal"
    BY <1>4 DEF InWarning, Stay, TransitionTo
  <2> QED BY <1>2, <2>1, InvTypes, TestsAreSets, LimitIsSustained
<1>5. CASE InLow(volt)
  <2>1. /\ Counted(toCharging, AboveCharging(volt)) >= Debounce
        /\ level' = "charging_on"
    BY <1>5 DEF InLow, Stay, TransitionTo
  <2> QED BY <1>2, <2>1, InvTypes, TestsAreSets, LimitIsSustained
<1>6. CASE InChargingOn(volt)
  <2>1. /\ Counted(toNormal, AboveNormal(volt)) >= Debounce
        /\ level' = "normal"
    BY <1>6 DEF InChargingOn, Stay, TransitionTo
  <2> QED BY <1>2, <2>1, InvTypes, TestsAreSets, LimitIsSustained
<1> QED BY <1>1, <1>3, <1>4, <1>5, <1>6 DEF Sample

(* A level is left only after Debounce readings in a row that justify it.  *)
THEOREM MovesNeedSustainedReadings == BatterySpec => MovesAreSustained
<1> DEFINE Justified ==
      booted /\ booted' /\ level' # level =>
        LET seen == Append(recent, volt)
            first == Len(seen) - Debounce + 1
        IN  /\ first >= 1
            /\ \A i \in first .. Len(seen) : Justifies(level, level', seen[i])
<1>1. BatteryInv /\ [BatteryNext]_battery => [Justified]_battery
  <2> SUFFICES ASSUME BatteryInv, BatteryNext,
                      booted, booted', level' # level
               PROVE  Justified
    BY DEF battery
  <2>1. CASE level' = "warning" /\ Sustained(Low)
    BY <2>1 DEF Sustained, Justifies, Low
  <2>2. CASE level' = "critical" /\ Sustained(Flat)
    BY <2>2 DEF Sustained, Justifies, Flat
  <2>3. CASE level' = "charging_on" /\ Sustained(Up)
    BY <2>3 DEF Sustained, Justifies, Up
  <2>4. CASE level' = "normal" /\ Sustained(Full)
    BY <2>4 DEF Sustained, Justifies, Full
  <2> HIDE DEF Justified
  <2> QED BY <2>1, <2>2, <2>3, <2>4, MoveIsSustained
<1> QED BY <1>1, BatteryInvAlways, PTL DEF BatterySpec, MovesAreSustained

-----------------------------------------------------------------------------
(* The refinement.                                                         *)

LevelVars == <<booted, level, portsAllowed, userAp>>

LEMMA TransitionEnters ==
  ASSUME NEW l, TransitionTo(l) PROVE Levels!Enter(l)
BY DEF TransitionTo, ApplyActions, Levels!Enter

LEMMA StayIsStutter ==
  ASSUME NEW v, Stay(v), UNCHANGED booted PROVE UNCHANGED LevelVars
BY DEF Stay, LevelVars

LEMMA SampleRefines ==
  ASSUME Sample PROVE Levels!Change \/ UNCHANGED LevelVars
<1>1. booted /\ UNCHANGED booted
  BY DEF Sample
<1>2. CASE InNormal(volt)
  <2>1. level = "normal" /\ (TransitionTo("warning") \/ Stay(volt))
    BY <1>2 DEF InNormal
  <2>2. "warning" \in Levels!After("normal")
    BY DEF Levels!After
  <2> QED BY <1>1, <2>1, <2>2, TransitionEnters, StayIsStutter
          DEF Levels!Change
<1>3. CASE InWarning(volt)
  <2>1. /\ level = "warning"
        /\ TransitionTo("critical") \/ TransitionTo("normal") \/ Stay(volt)
    BY <1>3 DEF InWarning
  <2>2. /\ "critical" \in Levels!After("warning")
        /\ "normal" \in Levels!After("warning")
    BY DEF Levels!After
  <2> QED BY <1>1, <2>1, <2>2, TransitionEnters, StayIsStutter
          DEF Levels!Change
<1>4. CASE InLow(volt)
  <2>1. /\ level = "critical" \/ level = "wake_up"
        /\ TransitionTo("charging_on") \/ Stay(volt)
    BY <1>4 DEF InLow
  <2>2. /\ "charging_on" \in Levels!After("critical")
        /\ "charging_on" \in Levels!After("wake_up")
    BY DEF Levels!After
  <2> QED BY <1>1, <2>1, <2>2, TransitionEnters, StayIsStutter
          DEF Levels!Change
<1>5. CASE InChargingOn(volt)
  <2>1. level = "charging_on" /\ (TransitionTo("normal") \/ Stay(volt))
    BY <1>5 DEF InChargingOn
  <2>2. "normal" \in Levels!After("charging_on")
    BY DEF Levels!After
  <2> QED BY <1>1, <2>1, <2>2, TransitionEnters, StayIsStutter
          DEF Levels!Change
<1> QED BY <1>2, <1>3, <1>4, <1>5 DEF Sample

LEMMA BootRefines == ASSUME BatteryInv, Boot PROVE Levels!Choose
<1>1. PICK v \in {volt, 0} :
        level' = BootState(v) /\ ApplyActions(BootState(v))
  BY DEF Boot
<1>2. v \in Nat
  BY BatteryAssumption DEF BatteryInv, BatteryTypeOK
<1>3. BootState(v) \in Levels!Level
  BY <1>2, BootStateType
<1>4. Levels!Enter(BootState(v))
  BY <1>1 DEF ApplyActions, Levels!Enter
<1> QED BY <1>3, <1>4 DEF Boot, Levels!Choose

(* The debounced state machine, its start and its restarts implement the   *)
(* five service levels.                                                    *)
THEOREM BatteryImplementsLevels == BatterySpec => ImplementsServiceLevels
<1>1. BatteryInit => Levels!LevelsInit
  BY DEF BatteryInit, Levels!LevelsInit
<1>2. BatteryInv /\ [BatteryNext]_battery => [Levels!LevelsNext]_LevelVars
  <2> SUFFICES ASSUME BatteryInv, [BatteryNext]_battery
               PROVE  Levels!LevelsNext \/ UNCHANGED LevelVars
    OBVIOUS
  <2>1. CASE Sample
    BY <2>1, SampleRefines DEF Levels!LevelsNext
  <2>2. CASE Boot
    BY <2>2, BootRefines DEF Levels!LevelsNext
  <2>3. CASE Drift
    BY <2>3 DEF Drift, LevelVars
  <2>4. CASE PowerCycle
    BY <2>4 DEF PowerCycle, Levels!LevelsNext, Levels!Restart
  <2>5. CASE UNCHANGED battery
    BY <2>5 DEF battery, LevelVars
  <2> QED BY <2>1, <2>2, <2>3, <2>4, <2>5 DEF BatteryNext
<1> QED BY <1>1, <1>2, BatteryInvAlways, PTL
        DEF BatterySpec, ImplementsServiceLevels, Levels!LevelsSpec, LevelVars

=============================================================================
