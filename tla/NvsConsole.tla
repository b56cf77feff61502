----------------------------- MODULE NvsConsole -----------------------------
(***************************************************************************)
(* The nvs_... commands of components/cmd_nvs and the one-value commands   *)
(* of components/cmd_router, all in the console task.  nvs_set converts a  *)
(* number with strtol or strtoul, which clip it to the width of long and   *)
(* leave ERANGE in errno; nothing ever clears errno before a conversion.   *)
(*                                                                         *)
(* One key of the selected namespace: no command relates two of them.      *)
(***************************************************************************)
EXTENDS Integers

CONSTANTS
  ByteWrap,   \* 2^8: numbers of i8 and u8, and in their place i16 and u16
  LongWrap,   \* 2^32: numbers of long, i32 and u32, and in their place i64 and u64
  Typed       \* numbers users type

ASSUME NvsAssumption ==
  /\ ByteWrap \in Nat \ {0} /\ LongWrap \in Nat \ {0} /\ ByteWrap < LongWrap
  /\ ByteWrap % 2 = 0 /\ LongWrap % 2 = 0
  /\ Typed \subseteq Int

VARIABLES
  conValue,    \* what nvs_get finds
  conDurable,  \* what a restart is sure to find
  conErange,   \* errno = ERANGE
  conGiven     \* what the last command was given, if it reported success

conVars == <<conValue, conDurable, conErange, conGiven>>

NumberType == {"i8", "u8", "i32", "u32"}
DataType == {"str", "blob"}
Unset == [type |-> "none", num |-> 0]
ConNumber == (-LongWrap) .. LongWrap
ConEntry == [type : NumberType \cup DataType, num : ConNumber] \cup {Unset}

(* Every variable keeps its type.                                          *)
ConTypeOK ==
  /\ conValue \in ConEntry /\ conDurable \in ConEntry
  /\ conErange \in BOOLEAN
  /\ conGiven.type \in NumberType \cup DataType \cup {"none"}

ConInit ==
  /\ conValue = Unset /\ conDurable = Unset
  /\ conErange = FALSE
  /\ conGiven = Unset

-----------------------------------------------------------------------------
(* Conversions.                                                            *)

Signed(type) == type \in {"i8", "i32"}
Wrap(type) == IF type \in {"i8", "u8"} THEN ByteWrap ELSE LongWrap
Low(type) == IF Signed(type) THEN -(Wrap(type) \div 2) ELSE 0
High(type) == (IF Signed(type) THEN Wrap(type) \div 2 ELSE Wrap(type)) - 1

Clip(x, low, high) == IF x < low THEN low ELSE IF x > high THEN high ELSE x

\* strtol clips; strtoul negates in the width of long what has a minus sign.
LongOf(type) == IF Signed(type) THEN "i32" ELSE "u32"
Clipped(type, x) ==
  IF Signed(type) THEN x < Low("i32") \/ x > High("i32")
  ELSE x < -High("u32") \/ x > High("u32")
Converted(type, x) ==
  IF Signed(type) THEN Clip(x, Low("i32"), High("i32"))
  ELSE IF Clipped(type, x) THEN High("u32") ELSE x % LongWrap

\* Mutation: the upper bound only is checked.
InRange_UpperOnly(type, x) == Converted(type, x) <= High(type)

\* The explicit comparisons of set_value_in_nvs
InRange(type, x) == Low(type) <= Converted(type, x) /\ Converted(type, x) <= High(type)

\* The conversion to the stored type, which drops the upper bits
Narrowed(type, v) ==
  LET m == v % Wrap(type)
  IN  IF m > High(type) THEN m - Wrap(type) ELSE m

-----------------------------------------------------------------------------
(* The commands.                                                           *)

Refuse == conGiven' = Unset

\* set_value_in_nvs of a number: an ERANGE of this or of any earlier
\* conversion refuses it; so does a failing call of NVS.
SetNumber(type, x) ==
  LET stored == [type |-> type, num |-> Narrowed(type, Converted(type, x))]
  IN  /\ conErange' = (conErange \/ Clipped(type, x))
      /\ \/ /\ InRange(type, x) /\ ~conErange'
            /\ conValue' = stored
            /\ conDurable' = stored
            /\ conGiven' = [type |-> type, num |-> x]
         \/ /\ InRange(type, x) /\ ~conErange'
            /\ conValue' = stored
            /\ UNCHANGED conDurable /\ Refuse
         \/ UNCHANGED <<conValue, conDurable>> /\ Refuse

\* A string is set, and then committed unless errno says ERANGE; a blob is
\* committed by store_blob before errno is looked at, and once more after.
SetData(type) ==
  LET stored == [type |-> type, num |-> 0]
  IN  /\ UNCHANGED conErange
      /\ \/ /\ conValue' = stored /\ conDurable' = stored
            /\ \/ ~conErange /\ conGiven' = stored
               \/ type = "blob" /\ Refuse
         \/ conValue' = stored /\ UNCHANGED conDurable /\ Refuse
         \/ UNCHANGED <<conValue, conDurable>> /\ Refuse

\* nvs_erase; nvs_erase_namespace says it succeeded even if it did not.
EraseKey ==
  /\ \/ conValue' = Unset /\ conDurable' \in {conDurable, Unset}
     \/ UNCHANGED <<conValue, conDurable>>
  /\ conGiven' = Unset
  /\ UNCHANGED conErange

\* set_ap_ip: set and never committed
SetApIp ==
  /\ conValue' \in {conValue, [type |-> "str", num |-> 0]}
  /\ conGiven' = Unset
  /\ UNCHANGED <<conDurable, conErange>>

\* set_sta_mac and set_ap_mac: a blob
SetMac ==
  /\ \/ /\ conValue' = [type |-> "blob", num |-> 0]
        /\ \/ conDurable' = conValue' /\ conGiven' = conValue'
           \/ UNCHANGED conDurable /\ Refuse
     \/ UNCHANGED <<conValue, conDurable>> /\ Refuse
  /\ UNCHANGED conErange

\* Another library call of the task fails and leaves its own errno.
ErrnoReplaced ==
  /\ conErange /\ conErange' = FALSE
  /\ UNCHANGED <<conValue, conDurable, conGiven>>

\* What was not committed may be lost.
ConRestart ==
  /\ conValue' \in {conValue, conDurable}
  /\ conDurable' = conValue'
  /\ conErange' = FALSE
  /\ UNCHANGED conGiven

ConNext ==
  \/ \E type \in NumberType, x \in Typed : SetNumber(type, x)
  \/ \E type \in DataType : SetData(type)
  \/ EraseKey \/ SetApIp \/ SetMac
  \/ ErrnoReplaced \/ ConRestart

ConSpec == ConInit /\ [][ConNext]_conVars

-----------------------------------------------------------------------------
(* A number nvs_set reports as stored is stored: of its type, committed,   *)
(* and equal to what was typed, though it went through two conversions and *)
(* errno.  A negative number for an unsigned type counts modulo the width  *)
(* of long, as strtoul has it.                                             *)
NvsStoresWhatWasGiven ==
  conGiven # Unset =>
    /\ conDurable.type = conGiven.type
    /\ conDurable.num = IF conGiven.num < 0 /\ ~Signed(conGiven.type)
                        THEN conGiven.num + LongWrap ELSE conGiven.num

=============================================================================
