----------------------------- MODULE QuotaStore -----------------------------
(***************************************************************************)
(* The quota records of main/http_server.c and their copy in NVS.  Portal  *)
(* has a record for every device; here there are fewer records than        *)
(* devices, the records are written to NVS now and then, every call of NVS *)
(* may fail, and the router restarts and does not know the time at first.  *)
(*                                                                         *)
(* The tasks that keep the records share them without a lock.  A flush     *)
(* blocks in each of its calls of NVS, and the other tasks go on with the  *)
(* table, and with flushes of their own, in between.                       *)
(*                                                                         *)
(* NVS is external: it copies the records at once, and a write that        *)
(* reports an error may have happened.                                     *)
(***************************************************************************)
EXTENDS Integers, FiniteSets

CONSTANTS
  Device,      \* MAC addresses
  QuotaTask,   \* the HTTP server, the event loop, the DNS server, the heartbeat
  QuotaSlots,  \* MAX_CLIENTS
  FullQuota,   \* DAILY_QUOTA_SEC
  LastDay      \* bound on the wall clock, in days

ASSUME QuotaAssumption ==
  /\ IsFiniteSet(Device)
  /\ QuotaSlots \in Nat \ {0}
  /\ FullQuota \in Nat \ {0}
  /\ LastDay \in Nat \ {0, 1}

VARIABLES
  quotaRecords,  \* s_quota_records
  quotaDirty,    \* s_quota_dirty
  dayHint,       \* s_day_hint
  flushStep,     \* the write a task in flush_quota_state is at
  storedQuota,   \* QUOTA_BLOB_KEY and QUOTA_DAY_HINT_KEY in NVS
  wallDay,       \* now / 86400, counted from 2
  timeKnown,     \* has_valid_system_time
  tornStore,     \* ghost: the records in NVS are newer than the hint there
  tornRead,      \* ghost: such a pair, or no hint, was read at boot
  overtaken      \* ghost: the records have changed since they were last
                 \* copied, and before the flush that did was over

ramVars == <<quotaRecords, quotaDirty, dayHint, flushStep, overtaken>>
tornVars == <<tornStore, tornRead>>
quotaVars == <<ramVars, storedQuota, wallDay, timeKnown, tornVars>>

QuotaSlot == 0 .. (QuotaSlots - 1)
DayId == 1 .. LastDay
NoQuota == [valid |-> FALSE]
QuotaEntry == [mac : Device, day : DayId, used : 0 .. FullQuota]
QuotaTab == [QuotaSlot -> QuotaEntry \cup {NoQuota}]
NoRecords == [i \in QuotaSlot |-> NoQuota]
FlushStep == {"none", "blob", "hint", "commit"}
NotFlushing == [t \in QuotaTask |-> "none"]

(* Every variable keeps its type.                                          *)
QuotaTypeOK ==
  /\ quotaRecords \in QuotaTab
  /\ quotaDirty \in BOOLEAN
  /\ dayHint \in DayId \cup {0}
  /\ flushStep \in [QuotaTask -> FlushStep]
  /\ storedQuota \in [blob : QuotaTab, hint : DayId \cup {0}]
  /\ wallDay \in DayId
  /\ timeKnown \in BOOLEAN
  /\ tornStore \in BOOLEAN /\ tornRead \in BOOLEAN /\ overtaken \in BOOLEAN

QuotaInit ==
  /\ quotaRecords = NoRecords /\ quotaDirty = FALSE /\ dayHint = 0
  /\ storedQuota = [blob |-> NoRecords, hint |-> 0]
  /\ wallDay = 2 /\ timeKnown = FALSE
  /\ flushStep = NotFlushing
  /\ tornStore = FALSE /\ tornRead = FALSE /\ overtaken = FALSE

-----------------------------------------------------------------------------
(* The records.                                                            *)

\* get_current_day_id, and the hint it leaves behind
HintedDay == IF dayHint # 0 THEN dayHint ELSE 1
CurrentDay == IF timeKnown THEN wallDay ELSE HintedDay
NewHint == IF timeKnown THEN wallDay ELSE dayHint

\* Mutation: the scan stops before the last record.
RecordsOf_NotLast(mac) ==
  {i \in QuotaSlot : i < QuotaSlots - 1 /\ quotaRecords[i] # NoQuota
                     /\ quotaRecords[i].mac = mac}

RecordsOf(mac) ==
  {i \in QuotaSlot : quotaRecords[i] # NoQuota /\ quotaRecords[i].mac = mac}
FreeRecords == {i \in QuotaSlot : quotaRecords[i] = NoQuota}
FirstRecord(S) == CHOOSE i \in S : \A j \in S : i <= j

\* find_or_alloc_quota_record: with none free, record 0 is taken.
RecordFor(mac) ==
  IF RecordsOf(mac) # {} THEN FirstRecord(RecordsOf(mac))
  ELSE IF FreeRecords # {} THEN FirstRecord(FreeRecords) ELSE 0

IsOf(i, mac, day) ==
  /\ RecordsOf(mac) # {}
  /\ quotaRecords[i].day = day

\* That record on that day, with n seconds added and clamped
Counted(mac, day, n) ==
  LET i == RecordFor(mac)
      sum == n + IF IsOf(i, mac, day) THEN quotaRecords[i].used ELSE 0
  IN  [quotaRecords EXCEPT ![i] =
         [mac |-> mac, day |-> day,
          used |-> IF sum > FullQuota THEN FullQuota ELSE sum]]

\* Mutation: only counted seconds make the table dirty.
Dirtied_CountedOnly(mac, day, n) == quotaDirty \/ n > 0

Dirtied(mac, day, n) == quotaDirty \/ n > 0 \/ ~IsOf(RecordFor(mac), mac, day)

-----------------------------------------------------------------------------
(* The handlers.  Each is a step of a task that is not in a flush.         *)

\* Flushes that have copied the records and not yet cleared s_quota_dirty
Copied == {t \in QuotaTask : flushStep[t] \in {"hint", "commit"}}

\* The table changes as given, perhaps behind the back of such a flush.
Change(mac, day, n) ==
  /\ quotaRecords' = Counted(mac, day, n)
  /\ quotaDirty' = Dirtied(mac, day, n)
  /\ overtaken' = (overtaken \/ (Copied # {} /\ quotaRecords' # quotaRecords))

\* get_quota_remaining_for_mac
LookUp(t, mac) ==
  /\ flushStep[t] = "none"
  /\ Change(mac, CurrentDay, 0)
  /\ dayHint' = NewHint
  /\ UNCHANGED <<flushStep, storedQuota, wallDay, timeKnown, tornVars>>

\* flush_quota_state up to the first write.  It returns if nothing is to be
\* written, if the last write is less than a minute ago and this one is not
\* forced, or if nvs_open fails.
Flush(t, dirty) ==
  \/ dirty /\ flushStep' = [flushStep EXCEPT ![t] = "blob"]
  \/ UNCHANGED flushStep

\* checkpoint_session_usage: n seconds of a session, counted on the day on
\* which it began, for which get_current_day_id was asked at the time.
Checkpoint(t, mac, day, n) ==
  /\ flushStep[t] = "none"
  /\ day <= HintedDay
  /\ Change(mac, day, n)
  /\ Flush(t, TRUE)
  /\ UNCHANGED <<dayHint, storedQuota, wallDay, timeKnown, tornVars>>

\* The same with nothing to count, when it is forced
CheckpointNothing(t) ==
  /\ flushStep[t] = "none"
  /\ Flush(t, quotaDirty)
  /\ UNCHANGED <<quotaRecords, quotaDirty, overtaken, dayHint, storedQuota,
                 wallDay, timeKnown, tornVars>>

-----------------------------------------------------------------------------
(* The rest of flush_quota_state.                                          *)

CopyRecords ==
  /\ storedQuota' = [storedQuota EXCEPT !.blob = quotaRecords]
  /\ tornStore' = (tornRead \/ storedQuota.hint # dayHint)
  /\ overtaken' = FALSE

\* Mutation: the hint is not written.
WrittenHint_Old == storedQuota.hint

WrittenHint == dayHint

CopyHint ==
  /\ storedQuota' = [storedQuota EXCEPT !.hint = WrittenHint]
  /\ tornStore' = tornRead

\* nvs_set_blob
WriteBlob(t) ==
  /\ flushStep[t] = "blob"
  /\ \/ CopyRecords /\ flushStep' = [flushStep EXCEPT ![t] = "hint"]
     \/ /\ CopyRecords \/ UNCHANGED <<storedQuota, tornStore, overtaken>>
        /\ flushStep' = [flushStep EXCEPT ![t] = "none"]
  /\ UNCHANGED <<quotaRecords, quotaDirty, dayHint, wallDay, timeKnown, tornRead>>

\* nvs_set_u32
WriteHint(t) ==
  /\ flushStep[t] = "hint"
  /\ \/ CopyHint /\ flushStep' = [flushStep EXCEPT ![t] = "commit"]
     \/ /\ CopyHint \/ UNCHANGED <<storedQuota, tornStore>>
        /\ flushStep' = [flushStep EXCEPT ![t] = "none"]
  /\ UNCHANGED <<quotaRecords, quotaDirty, overtaken, dayHint, wallDay,
                 timeKnown, tornRead>>

\* nvs_commit, and s_quota_dirty = false unless it fails
CommitFlush(t) ==
  /\ flushStep[t] = "commit"
  /\ quotaDirty' \in {quotaDirty, FALSE}
  /\ flushStep' = [flushStep EXCEPT ![t] = "none"]
  /\ UNCHANGED <<quotaRecords, overtaken, dayHint, storedQuota, wallDay,
                 timeKnown, tornVars>>

-----------------------------------------------------------------------------
(* Time and restarts.                                                      *)

DayPasses ==
  /\ wallDay < LastDay /\ wallDay' = wallDay + 1
  /\ UNCHANGED <<ramVars, storedQuota, timeKnown, tornVars>>

LearnTime ==
  /\ ~timeKnown /\ timeKnown' = TRUE
  /\ UNCHANGED <<ramVars, storedQuota, wallDay, tornVars>>

\* load_quota_state of a build with DEV_RESET_QUOTA_ON_BOOT: the keys are
\* erased unread, and either may fail to be.
LoadReset ==
  /\ quotaRecords' = NoRecords /\ dayHint' = 0
  /\ storedQuota' \in [blob : {storedQuota.blob, NoRecords}, hint : {storedQuota.hint, 0}]
  /\ tornRead' = FALSE
  /\ tornStore' = /\ storedQuota'.blob # NoRecords
                   /\ (tornStore \/ storedQuota'.hint # storedQuota.hint)

\* load_quota_state of a build without; either key may fail to be read.
LoadStored ==
  /\ \/ quotaRecords' = storedQuota.blob /\ dayHint' \in {storedQuota.hint, 0}
     \/ quotaRecords' = NoRecords /\ dayHint' \in {storedQuota.hint, 0}
  /\ tornRead' = (tornStore \/ dayHint' # storedQuota.hint)
  /\ UNCHANGED <<storedQuota, tornStore>>

\* The router restarts, with either build.
QuotaRestart ==
  /\ LoadReset \/ LoadStored
  /\ quotaDirty' = FALSE /\ flushStep' = NotFlushing /\ overtaken' = FALSE
  /\ timeKnown' = FALSE
  /\ UNCHANGED wallDay

QuotaNext ==
  \/ \E t \in QuotaTask :
        \/ \E mac \in Device : LookUp(t, mac)
        \/ \E mac \in Device, day \in DayId, n \in 1 .. FullQuota :
              Checkpoint(t, mac, day, n)
        \/ CheckpointNothing(t)
        \/ WriteBlob(t) \/ WriteHint(t) \/ CommitFlush(t)
  \/ DayPasses \/ LearnTime \/ QuotaRestart

QuotaSpec == QuotaInit /\ [][QuotaNext]_quotaVars

-----------------------------------------------------------------------------
(* A table that is not dirty is the one in NVS, so that a restart loses    *)
(* what came after the last flush and no more, however the flushes and     *)
(* changes of several tasks overlap.  One kind of change is lost to the    *)
(* flag: that which another task makes between the copy of the records     *)
(* and the clearing of s_quota_dirty by the flush that copied them.  It    *)
(* stays unsaved, and forced flushes write nothing, until something else   *)
(* changes.  Tables that were reset or could not be read are empty.        *)
FlushedIsStored ==
  ~quotaDirty /\ ~overtaken =>
     quotaRecords = storedQuota.blob \/ quotaRecords = NoRecords

(* No record is of a later day than the one in use.  One that were would   *)
(* be reset when it is looked up: before the time is known after a         *)
(* restart, a device would get the quota it has used up once more.         *)
RecordsNotAhead ==
  tornRead \/ \A i \in QuotaSlot :
                quotaRecords[i] # NoQuota => quotaRecords[i].day <= CurrentDay

UsageIn(tab) ==
  [d \in Device |->
     LET S == {i \in QuotaSlot : tab[i] # NoQuota /\ tab[i].mac = d}
     IN  IF S = {} THEN [day |-> 0, used |-> 0]
         ELSE [day |-> tab[FirstRecord(S)].day, used |-> tab[FirstRecord(S)].used]]

Abstract == INSTANCE DailyUsage WITH
  Day <- DayId, Room <- QuotaSlots, FullUse <- FullQuota,
  usage <- UsageIn(quotaRecords), kept <- UsageIn(storedQuota.blob)

(* The records are a map from devices to their usage, of which a new       *)
(* device displaces one other only when all records are taken.             *)
ImplementsDailyUsage == Abstract!Spec

=============================================================================
