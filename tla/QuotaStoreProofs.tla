-------------------------- MODULE QuotaStoreProofs --------------------------
(***************************************************************************)
(* Proofs about module QuotaStore, for any number of devices, records and  *)
(* days: types, what is stored, no record ahead of its day, and that the   *)
(* table with its searches implements DailyUsage.                          *)
(***************************************************************************)
EXTENDS QuotaStore, TLAPS, WellFoundedInduction, FunctionTheorems,
        FiniteSetTheorems

(* No device has two records in a table.                                   *)
OneRecordPerMac(tab) ==
  \A i, j \in QuotaSlot :
     tab[i] # NoQuota /\ tab[j] # NoQuota /\ tab[i].mac = tab[j].mac => i = j

(* No record of a table is of a later day than d.                          *)
NotAhead(tab, d) == \A i \in QuotaSlot : tab[i] # NoQuota => tab[i].day <= d

DayOf(hint) == IF hint # 0 THEN hint ELSE 1

(* A flush that has copied the records finds that copy in NVS.             *)
CopiedIsStored ==
  Copied # {} /\ ~overtaken => quotaRecords = storedQuota.blob

(* The inductive invariant: what a flush will mark as saved is saved,      *)
(* hints are not of the future, and records are not ahead of the hint they *)
(* are kept with, in memory, in NVS, and in a flush between its writes.    *)
QuotaInv ==
  /\ QuotaTypeOK
  /\ OneRecordPerMac(quotaRecords) /\ OneRecordPerMac(storedQuota.blob)
  /\ FlushedIsStored /\ CopiedIsStored
  /\ dayHint <= wallDay /\ storedQuota.hint <= wallDay
  /\ tornRead \/ NotAhead(quotaRecords, DayOf(dayHint))
  /\ tornStore \/ NotAhead(storedQuota.blob, DayOf(storedQuota.hint))
  /\ tornRead \/ Copied = {} \/ NotAhead(storedQuota.blob, DayOf(dayHint))

-----------------------------------------------------------------------------
(* A non-empty set of slots has a first one.                               *)
LEMMA FirstRecordIsIn ==
  ASSUME NEW S \in SUBSET QuotaSlot, S # {}
  PROVE  FirstRecord(S) \in S
<1> DEFINE Below == {p \in Nat \X Nat : p[1] < p[2]}
<1>1. IsWellFoundedOn(Below, Nat)
  BY NatLessThanWellFounded DEF OpToRel
<1>2. S \in SUBSET Nat
  BY QuotaAssumption DEF QuotaSlot
<1>3. \A x, y \in S : <<y, x>> \in Below <=> y < x
  BY <1>2
<1> HIDE DEF Below
<1>4. \E x \in S : \A y \in S : ~ (<<y, x>> \in Below)
  BY <1>1, <1>2, WFMin, Zenon
<1>5. PICK k \in S : \A y \in S : ~ (<<y, k>> \in Below)
  BY <1>4
<1>6. \A y \in S : ~ (y < k)
  BY <1>3, <1>5
<1>7. \A y \in S : k <= y
  BY <1>2, <1>6
<1> QED BY <1>7 DEF FirstRecord

(* No record equals the empty one.                                         *)
LEMMA EntriesAreValid ==
  ASSUME NEW e \in QuotaEntry PROVE e # NoQuota
<1>1. DOMAIN e = {"mac", "day", "used"}
  BY DEF QuotaEntry
<1>2. "mac" \notin DOMAIN NoQuota
  BY DEF NoQuota
<1> QED BY <1>1, <1>2

(* The slot of a device is its own, a free one, or slot 0 with none free.  *)
LEMMA RecordForCases ==
  ASSUME QuotaTypeOK, NEW mac \in Device
  PROVE  LET i == RecordFor(mac)
         IN  /\ i \in QuotaSlot
             /\ \/ quotaRecords[i] # NoQuota /\ quotaRecords[i].mac = mac
                \/ RecordsOf(mac) = {} /\ quotaRecords[i] = NoQuota
                \/ RecordsOf(mac) = {} /\ FreeRecords = {}
<1> DEFINE R == RecordsOf(mac)
           F == FreeRecords
<1>1. R \in SUBSET QuotaSlot /\ F \in SUBSET QuotaSlot /\ 0 \in QuotaSlot
  BY QuotaAssumption DEF RecordsOf, FreeRecords, QuotaSlot
<1>2. R # {} => FirstRecord(R) \in R
  BY <1>1, FirstRecordIsIn
<1>3. F # {} => FirstRecord(F) \in F
  BY <1>1, FirstRecordIsIn
<1>4. RecordFor(mac) = IF R # {} THEN FirstRecord(R)
                       ELSE IF F # {} THEN FirstRecord(F) ELSE 0
  BY DEF RecordFor
<1>5. CASE R # {}
  BY <1>2, <1>4, <1>5 DEF RecordsOf
<1>6. CASE R = {} /\ F # {}
  BY <1>1, <1>3, <1>4, <1>6 DEF FreeRecords
<1>7. CASE R = {} /\ F = {}
  BY <1>1, <1>4, <1>7
<1> QED BY <1>5, <1>6, <1>7

(* The table after n seconds: one slot holds the device's new record.      *)
LEMMA CountedEffect ==
  ASSUME QuotaTypeOK, NEW mac \in Device, NEW day \in DayId, NEW n \in Nat
  PROVE  LET i == RecordFor(mac)
             e == Counted(mac, day, n)[i]
         IN  /\ Counted(mac, day, n) = [quotaRecords EXCEPT ![i] = e]
             /\ e \in QuotaEntry /\ e.mac = mac /\ e.day = day
             /\ IsOf(i, mac, day) => e.used >= quotaRecords[i].used
             /\ IsOf(i, mac, day) /\ n = 0 => e = quotaRecords[i]
<1> DEFINE i == RecordFor(mac)
           sum == n + IF IsOf(i, mac, day) THEN quotaRecords[i].used ELSE 0
           e == [mac |-> mac, day |-> day,
                 used |-> IF sum > FullQuota THEN FullQuota ELSE sum]
<1>1. i \in QuotaSlot /\ (RecordsOf(mac) # {} => /\ quotaRecords[i] # NoQuota
                                                /\ quotaRecords[i].mac = mac)
  BY RecordForCases
<1>2. Counted(mac, day, n) = [quotaRecords EXCEPT ![i] = e]
  BY DEF Counted
<1>3. quotaRecords \in [QuotaSlot -> QuotaEntry \cup {NoQuota}]
  BY DEF QuotaTypeOK, QuotaTab
<1>4. IsOf(i, mac, day) => /\ quotaRecords[i] \in QuotaEntry
                           /\ quotaRecords[i].mac = mac
                           /\ quotaRecords[i].day = day
                           /\ quotaRecords[i].used \in 0 .. FullQuota
  BY <1>1, <1>3 DEF IsOf, QuotaEntry
<1> HIDE DEF i
<1>5. sum \in Nat /\ FullQuota \in Nat
  BY <1>4, QuotaAssumption
<1>6. e \in QuotaEntry
  BY <1>5 DEF QuotaEntry
<1>7. IsOf(i, mac, day) => e.used >= quotaRecords[i].used
  BY <1>4, <1>5
<1>8. ASSUME IsOf(i, mac, day), n = 0 PROVE e = quotaRecords[i]
  <2>1. e.used = quotaRecords[i].used
    BY <1>4, <1>5, <1>8
  <2> QED BY <2>1, <1>4, <1>6, <1>8 DEF QuotaEntry
<1>9. Counted(mac, day, n)[i] = e
  BY <1>1, <1>2, <1>3
<1> HIDE DEF e
<1>10. e.mac = mac /\ e.day = day
  BY DEF e
<1> QED BY <1>2, <1>6, <1>7, <1>8, <1>9, <1>10 DEF i

(* Counting keeps the type, the uniqueness and the days of the table.      *)
LEMMA CountedKeeps ==
  ASSUME QuotaTypeOK, OneRecordPerMac(quotaRecords),
         NEW mac \in Device, NEW day \in DayId, NEW n \in Nat
  PROVE  /\ Counted(mac, day, n) \in QuotaTab
         /\ OneRecordPerMac(Counted(mac, day, n))
         /\ \A d \in DayId : NotAhead(quotaRecords, d) /\ day <= d
                                => NotAhead(Counted(mac, day, n), d)
<1> DEFINE i == RecordFor(mac)
           new == Counted(mac, day, n)
<1>1. /\ i \in QuotaSlot
      /\ \/ quotaRecords[i] # NoQuota /\ quotaRecords[i].mac = mac
         \/ RecordsOf(mac) = {}
  BY RecordForCases
<1>2. quotaRecords \in [QuotaSlot -> QuotaEntry \cup {NoQuota}]
  BY DEF QuotaTypeOK, QuotaTab
<1>3. /\ new = [quotaRecords EXCEPT ![i] = new[i]]
      /\ new[i] \in QuotaEntry /\ new[i].mac = mac /\ new[i].day = day
  BY CountedEffect
<1>4. \A j \in QuotaSlot : j # i /\ quotaRecords[j] # NoQuota
                             => quotaRecords[j].mac # mac
  BY <1>1 DEF OneRecordPerMac, RecordsOf
<1> HIDE DEF i, new
<1>5. \A j \in QuotaSlot : j # i => new[j] = quotaRecords[j]
  BY <1>2, <1>3
<1>6. new \in QuotaTab
  BY <1>2, <1>3 DEF QuotaTab
<1>7. OneRecordPerMac(new)
  BY <1>3, <1>4, <1>5 DEF OneRecordPerMac
<1>8. ASSUME NEW d \in DayId, NotAhead(quotaRecords, d), day <= d
      PROVE  NotAhead(new, d)
  BY <1>3, <1>5, <1>8 DEF NotAhead
<1> QED BY <1>6, <1>7, <1>8 DEF new

LEMMA NoRecordsFacts ==
  /\ NoRecords \in QuotaTab
  /\ OneRecordPerMac(NoRecords)
  /\ \A d : NotAhead(NoRecords, d)
BY DEF NoRecords, QuotaTab, OneRecordPerMac, NotAhead

-----------------------------------------------------------------------------
(* The steps of a flush.                                                   *)

(* A task that begins a flush, or is through with one, has copied nothing. *)
LEMMA FewerCopied ==
  ASSUME flushStep \in [QuotaTask -> FlushStep], NEW t \in QuotaTask,
         NEW step \in {"none", "blob"},
         flushStep' = [flushStep EXCEPT ![t] = step]
  PROVE  flushStep' \in [QuotaTask -> FlushStep] /\ Copied' \subseteq Copied
BY DEF Copied, FlushStep

LEMMA NobodyFlushes ==
  NotFlushing \in [QuotaTask -> FlushStep]
  /\ (flushStep = NotFlushing => Copied = {})
BY DEF NotFlushing, FlushStep, Copied

LEMMA FlushBegins ==
  ASSUME flushStep \in [QuotaTask -> FlushStep], NEW t \in QuotaTask,
         NEW dirty, Flush(t, dirty)
  PROVE  flushStep' \in [QuotaTask -> FlushStep] /\ Copied' \subseteq Copied
<1>1. CASE flushStep' = [flushStep EXCEPT ![t] = "blob"]
  BY <1>1, FewerCopied
<1>2. CASE UNCHANGED flushStep
  BY <1>2 DEF Copied
<1> QED BY <1>1, <1>2 DEF Flush

(* The copy of the records is of this hint; the hint in NVS may be of      *)
(* another.                                                                *)
LEMMA CopyRecordsKeeps ==
  ASSUME QuotaInv, CopyRecords
  PROVE  /\ storedQuota' \in [blob : QuotaTab, hint : DayId \cup {0}]
         /\ storedQuota'.blob = quotaRecords /\ storedQuota'.hint = storedQuota.hint
         /\ tornStore' \in BOOLEAN /\ overtaken' \in BOOLEAN
         /\ tornStore' \/ NotAhead(storedQuota'.blob, DayOf(storedQuota'.hint))
<1>1. /\ storedQuota' \in [blob : QuotaTab, hint : DayId \cup {0}]
      /\ storedQuota'.blob = quotaRecords /\ storedQuota'.hint = storedQuota.hint
  BY DEF CopyRecords, QuotaInv, QuotaTypeOK
<1>2. tornStore' \in BOOLEAN /\ overtaken' \in BOOLEAN
  BY DEF CopyRecords
<1>3. tornStore' \/ (~tornRead /\ storedQuota.hint = dayHint)
  BY Zenon DEF CopyRecords
<1>4. tornRead \/ NotAhead(quotaRecords, DayOf(dayHint))
  BY DEF QuotaInv
<1> QED BY <1>1, <1>2, <1>3, <1>4, Zenon

LEMMA CopyHintKeeps ==
  ASSUME QuotaInv, CopyHint, Copied # {}
  PROVE  /\ storedQuota' \in [blob : QuotaTab, hint : DayId \cup {0}]
         /\ storedQuota'.blob = storedQuota.blob /\ storedQuota'.hint = dayHint
         /\ tornStore' \in BOOLEAN
         /\ tornStore' \/ NotAhead(storedQuota'.blob, DayOf(storedQuota'.hint))
<1>1. /\ storedQuota' \in [blob : QuotaTab, hint : DayId \cup {0}]
      /\ storedQuota'.blob = storedQuota.blob /\ storedQuota'.hint = dayHint
  BY DEF CopyHint, WrittenHint, QuotaInv, QuotaTypeOK
<1>2. tornStore' = tornRead /\ tornRead \in BOOLEAN
  BY DEF CopyHint, QuotaInv, QuotaTypeOK
<1>3. tornRead \/ NotAhead(storedQuota.blob, DayOf(dayHint))
  BY DEF QuotaInv
<1> QED BY <1>1, <1>2, <1>3, Zenon

LEMMA WriteBlobKeepsInv ==
  ASSUME QuotaInv, NEW t \in QuotaTask, WriteBlob(t) PROVE QuotaInv'
<1>1. UNCHANGED <<quotaRecords, quotaDirty, dayHint, wallDay, timeKnown, tornRead>>
  BY DEF WriteBlob
<1>2. flushStep' \in [QuotaTask -> FlushStep]
  BY DEF WriteBlob, QuotaInv, QuotaTypeOK, FlushStep
<1>3. CASE CopyRecords
  <2>1. /\ storedQuota' \in [blob : QuotaTab, hint : DayId \cup {0}]
        /\ storedQuota'.blob = quotaRecords /\ storedQuota'.hint = storedQuota.hint
        /\ tornStore' \in BOOLEAN /\ overtaken' \in BOOLEAN
        /\ tornStore' \/ NotAhead(storedQuota'.blob, DayOf(storedQuota'.hint))
    BY <1>3, CopyRecordsKeeps
  <2>2. QuotaTypeOK'
    BY <1>1, <1>2, <2>1 DEF QuotaInv, QuotaTypeOK
  <2>3. FlushedIsStored' /\ CopiedIsStored'
    BY <1>1, <2>1 DEF FlushedIsStored, CopiedIsStored
  <2>4. tornRead' \/ NotAhead(storedQuota'.blob, DayOf(dayHint'))
    BY <1>1, <2>1 DEF QuotaInv
  <2> QED BY <1>1, <2>1, <2>2, <2>3, <2>4 DEF QuotaInv
<1>4. CASE /\ UNCHANGED <<storedQuota, tornStore, overtaken>>
           /\ flushStep' = [flushStep EXCEPT ![t] = "none"]
  <2>1. Copied' \subseteq Copied
    BY <1>4, FewerCopied DEF QuotaInv, QuotaTypeOK
  <2>2. QuotaTypeOK'
    BY <1>1, <1>2, <1>4 DEF QuotaInv, QuotaTypeOK
  <2>3. FlushedIsStored' /\ CopiedIsStored'
    BY <1>1, <1>4, <2>1 DEF QuotaInv, FlushedIsStored, CopiedIsStored
  <2> QED BY <1>1, <1>4, <2>1, <2>2, <2>3 DEF QuotaInv
<1> QED BY <1>3, <1>4 DEF WriteBlob

LEMMA WriteHintKeepsInv ==
  ASSUME QuotaInv, NEW t \in QuotaTask, WriteHint(t) PROVE QuotaInv'
<1>1. /\ UNCHANGED <<quotaRecords, quotaDirty, overtaken, dayHint, wallDay,
                     timeKnown, tornRead>>
      /\ flushStep[t] = "hint"
  BY DEF WriteHint
<1>2. /\ t \in Copied
      /\ flushStep' \in [QuotaTask -> FlushStep] /\ Copied' \subseteq Copied
  BY <1>1 DEF WriteHint, QuotaInv, QuotaTypeOK, FlushStep, Copied
<1>3. /\ storedQuota' \in [blob : QuotaTab, hint : DayId \cup {0}]
      /\ storedQuota'.blob = storedQuota.blob
      /\ storedQuota'.hint \in {storedQuota.hint, dayHint}
      /\ tornStore' \in BOOLEAN
      /\ tornStore' \/ NotAhead(storedQuota'.blob, DayOf(storedQuota'.hint))
  <2>1. CASE CopyHint
    BY <1>2, <2>1, CopyHintKeeps
  <2>2. CASE UNCHANGED <<storedQuota, tornStore>>
    BY <2>2 DEF QuotaInv, QuotaTypeOK
  <2> QED BY <2>1, <2>2 DEF WriteHint
<1>4. QuotaTypeOK'
  BY <1>1, <1>2, <1>3 DEF QuotaInv, QuotaTypeOK
<1>5. FlushedIsStored' /\ CopiedIsStored'
  BY <1>1, <1>2, <1>3 DEF QuotaInv, FlushedIsStored, CopiedIsStored
<1> QED BY <1>1, <1>2, <1>3, <1>4, <1>5 DEF QuotaInv

(* The flag is cleared over the copy of this flush, or of a later one.     *)
LEMMA CommitKeepsInv ==
  ASSUME QuotaInv, NEW t \in QuotaTask, CommitFlush(t) PROVE QuotaInv'
<1>1. UNCHANGED <<quotaRecords, overtaken, dayHint, storedQuota, wallDay,
                  timeKnown, tornStore, tornRead>>
  BY DEF CommitFlush, tornVars
<1>2. t \in Copied /\ quotaDirty' \in BOOLEAN
  BY DEF CommitFlush, Copied, QuotaInv, QuotaTypeOK
<1>3. flushStep' \in [QuotaTask -> FlushStep] /\ Copied' \subseteq Copied
  BY FewerCopied DEF CommitFlush, QuotaInv, QuotaTypeOK
<1>4. QuotaTypeOK'
  BY <1>1, <1>2, <1>3 DEF QuotaInv, QuotaTypeOK
<1>5. FlushedIsStored' /\ CopiedIsStored'
  BY <1>1, <1>2, <1>3 DEF QuotaInv, FlushedIsStored, CopiedIsStored
<1> QED BY <1>1, <1>3, <1>4, <1>5 DEF QuotaInv

-----------------------------------------------------------------------------
(* The handlers, time and restarts.                                        *)

(* Facts about the day in use.                                             *)
LEMMA DaysInUse ==
  ASSUME QuotaTypeOK, dayHint <= wallDay
  PROVE  /\ CurrentDay \in DayId /\ HintedDay \in DayId
         /\ NewHint \in DayId \cup {0} /\ NewHint <= wallDay
         /\ CurrentDay = DayOf(NewHint) /\ DayOf(dayHint) <= CurrentDay
         /\ HintedDay = DayOf(dayHint)
BY QuotaAssumption
   DEF QuotaTypeOK, DayId, CurrentDay, HintedDay, NewHint, DayOf

LEMMA LaterIsNotAhead ==
  ASSUME NEW tab \in QuotaTab, NEW d \in DayId, NEW e \in DayId, d <= e,
         NotAhead(tab, d)
  PROVE  NotAhead(tab, e)
BY DEF NotAhead, QuotaTab, QuotaEntry, DayId

LEMMA QuotaInitHolds == QuotaInit => QuotaInv
<1> SUFFICES ASSUME QuotaInit PROVE QuotaInv
  OBVIOUS
<1>1. QuotaTypeOK
  <2>1. wallDay \in DayId /\ dayHint \in DayId \cup {0}
        /\ flushStep \in [QuotaTask -> FlushStep]
    BY QuotaAssumption, NobodyFlushes DEF QuotaInit, DayId
  <2>2. storedQuota \in [blob : QuotaTab, hint : DayId \cup {0}]
    BY NoRecordsFacts DEF QuotaInit
  <2> QED BY <2>1, <2>2, NoRecordsFacts DEF QuotaInit, QuotaTypeOK
<1>2. dayHint <= wallDay /\ storedQuota.hint <= wallDay
  BY DEF QuotaInit
<1>3. quotaRecords = NoRecords /\ storedQuota.blob = NoRecords
  BY DEF QuotaInit
<1>4. FlushedIsStored /\ CopiedIsStored
  BY <1>3 DEF FlushedIsStored, CopiedIsStored
<1> QED BY <1>1, <1>2, <1>3, <1>4, NoRecordsFacts, Zenon DEF QuotaInv

(* What a change of the table leaves in order: a table that is not dirty   *)
(* has not changed, and a flush that copied the old one is overtaken.      *)
LEMMA ChangeKeeps ==
  ASSUME QuotaInv, NEW mac \in Device, NEW day \in DayId, NEW n \in Nat,
         Change(mac, day, n), UNCHANGED storedQuota, Copied' \subseteq Copied
  PROVE  /\ quotaRecords' \in QuotaTab /\ OneRecordPerMac(quotaRecords')
         /\ \A d \in DayId : NotAhead(quotaRecords, d) /\ day <= d
                                => NotAhead(quotaRecords', d)
         /\ quotaDirty' \in BOOLEAN /\ overtaken' \in BOOLEAN
         /\ FlushedIsStored' /\ CopiedIsStored'
<1>1. QuotaTypeOK /\ OneRecordPerMac(quotaRecords)
  BY DEF QuotaInv
<1>2. /\ quotaRecords' \in QuotaTab /\ OneRecordPerMac(quotaRecords')
      /\ \A d \in DayId : NotAhead(quotaRecords, d) /\ day <= d
                             => NotAhead(quotaRecords', d)
  BY <1>1, CountedKeeps DEF Change
<1>3. quotaDirty' \in BOOLEAN /\ overtaken' \in BOOLEAN
  BY <1>1 DEF Change, Dirtied, QuotaTypeOK
<1>4. ASSUME ~quotaDirty' PROVE quotaRecords' = quotaRecords /\ ~quotaDirty
  <2>1. ~quotaDirty /\ ~(n > 0) /\ IsOf(RecordFor(mac), mac, day)
    BY <1>4, Zenon DEF Change, Dirtied
  <2>2. n = 0
    BY <2>1
  <2>3. quotaRecords' = [quotaRecords EXCEPT ![RecordFor(mac)] = quotaRecords[RecordFor(mac)]]
    BY <1>1, <2>1, <2>2, CountedEffect DEF Change
  <2> QED BY <1>1, <2>1, <2>3 DEF QuotaTypeOK, QuotaTab
<1>5. ASSUME ~overtaken'
      PROVE  ~overtaken /\ (Copied # {} => quotaRecords' = quotaRecords)
  BY <1>5, Zenon DEF Change
<1>6. FlushedIsStored'
  BY <1>4, <1>5 DEF FlushedIsStored, QuotaInv
<1>7. CopiedIsStored'
  BY <1>5 DEF CopiedIsStored, QuotaInv
<1> QED BY <1>2, <1>3, <1>6, <1>7

LEMMA LookUpKeepsInv ==
  ASSUME QuotaInv, NEW t \in QuotaTask, NEW mac \in Device, LookUp(t, mac)
  PROVE  QuotaInv'
<1>1. /\ CurrentDay \in DayId /\ NewHint \in DayId \cup {0} /\ NewHint <= wallDay
      /\ CurrentDay = DayOf(NewHint) /\ DayOf(dayHint) <= CurrentDay
      /\ DayOf(dayHint) \in DayId
  BY DaysInUse DEF QuotaInv
<1>2. /\ Change(mac, CurrentDay, 0) /\ dayHint' = NewHint
      /\ UNCHANGED <<flushStep, storedQuota, wallDay, timeKnown, tornStore, tornRead>>
  BY DEF LookUp, tornVars
<1>3. Copied' = Copied
  BY <1>2 DEF Copied
<1>4. /\ quotaRecords' \in QuotaTab /\ OneRecordPerMac(quotaRecords')
      /\ NotAhead(quotaRecords, CurrentDay) => NotAhead(quotaRecords', CurrentDay)
      /\ quotaDirty' \in BOOLEAN /\ overtaken' \in BOOLEAN
      /\ FlushedIsStored' /\ CopiedIsStored'
  BY <1>1, <1>2, <1>3, ChangeKeeps DEF DayId
<1>5. QuotaTypeOK'
  BY <1>1, <1>2, <1>4 DEF QuotaInv, QuotaTypeOK
<1>6. tornRead \/ NotAhead(quotaRecords', DayOf(dayHint'))
  BY <1>1, <1>2, <1>4, LaterIsNotAhead DEF QuotaInv, QuotaTypeOK
<1>7. tornRead \/ Copied = {} \/ NotAhead(storedQuota.blob, DayOf(dayHint'))
  BY <1>1, <1>2, LaterIsNotAhead DEF QuotaInv, QuotaTypeOK
<1> QED BY <1>1, <1>2, <1>3, <1>4, <1>5, <1>6, <1>7 DEF QuotaInv

LEMMA CheckpointKeepsInv ==
  ASSUME QuotaInv, NEW t \in QuotaTask, NEW mac \in Device, NEW day \in DayId,
         NEW n \in 1 .. FullQuota, Checkpoint(t, mac, day, n)
  PROVE  QuotaInv'
<1>1. n \in Nat
  BY QuotaAssumption
<1>2. day <= DayOf(dayHint) /\ DayOf(dayHint) \in DayId
  BY DaysInUse DEF QuotaInv, Checkpoint
<1>3. /\ Change(mac, day, n)
      /\ UNCHANGED <<dayHint, storedQuota, wallDay, timeKnown, tornStore, tornRead>>
  BY DEF Checkpoint, tornVars
<1>4. flushStep' \in [QuotaTask -> FlushStep] /\ Copied' \subseteq Copied
  BY FlushBegins DEF Checkpoint, QuotaInv, QuotaTypeOK
<1>5. /\ quotaRecords' \in QuotaTab /\ OneRecordPerMac(quotaRecords')
      /\ NotAhead(quotaRecords, DayOf(dayHint)) => NotAhead(quotaRecords', DayOf(dayHint))
      /\ quotaDirty' \in BOOLEAN /\ overtaken' \in BOOLEAN
      /\ FlushedIsStored' /\ CopiedIsStored'
  BY <1>1, <1>2, <1>3, <1>4, ChangeKeeps
<1>6. QuotaTypeOK'
  BY <1>3, <1>4, <1>5 DEF QuotaInv, QuotaTypeOK
<1> QED BY <1>3, <1>4, <1>5, <1>6 DEF QuotaInv

LEMMA CheckpointNothingKeepsInv ==
  ASSUME QuotaInv, NEW t \in QuotaTask, CheckpointNothing(t) PROVE QuotaInv'
<1>1. UNCHANGED <<quotaRecords, quotaDirty, overtaken, dayHint, storedQuota,
                  wallDay, timeKnown, tornStore, tornRead>>
  BY DEF CheckpointNothing, tornVars
<1>2. flushStep' \in [QuotaTask -> FlushStep] /\ Copied' \subseteq Copied
  BY FlushBegins DEF CheckpointNothing, QuotaInv, QuotaTypeOK
<1>3. QuotaTypeOK'
  BY <1>1, <1>2 DEF QuotaInv, QuotaTypeOK
<1>4. FlushedIsStored' /\ CopiedIsStored'
  BY <1>1, <1>2 DEF QuotaInv, FlushedIsStored, CopiedIsStored
<1> QED BY <1>1, <1>2, <1>3, <1>4 DEF QuotaInv

LEMMA QuotaRestartKeepsInv ==
  ASSUME QuotaInv, QuotaRestart PROVE QuotaInv'
<1>1. /\ storedQuota = [blob |-> storedQuota.blob, hint |-> storedQuota.hint]
      /\ QuotaTypeOK /\ wallDay' = wallDay /\ quotaDirty' = FALSE
      /\ overtaken' = FALSE /\ timeKnown' = FALSE
      /\ flushStep' = NotFlushing
  BY DEF QuotaRestart, QuotaInv, QuotaTypeOK
<1>2. flushStep' \in [QuotaTask -> FlushStep] /\ Copied' = {}
  BY <1>1, NobodyFlushes DEF Copied, NotFlushing
<1>3. CopiedIsStored'
  BY <1>2 DEF CopiedIsStored
<1>4. CASE LoadReset
  <2>1. /\ storedQuota'.blob \in {storedQuota.blob, NoRecords}
        /\ storedQuota'.hint \in {storedQuota.hint, 0}
        /\ storedQuota' \in [blob : QuotaTab, hint : DayId \cup {0}]
    BY <1>1, <1>4, NoRecordsFacts DEF LoadReset, QuotaTypeOK
  <2>2. QuotaTypeOK'
    BY <1>1, <1>2, <1>4, <2>1, NoRecordsFacts DEF LoadReset, QuotaTypeOK
  <2>3. tornStore' \/ NotAhead(storedQuota'.blob, DayOf(storedQuota'.hint))
    <3>1. CASE storedQuota'.blob = NoRecords
      BY <3>1, NoRecordsFacts
    <3>2. CASE storedQuota'.blob # NoRecords
      BY <1>1, <1>4, <2>1, <3>2 DEF LoadReset, QuotaInv, QuotaTypeOK
    <3> QED BY <3>1, <3>2
  <2>4. storedQuota'.hint <= wallDay' /\ dayHint' <= wallDay'
    BY <1>1, <1>4, <2>1 DEF LoadReset, QuotaInv, QuotaTypeOK, DayId
  <2>5. quotaRecords' = NoRecords
    BY <1>4 DEF LoadReset
  <2>6. OneRecordPerMac(storedQuota'.blob)
    BY <2>1, NoRecordsFacts DEF QuotaInv
  <2> QED BY <1>2, <1>3, <2>2, <2>3, <2>4, <2>5, <2>6, NoRecordsFacts
          DEF QuotaInv, FlushedIsStored
<1>5. CASE LoadStored
  <2>1. quotaRecords' \in {storedQuota.blob, NoRecords} /\ storedQuota' = storedQuota
    BY <1>5 DEF LoadStored
  <2>2. QuotaTypeOK'
    BY <1>1, <1>2, <1>5, NoRecordsFacts DEF LoadStored, QuotaTypeOK
  <2>3. dayHint' <= wallDay'
    BY <1>1, <1>5 DEF LoadStored, QuotaInv, QuotaTypeOK, DayId
  <2>4. tornRead' \/ NotAhead(quotaRecords', DayOf(dayHint'))
    BY <1>5, NoRecordsFacts DEF LoadStored, QuotaInv
  <2>5. UNCHANGED tornStore
    BY <1>5 DEF LoadStored
  <2>6. OneRecordPerMac(quotaRecords')
    BY <2>1, NoRecordsFacts DEF QuotaInv
  <2> QED BY <1>1, <1>2, <1>3, <2>1, <2>2, <2>3, <2>4, <2>5, <2>6
          DEF QuotaInv, FlushedIsStored
<1> QED BY <1>4, <1>5 DEF QuotaRestart

LEMMA QuotaStepKeepsInv == QuotaInv /\ [QuotaNext]_quotaVars => QuotaInv'
<1> SUFFICES ASSUME QuotaInv, [QuotaNext]_quotaVars PROVE QuotaInv'
  OBVIOUS
<1>1. ASSUME UNCHANGED <<ramVars, storedQuota, timeKnown, tornVars>>,
             wallDay' \in DayId, wallDay' >= wallDay
      PROVE  QuotaInv'
  <2>1. UNCHANGED <<quotaRecords, quotaDirty, dayHint, flushStep, overtaken,
                    storedQuota, timeKnown, tornStore, tornRead, Copied>>
    BY <1>1 DEF ramVars, tornVars, Copied
  <2>2. dayHint' <= wallDay' /\ storedQuota'.hint <= wallDay'
    BY <1>1, <2>1, QuotaAssumption DEF QuotaInv, QuotaTypeOK, DayId
  <2> QED BY <1>1, <2>1, <2>2
          DEF QuotaInv, QuotaTypeOK, FlushedIsStored, CopiedIsStored
<1>2. CASE UNCHANGED quotaVars
  BY <1>1, <1>2 DEF quotaVars, QuotaInv, QuotaTypeOK, DayId
<1>3. CASE DayPasses
  BY <1>1, <1>3, QuotaAssumption DEF DayPasses, QuotaInv, QuotaTypeOK, DayId
<1>4. CASE LearnTime
  <2>1. UNCHANGED <<quotaRecords, quotaDirty, dayHint, flushStep, overtaken,
                    storedQuota, wallDay, tornStore, tornRead, Copied>>
        /\ timeKnown' \in BOOLEAN
    BY <1>4 DEF LearnTime, ramVars, tornVars, Copied
  <2> QED BY <2>1 DEF QuotaInv, QuotaTypeOK, FlushedIsStored, CopiedIsStored
<1> QED BY <1>2, <1>3, <1>4, LookUpKeepsInv, CheckpointKeepsInv,
           CheckpointNothingKeepsInv, WriteBlobKeepsInv, WriteHintKeepsInv,
           CommitKeepsInv, QuotaRestartKeepsInv DEF QuotaNext

LEMMA QuotaInvAlways == QuotaSpec => []QuotaInv
BY QuotaInitHolds, QuotaStepKeepsInv, PTL DEF QuotaSpec

(* Records, hints, the copy in NVS and the flushes under way keep their    *)
(* types across failing writes and restarts.                               *)
THEOREM QuotaTypeCorrect == QuotaSpec => []QuotaTypeOK
<1>1. QuotaInv => QuotaTypeOK
  BY DEF QuotaInv
<1> QED BY <1>1, QuotaInvAlways, PTL

(* A table that is not dirty is the one in NVS, or empty, unless it has    *)
(* changed between the copy of a flush and its end: whatever overlaps and  *)
(* fails, no other change loses its mark before it is saved.               *)
THEOREM CleanTableIsStored == QuotaSpec => []FlushedIsStored
<1>1. QuotaInv => FlushedIsStored
  BY DEF QuotaInv
<1> QED BY <1>1, QuotaInvAlways, PTL

(* No record is of a later day than the one in use, before and after the   *)
(* time is known, unless records and hint were written apart.              *)
THEOREM RecordsAreNotAhead == QuotaSpec => []RecordsNotAhead
<1>1. QuotaInv => RecordsNotAhead
  <2> SUFFICES ASSUME QuotaInv, ~tornRead
               PROVE  NotAhead(quotaRecords, CurrentDay)
    BY DEF RecordsNotAhead, NotAhead
  <2>1. /\ DayOf(dayHint) \in DayId /\ CurrentDay \in DayId
        /\ DayOf(dayHint) <= CurrentDay
    BY DaysInUse DEF QuotaInv
  <2> QED BY <2>1, LaterIsNotAhead DEF QuotaInv, QuotaTypeOK
<1> QED BY <1>1, QuotaInvAlways, PTL

-----------------------------------------------------------------------------
(* The table as a map from devices to their usage.                         *)

LEMMA UsageOfDevice ==
  ASSUME NEW tab \in QuotaTab, OneRecordPerMac(tab), NEW d \in Device
  PROVE  /\ \A i \in QuotaSlot :
              tab[i] # NoQuota /\ tab[i].mac = d =>
                UsageIn(tab)[d] = [day |-> tab[i].day, used |-> tab[i].used]
         /\ (\A i \in QuotaSlot : tab[i] # NoQuota => tab[i].mac # d) =>
                UsageIn(tab)[d] = Abstract!Forgotten
<1> DEFINE S == {i \in QuotaSlot : tab[i] # NoQuota /\ tab[i].mac = d}
<1>1. UsageIn(tab)[d] =
        IF S = {} THEN [day |-> 0, used |-> 0]
        ELSE [day |-> tab[FirstRecord(S)].day, used |-> tab[FirstRecord(S)].used]
  BY DEF UsageIn
<1>2. ASSUME NEW i \in S PROVE FirstRecord(S) = i
  <2>1. FirstRecord(S) \in S
    BY FirstRecordIsIn
  <2> QED BY <2>1 DEF OneRecordPerMac
<1>3. S = {} => UsageIn(tab)[d] = Abstract!Forgotten
  BY <1>1 DEF Abstract!Forgotten
<1> QED BY <1>1, <1>2, <1>3

LEMMA UsageIsFunction == \A tab : UsageIn(tab) = [d \in Device |-> UsageIn(tab)[d]]
BY DEF UsageIn

(* A record is never mistaken for a device that is forgotten.              *)
LEMMA RecordIsUsage ==
  ASSUME NEW e \in QuotaEntry
  PROVE  /\ [day |-> e.day, used |-> e.used] \in [day : DayId, used : 0 .. FullQuota]
         /\ [day |-> e.day, used |-> e.used] # Abstract!Forgotten
<1>1. e.day \in DayId /\ e.used \in 0 .. FullQuota /\ e.day # 0
  BY DEF QuotaEntry, DayId
<1> QED BY <1>1 DEF Abstract!Forgotten

\* The instance has its own copy of the operator.
LEMMA SameCardinality ==
  ASSUME NEW S PROVE Abstract!Cardinality(S) = Cardinality(S)
BY DEF Abstract!Cardinality, Cardinality

Known == {d \in Device : UsageIn(quotaRecords)[d] # Abstract!Forgotten}

LEMMA OwnersAreKnown ==
  ASSUME QuotaTypeOK, OneRecordPerMac(quotaRecords),
         NEW i \in QuotaSlot, quotaRecords[i] # NoQuota
  PROVE  quotaRecords[i].mac \in Known
<1> DEFINE e == quotaRecords[i]
<1>1. quotaRecords \in QuotaTab /\ e \in QuotaEntry
  BY DEF QuotaTypeOK, QuotaTab
<1>2. e.mac \in Device
  BY <1>1 DEF QuotaEntry
<1>3. UsageIn(quotaRecords)[e.mac] = [day |-> e.day, used |-> e.used]
  BY <1>1, <1>2, UsageOfDevice
<1> HIDE DEF e
<1>4. [day |-> e.day, used |-> e.used] # Abstract!Forgotten
  BY <1>1, RecordIsUsage
<1> QED BY <1>2, <1>3, <1>4 DEF Known, e

(* There is a record for every device that is known, so a free record      *)
(* means room, and none free means none.                                   *)
LEMMA RoomIsFreeRecord ==
  ASSUME QuotaTypeOK, OneRecordPerMac(quotaRecords)
  PROVE  /\ IsFiniteSet(Known) /\ Cardinality(Known) \in Nat
         /\ FreeRecords # {} => Cardinality(Known) < QuotaSlots
         /\ FreeRecords = {} => Cardinality(Known) >= QuotaSlots
<1> DEFINE Taken == {i \in QuotaSlot : quotaRecords[i] # NoQuota}
           owner == [i \in Taken |-> quotaRecords[i].mac]
<1>1. quotaRecords \in [QuotaSlot -> QuotaEntry \cup {NoQuota}]
  BY DEF QuotaTypeOK, QuotaTab
<1>2. IsFiniteSet(QuotaSlot) /\ Cardinality(QuotaSlot) = QuotaSlots
  BY QuotaAssumption, FS_Interval DEF QuotaSlot
<1>3. IsFiniteSet(Known) /\ Cardinality(Known) \in Nat
  <2>1. Known \in SUBSET Device /\ IsFiniteSet(Device)
    BY QuotaAssumption DEF Known
  <2> QED BY <2>1, FS_Subset, FS_CardinalityType
<1>4. \A i \in Taken : quotaRecords[i].mac \in Known
  BY OwnersAreKnown
<1>5. \A d \in Known : \E i \in Taken : quotaRecords[i].mac = d
  BY UsageOfDevice DEF QuotaTypeOK, Known
<1>6. IsFiniteSet(Taken) /\ Cardinality(Taken) <= QuotaSlots
      /\ (Cardinality(Taken) = QuotaSlots => Taken = QuotaSlot)
  BY <1>2, FS_Subset
<1>7. owner \in Bijection(Taken, Known)
  <2>1. owner \in [Taken -> Known]
    BY <1>4
  <2>2. \A i, j \in Taken : owner[i] = owner[j] => i = j
    BY DEF OneRecordPerMac
  <2>3. \A d \in Known : \E i \in Taken : owner[i] = d
    BY <1>5
  <2> HIDE DEF owner
  <2> QED BY <2>1, <2>2, <2>3, Fun_IsBij
<1>8. Cardinality(Known) = Cardinality(Taken)
  BY <1>6, <1>7, FS_Bijection DEF ExistsBijection
<1>9. FreeRecords = QuotaSlot \ Taken
  BY DEF FreeRecords
<1> QED BY <1>2, <1>3, <1>6, <1>8, <1>9, QuotaAssumption

(* Counting is counting in the map, with the device of record 0 forgotten  *)
(* if no record is free.                                                   *)
LEMMA CountRefines ==
  ASSUME QuotaTypeOK, OneRecordPerMac(quotaRecords),
         NEW mac \in Device, NEW day \in DayId, NEW n \in Nat,
         quotaRecords' = Counted(mac, day, n)
  PROVE  Abstract!Count(mac)
<1> DEFINE i == RecordFor(mac)
           new == quotaRecords'
           old == quotaRecords
<1>1. /\ i \in QuotaSlot
      /\ \/ old[i] # NoQuota /\ old[i].mac = mac
         \/ RecordsOf(mac) = {} /\ old[i] = NoQuota
         \/ RecordsOf(mac) = {} /\ FreeRecords = {}
  BY RecordForCases
<1>2. old \in QuotaTab /\ old \in [QuotaSlot -> QuotaEntry \cup {NoQuota}]
  BY DEF QuotaTypeOK, QuotaTab
<1>3. /\ new = [old EXCEPT ![i] = new[i]]
      /\ new[i] \in QuotaEntry /\ new[i].mac = mac /\ new[i].day = day
      /\ IsOf(i, mac, day) => new[i].used >= old[i].used
  BY CountedEffect
<1>4. new \in QuotaTab /\ OneRecordPerMac(new)
  BY CountedKeeps
<1> HIDE DEF i
<1>5. \A j \in QuotaSlot : j # i => new[j] = old[j]
  BY <1>1, <1>2, <1>3
<1>6. new[i] # NoQuota
  BY <1>3, EntriesAreValid
<1>7. UsageIn(new)[mac] = [day |-> new[i].day, used |-> new[i].used]
  BY <1>1, <1>3, <1>4, <1>6, UsageOfDevice
<1>8. UsageIn(new)[mac] \in [day : DayId, used : 0 .. FullQuota]
  BY <1>3, <1>7, RecordIsUsage
<1>9. UsageIn(new)[mac].day = UsageIn(old)[mac].day
        => UsageIn(new)[mac].used >= UsageIn(old)[mac].used
  <2>1. CASE RecordsOf(mac) # {}
    <3>1. old[i] # NoQuota /\ old[i].mac = mac
      BY <1>1, <2>1
    <3>2. UsageIn(old)[mac] = [day |-> old[i].day, used |-> old[i].used]
      BY <1>1, <1>2, <3>1, UsageOfDevice
    <3> QED BY <1>3, <1>7, <2>1, <3>2 DEF IsOf
  <2>2. CASE RecordsOf(mac) = {}
    <3>1. UsageIn(old)[mac] = Abstract!Forgotten
      BY <1>2, <2>2, UsageOfDevice DEF RecordsOf
    <3> QED BY <1>8, <3>1 DEF Abstract!Forgotten, DayId
  <2> QED BY <2>1, <2>2
<1>10. ASSUME NEW u \in Device, u # mac, old[i] = NoQuota \/ old[i].mac # u
       PROVE  UsageIn(new)[u] = UsageIn(old)[u]
  <2>1. CASE \E j \in QuotaSlot : old[j] # NoQuota /\ old[j].mac = u
    <3>1. PICK j \in QuotaSlot : old[j] # NoQuota /\ old[j].mac = u
      BY <2>1
    <3>2. j # i /\ new[j] = old[j]
      BY <1>5, <1>10, <3>1
    <3>3. UsageIn(old)[u] = [day |-> old[j].day, used |-> old[j].used]
      BY <1>2, <3>1, UsageOfDevice
    <3>4. UsageIn(new)[u] = [day |-> old[j].day, used |-> old[j].used]
      BY <1>4, <3>1, <3>2, UsageOfDevice
    <3> QED BY <3>3, <3>4
  <2>2. CASE ~ \E j \in QuotaSlot : old[j] # NoQuota /\ old[j].mac = u
    <3>1. \A j \in QuotaSlot : new[j] # NoQuota => new[j].mac # u
      BY <1>3, <1>5, <1>10, <2>2
    <3> QED BY <1>2, <1>4, <2>2, <3>1, UsageOfDevice
  <2> QED BY <2>1, <2>2
<1> DEFINE Into(gone) == [u \in Device |->
                            IF u = mac THEN UsageIn(new)[mac]
                            ELSE IF u = gone THEN Abstract!Forgotten
                            ELSE UsageIn(old)[u]]
<1>11. \E gone \in Abstract!Leaving(mac) : UsageIn(new) = Into(gone)
  <2>1. CASE \/ old[i] # NoQuota /\ old[i].mac = mac
             \/ RecordsOf(mac) = {} /\ old[i] = NoQuota
    <3>1. \A u \in Device : u # mac => UsageIn(new)[u] = UsageIn(old)[u]
      BY <1>10, <2>1
    <3>2. UsageIn(new) = Into(mac)
      BY <3>1, UsageIsFunction
    <3>3. mac \in Abstract!Leaving(mac)
      <4>1. CASE old[i] # NoQuota /\ old[i].mac = mac
        <5>1. UsageIn(old)[mac] # Abstract!Forgotten
          BY <1>1, <4>1, OwnersAreKnown DEF Known
        <5> QED BY <5>1 DEF Abstract!Leaving
      <4>2. CASE RecordsOf(mac) = {} /\ old[i] = NoQuota
        <5>1. ~ (Cardinality(Known) >= QuotaSlots)
          BY <1>1, <4>2, RoomIsFreeRecord, QuotaAssumption DEF FreeRecords
        <5> QED BY <5>1, SameCardinality
                DEF Abstract!Leaving, Abstract!Remembered, Known
      <4> QED BY <2>1, <4>1, <4>2
    <3> QED BY <3>2, <3>3
  <2>2. CASE RecordsOf(mac) = {} /\ FreeRecords = {}
    <3>1. old[i] # NoQuota /\ old[i] \in QuotaEntry
      BY <1>1, <1>2, <2>2 DEF FreeRecords
    <3>2. old[i].mac \in Device /\ old[i].mac # mac
      BY <1>1, <2>2, <3>1 DEF QuotaEntry, RecordsOf
    <3>3. UsageIn(new)[old[i].mac] = Abstract!Forgotten
      <4>1. \A j \in QuotaSlot : new[j] # NoQuota => new[j].mac # old[i].mac
        BY <1>1, <1>3, <1>5, <3>1, <3>2 DEF OneRecordPerMac
      <4> QED BY <1>4, <3>2, <4>1, UsageOfDevice
    <3>4. \A u \in Device : u # mac /\ u # old[i].mac =>
             UsageIn(new)[u] = UsageIn(old)[u]
      BY <1>10
    <3>5. UsageIn(new) = Into(old[i].mac)
      BY <3>3, <3>4, UsageIsFunction
    <3>6. old[i].mac \in Known
      BY <1>1, <3>1, OwnersAreKnown
    <3>7. UsageIn(old)[mac] = Abstract!Forgotten
      BY <1>2, <2>2, UsageOfDevice DEF RecordsOf
    <3>8. Cardinality(Known) >= QuotaSlots
      BY <2>2, RoomIsFreeRecord
    <3>9. old[i].mac \in Abstract!Leaving(mac)
      BY <3>6, <3>7, <3>8, SameCardinality
         DEF Abstract!Leaving, Abstract!Remembered, Known
    <3> QED BY <3>5, <3>9
  <2> QED BY <1>1, <2>1, <2>2
<1> QED BY <1>8, <1>9, <1>11 DEF Abstract!Count

(* The records with their limit, searches, failing writes and restarts     *)
(* implement the map of DailyUsage: a device loses its record to a new one *)
(* only, and only when all records are taken.                              *)
THEOREM QuotaImplementsDailyUsage == QuotaSpec => ImplementsDailyUsage
<1> DEFINE use == UsageIn(quotaRecords)
           kept == UsageIn(storedQuota.blob)
<1>1. UsageIn(NoRecords) = Abstract!Nobody
  BY DEF UsageIn, NoRecords, Abstract!Nobody, Abstract!Forgotten
<1>2. QuotaInit => Abstract!Init
  BY <1>1 DEF QuotaInit, Abstract!Init
<1>3. QuotaInv /\ [QuotaNext]_quotaVars => [Abstract!Next]_<<use, kept>>
  <2> SUFFICES ASSUME QuotaInv, [QuotaNext]_quotaVars
               PROVE  [Abstract!Next]_<<use, kept>>
    OBVIOUS
  <2>1. ASSUME NEW mac \in Device, NEW day \in DayId, NEW n \in Nat,
               Change(mac, day, n), UNCHANGED storedQuota
        PROVE  Abstract!Next
    <3>1. Abstract!Count(mac)
      BY <2>1, CountRefines DEF QuotaInv, Change
    <3> QED BY <2>1, <3>1 DEF Abstract!Next
  <2>2. ASSUME NEW t \in QuotaTask, NEW mac \in Device, LookUp(t, mac)
        PROVE  Abstract!Next
    <3>1. CurrentDay \in DayId
      BY DaysInUse DEF QuotaInv
    <3> QED BY <2>1, <2>2, <3>1 DEF LookUp
  <2>3. ASSUME NEW t \in QuotaTask, NEW mac \in Device, NEW day \in DayId,
               NEW n \in 1 .. FullQuota, Checkpoint(t, mac, day, n)
        PROVE  Abstract!Next
    <3>1. n \in Nat
      BY QuotaAssumption
    <3> QED BY <2>1, <2>3, <3>1 DEF Checkpoint
  <2>4. ASSUME NEW t \in QuotaTask, WriteBlob(t)
        PROVE  Abstract!Next \/ UNCHANGED <<use, kept>>
    <3>1. UNCHANGED use /\ storedQuota'.blob \in {storedQuota.blob, quotaRecords}
      BY <2>4 DEF WriteBlob, CopyRecords, QuotaInv, QuotaTypeOK
    <3>2. UNCHANGED kept \/ Abstract!Keep
      BY <3>1 DEF Abstract!Keep
    <3> QED BY <3>1, <3>2 DEF Abstract!Next
  <2>5. ASSUME NEW t \in QuotaTask,
               WriteHint(t) \/ CommitFlush(t) \/ CheckpointNothing(t)
        PROVE  UNCHANGED <<use, kept>>
    <3>1. quotaRecords' = quotaRecords /\ storedQuota'.blob = storedQuota.blob
      BY <2>5 DEF WriteHint, CopyHint, CommitFlush, CheckpointNothing, QuotaInv,
                  QuotaTypeOK
    <3> QED BY <3>1
  <2>6. CASE DayPasses \/ LearnTime \/ UNCHANGED quotaVars
    BY <2>6 DEF DayPasses, LearnTime, quotaVars, ramVars
  <2>7. CASE QuotaRestart
    <3>1. /\ quotaRecords' \in {storedQuota.blob, NoRecords}
          /\ storedQuota'.blob \in {storedQuota.blob, NoRecords}
      BY <2>7 DEF QuotaRestart, LoadReset, LoadStored
    <3>2. Abstract!Restart
      BY <1>1, <3>1 DEF Abstract!Restart
    <3> QED BY <3>2 DEF Abstract!Next
  <2> HIDE DEF use, kept
  <2> QED BY <2>2, <2>3, <2>4, <2>5, <2>6, <2>7 DEF QuotaNext
<1> QED BY <1>2, <1>3, QuotaInvAlways, PTL
        DEF QuotaSpec, ImplementsDailyUsage, Abstract!Spec

=============================================================================
