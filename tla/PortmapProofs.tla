---------------------------- MODULE PortmapProofs ----------------------------
(***************************************************************************)
(* Proofs about module Portmap, for any number of slots, ports, targets    *)
(* and addresses and every interleaving of the two tasks: types, what is   *)
(* stored, that only configured mappings work, and that they listen on the *)
(* present address.                                                        *)
(***************************************************************************)
EXTENDS Portmap, TLAPS, WellFoundedInduction

Working(p) == lwipMaps[p] # NoMap
Deleting(p) == console # NoCall /\ console.op = "del" /\ console.entry.port = p
Excused(p) == p \in loose \/ Deleting(p)
InTable(e) == \E i \in PmSlot : pmTab[i] # NoMap /\ pmTab[i] = e
Configured(p) ==
  \E i \in PmSlot : /\ pmTab[i] # NoMap /\ pmTab[i].port = p
                    /\ pmTab[i].target = lwipMaps[p].target

(* An entry being added is in the table, and one that a rebuild is about   *)
(* to pass to lwIP is too, or is just being deleted.                       *)
AddedIsInTable == console # NoCall /\ console.op = "add" => InTable(console.entry)

AppliedIsInTable ==
  rebuild # NoRebuild /\ rebuild.phase = "apply" /\ rebuild.entry # NoMap =>
    \/ InTable(rebuild.entry)
    \/ rebuild.entry.port \in loose
    \/ console # NoCall /\ console.op = "del" /\ console.entry = rebuild.entry

WorkingIsConfigured ==
  \A p \in PmPort : Working(p) => Excused(p) \/ Configured(p)

(* A mapping that listens on an older address is one the deleting half of  *)
(* a rebuild has still to come to, unless there is no address at all.      *)
Stale(p) == Working(p) /\ lwipMaps[p].addr # myIp /\ ~Excused(p)

From(p, k) == \E i \in PmSlot : pmTab[i] # NoMap /\ pmTab[i].port = p /\ k <= i

Ahead(p) ==
  IF rebuild.entry = NoMap THEN From(p, rebuild.slot)
  ELSE rebuild.entry.port = p \/ From(p, rebuild.slot + 1)

StaleIsAhead ==
  \A p \in PmPort : Stale(p) =>
     \/ rebuild = NoRebuild /\ myIp = NoAddr
     \/ rebuild # NoRebuild /\ rebuild.phase = "delete" /\ Ahead(p)

PmInv ==
  /\ PmTypeOK
  /\ StoredIsTable
  /\ AddedIsInTable /\ AppliedIsInTable /\ WorkingIsConfigured
  /\ StaleIsAhead

-----------------------------------------------------------------------------
(* Slots and values.                                                       *)

LEMMA LeastSlotExists ==
  ASSUME NEW S \in SUBSET Nat, S # {}
  PROVE  \E k \in S : \A j \in S : k <= j
<1> DEFINE Lower == {p \in Nat \X Nat : p[1] < p[2]}
<1>1. IsWellFoundedOn(Lower, Nat)
  BY NatLessThanWellFounded DEF OpToRel
<1>2. \A x, y \in S : <<y, x>> \in Lower <=> y < x
  OBVIOUS
<1> HIDE DEF Lower
<1>3. \E x \in S : \A y \in S : ~ (<<y, x>> \in Lower)
  BY <1>1, WFMin, Zenon
<1>4. PICK k \in S : \A y \in S : ~ (<<y, k>> \in Lower)
  BY <1>3
<1>5. \A y \in S : ~ (y < k)
  BY <1>2, <1>4
<1> QED BY <1>5

LEMMA SlotsOfTable == PmSlots \in Nat /\ PmSlot = 0 .. (PmSlots - 1) /\ 0 \in PmSlot
BY PortmapAssumption DEF PmSlot

LEMMA LowestSlotIsIn ==
  ASSUME NEW S \in SUBSET PmSlot, S # {}
  PROVE  LowestSlot(S) \in S
<1>1. S \in SUBSET Nat
  BY SlotsOfTable
<1> QED BY <1>1, LeastSlotExists DEF LowestSlot

(* A non-empty set of slots has a last one.                                *)
LEMMA LastSlotExists ==
  ASSUME NEW S \in SUBSET PmSlot, S # {}
  PROVE  \E k \in S : \A j \in S : j <= k
<1> DEFINE T == {n \in Nat : PmSlots - n \in S}
<1>1. \A i \in S : i \in Int /\ 0 <= i /\ i <= PmSlots
  BY SlotsOfTable
<1>2. PICK i \in S : TRUE
  OBVIOUS
<1>3. PmSlots - i \in T
  <2>1. PmSlots - i \in Nat /\ PmSlots - (PmSlots - i) = i
    BY <1>1, SlotsOfTable
  <2> QED BY <2>1
<1>4. PICK n \in T : \A m \in T : n <= m
  BY <1>3, LeastSlotExists
<1>5. \A j \in S : j <= PmSlots - n
  <2> SUFFICES ASSUME NEW j \in S PROVE j <= PmSlots - n
    OBVIOUS
  <2>1. PmSlots - j \in Nat /\ PmSlots - (PmSlots - j) = j /\ n \in Nat
    BY <1>1, SlotsOfTable
  <2>2. n <= PmSlots - j
    BY <1>4, <2>1
  <2> QED BY <1>1, <2>1, <2>2, SlotsOfTable
<1> QED BY <1>4, <1>5

(* Records of different shapes differ.                                     *)
LEMMA EntriesAreMaps ==
  /\ \A e \in PmEntry : e # NoMap /\ e.port \in PmPort /\ e.target \in PmTarget
  /\ \A m \in Mapping : m # NoMap
  /\ \A c \in ConsoleCall : c # NoCall
  /\ \A r \in Rebuild : r # NoRebuild
<1>1. ASSUME NEW e \in PmEntry
      PROVE  e # NoMap /\ e.port \in PmPort /\ e.target \in PmTarget
  <2>1. e \in [port : PmPort, target : PmTarget]
    BY PortmapAssumption
  <2>2. DOMAIN e = {"port", "target"} /\ DOMAIN NoMap = {"valid"}
    BY <2>1 DEF NoMap
  <2> QED BY <2>1, <2>2
<1>2. ASSUME NEW m \in Mapping PROVE m # NoMap
  <2>1. DOMAIN m = {"addr", "target"} /\ DOMAIN NoMap = {"valid"}
    BY DEF NoMap, Mapping
  <2> QED BY <2>1
<1>3. ASSUME NEW c \in ConsoleCall PROVE c # NoCall
  BY DEF ConsoleCall, NoCall
<1>4. ASSUME NEW r \in Rebuild PROVE r # NoRebuild
  BY DEF Rebuild, NoRebuild
<1> QED BY <1>1, <1>2, <1>3, <1>4

(* What lwIP holds after an addition and after a removal.                  *)
LEMMA LwipAddEffect ==
  ASSUME NEW maps \in [PmPort -> Mapping \cup {NoMap}], NEW e \in PmEntry,
         myIp \in UplinkAddr \cup {NoAddr}
  PROVE  /\ LwipAdd(maps, e) \in [PmPort -> Mapping \cup {NoMap}]
         /\ \A p \in PmPort : p # e.port => LwipAdd(maps, e)[p] = maps[p]
         /\ LwipAdd(maps, e)[e.port] # NoMap
         /\ LwipAdd(maps, e)[e.port].target = e.target
         /\ LwipAdd(maps, e)[e.port].addr =
              IF maps[e.port] = NoMap THEN myIp ELSE maps[e.port].addr
<1>1. e.port \in PmPort /\ e.target \in PmTarget
  BY EntriesAreMaps
<1> DEFINE m == [addr |-> IF maps[e.port] = NoMap THEN myIp ELSE maps[e.port].addr,
                 target |-> e.target]
<1>2. LwipAdd(maps, e) = [maps EXCEPT ![e.port] = m]
  BY DEF LwipAdd
<1>3. m \in Mapping
  <2>1. maps[e.port] \in Mapping \cup {NoMap}
    BY <1>1
  <2> QED BY <1>1, <2>1 DEF Mapping
<1>4. m # NoMap
  BY <1>3, EntriesAreMaps
<1>5. m.target = e.target /\ m.addr = IF maps[e.port] = NoMap THEN myIp ELSE maps[e.port].addr
  OBVIOUS
<1> HIDE DEF m
<1> QED BY <1>1, <1>2, <1>3, <1>4, <1>5

LEMMA LwipRemoveEffect ==
  ASSUME NEW maps \in [PmPort -> Mapping \cup {NoMap}], NEW port
  PROVE  /\ LwipRemove(maps, port) \in [PmPort -> Mapping \cup {NoMap}]
         /\ \A p \in PmPort : LwipRemove(maps, port)[p] =
                                IF p = port THEN NoMap ELSE maps[p]
BY DEF LwipRemove

-----------------------------------------------------------------------------
(* The table and lwIP at a restart.                                        *)

LEMMA AppliedEffect ==
  ASSUME NEW tab \in PmTable
  PROVE  /\ Applied(tab) \in [PmPort -> Mapping \cup {NoMap}]
         /\ \A p \in PmPort : Applied(tab)[p] # NoMap =>
               \E i \in PmSlot : /\ tab[i] # NoMap /\ tab[i].port = p
                                 /\ tab[i].target = Applied(tab)[p].target
<1> DEFINE S(p) == {i \in PmSlot : tab[i] # NoMap /\ tab[i].port = p}
           Last(p) == CHOOSE i \in S(p) : \A j \in S(p) : j <= i
           a == Applied(tab)
<1>1. \A p \in PmPort : a[p] = IF S(p) = {} THEN NoMap
                              ELSE [addr |-> NoAddr, target |-> tab[Last(p)].target]
  BY DEF Applied
<1>2. ASSUME NEW p \in PmPort, S(p) # {} PROVE Last(p) \in S(p)
  <2>1. \E i \in S(p) : \A j \in S(p) : j <= i
    BY <1>2, LastSlotExists
  <2> QED BY <2>1
<1>3. \A i \in PmSlot : tab[i] # NoMap => tab[i] \in PmEntry /\ tab[i].target \in PmTarget
  BY EntriesAreMaps DEF PmTable
<1>4. ASSUME NEW p \in PmPort, S(p) # {}
      PROVE  /\ a[p] \in Mapping /\ a[p].target = tab[Last(p)].target
             /\ Last(p) \in PmSlot /\ tab[Last(p)] # NoMap /\ tab[Last(p)].port = p
  <2>1. Last(p) \in PmSlot /\ tab[Last(p)] # NoMap /\ tab[Last(p)].port = p
    BY <1>2, <1>4
  <2>2. tab[Last(p)].target \in PmTarget
    BY <1>3, <2>1
  <2>3. a[p] = [addr |-> NoAddr, target |-> tab[Last(p)].target]
    BY <1>1, <1>4
  <2> HIDE DEF Last, a
  <2> QED BY <2>1, <2>2, <2>3 DEF Mapping
<1>5. a = [p \in PmPort |-> a[p]]
  BY DEF Applied
<1> HIDE DEF a, Last
<1>6. \A p \in PmPort : a[p] \in Mapping \cup {NoMap}
  BY <1>1, <1>4
<1>7. a \in [PmPort -> Mapping \cup {NoMap}]
  BY <1>5, <1>6
<1>8. \A p \in PmPort : a[p] # NoMap =>
         \E i \in PmSlot : tab[i] # NoMap /\ tab[i].port = p /\ tab[i].target = a[p].target
  BY <1>1, <1>4
<1> QED BY <1>7, <1>8 DEF a

LEMMA PmInitHolds == PmInit => PmInv
<1> SUFFICES ASSUME PmInit PROVE PmInv
  OBVIOUS
<1>1. PmTypeOK
  BY DEF PmInit, PmTypeOK, PmTable, EmptyTable
<1>2. \A p \in PmPort : ~Working(p)
  BY DEF PmInit, Working
<1> QED BY <1>1, <1>2
        DEF PmInit, PmInv, StoredIsTable, AddedIsInTable, AppliedIsInTable,
            WorkingIsConfigured, StaleIsAhead, Stale

LEMMA PmRestartKeepsInv == PmInv /\ PmRestart => PmInv'
<1> SUFFICES ASSUME PmInv, PmRestart PROVE PmInv'
  OBVIOUS
<1>1. /\ pmTab' \in PmTable /\ pmUnsaved' \in BOOLEAN
      /\ pmUnsaved' \/ pmTab' = pmStored
  BY DEF PmRestart, PmInv, PmTypeOK, PmTable, EmptyTable
<1>2. /\ myIp' = NoAddr /\ console' = NoCall /\ rebuild' = NoRebuild
      /\ loose' = {} /\ pmStored' = pmStored
  BY DEF PmRestart
<1>3. /\ lwipMaps' \in [PmPort -> Mapping \cup {NoMap}]
      /\ \A p \in PmPort : Working(p)' => Configured(p)'
  <2>1. CASE lwipMaps' = Applied(pmTab')
    BY <1>1, <2>1, AppliedEffect DEF Working, Configured
  <2>2. CASE lwipMaps' = [p \in PmPort |-> NoMap]
    BY <2>2 DEF Working
  <2> QED BY <2>1, <2>2 DEF PmRestart
<1>4. PmTypeOK'
  BY <1>1, <1>2, <1>3 DEF PmTypeOK, PmInv
<1>5. StoredIsTable'
  BY <1>1, <1>2 DEF StoredIsTable
<1>6. (AddedIsInTable /\ AppliedIsInTable /\ WorkingIsConfigured /\ StaleIsAhead)'
  BY <1>2, <1>3 DEF AddedIsInTable, AppliedIsInTable, WorkingIsConfigured, StaleIsAhead
<1> QED BY <1>4, <1>5, <1>6 DEF PmInv

-----------------------------------------------------------------------------
(* The console task.                                                       *)

LEMMA AddMappingKeepsInv ==
  ASSUME PmInv, NEW e \in PmEntry, AddMapping(e) PROVE PmInv'
<1> DEFINE k == LowestSlot(Free)
<1>1. k \in PmSlot /\ pmTab[k] = NoMap
  BY LowestSlotIsIn DEF AddMapping, Free
<1>2. /\ pmTab' = [pmTab EXCEPT ![k] = e]
      /\ console = NoCall /\ console' = [op |-> "add", entry |-> e, at |-> "store"]
      /\ UNCHANGED <<pmStored, lwipMaps, myIp, rebuild, pmUnsaved, loose>>
  BY DEF AddMapping
<1> HIDE DEF k
<1>3. pmTab \in PmTable /\ pmTab' \in PmTable
  BY <1>2 DEF PmInv, PmTypeOK, PmTable
<1>4. console' \in ConsoleCall /\ console'.op = "add" /\ console'.entry = e
      /\ console'.at = "store" /\ console' # NoCall
  BY <1>2, EntriesAreMaps DEF ConsoleCall
<1>5. \A i \in PmSlot : pmTab[i] # NoMap => pmTab'[i] = pmTab[i]
  BY <1>1, <1>2, <1>3 DEF PmTable
<1>6. pmTab'[k] = e /\ e # NoMap
  BY <1>1, <1>2, <1>3, EntriesAreMaps DEF PmTable
<1>7. PmTypeOK'
  BY <1>2, <1>3, <1>4 DEF PmInv, PmTypeOK
<1>8. StoredIsTable'
  BY <1>4 DEF StoredIsTable
<1>9. AddedIsInTable'
  BY <1>1, <1>4, <1>6 DEF AddedIsInTable, InTable
<1>10. AppliedIsInTable'
  BY <1>2, <1>5 DEF PmInv, AppliedIsInTable, InTable
<1>11. \A p \in PmPort : /\ Working(p)' = Working(p) /\ Excused(p)' = Excused(p)
                         /\ Configured(p) => Configured(p)'
  BY <1>2, <1>4, <1>5 DEF Working, Excused, Deleting, Configured
<1>12. WorkingIsConfigured'
  BY <1>11 DEF PmInv, WorkingIsConfigured
<1>13. \A p, j : From(p, j) => From(p, j)'
  BY <1>5 DEF From
<1>14. StaleIsAhead'
  BY <1>2, <1>11, <1>13 DEF PmInv, StaleIsAhead, Stale, Ahead
<1> QED BY <1>7, <1>8, <1>9, <1>10, <1>12, <1>14 DEF PmInv

(* The entry that is taken out is excused until its deletion is done.      *)
LEMMA DelMappingKeepsInv ==
  ASSUME PmInv, NEW port \in PmPort, DelMapping(port) PROVE PmInv'
<1> DEFINE k == LowestSlot(Of(port))
<1>1. k \in PmSlot /\ pmTab[k] # NoMap /\ pmTab[k].port = port
  BY LowestSlotIsIn DEF DelMapping, Of
<1>2. /\ pmTab' = [pmTab EXCEPT ![k] = NoMap]
      /\ console = NoCall /\ console' = [op |-> "del", entry |-> pmTab[k], at |-> "store"]
      /\ UNCHANGED <<pmStored, lwipMaps, myIp, rebuild, pmUnsaved, loose>>
  BY DEF DelMapping
<1> HIDE DEF k
<1>3. pmTab \in PmTable /\ pmTab' \in PmTable /\ pmTab[k] \in PmEntry
  BY <1>1, <1>2 DEF PmInv, PmTypeOK, PmTable
<1>4. console' \in ConsoleCall /\ console'.op = "del" /\ console'.entry = pmTab[k]
      /\ console'.at = "store" /\ console' # NoCall
  BY <1>2, <1>3, EntriesAreMaps DEF ConsoleCall
<1>5. \A i \in PmSlot : i # k => pmTab'[i] = pmTab[i]
  BY <1>1, <1>2, <1>3 DEF PmTable
<1>6. PmTypeOK'
  BY <1>2, <1>3, <1>4 DEF PmInv, PmTypeOK
<1>7. StoredIsTable' /\ AddedIsInTable'
  BY <1>4 DEF StoredIsTable, AddedIsInTable
<1>8. AppliedIsInTable'
  BY <1>1, <1>2, <1>4, <1>5 DEF PmInv, AppliedIsInTable, InTable
<1>9. \A p \in PmPort : /\ Working(p)' = Working(p)
                        /\ Excused(p) => Excused(p)'
                        /\ p = port => Excused(p)'
  BY <1>1, <1>2, <1>4 DEF Working, Excused, Deleting
<1>10. \A p \in PmPort : p # port => (Configured(p) => Configured(p)')
  BY <1>1, <1>2, <1>5 DEF Configured
<1>11. WorkingIsConfigured'
  BY <1>9, <1>10 DEF PmInv, WorkingIsConfigured
<1>12. \A p \in PmPort : \A j : p # port /\ From(p, j) => From(p, j)'
  BY <1>1, <1>5 DEF From
<1>13. StaleIsAhead'
  <2> SUFFICES ASSUME NEW p \in PmPort, Stale(p)'
               PROVE  (\/ rebuild = NoRebuild /\ myIp = NoAddr
                       \/ rebuild # NoRebuild /\ rebuild.phase = "delete" /\ Ahead(p))'
    BY DEF StaleIsAhead
  <2>1. Stale(p) /\ p # port
    BY <1>2, <1>9 DEF Stale
  <2> QED BY <1>2, <1>12, <2>1 DEF PmInv, StaleIsAhead, Ahead
<1> QED BY <1>6, <1>7, <1>8, <1>11, <1>13 DEF PmInv

LEMMA StoreNotOpenedKeepsInv == PmInv /\ StoreNotOpened => PmInv'
<1> SUFFICES ASSUME PmInv, StoreNotOpened PROVE PmInv'
  OBVIOUS
<1>1. /\ console # NoCall /\ console \in ConsoleCall /\ console' = NoCall
      /\ pmUnsaved' = TRUE
      /\ loose' = IF console.op = "del" THEN loose \cup {console.entry.port} ELSE loose
      /\ UNCHANGED <<pmTab, pmStored, lwipMaps, myIp, rebuild>>
  BY DEF StoreNotOpened, PmInv, PmTypeOK
<1>2. console.entry.port \in PmPort
  BY <1>1, EntriesAreMaps DEF ConsoleCall
<1>3. PmTypeOK'
  BY <1>1, <1>2 DEF PmInv, PmTypeOK
<1>4. StoredIsTable' /\ AddedIsInTable'
  BY <1>1 DEF StoredIsTable, AddedIsInTable
<1>5. AppliedIsInTable'
  BY <1>1 DEF PmInv, AppliedIsInTable, InTable
<1>6. \A p \in PmPort : /\ Working(p)' = Working(p) /\ Configured(p)' = Configured(p)
                        /\ Excused(p) => Excused(p)'
  BY <1>1 DEF Working, Configured, Excused, Deleting
<1>7. WorkingIsConfigured'
  BY <1>6 DEF PmInv, WorkingIsConfigured
<1>8. StaleIsAhead'
  BY <1>1, <1>6 DEF PmInv, StaleIsAhead, Stale, Ahead, From
<1> QED BY <1>3, <1>4, <1>5, <1>7, <1>8 DEF PmInv

LEMMA StoreTableKeepsInv == PmInv /\ StoreTable => PmInv'
<1> SUFFICES ASSUME PmInv, StoreTable PROVE PmInv'
  OBVIOUS
<1>1. /\ console # NoCall /\ console \in ConsoleCall
      /\ console' = [console EXCEPT !.at = "lwip"]
      /\ pmStored' \in {pmStored, pmTab} /\ pmUnsaved' \in BOOLEAN
      /\ pmUnsaved' \/ pmStored' = pmTab
      /\ UNCHANGED <<pmTab, lwipMaps, myIp, rebuild, loose>>
  BY DEF StoreTable, Stored, PmInv, PmTypeOK
<1>2. /\ console' \in ConsoleCall /\ console' # NoCall
      /\ console'.op = console.op /\ console'.entry = console.entry
  BY <1>1, EntriesAreMaps DEF ConsoleCall
<1>3. PmTypeOK'
  BY <1>1, <1>2 DEF PmInv, PmTypeOK
<1>4. StoredIsTable'
  BY <1>1 DEF StoredIsTable
<1>5. AddedIsInTable' /\ AppliedIsInTable'
  BY <1>1, <1>2 DEF PmInv, AddedIsInTable, AppliedIsInTable, InTable
<1>6. \A p \in PmPort : /\ Working(p)' = Working(p) /\ Configured(p)' = Configured(p)
                        /\ Excused(p)' = Excused(p)
  BY <1>1, <1>2 DEF Working, Configured, Excused, Deleting
<1>7. WorkingIsConfigured'
  BY <1>6 DEF PmInv, WorkingIsConfigured
<1>8. StaleIsAhead'
  BY <1>1, <1>6 DEF PmInv, StaleIsAhead, Stale, Ahead, From
<1> QED BY <1>3, <1>4, <1>5, <1>7, <1>8 DEF PmInv

LEMMA UpdateLwipAddsKeepInv ==
  ASSUME PmInv, UpdateLwip, console.op = "add" PROVE PmInv'
<1> DEFINE e == console.entry
<1>1. /\ console # NoCall /\ console \in ConsoleCall /\ console' = NoCall
      /\ lwipMaps' = LwipAdd(lwipMaps, e)
      /\ loose' = loose /\ console.at = "lwip"
      /\ UNCHANGED <<pmTab, pmStored, myIp, rebuild, pmUnsaved>>
  BY DEF UpdateLwip, PmInv, PmTypeOK
<1>2. e \in PmEntry /\ e.port \in PmPort
  BY <1>1, EntriesAreMaps DEF ConsoleCall
<1>3. InTable(e)
  BY <1>1 DEF PmInv, AddedIsInTable
<1> HIDE DEF e
<1>4. /\ lwipMaps' \in [PmPort -> Mapping \cup {NoMap}]
      /\ \A p \in PmPort : p # e.port => lwipMaps'[p] = lwipMaps[p]
      /\ lwipMaps'[e.port] # NoMap /\ lwipMaps'[e.port].target = e.target
      /\ lwipMaps'[e.port].addr =
            IF lwipMaps[e.port] = NoMap THEN myIp ELSE lwipMaps[e.port].addr
  BY <1>1, <1>2, LwipAddEffect DEF PmInv, PmTypeOK
<1>5. PmTypeOK'
  BY <1>1, <1>4 DEF PmInv, PmTypeOK
<1>6. StoredIsTable' /\ AddedIsInTable'
  BY <1>1 DEF PmInv, StoredIsTable, AddedIsInTable
<1>7. AppliedIsInTable'
  BY <1>1 DEF PmInv, AppliedIsInTable, InTable
<1>8. \A p \in PmPort : Excused(p)' = Excused(p)
  BY <1>1, <1>2 DEF Excused, Deleting
<1>9. \A p \in PmPort : p # e.port => /\ Working(p)' = Working(p)
                                     /\ Configured(p)' = Configured(p)
  BY <1>1, <1>4 DEF Working, Configured
<1>10. \A p \in PmPort : p = e.port => Configured(p)'
  BY <1>1, <1>3, <1>4 DEF InTable, Configured
<1>11. WorkingIsConfigured'
  BY <1>8, <1>9, <1>10 DEF PmInv, WorkingIsConfigured
<1>12. \A p \in PmPort : Stale(p)' => Stale(p)
  BY <1>1, <1>4, <1>8 DEF Stale, Working
<1>13. StaleIsAhead'
  BY <1>1, <1>12 DEF PmInv, StaleIsAhead, Ahead, From
<1> QED BY <1>5, <1>6, <1>7, <1>11, <1>13 DEF PmInv

LEMMA UpdateLwipDeletesKeepInv ==
  ASSUME PmInv, UpdateLwip, console.op = "del" PROVE PmInv'
<1> DEFINE e == console.entry
<1>1. /\ console # NoCall /\ console \in ConsoleCall /\ console' = NoCall
      /\ lwipMaps' = LwipRemove(lwipMaps, e.port)
      /\ loose' = IF /\ rebuild # NoRebuild /\ rebuild.phase = "apply"
                     /\ rebuild.entry = e
                  THEN loose \cup {e.port} ELSE loose
      /\ console.at = "lwip"
      /\ UNCHANGED <<pmTab, pmStored, myIp, rebuild, pmUnsaved>>
  BY DEF UpdateLwip, PmInv, PmTypeOK
<1>2. e \in PmEntry /\ e.port \in PmPort
  BY <1>1, EntriesAreMaps DEF ConsoleCall
<1>3. /\ lwipMaps' \in [PmPort -> Mapping \cup {NoMap}]
      /\ \A p \in PmPort : lwipMaps'[p] = IF p = e.port THEN NoMap ELSE lwipMaps[p]
  BY <1>1, LwipRemoveEffect DEF PmInv, PmTypeOK
<1>4. PmTypeOK'
  BY <1>1, <1>2, <1>3 DEF PmInv, PmTypeOK
<1>5. StoredIsTable' /\ AddedIsInTable'
  BY <1>1 DEF PmInv, StoredIsTable, AddedIsInTable
<1>6. AppliedIsInTable'
  BY <1>1 DEF PmInv, AppliedIsInTable, InTable
<1>7. \A p \in PmPort : p = e.port => ~Working(p)'
  BY <1>2, <1>3 DEF Working
<1>8. \A p \in PmPort : p # e.port => /\ Working(p)' = Working(p)
                                     /\ Configured(p)' = Configured(p)
                                     /\ Excused(p)' = Excused(p)
  BY <1>1, <1>3 DEF Working, Configured, Excused, Deleting
<1>9. WorkingIsConfigured'
  BY <1>7, <1>8 DEF PmInv, WorkingIsConfigured
<1>10. \A p \in PmPort : Stale(p)' => Stale(p)
  BY <1>1, <1>3, <1>7, <1>8 DEF Stale, Working
<1>11. StaleIsAhead'
  BY <1>1, <1>10 DEF PmInv, StaleIsAhead, Ahead, From
<1> QED BY <1>4, <1>5, <1>6, <1>9, <1>11 DEF PmInv

-----------------------------------------------------------------------------
(* The event task.                                                         *)

LEMMA UplinkLostKeepsInv == PmInv /\ UplinkLost => PmInv'
<1> SUFFICES ASSUME PmInv, UplinkLost PROVE PmInv'
  OBVIOUS
<1>1. /\ rebuild = NoRebuild /\ myIp' = NoAddr
      /\ UNCHANGED <<pmTab, pmStored, lwipMaps, console, rebuild, pmUnsaved, loose>>
  BY DEF UplinkLost
<1>2. PmTypeOK' /\ StoredIsTable' /\ AddedIsInTable' /\ AppliedIsInTable'
  BY <1>1 DEF PmInv, PmTypeOK, StoredIsTable, AddedIsInTable, AppliedIsInTable, InTable
<1>3. WorkingIsConfigured'
  BY <1>1 DEF PmInv, WorkingIsConfigured, Working, Configured, Excused, Deleting
<1>4. StaleIsAhead'
  BY <1>1 DEF StaleIsAhead
<1> QED BY <1>2, <1>3, <1>4 DEF PmInv

(* Every mapping that works has an entry, so all are ahead of slot 0.      *)
LEMMA UplinkUpKeepsInv ==
  ASSUME PmInv, NEW addr \in UplinkAddr, UplinkUp(addr) PROVE PmInv'
<1> DEFINE r == [phase |-> "delete", slot |-> 0, entry |-> NoMap]
<1>1. /\ rebuild = NoRebuild /\ myIp' = addr /\ rebuild' = r
      /\ UNCHANGED <<pmTab, pmStored, lwipMaps, console, pmUnsaved, loose>>
  BY DEF UplinkUp, FirstPhase
<1>2. r \in Rebuild /\ r # NoRebuild
  BY SlotsOfTable, EntriesAreMaps DEF Rebuild
<1>3. PmTypeOK' /\ StoredIsTable' /\ AddedIsInTable'
  BY <1>1, <1>2 DEF PmInv, PmTypeOK, StoredIsTable, AddedIsInTable, InTable
<1>4. AppliedIsInTable'
  BY <1>1 DEF AppliedIsInTable
<1>5. \A p \in PmPort : /\ Working(p)' = Working(p) /\ Configured(p)' = Configured(p)
                        /\ Excused(p)' = Excused(p) /\ From(p, 0)' = From(p, 0)
  BY <1>1 DEF Working, Configured, Excused, Deleting, From
<1>6. WorkingIsConfigured'
  BY <1>5 DEF PmInv, WorkingIsConfigured
<1>7. \A p \in PmPort : Configured(p) => From(p, 0)
  BY SlotsOfTable DEF Configured, From
<1>8. \A p \in PmPort : Stale(p)' => Ahead(p)'
  BY <1>1, <1>5, <1>7 DEF PmInv, WorkingIsConfigured, Stale, Ahead
<1>9. StaleIsAhead'
  BY <1>1, <1>2, <1>8 DEF StaleIsAhead
<1> QED BY <1>3, <1>4, <1>6, <1>9 DEF PmInv

LEMMA NextSlotCases ==
  ASSUME PmTypeOK, rebuild # NoRebuild
  PROVE  \/ /\ NextSlot \in Rebuild /\ NextSlot # NoRebuild
            /\ NextSlot.phase = rebuild.phase /\ NextSlot.slot = rebuild.slot + 1
            /\ NextSlot.entry = NoMap
         \/ /\ \A p : ~From(p, rebuild.slot + 1)
            /\ rebuild.phase = "delete"
            /\ NextSlot \in Rebuild /\ NextSlot # NoRebuild
            /\ NextSlot.phase = "apply" /\ NextSlot.entry = NoMap
         \/ rebuild.phase = "apply" /\ NextSlot = NoRebuild
<1>1. /\ rebuild \in Rebuild /\ rebuild.slot \in PmSlot
      /\ rebuild.phase \in {"delete", "apply"}
  BY DEF PmTypeOK, Rebuild
<1>2. CASE rebuild.slot < PmSlots - 1
  <2>1. NextSlot = [rebuild EXCEPT !.slot = @ + 1, !.entry = NoMap]
    BY <1>2 DEF NextSlot
  <2>2. rebuild.slot + 1 \in PmSlot
    BY <1>1, <1>2, SlotsOfTable
  <2>3. /\ NextSlot \in Rebuild /\ NextSlot.phase = rebuild.phase
        /\ NextSlot.slot = rebuild.slot + 1 /\ NextSlot.entry = NoMap
    BY <1>1, <2>1, <2>2 DEF Rebuild
  <2> QED BY <2>3, EntriesAreMaps
<1>3. CASE ~(rebuild.slot < PmSlots - 1) /\ rebuild.phase = "delete"
  <2>1. NextSlot = [phase |-> "apply", slot |-> 0, entry |-> NoMap]
    BY <1>3 DEF NextSlot
  <2>2. NextSlot \in Rebuild /\ NextSlot.phase = "apply" /\ NextSlot.entry = NoMap
    BY <2>1, SlotsOfTable DEF Rebuild
  <2>3. \A p : ~From(p, rebuild.slot + 1)
    BY <1>1, <1>3, SlotsOfTable DEF From
  <2> QED BY <1>3, <2>2, <2>3, EntriesAreMaps
<1>4. CASE ~(rebuild.slot < PmSlots - 1) /\ rebuild.phase # "delete"
  BY <1>1, <1>4 DEF NextSlot
<1> QED BY <1>2, <1>3, <1>4

LEMMA ReadEntryKeepsInv == PmInv /\ ReadEntry => PmInv'
<1> SUFFICES ASSUME PmInv, ReadEntry PROVE PmInv'
  OBVIOUS
<1>1. /\ rebuild # NoRebuild /\ rebuild \in Rebuild /\ rebuild.entry = NoMap
      /\ rebuild.slot \in PmSlot
      /\ UNCHANGED <<pmTab, pmStored, lwipMaps, myIp, console, pmUnsaved, loose>>
  BY DEF ReadEntry, PmInv, PmTypeOK, Rebuild
<1> DEFINE k == rebuild.slot
<1>2. \A p \in PmPort : /\ Working(p)' = Working(p) /\ Configured(p)' = Configured(p)
                        /\ Excused(p)' = Excused(p) /\ Stale(p)' = Stale(p)
  BY <1>1 DEF Working, Configured, Excused, Deleting, Stale
<1>3. StoredIsTable' /\ AddedIsInTable' /\ WorkingIsConfigured'
  BY <1>1, <1>2 DEF PmInv, StoredIsTable, AddedIsInTable, InTable, WorkingIsConfigured
<1>4. \A p \in PmPort : Stale(p) => rebuild.phase = "delete" /\ From(p, k)
  BY <1>1 DEF PmInv, StaleIsAhead, Ahead
<1>5. \A p \in PmPort : From(p, k) =>
         (pmTab[k] # NoMap /\ pmTab[k].port = p) \/ From(p, k + 1)
  BY <1>1, SlotsOfTable DEF From
<1>6. CASE pmTab[k] = NoMap
  <2>1. rebuild' = NextSlot
    BY <1>6 DEF ReadEntry
  <2>2. PmTypeOK' /\ AppliedIsInTable'
    BY <1>1, <2>1, NextSlotCases DEF PmInv, PmTypeOK, AppliedIsInTable
  <2>3. StaleIsAhead'
    <3> SUFFICES ASSUME NEW p \in PmPort, Stale(p)
                 PROVE  rebuild' # NoRebuild /\ rebuild'.phase = "delete" /\ Ahead(p)'
      BY <1>2 DEF StaleIsAhead
    <3>1. rebuild.phase = "delete" /\ From(p, k + 1)
      BY <1>4, <1>5, <1>6
    <3>2. /\ rebuild' # NoRebuild /\ rebuild'.phase = "delete"
          /\ rebuild'.slot = k + 1 /\ rebuild'.entry = NoMap
      BY <1>1, <2>1, <3>1, NextSlotCases DEF PmInv
    <3> QED BY <1>1, <3>1, <3>2 DEF Ahead, From
  <2> QED BY <1>3, <2>2, <2>3 DEF PmInv
<1>7. CASE pmTab[k] # NoMap
  <2>1. rebuild' = [rebuild EXCEPT !.entry = pmTab[k]]
    BY <1>7 DEF ReadEntry
  <2>2. pmTab[k] \in PmEntry
    BY <1>1, <1>7 DEF PmInv, PmTypeOK, PmTable
  <2>3. /\ rebuild' \in Rebuild /\ rebuild' # NoRebuild /\ rebuild'.entry = pmTab[k]
        /\ rebuild'.phase = rebuild.phase /\ rebuild'.slot = k
    BY <1>1, <2>1, <2>2, EntriesAreMaps DEF Rebuild
  <2>4. PmTypeOK'
    BY <1>1, <2>3 DEF PmInv, PmTypeOK
  <2>5. AppliedIsInTable'
    BY <1>1, <1>7, <2>3 DEF AppliedIsInTable, InTable
  <2>6. StaleIsAhead'
    <3> SUFFICES ASSUME NEW p \in PmPort, Stale(p)
                 PROVE  rebuild' # NoRebuild /\ rebuild'.phase = "delete" /\ Ahead(p)'
      BY <1>2 DEF StaleIsAhead
    <3>1. rebuild.phase = "delete" /\ (pmTab[k].port = p \/ From(p, k + 1))
      BY <1>4, <1>5
    <3> QED BY <1>1, <1>7, <2>3, <3>1 DEF Ahead, From
  <2> QED BY <1>3, <2>4, <2>5, <2>6 DEF PmInv
<1> QED BY <1>6, <1>7

LEMMA PassEntryKeepsInv == PmInv /\ PassEntry => PmInv'
<1> SUFFICES ASSUME PmInv, PassEntry PROVE PmInv'
  OBVIOUS
<1> DEFINE e == rebuild.entry
           k == rebuild.slot
<1>1. /\ rebuild # NoRebuild /\ rebuild \in Rebuild /\ e # NoMap /\ k \in PmSlot
      /\ e \in PmEntry /\ rebuild.phase \in {"delete", "apply"}
      /\ rebuild' = NextSlot
      /\ UNCHANGED <<pmTab, pmStored, myIp, console, pmUnsaved, loose>>
  BY DEF PassEntry, PmInv, PmTypeOK, Rebuild
<1>2. e.port \in PmPort
  BY <1>1, EntriesAreMaps
<1>3. StoredIsTable' /\ AddedIsInTable'
  BY <1>1 DEF PmInv, StoredIsTable, AddedIsInTable, InTable
<1>4. AppliedIsInTable'
  BY <1>1, NextSlotCases DEF PmInv, AppliedIsInTable
<1>5. \A p \in PmPort : Excused(p)' = Excused(p)
  BY <1>1 DEF Excused, Deleting
<1>6. CASE rebuild.phase = "apply"
  <2>1. lwipMaps' = LwipAdd(lwipMaps, e)
    BY <1>6 DEF PassEntry
  <2>2. /\ lwipMaps' \in [PmPort -> Mapping \cup {NoMap}]
        /\ \A p \in PmPort : p # e.port => lwipMaps'[p] = lwipMaps[p]
        /\ lwipMaps'[e.port] # NoMap /\ lwipMaps'[e.port].target = e.target
        /\ lwipMaps'[e.port].addr =
              IF lwipMaps[e.port] = NoMap THEN myIp ELSE lwipMaps[e.port].addr
    BY <1>1, <2>1, LwipAddEffect DEF PmInv, PmTypeOK
  <2>3. PmTypeOK'
    BY <1>1, <2>2, NextSlotCases DEF PmInv, PmTypeOK
  <2>4. \A p \in PmPort : p # e.port => /\ Working(p)' = Working(p)
                                       /\ Configured(p)' = Configured(p)
    BY <1>1, <2>2 DEF Working, Configured
  <2>5. \A p \in PmPort : p = e.port => Excused(p) \/ Configured(p)'
    <3>1. InTable(e) \/ Excused(e.port)
      BY <1>1, <1>6 DEF PmInv, AppliedIsInTable, Excused, Deleting
    <3> QED BY <1>1, <2>2, <3>1 DEF InTable, Configured
  <2>6. WorkingIsConfigured'
    BY <1>5, <2>4, <2>5 DEF PmInv, WorkingIsConfigured
  <2>7. \A p \in PmPort : Stale(p)' => Stale(p)
    BY <1>1, <1>5, <2>2 DEF Stale, Working
  <2>8. \A p \in PmPort : ~Stale(p)
    BY <1>1, <1>6 DEF PmInv, StaleIsAhead
  <2>9. StaleIsAhead'
    BY <2>7, <2>8 DEF StaleIsAhead
  <2> QED BY <1>3, <1>4, <2>3, <2>6, <2>9 DEF PmInv
<1>7. CASE rebuild.phase = "delete"
  <2>1. lwipMaps' = LwipRemove(lwipMaps, e.port)
    BY <1>7 DEF PassEntry
  <2>2. /\ lwipMaps' \in [PmPort -> Mapping \cup {NoMap}]
        /\ \A p \in PmPort : lwipMaps'[p] = IF p = e.port THEN NoMap ELSE lwipMaps[p]
    BY <2>1, LwipRemoveEffect DEF PmInv, PmTypeOK
  <2>3. PmTypeOK'
    BY <1>1, <2>2, NextSlotCases DEF PmInv, PmTypeOK
  <2>4. /\ \A p \in PmPort : p = e.port => ~Working(p)'
        /\ \A p \in PmPort : p # e.port => /\ Working(p)' = Working(p)
                                           /\ Configured(p)' = Configured(p)
    BY <1>1, <1>2, <2>2 DEF Working, Configured
  <2>5. WorkingIsConfigured'
    BY <1>5, <2>4 DEF PmInv, WorkingIsConfigured
  <2>6. StaleIsAhead'
    <3> SUFFICES ASSUME NEW p \in PmPort, Stale(p)'
                 PROVE  rebuild' # NoRebuild /\ rebuild'.phase = "delete" /\ Ahead(p)'
      BY DEF StaleIsAhead
    <3>1. Stale(p) /\ p # e.port
      BY <1>1, <1>5, <2>2, <2>4 DEF Stale, Working
    <3>2. From(p, k + 1)
      BY <1>1, <3>1 DEF PmInv, StaleIsAhead, Ahead
    <3>3. /\ rebuild' # NoRebuild /\ rebuild'.phase = "delete"
          /\ rebuild'.slot = k + 1 /\ rebuild'.entry = NoMap
      BY <1>1, <1>7, <3>2, NextSlotCases DEF PmInv
    <3> QED BY <1>1, <3>2, <3>3 DEF Ahead, From
  <2> QED BY <1>3, <1>4, <2>3, <2>5, <2>6 DEF PmInv
<1> QED BY <1>1, <1>6, <1>7

-----------------------------------------------------------------------------
(* The theorems.                                                           *)

LEMMA PmStepKeepsInv == PmInv /\ [PmNext]_pmVars => PmInv'
<1> SUFFICES ASSUME PmInv, [PmNext]_pmVars PROVE PmInv'
  OBVIOUS
<1>1. CASE UNCHANGED pmVars
  BY <1>1 DEF pmVars, PmInv, PmTypeOK, StoredIsTable, AddedIsInTable, AppliedIsInTable,
              InTable, WorkingIsConfigured, StaleIsAhead, Stale, Working, Configured,
              Excused, Deleting, Ahead, From
<1>2. CASE UpdateLwip
  <2>1. console.op \in {"add", "del"}
    BY <1>2 DEF UpdateLwip, PmInv, PmTypeOK, ConsoleCall
  <2> QED BY <1>2, <2>1, UpdateLwipAddsKeepInv, UpdateLwipDeletesKeepInv
<1> QED BY <1>1, <1>2, AddMappingKeepsInv, DelMappingKeepsInv, StoreNotOpenedKeepsInv,
           StoreTableKeepsInv, UplinkLostKeepsInv, UplinkUpKeepsInv, ReadEntryKeepsInv,
           PassEntryKeepsInv, PmRestartKeepsInv DEF PmNext

LEMMA PmInvAlways == PmSpec => []PmInv
BY PmInitHolds, PmStepKeepsInv, PTL DEF PmSpec

(* The three copies of the table and both tasks keep their types.          *)
THEOREM PmTypeCorrect == PmSpec => []PmTypeOK
<1>1. PmInv => PmTypeOK
  BY DEF PmInv
<1> QED BY <1>1, PmInvAlways, PTL

(* What works in lwIP is in the table, but for the two kinds of deletions  *)
(* that leave a mapping behind.                                            *)
THEOREM WorkingMappingsAreConfigured == PmSpec => []ActiveIsConfigured
<1>1. PmInv => ActiveIsConfigured
  <2> SUFFICES ASSUME PmInv, NEW p \in PmPort, lwipMaps[p] # NoMap
               PROVE  \/ p \in loose \/ InCall(p, {"store", "lwip"})
                      \/ \E i \in Of(p) : pmTab[i].target = lwipMaps[p].target
    BY DEF ActiveIsConfigured
  <2>1. Excused(p) \/ Configured(p)
    BY DEF PmInv, WorkingIsConfigured, Working
  <2>2. Deleting(p) => InCall(p, {"store", "lwip"})
    BY DEF Deleting, InCall, PmInv, PmTypeOK, ConsoleCall
  <2> QED BY <2>1, <2>2 DEF Excused, Configured, Of
<1> QED BY <1>1, PmInvAlways, PTL

(* When all is quiet every mapping listens on the uplink's address.        *)
THEOREM MappingsListen == PmSpec => []ActiveListens
<1>1. PmInv => ActiveListens
  BY DEF PmInv, StaleIsAhead, Stale, Working, Excused, Deleting, ActiveListens
<1> QED BY <1>1, PmInvAlways, PTL

(* NVS has the table of mappings, unless a write is due or has failed.     *)
THEOREM TableIsStored == PmSpec => []StoredIsTable
<1>1. PmInv => StoredIsTable
  BY DEF PmInv
<1> QED BY <1>1, PmInvAlways, PTL

=============================================================================
