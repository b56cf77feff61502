------------------------------- MODULE Portmap -------------------------------
(***************************************************************************)
(* The port mappings of main/esp32_nat_router.c.  They exist three times:  *)
(* in the table portmap_tab, as a blob in NVS, and in lwIP, where they     *)
(* work.  The console task adds and deletes them, the event task rebuilds  *)
(* lwIP's copy when the uplink gets an address, and a restart reads the    *)
(* blob.  There is no lock: the two tasks are interleaved at every access  *)
(* to the table and to lwIP, and every call of NVS may fail.               *)
(*                                                                         *)
(* lwIP's table is external: one mapping per port; adding to a port that   *)
(* has one changes its target and keeps the address it listens on, which   *)
(* is why the code deletes all mappings before it applies them anew.       *)
(***************************************************************************)
EXTENDS Integers

CONSTANTS
  PmPort,     \* (protocol, external port) pairs
  PmTarget,   \* (internal address, internal port) pairs
  PmEntry,    \* the entries users configure
  PmSlots,    \* IP_PORTMAP_MAX
  UplinkAddr  \* addresses the uplink may get

ASSUME PortmapAssumption ==
  /\ PmSlots \in Nat \ {0}
  /\ PmEntry \subseteq [port : PmPort, target : PmTarget]

VARIABLES
  pmTab,      \* portmap_tab
  pmStored,   \* the blob in NVS
  lwipMaps,   \* the mapping at work on each port
  myIp,       \* my_ip, NoAddr for 0
  console,    \* the call of add_portmap or del_portmap in progress
  rebuild,    \* delete_portmap_tab or apply_portmap_tab in progress
  pmUnsaved,  \* ghost: the last write, or the read at boot, failed
  loose       \* ghost: ports whose deletion met one of the two faults below

pmVars == <<pmTab, pmStored, lwipMaps, myIp, console, rebuild, pmUnsaved, loose>>

NoAddr == "0.0.0.0"
NoMap == [valid |-> FALSE]
PmSlot == 0 .. (PmSlots - 1)
Mapping == [addr : UplinkAddr \cup {NoAddr}, target : PmTarget]
PmTable == [PmSlot -> PmEntry \cup {NoMap}]
EmptyTable == [i \in PmSlot |-> NoMap]

NoCall == [op |-> "none"]
ConsoleCall == [op : {"add", "del"}, entry : PmEntry, at : {"store", "lwip"}]
NoRebuild == [phase |-> "none"]
Rebuild == [phase : {"delete", "apply"}, slot : PmSlot, entry : PmEntry \cup {NoMap}]

(* Every variable keeps its type.                                          *)
PmTypeOK ==
  /\ pmTab \in PmTable /\ pmStored \in PmTable
  /\ lwipMaps \in [PmPort -> Mapping \cup {NoMap}]
  /\ myIp \in UplinkAddr \cup {NoAddr}
  /\ console = NoCall \/ console \in ConsoleCall
  /\ rebuild = NoRebuild \/ rebuild \in Rebuild
  /\ pmUnsaved \in BOOLEAN
  /\ loose \subseteq PmPort

PmInit ==
  /\ pmTab = EmptyTable /\ pmStored = EmptyTable
  /\ lwipMaps = [p \in PmPort |-> NoMap]
  /\ myIp = NoAddr
  /\ console = NoCall /\ rebuild = NoRebuild
  /\ pmUnsaved = FALSE
  /\ loose = {}

-----------------------------------------------------------------------------
(* The tables.                                                             *)

Free == {i \in PmSlot : pmTab[i] = NoMap}
Of(port) == {i \in PmSlot : pmTab[i] # NoMap /\ pmTab[i].port = port}
LowestSlot(S) == CHOOSE i \in S : \A j \in S : i <= j

\* ip_portmap_add(proto, my_ip, ...) on the table of lwIP
LwipAdd(maps, e) ==
  [maps EXCEPT ![e.port] =
     [addr |-> IF @ = NoMap THEN myIp ELSE @.addr, target |-> e.target]]

\* Mutation: the mapping to remove is not found.
LwipRemove_NotFound(maps, port) == maps

\* ip_portmap_remove
LwipRemove(maps, port) == [maps EXCEPT ![port] = NoMap]

\* apply_portmap_tab while nobody else runs yet
Applied(tab) ==
  [p \in PmPort |->
     LET S == {i \in PmSlot : tab[i] # NoMap /\ tab[i].port = p}
     IN  IF S = {} THEN NoMap
         ELSE [addr |-> NoAddr,
               target |-> tab[CHOOSE i \in S : \A j \in S : j <= i].target]]

-----------------------------------------------------------------------------
(* The console task.                                                       *)

\* add_portmap: the first free slot; a full table is an error and no change.
AddMapping(e) ==
  /\ console = NoCall /\ Free # {}
  /\ pmTab' = [pmTab EXCEPT ![LowestSlot(Free)] = e]
  /\ console' = [op |-> "add", entry |-> e, at |-> "store"]
  /\ UNCHANGED <<pmStored, lwipMaps, myIp, rebuild, pmUnsaved, loose>>

\* del_portmap: the first entry of that port; none is a success.
DelMapping(port) ==
  /\ console = NoCall /\ Of(port) # {}
  /\ LET i == LowestSlot(Of(port))
     IN  /\ pmTab' = [pmTab EXCEPT ![i] = NoMap]
         /\ console' = [op |-> "del", entry |-> pmTab[i], at |-> "store"]
  /\ UNCHANGED <<pmStored, lwipMaps, myIp, rebuild, pmUnsaved, loose>>

\* nvs_open fails: the call returns, lwIP is left as it is.
StoreNotOpened ==
  /\ console # NoCall /\ console.at = "store"
  /\ console' = NoCall
  /\ pmUnsaved' = TRUE
  /\ loose' = IF console.op = "del" THEN loose \cup {console.entry.port} ELSE loose
  /\ UNCHANGED <<pmTab, pmStored, lwipMaps, myIp, rebuild>>

\* Mutation: only an addition writes the table.
Stored_AddOnly == IF console.op = "add" THEN pmTab ELSE pmStored

\* nvs_set_blob of the whole table, and nvs_commit
Stored == pmTab

\* Either call may fail; their results are ignored.
StoreTable ==
  /\ console # NoCall /\ console.at = "store"
  /\ console' = [console EXCEPT !.at = "lwip"]
  /\ \/ pmStored' = Stored /\ pmUnsaved' = FALSE
     \/ UNCHANGED pmStored /\ pmUnsaved' = TRUE
  /\ UNCHANGED <<pmTab, lwipMaps, myIp, rebuild, loose>>

\* The last step of the call.  A rebuild that has read the deleted entry
\* and not yet passed it on to lwIP will bring it back.
UpdateLwip ==
  /\ console # NoCall /\ console.at = "lwip"
  /\ lwipMaps' = IF console.op = "add" THEN LwipAdd(lwipMaps, console.entry)
                 ELSE LwipRemove(lwipMaps, console.entry.port)
  /\ loose' = IF /\ console.op = "del" /\ rebuild # NoRebuild
                 /\ rebuild.phase = "apply" /\ rebuild.entry = console.entry
              THEN loose \cup {console.entry.port} ELSE loose
  /\ console' = NoCall
  /\ UNCHANGED <<pmTab, pmStored, myIp, rebuild, pmUnsaved>>

-----------------------------------------------------------------------------
(* The event task.                                                         *)

\* WIFI_EVENT_STA_DISCONNECTED
UplinkLost ==
  /\ rebuild = NoRebuild /\ myIp # NoAddr
  /\ myIp' = NoAddr
  /\ UNCHANGED <<pmTab, pmStored, lwipMaps, console, rebuild, pmUnsaved, loose>>

\* Mutation: the mappings are applied without deleting them first.
FirstPhase_Apply == "apply"

FirstPhase == "delete"

\* IP_EVENT_STA_GOT_IP
UplinkUp(addr) ==
  /\ rebuild = NoRebuild
  /\ myIp' = addr
  /\ rebuild' = [phase |-> FirstPhase, slot |-> 0, entry |-> NoMap]
  /\ UNCHANGED <<pmTab, pmStored, lwipMaps, console, pmUnsaved, loose>>

NextSlot ==
  IF rebuild.slot < PmSlots - 1
  THEN [rebuild EXCEPT !.slot = @ + 1, !.entry = NoMap]
  ELSE IF rebuild.phase = "delete"
  THEN [phase |-> "apply", slot |-> 0, entry |-> NoMap]
  ELSE NoRebuild

\* The loop reads an entry; one that is not valid is skipped.
ReadEntry ==
  /\ rebuild # NoRebuild /\ rebuild.entry = NoMap
  /\ rebuild' = IF pmTab[rebuild.slot] = NoMap THEN NextSlot
                ELSE [rebuild EXCEPT !.entry = pmTab[rebuild.slot]]
  /\ UNCHANGED <<pmTab, pmStored, lwipMaps, myIp, console, pmUnsaved, loose>>

PassEntry ==
  /\ rebuild # NoRebuild /\ rebuild.entry # NoMap
  /\ lwipMaps' = IF rebuild.phase = "apply" THEN LwipAdd(lwipMaps, rebuild.entry)
                 ELSE LwipRemove(lwipMaps, rebuild.entry.port)
  /\ rebuild' = NextSlot
  /\ UNCHANGED <<pmTab, pmStored, myIp, console, pmUnsaved, loose>>

\* A restart at any moment: get_portmap_tab, which may fail, and with a
\* static uplink address apply_portmap_tab before my_ip is known.
PmRestart ==
  /\ \/ pmTab' = pmStored /\ pmUnsaved' = FALSE
     \/ pmTab' = EmptyTable /\ pmUnsaved' = TRUE
  /\ lwipMaps' \in {Applied(pmTab'), [p \in PmPort |-> NoMap]}
  /\ myIp' = NoAddr
  /\ console' = NoCall /\ rebuild' = NoRebuild
  /\ loose' = {}
  /\ UNCHANGED pmStored

PmNext ==
  \/ \E e \in PmEntry : AddMapping(e)
  \/ \E port \in PmPort : DelMapping(port)
  \/ StoreNotOpened \/ StoreTable \/ UpdateLwip
  \/ UplinkLost \/ (\E addr \in UplinkAddr : UplinkUp(addr))
  \/ ReadEntry \/ PassEntry
  \/ PmRestart

PmSpec == PmInit /\ [][PmNext]_pmVars

-----------------------------------------------------------------------------
InCall(port, at) == console # NoCall /\ console.entry.port = port /\ console.at \in at

(* Whatever works in lwIP is configured: a mapping that was deleted is     *)
(* gone, unless its deletion could not open NVS, or met a rebuild that had *)
(* just read it; those leave a mapping no further command removes.         *)
ActiveIsConfigured ==
  \A p \in PmPort :
     lwipMaps[p] # NoMap =>
        \/ p \in loose \/ InCall(p, {"store", "lwip"})
        \/ \E i \in Of(p) : pmTab[i].target = lwipMaps[p].target

(* While the uplink has an address and nothing is under way, every mapping *)
(* listens on that address, whenever it was added and whoever added it.    *)
ActiveListens ==
  myIp # NoAddr /\ rebuild = NoRebuild /\ console = NoCall =>
     \A p \in PmPort \ loose : lwipMaps[p] # NoMap => lwipMaps[p].addr = myIp

(* A restart finds the table as it was, unless a call was interrupted      *)
(* before it wrote, or the last write or the read at boot failed.          *)
StoredIsTable ==
  (console # NoCall /\ console.at = "store") \/ pmUnsaved \/ pmStored = pmTab

=============================================================================
