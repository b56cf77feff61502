# Formal models of the solar charging station

This directory holds a TLA+ development of the firmware in `../src`: an ESP32
that shares an uplink with phones through a captive portal, gives each device
one hour a day, and switches charging ports with an RFID card as long as the
battery permits it. Modules are checked with TLC on small instances; what
matters most is proved with TLAPS for every value of the constants.

Every definition is a translation of C code; `PROJECT.json` ("map") names the
lines of each. Definitions keep the names of the source where that reads well.

    tlc -workers 2 -config MCPortal.cfg MCPortal      # one run
    tlapm PortalProofs.tla                            # one module of proofs

## The system

The firmware runs about ten FreeRTOS tasks on two cores. Except for the
admission list and the last AC reading, shared variables have no lock.

| Part | State | Operations | Talks to |
|---|---|---|---|
| Admission list `client_acl.c` | table of (address, MAC) entries, spinlock | admit, revoke by address, revoke by MAC, is admitted | lwIP hook reads it, session manager writes it |
| Session manager `http_server.c` | `sessions[]`, `s_quota_records[]`, `s_global_session_end_time`, `portal_authenticated`, `s_napt_enabled` | confirm, status and page requests, connect, lease, disconnect, heartbeat | called by HTTP, DNS, event and heartbeat tasks; drives the admission list and NAPT |
| Event handler `esp32_nat_router.c` | `ap_connect`, `connect_count`, `last_ap_client_mac` | Wi-Fi and IP events | calls the session manager; starts SNTP; rebuilds port mappings |
| Packet hook `lwip_hooks.c` | none | decides every packet of a client | reads the admission list |
| DNS server `dns_server.c` | answer cache | answers or hijacks a query | asks the session manager for every query |
| Battery task `battery_sensor.c` | `s_state`, four debounce counters | boot decision, one evaluation per sample | switches the access point, blocks the power outputs |
| RFID task `rfid_reader.c` | `s_ports_active`, `s_card_present`, six GPIOs, `s_ports_allowed_by_battery` | polling loop, `set_power_state` | also entered by the battery task |
| Quota in NVS `http_server.c` | `s_quota_records[]`, `s_quota_dirty`, `s_day_hint`, a blob and a hint in NVS | look up, checkpoint, flush, load | session manager, NVS |
| Supabase updates `http_server.c`, `supabase_client.c` | queue of 8, rows by token | queue, post, heartbeat | fed by the session manager, never read back |
| Diagnostics `net_diag.c` | one pending reason, the task's notification | schedule a probe, probe | asked by the DNS server, the session manager and the event handler |
| Port sensors `port_sensors.c` | presence, last posted status, seconds per day, their anchors | poll, post, read and post on demand | the HTTP server's admin pages write the same rows |
| AC meter `pzem_reader.c` | energy at midnight, day anchor, last reading | poll, post | the same |
| Port mappings `esp32_nat_router.c`, `cmd_router.c` | table, NVS copy, mappings in lwIP | add, delete, rebuild | console task, event task |
| Settings: form, `cmd_router.c`, `cmd_nvs.c` | NVS keys, static argument structs, `errno` | save, set, erase, restart | HTTP server's task and console task |
| Eco metrics | floating-point sums | none called in the default build | nothing |

What makes this code hard:

* **Two tables that must agree.** Sessions and the packet filter are updated
  side by side in eight places, keyed by address here and by MAC there.
* **Ordering inside handlers.** Every handler ends in
  `refresh_portal_auth_state`, which itself ends sessions, revokes addresses
  and switches NAPT for all clients.
* **Charging time.** Usage is charged by the heartbeat, by every revocation
  and by every refresh, in whole seconds, across midnight, SNTP and reconnects.
* **Two tasks in one function.** `set_power_state` runs on two cores.
* **Debouncing and power cuts** of the battery state machine.
* **Copies that outlive the program.** Quota, mappings and settings are in NVS,
  sessions and ports in rows at Supabase; each write may fail, most are not
  repeated, and a restart comes between any two of them.
* **Unlocked neighbours.** The console task edits the table of mappings while
  the event task walks through it; two tasks parse into one argument struct;
  one task switches NAPT off while another relies on its flag.

`PROJECT.json` lists each hazard at its line with the properties that cover it.

## Modules

| Module | Models | Extends / uses |
|---|---|---|
| `AdmissionSet` | what the admission list promises: a bounded set of bindings | |
| `ClientAcl` | `client_acl.c`, as operators from table to table and as actions | refines `AdmissionSet` |
| `Portal` | session manager, quota, NAPT, event handler | extends `ClientAcl` |
| `PortalUsage` | the heartbeat's schedule and the time really served | extends `Portal` |
| `ServiceLevels` | what the battery monitor promises: five levels, arrows, permissions | |
| `Battery` | `battery_task`, thresholds, counters, boot, restarts | refines `ServiceLevels` |
| `PowerGate` | `rfid_task` and `set_power_state` in two tasks, statement by statement | extends `ServiceLevels` |
| `DailyUsage` | what the quota records promise: a usage per device and a copy of it | |
| `QuotaStore` | the 20 quota records, NVS, the day hint, restarts | refines `DailyUsage` |
| `NaptTasks` | NAPT in the confirming and the revoking tasks, access by access | |
| `SessionRows` | the update queue, the posts past it, and the rows | |
| `NetDiag` | the diagnostics task and its one-slot buffer | |
| `DnsServer` | the DNS answer cache and the forwarding of a query | extends `NetDiag` |
| `Portmap` | port mappings in the table, in NVS and in lwIP, in two tasks | |
| `Settings` | the configuration form, `set_ap` and `set_sta` in two tasks | |
| `NvsConsole` | `nvs_set` and the other console commands that write NVS | |
| `PortSensors` | one charging port, its sync task and the admin handlers | |
| `AcMeter` | the AC meter's task and the outlet's row | |
| `Services` | the last nine of these side by side, for one run | extends all of them |
| `ClientAclProofs`, `PortalProofs`, `BatteryProofs`, `PowerGateProofs`, `QuotaStoreProofs`, `PortmapProofs` | theorems | extend the module they are about |
| `PortalRegularProofs` | theorems about regular clients and about the heartbeat | extends `PortalProofs`, `PortalUsage` |
| `ServicesProofs` | theorems about the other services and about `Services` | extends `Services`, `PortmapProofs`, `QuotaStoreProofs` |
| `MC...` | values for TLC, and the symmetry of stations and addresses | |

Definitions named `X_Something` directly above a definition `X` are mutations
of it: plausible slips (a dropped guard, a missing reset) each of which TLC
must find through one of the properties. The models never use them.

### ClientAcl

`acl` is the table `s_acl`; an unused entry, all zero in the code, is
`NoEntry`. The functions run under one spinlock, so each is one action. The
three searches of `client_acl_admit`, each stopping at its first match, are
the alternatives of `AclStore`.

### Portal

A state is the session table, the quota records (a function of the MAC), the
admission list, the global session, `portal_authenticated`, NAPT, and of the
environment the clock, SNTP, the uplink, the associated stations, their
addresses and leases, the cached MAC and `connect_count`. One action is one
handler from its first to its last state change:

| Action | Code |
|---|---|
| `ConfirmRefused`, `ConfirmGranted` | `confirm_handler` with `start_or_resume_session` |
| `ProbeExpired`, `ProbeByMac` | `get_remaining_seconds`, for each DNS query and page |
| `ConnectToPortal`, `ConnectResumed` | station associated, `handle_client_connect` |
| `IpAssigned` | lease, `handle_client_ip_assigned` |
| `Disconnected` | station gone, `handle_client_disconnect` |
| `Heartbeat(i)` | one slot of the loop of `supabase_heartbeat_task` |
| `Uplink`, `TimeSync`, `Tick`, `StaticAddress` | environment |

`Refresh` is `refresh_portal_auth_state` with `maybe_disable_napt_if_idle`;
it is part of the action of every handler that calls it. Driver calls that may
fail (NAPT on and off) have both outcomes.

The constant `Clients` says what clients do beyond associating, leasing,
requesting and leaving: `"renumber"` (a new address while associated),
`"late"` (a request handled after its sender left), `"no_peer"` (the peer
address is unknown, `ip = 0`), `"static"` (an address never leased). Some
properties hold for every such set, some only for regular clients (`{}`); the
configuration says which.

Abstractions (`Portal`): MACs and addresses are model values; session tokens are random
and never match, so the searches by token find nothing; a day is `DaySec`
seconds and a second is `TicksPerSec` ticks; the station list changes at the
moment of its event; two stations do not use one address at the same time; a
restart begins a new behaviour, since this build erases the stored quota at
every boot (`DEV_RESET_QUOTA_ON_BOOT`); the quota table has a record for every
device (`PortalAssumption`). `QuotaStore` drops the last two, `NaptTasks` the
atomicity of handlers where NAPT is concerned.

### PortalUsage

In `Portal` a heartbeat may come at any time, which is right for safety but
would blame the schedule for every uncharged second. Here the task visits all
slots every `HeartbeatSec` seconds, and `served` counts the ticks a station
really had access, to compare with the quota.

### Battery and ServiceLevels

Voltages are in tenths of a volt, one per region between thresholds. `Sample`
is one round of the loop, `Boot` the decision after a start (the average may
be 0 when no reading succeeds), `PowerCycle` a restart in any state.
`esp_wifi_set_mode` may fail, and the code does not retry before the next
transition. `recent` is a ghost variable: the readings since the last
transition.

### PowerGate

Each read and write of a shared variable in `set_power_state` is a step:
the gate, the comparison with `s_ports_active`, its assignment, each pin. The
battery task is reduced to the levels of `ServiceLevels`, which `Battery`
implements. `loops` counts the RFID loops between two changes of level: levels
change at least 30 s apart and a loop takes less than 100 ms, so at least two
loops are completed between them. Without that, a level could change while a
call of the RFID task is stuck, which the priorities exclude.

### QuotaStore and DailyUsage

`quotaRecords` is `s_quota_records` with fewer records than devices,
`storedQuota` the blob and the day hint in NVS. The HTTP server, the event loop,
the DNS server and the heartbeat share them without a lock (`QuotaTask`).
`LookUp` and `Checkpoint` are `find_or_alloc_quota_record` as
`get_quota_remaining_for_mac` and `checkpoint_session_usage` call it; `Flush`
is `flush_quota_state` up to its first write: not due, not opened, or begun. A
task in a flush then takes `WriteBlob`, `WriteHint` and `CommitFlush`, each of
which may fail, before or after it wrote, and the other tasks go on in between,
with flushes of their own too. Within `nvs_set_blob` NVS is taken to copy the
records at once. The ghost `overtaken` marks a change between a flush's copy of
the records and its end. `LoadReset` and `LoadStored` are `load_quota_state` of the two builds. Before SNTP the day is
the hint, or 1 without one. The ghosts `tornStore` and `tornRead` say that the
records and the hint in NVS, or those read at boot, are of different flushes:
then a record can be of a later day than the router believes it is.

`DailyUsage` knows a usage per device and its stored copy. The refinement
mapping reads the first record of each device; a device displaces another only
when there is no room. The mapping hides slots, flags, hints and the clock.

### NaptTasks

`ensure_napt_enabled` with the start of a session, and the end of a session
with `maybe_disable_napt_if_idle`, split at each access to `s_napt_enabled`, to
the session table and to the driver. A client of `counting` has an active,
admitted session.

### SessionRows

A token's session is unused, running, revoked (through `revoke_session`, which
queues an update) or gone (ended by a refresh or a slot that was given away,
which queues none). The queue's task posts one update at a time; the HTTP
server's task and the heartbeat post `active` past the queue. A failed post may
have arrived. A handler's change of the session and its queueing are one step;
the post is a second one, so that everything may happen in between.

### NetDiag and DnsServer

`NetDiag` is a buffer of one reason: `net_diag_schedule_probe` overwrites it,
the task takes it, probes, and then clears it with whatever came meanwhile.

`DnsServer` is one task: `AnswerCaptive`, `AnswerCached` and `Forward` begin a
query, `Forwarded` and `ForwardFailed` end it after the clock has moved. The
ghost `fetched` is the day an answer was cached on. `dns_cache_lookup` drops
expired entries only up to the first hit, which `Scanned` keeps; the insertion
takes the first invalid slot without a search.

### Portmap

`pmTab`, `pmStored` and `lwipMaps` are the three copies. A console command is
three steps (the table, NVS, lwIP); the rebuilding after `IP_EVENT_STA_GOT_IP`
reads one entry and passes it to lwIP in two steps per slot, once for deleting
and once for applying. The ghost `loose` collects the ports whose deletion met
one of the two faults that leave a mapping in lwIP.

### Settings and NvsConsole

In `Settings` a task's call goes through `parse`, one step per key, and
`commit`; `setArgs` is the call whose strings the static struct points to. A
value is the pair of what is typed and what `preprocess_string` makes of it
(`Decode`): the form's values are decoded twice. `alone` is a ghost: a call
that was overlapped claims nothing.

`NvsConsole` converts numbers as `strtol` and `strtoul` do, modulo `LongWrap`
(and `ByteWrap` for a byte), and keeps `errno`: an overflow refuses every later
number until something else replaces `errno`. `SetApIp` never commits.

### PortSensors and AcMeter

Times are relative to the last poll and saturate where only "at least" counts,
so no clock is bounded. `Poll` is one round of `port_sensors_sync_task` after
any `dt` of at most `PollGap`: new day, reading, seconds, post. The admin
handlers set presence by reading and write the row by posting.

`AcMeter` has the wall clock in days and the meter's own counter, which runs on
across restarts and can be reset. A round of `pzem_task` is `ReadMeter` (the
reading is cached for the pages and the energy of the day worked out, with no
blocking call in between), `StationPosted`, `OutletPosted` if the state is not
the one that was posted last, and `OutletKept`; loads, the clock, a reset of
the meter, an administrator's post and a restart may come between any two. A
post fails or arrives, or both, but does not arrive after it was given up.
`used` is what was metered since the first reading of the day.

### Services

These nine services share no variable (`NetDiag` and `DnsServer` share a call,
checked in one behaviour). `Services` lets one of them move while the others
rest in an initial state: the reachable states are the sum, not the product, of
theirs, and every property of a service is checked as if it were alone.

## What is checked

Passing runs:

| Run | Configuration | Shows |
|---|---|---|
| `acl` | 3 stations, 3 addresses, table of 3 | One entry per station, no duplicate anonymous entry, and the refinement of `AdmissionSet`, with the table full. |
| `portal` | 2 stations, 2 addresses, quota 3 s, day 4 s, 5 ticks, regular clients | Sessions are unique and end with their association, NAPT is on for whoever has access, filter and sessions name the same addresses, no session may use more than is left of the quota, usage is never forgotten within a day. |
| `portal_irregular` | 2 stations, 1 address, 3 slots, all kinds of clients | The first three of these hold for any clients. |
| `portal_expiry` | fair heartbeat, renumbering and unknown peers | Whoever is admitted has a session, and is cut off after it ends. |
| `battery` | 7 voltages, debounce 3 | Moves are sustained, the refinement of `ServiceLevels`, and a charged battery restores full service. |
| `power_gate` | 3 outputs | Blocked outputs do not rise; a valid card is served whatever the tasks did before. |
| `services` | each service on the instance below | The properties of the table that follows. |

The properties of `services`, by module:

| Module | Property | What it says |
|---|---|---|
| `DnsServer` | `DnsOneEntryPerName` | A name is in the cache once. |
| | `AnswersAreOfTheDay` | No answer is served from the cache after the midnight that follows it. |
| `NetDiag` | `RequestIsProbed` | Whoever asks for probes gets a round of them, once there is a task. |
| `Portmap` | `ActiveIsConfigured` | What works in lwIP is in the table, or belongs to a deletion that failed or met a rebuild. |
| | `ActiveListens` | At rest, every mapping listens on the present address of the uplink. |
| | `StoredIsTable` | NVS has the table, unless a write is due or failed. |
| `Settings` | `AcknowledgedIsDurable` | Values reported as stored survive a restart. |
| `NvsConsole` | `NvsStoresWhatWasGiven` | A number reported as stored is the number that was typed. |
| `QuotaStore` | `FlushedIsStored` | A table that is not dirty is the one in NVS, whatever flushes and changes overlap, unless it changed after the copy and before the end of a flush. |
| | `RecordsNotAhead` | No record is of a later day than the one in use, across restarts. |
| | `ImplementsDailyUsage` | The refinement of `DailyUsage`. |
| `SessionRows` | `RevokedRowStaysClosed` | The row of a revoked session ends closed, unless an update was dropped or failed or a direct post was under way. |
| `PortSensors` | `PortRowCatchesUp` | The row of a port shows its state again and again, whoever overwrites it. |
| | `DailySecondsFit` | The seconds in use of a day fit into the time since its start. |
| `AcMeter` | `EnergyTodayIsMetered` | The energy of the day is at most what was metered since its first reading. |
| | `OutletRowIsRead` | The outlet's row is what was posted last until the post of a reading, and that reading from then on, unless a post failed or someone else wrote it. |
| all | `ServicesTypeOK` | Types, and the length of the update queue. |

Runs in which the code contradicts its documentation (see "findings" in
`PROJECT.json`):

| Run | Property | What happens |
|---|---|---|
| `portal_renumber` | `RunningIsAdmitted` | The lease handler admits an address and its own refresh revokes it, because an expired session of another station still holds that address. Swapping the two calls repairs it. |
| `portal_usage` | `DailyLimit` | Confirming just after the session expired, before a heartbeat, drops the session without charging its last seconds; they are granted again. |
| `battery_drained` | `DrainedBlocksPorts` | Level `charging_on` has no way down, so a battery that drains there keeps feeding the ports. |
| `napt_race` | `CountingNeedsNapt` | Another task has seen no session and is about to disable NAPT; a confirmation finds `s_napt_enabled` still set and starts a session, which counts with NAPT off. |
| `power_blocked` | `BlockedGoesOff` | The two tasks race in `set_power_state`; outputs stay high while the flag says they are off, and nothing switches them off during the whole blocked phase. |

### Bounds, and why they are enough

* Two stations and two addresses give every conflict the tables can have: one
  address for two sessions over time, one station with two addresses, an entry
  taken over. With at most one session per station (proved) two slots are
  never exceeded by regular clients; the irregular run has three, for sessions
  of clients without a known MAC.
* A quota of 3 s and a clock of 5 s with midnight at 2 s let a session start
  before midnight, be interrupted, resumed with a partial grant, run out and
  be confirmed again. `portal_expiry` needs one expiry only: clock 1, quota 1.
* `MaxTime` bounds the clock. The other counters (`connectCount`) wrap as the
  code's do.
* The debounce is 3 (2 where a counterexample is looked for) instead of 6:
  long enough to be interrupted in the middle by a reading that starts over.
* Three outputs let one task overtake the other between two writes.

* `services`: two cache entries for three names make the cache evict, and two
  ticks per second let `time(NULL)` lag behind the timer; two slots and two
  targets on one port make a rebuild, a deletion and an addition meet on one
  entry (the invariant of the proof was also checked with two ports, 12.5
  million states); one quota record for two devices makes every new device
  displace the other, three days give a record of the past, of today and one
  ahead, and two tasks let a change or a whole flush fall between the writes
  of another's flush (also checked with three devices and two records: with
  one task, 1.5 million states, and with two tasks and a day less, 807
  thousand); two tokens and a queue of two make the queue overflow and an update
  of one session wait behind the other's; bytes of two bits and longs of three
  have all the cases of the conversions, since the typed numbers go beyond
  both; energy up to 3 of 8 has resets and a difference that would wrap.
* `DnsMaxTime`, `LastDay`, `AcDays` and `AcEnergy` bound what only grows. In
  `PortSensors` times saturate instead.

Deadlock is checked in every run.

### Fairness

* `FairSpec` of `Portal`: weak fairness of each `Heartbeat(i)`. The task is
  created at the start and loops for ever with a delay; it is the only thing
  that acts without a client.
* `FairBattery`: weak fairness of `Sample` and `Boot`: the task loops every
  5 s, and reads do not fail for ever.
* `FairGate`: weak fairness of the RFID task and of a call the battery task is
  in; strong fairness of `PollAuthorized`, since a card that stays on the
  reader is read again and again though single reads may fail; weak fairness
  of `Timeout` when no valid card lies there, since time passes.

* `ServicesFairness`: the diagnostics task begins a requested round and ends it
  (it wakes at least every second, and probes have a timeout); the task of the
  update queue takes and posts (requests have a timeout and end, well or not);
  the sync task of the ports polls (weak fairness), and one of its posts
  succeeds if it tries for ever (strong fairness): without it the row need not
  ever be right. Nothing is assumed of the posts of `SessionRows`.

Nothing is assumed fair about clients, the uplink, the battery or cards.

## What is proved

The theorems hold for every value of the constants that satisfies the named
assumptions, and so for any number of stations, slots, outputs, readings,
entries, ports or devices: `AclAssumption`, `PortalAssumption`,
`BatteryAssumption`, `PowerAssumption`, `QuotaAssumption`,
`PortmapAssumption`, `DnsAssumption`, `DiagAssumption`, `SettingsAssumption`,
`NvsAssumption`, `SessionRowsAssumption`, `PortSensorsAssumption` and
`AcMeterAssumption`, each in the module that declares the constants. They say
that sizes are positive, that the markers for "nothing" are not values, and
what the code's own sizes satisfy (a poll is shorter than a day, a byte is
narrower than a long). TLC evaluates them in the runs.

* **ClientAclProofs.** Types; one entry per MAC; no equal entries; the
  refinement of `AdmissionSet`. The invariant is the conjunction of the first
  three. The refinement needs it: `client_acl_admit` stops at the first match,
  which is a replacement in the set only if there is no second one, and
  "table full" means as many bindings as entries only if no two are equal.
* **PortalProofs.** `TypeOK`, `OneSessionPerMac`, `NaptServesAccess`,
  `SessionsOfStations`, for every set `Clients`. None is inductive alone.
  `PortalInv` adds that live sessions are admitted and that the cached MAC
  belongs to an associated station: the first makes a lookup that asks for
  `admitted` find every session, the second is what keeps `confirm_handler`'s
  fallback from making a session for a station that has left. The proof goes
  once through the operators on tables (`Refresh`, `Started`, `Rebound`,
  `Without`) and then through the handlers.
* **PortalRegularProofs.** What holds only for clients that behave regularly.
  `GrantWithinQuota` and `UsageNotForgotten` for every `Clients` within
  `{"renumber"}`: with a late request or an address that was not leased both
  fail in a small instance, with a peer whose address is not known the first.
  `QuotaInv` says that each station has its address to itself, that a
  session which is not over is at the address of its station, that record and
  grant of a session fit the quota together, and that no record is ahead of
  today while a session of another day finds no usage of today. The addresses
  matter because `start_or_resume_session` falls back to a search by IP: there
  it could hand the grant of one device to another, whose record has less
  left. The days matter because a late checkpoint charges the day the session
  began on, and renews the record for it.

  `AclMirrorsSessions` for `Clients = {}` and no more stations than the filter
  has entries (8 and 20 in the code). `MirrorInv` says that filter and table
  bind the same stations to the same addresses, and that sessions that are over
  are at the address of their station, too: the first is what makes an
  admission replace the entry of the same station only, the second is what
  `portal_renumber` violates. That neither table is ever full is a pigeonhole
  argument.

  `AdmittedHaveSession` for `Clients` within `{"renumber", "no_peer"}`, with a
  filter of any size. Then filter and table differ, and `OwnerInv` says how: every
  entry belongs to the session of its own MAC, which is at the entry's address
  or at none, and while that session runs the entry is at the station's
  address. So whoever ends the session finds the entry, by MAC or by address.
  The set of clients is the largest: with late requests it fails for two
  stations, with static addresses for three.

  `RunningIsAdmitted` for `Clients` within `{"no_peer"}` and as many entries in
  the filter as stations: the finding of `portal_renumber` needs a client that
  changes its address, sends late, or never leases (each of the three violates
  it in that instance). `OpenInv` adds to `OwnerInv` that every entry is at the
  present address of its station, and that every session at an address, over
  or not, has its entry.

  `OverdueIsCutOff`, the liveness property of `portal_expiry`, for clients
  within `{"renumber", "no_peer"}` under `FairSpec`. Every step either drops all
  expired sessions or leaves every session in its slot (`SweepsOrRests`), so
  the expired owner of an entry stays where it is until it is dropped, and the
  heartbeat of its slot drops it; it finds it because every session of a known
  MAC has a token hash (`Hashed`). What weak fairness needs, that the heartbeat of an expired
  session is ENABLED, is the hypothesis `HeartbeatReady`: the prover knows
  nothing of ENABLED. TLC confirms it as an invariant of the instance of
  `portal_expiry`.

  `UsageImplementsPortal` and `UnchargedIsBounded`: on the schedule of
  `PortalUsage` no session has ever used more than one heartbeat period beyond
  what its record was charged, again for these clients. That is the size of the
  gap `DailyLimit` exposes: each session dropped without being charged loses
  at most 30 s. `BeatInv` says that the slots already visited in a round are
  charged up to its instant and the others up to the round before.
* **BatteryProofs.** Types; `MovesAreSustained`; the refinement of
  `ServiceLevels`. `BatteryInv` says that each counter that is not zero counts
  the last readings in `recent`, all satisfying its predicate, that the
  counters a level does not use are zero, and that before the boot decision
  all are.
* **PowerGateProofs.** Types; `BlockedPinsDoNotRise`, for any number of
  outputs and every interleaving. `GateHolds` says that a call past the gate
  switches off if the battery blocks the outputs and a loop began since, and
  that the battery's own call never switches on.

* **QuotaStoreProofs.** Types; `FlushedIsStored`; `RecordsNotAhead`; the
  refinement of `DailyUsage`, for any number of devices, records and tasks.
  `QuotaInv` adds that a flush which has copied the records finds that copy, or
  the one of a later flush, in NVS, unless it was overtaken (so clearing the
  flag is right), and that this copy is not ahead of the hint the flush is about
  to write. It adds that no device has two records, in the table and in NVS
  (without it the mapping, which reads the first one, would change when a
  record is displaced), that no hint is in the future, and that a stored record
  is not ahead of the stored hint unless the store is torn. "Displaces another
  only when all records are taken" is the one step that counts: with no free
  slot, slots and remembered devices correspond one to one.
* **PortmapProofs.** Types; `ActiveIsConfigured`; `ActiveListens`;
  `StoredIsTable`, for any number of slots, ports and addresses and every
  interleaving of the two tasks. `PmInv` adds what each task holds in its hands:
  an entry being added is in the table, an entry about to be applied is too or
  is being deleted (`AppliedIsInTable`); and that a mapping on an older address
  is still ahead of the deleting half of the rebuild (`StaleIsAhead`).

* **ServicesProofs.** One section per service.
  * DNS server: types; `DnsOneEntryPerName`; `AnswersAreOfTheDay`. `DnsInv`
    adds that no entry has the name that is being forwarded, which is what the
    insertion relies on, and that every entry with a known day expires before
    that day ends, whatever moment the clock was set at.
  * AC meter: types; `EnergyTodayIsMetered`; `OutletRowIsRead`. `AcMeterInv`
    says that the counter has not moved further from the one stored at
    midnight than what was metered since, unless it was reset, and that
    between two rounds the last posted status is that of the last reading.
  * Charging port: types; `DailySecondsFit`, for any poll and any gaps.
    `PortInv` accounts for the time since the last accumulation as well.
  * Settings: types; `AcknowledgedIsDurable`. `SettingsInv` says that a call
    that nobody overlaps is the only one under way, that the static struct is
    its own, and that the keys it has passed are stored with its values.
  * NVS commands: types; `NvsStoresWhatWasGiven`, for any widths of integers
    and longs: what passes the range checks is not changed by the conversions.
  * Session rows: types; `RevokedCloses`, that once nothing of a revoked
    session waits or is under way its row is closed (unless an update was
    dropped or failed); and that no step opens a row again that has settled
    so. This is the safety part of `RevokedRowStaysClosed`.
  * Diagnostics: types; `RequestIsProbed`, a liveness property. A round under
    way when the request comes is followed by the requested one, because the
    reason stays pending until that begins. The hypothesis `ProbesReady` says
    that the task's two steps are ENABLED when their guards hold; TLC confirms
    it as an invariant of the instance of `services`.
  * `Services` implements the specification of each of its services (of the
    rows and the port, which are fair only while they are the ones that move,
    the initial states and the steps) and keeps their types, so that what is
    proved of one alone holds in the sum.

Only model-checked: the liveness properties that count, `ChargedIsNormal`
(the debounce), `CardIsServed` (the outputs), `RevokedRowStaysClosed` (the
length of the queue) and `PortRowCatchesUp` (the ticks of a poll). They need an
induction over temporal formulas, which the installed provers cannot do. The two
ENABLED facts named above are checked by TLC only, too.

## Not modelled

* Eco metrics: floating-point sums of samples that no caller feeds in the
  default build. `cmd_system`: reports on the heap, the tasks and the sleep
  modes of the chip.
* Pages, images and read-only JSON handlers; the parsing of request bodies; the
  sessions of administrators. They keep no state that another part reads.
* Protocols to chips: SPI to the card reader, I2C to the INA219, Modbus to the
  meter. They are abstracted to a reading that succeeds or fails.
* Two handlers that pick the same free slot of the session table: in `Portal`
  a handler runs to its end. `confirm_handler` reading the token of a slot
  that another client has taken over while it posted.

Behaviours the models have but no run singles out:

* `refresh_portal_auth_state` and the overwriting of a slot end a session
  without an update of its row, which stays `active` (`DropSession`).
* `handle_client_ip_assigned` says that no new row gets created, but
  `handle_client_connect` before it makes a new token, and a row under it.
* A change of the quota records after the copy and before the end of another
  task's flush loses its mark: it is saved with the next change, not by the
  forced flush of its own task (`FlushedIsStored` excepts it, `overtaken`).
* The outlet's status counts as published even if its post failed
  (`OutletRowIsRead` excepts it), and `set_ap_ip` never commits (`SetApIp`).
* Updates of a session row that find the queue full, or whose post fails, are
  gone, and a direct post may cross a queued one (`RevokedRowStaysClosed`
  excepts these rows). A request for probes during a round has no round of its
  own (`RequestIsProbed` is satisfied by the one under way).
* At the default poll of 500 ms `dt / 1000` is 0: the seconds in use of a port
  are never counted. `DailySecondsFit` is an upper bound only.
* An overflow in one `nvs_set` leaves `ERANGE` in `errno` and refuses the next
  ones (`conErange`).

## Plan

1. Handlers of the session manager interleaved at the session table, not only
   at NAPT: the search for a slot and its use as separate steps.
2. `Portal` over `DailyUsage` instead of its own function of the MAC, so that
   eviction and restarts meet running sessions.
