------------------------------ MODULE DnsServer ------------------------------
(***************************************************************************)
(* The DNS server of main/dns_server.c: one task that answers each query   *)
(* from its cache, from an upstream server, or, for a client without       *)
(* access, with the portal's own address.  Answers are cached until the    *)
(* next midnight.  A forward may last some seconds, so the clock passes,   *)
(* and may be set, between the lookup that missed and the insertion.       *)
(* When no server answers, the diagnostics of NetDiag are asked to probe;  *)
(* their own steps are DiagNext and change nothing here.                   *)
(***************************************************************************)
EXTENDS Integers, NetDiag

CONSTANTS
  DnsName,         \* normalised (name, type) pairs that are asked for
  DnsEntries,      \* DNS_CACHE_ENTRIES
  DnsDaySec,       \* seconds of a day
  DnsFallbackSec,  \* DNS_CACHE_FALLBACK_TTL_US
  DnsTicks,        \* ticks of esp_timer_get_time per second
  DnsWallAtBoot,   \* the wall clock when the timer was 0, in ticks
  DnsMaxTime       \* bound on the timer

ASSUME DnsAssumption ==
  /\ DnsEntries \in Nat \ {0}
  /\ DnsDaySec \in Nat \ {0} /\ DnsFallbackSec \in Nat \ {0}
  /\ DnsTicks \in Nat \ {0}
  /\ DnsWallAtBoot \in Nat /\ DnsMaxTime \in Nat
  /\ "dns_forward_failed" \in ProbeReason

VARIABLES
  dnsNow,       \* esp_timer_get_time
  dnsClockSet,  \* the wall clock is beyond the first day of 1970
  dnsCache,     \* s_dns_cache
  dnsAsked,     \* the query being forwarded, NoName when idle
  dnsReply      \* the last reply, until the clock moves on

dnsVars == <<dnsNow, dnsClockSet, dnsCache, dnsAsked, dnsReply>>

NoName == "none"
DnsSlot == 0 .. (DnsEntries - 1)

\* fetched is a ghost: the day the answer was cached on, 0 if not known.
DnsEntry == [valid : BOOLEAN, name : DnsName \cup {NoName},
             expires : Nat, fetched : Nat]
NoEntryYet == [valid |-> FALSE, name |-> NoName, expires |-> 0, fetched |-> 0]

Reply == [kind : {"none", "portal", "empty", "cached", "fresh", "servfail"},
          fetched : Nat]
ReplyOf(kind) == [kind |-> kind, fetched |-> 0]

(* Every variable keeps its type.                                          *)
DnsTypeOK ==
  /\ dnsNow \in Nat
  /\ dnsClockSet \in BOOLEAN
  /\ dnsCache \in [DnsSlot -> DnsEntry]
  /\ dnsAsked \in DnsName \cup {NoName}
  /\ dnsReply \in Reply

DnsInit ==
  /\ DiagInit
  /\ dnsNow = 0
  /\ dnsClockSet = FALSE
  /\ dnsCache = [i \in DnsSlot |-> NoEntryYet]
  /\ dnsAsked = NoName
  /\ dnsReply = ReplyOf("none")

-----------------------------------------------------------------------------
(* Time to live.                                                           *)

DnsWall == DnsWallAtBoot + dnsNow           \* in ticks
DnsWallSec == DnsWall \div DnsTicks         \* time(NULL)
DnsDay == IF dnsClockSet THEN 1 + DnsWallSec \div DnsDaySec ELSE 0

\* Mutation: an answer is kept for a whole day.
CacheTtl_WholeDay == IF dnsClockSet THEN DnsDaySec ELSE DnsFallbackSec

\* dns_cache_ttl_us with dns_seconds_until_next_day
CacheTtl ==
  IF dnsClockSet THEN DnsDaySec - (DnsWallSec % DnsDaySec) ELSE DnsFallbackSec

-----------------------------------------------------------------------------
(* The cache.                                                              *)

Expired(e) == e.valid /\ e.expires <= dnsNow
Holds(e, name) == e.valid /\ e.name = name
LeastSlot(S) == CHOOSE i \in S : \A j \in S : i <= j

Dropped(e) == [e EXCEPT !.valid = FALSE]

\* dns_cache_lookup: the slots with a live entry of that name, and the
\* table after the scan, which drops expired entries up to the hit.
Hits(name) == {i \in DnsSlot : Holds(dnsCache[i], name) /\ ~Expired(dnsCache[i])}

Scanned(last) ==
  [i \in DnsSlot |-> IF i < last /\ Expired(dnsCache[i])
                     THEN Dropped(dnsCache[i]) ELSE dnsCache[i]]

\* The slots at which the scan of dns_cache_insert stops at once.
Takes(name) == {i \in DnsSlot : ~dnsCache[i].valid \/ Holds(dnsCache[i], name)}

ExpireFirst ==
  {i \in DnsSlot : \A j \in DnsSlot : dnsCache[i].expires <= dnsCache[j].expires}

\* dns_cache_insert
InsertSlot(name) ==
  LeastSlot(IF Takes(name) # {} THEN Takes(name) ELSE ExpireFirst)

Cached(name) ==
  [dnsCache EXCEPT ![InsertSlot(name)] =
     [valid |-> TRUE, name |-> name, expires |-> dnsNow + CacheTtl * DnsTicks,
      fetched |-> DnsDay]]

-----------------------------------------------------------------------------
(* The task.                                                               *)

\* is_client_session_active is false: an address query gets the portal's
\* address, any other query no answer.  The cache is not touched.
AnswerCaptive ==
  /\ dnsAsked = NoName
  /\ \E kind \in {"portal", "empty"} : dnsReply' = ReplyOf(kind)
  /\ UNCHANGED <<dnsNow, dnsClockSet, dnsCache, dnsAsked, diagVars>>

AnswerCached(name) ==
  /\ dnsAsked = NoName /\ Hits(name) # {}
  /\ LET hit == LeastSlot(Hits(name))
     IN  /\ dnsCache' = Scanned(hit)
         /\ dnsReply' = [kind |-> "cached", fetched |-> dnsCache[hit].fetched]
  /\ UNCHANGED <<dnsNow, dnsClockSet, dnsAsked, diagVars>>

\* Mutation: a miss drops no expired entry.
Forward_NoDrop(name) ==
  /\ dnsAsked = NoName /\ Hits(name) = {}
  /\ dnsAsked' = name
  /\ UNCHANGED <<dnsNow, dnsClockSet, dnsCache, dnsReply, diagVars>>

\* A miss: the query goes to the upstream server.
Forward(name) ==
  /\ dnsAsked = NoName /\ Hits(name) = {}
  /\ dnsCache' = Scanned(DnsEntries)
  /\ dnsAsked' = name
  /\ UNCHANGED <<dnsNow, dnsClockSet, dnsReply, diagVars>>

\* The uplink's server, 8.8.8.8 or 1.1.1.1 answered; only an answer without
\* error that has records is cached.
Forwarded ==
  /\ dnsAsked # NoName
  /\ dnsCache' \in {dnsCache, Cached(dnsAsked)}
  /\ dnsReply' = ReplyOf("fresh")
  /\ dnsAsked' = NoName
  /\ UNCHANGED <<dnsNow, dnsClockSet, diagVars>>

\* None of them did.
ForwardFailed ==
  /\ dnsAsked # NoName
  /\ ScheduleProbe("dns_forward_failed")
  /\ dnsReply' = ReplyOf("servfail")
  /\ dnsAsked' = NoName
  /\ UNCHANGED <<dnsNow, dnsClockSet, dnsCache>>

DnsTick ==
  /\ dnsNow < DnsMaxTime
  /\ dnsNow' = dnsNow + 1
  /\ dnsReply' = ReplyOf("none")
  /\ UNCHANGED <<dnsClockSet, dnsCache, dnsAsked, diagVars>>

\* SNTP sets the wall clock.
DnsTimeSync ==
  /\ ~dnsClockSet /\ dnsClockSet' = TRUE
  /\ UNCHANGED <<dnsNow, dnsCache, dnsAsked, dnsReply, diagVars>>

DnsNext ==
  \/ AnswerCaptive
  \/ \E name \in DnsName : AnswerCached(name) \/ Forward(name)
  \/ Forwarded \/ ForwardFailed
  \/ DnsTick \/ DnsTimeSync

DnsSpec == DnsInit /\ [][DnsNext \/ (DiagNext /\ UNCHANGED dnsVars)]_<<dnsVars, diagVars>>

-----------------------------------------------------------------------------
(* A name is cached once: the insertion relies on the lookup before it     *)
(* having seen, or dropped, every entry of that name.                      *)
DnsOneEntryPerName ==
  \A i, j \in DnsSlot :
     dnsCache[i].valid /\ dnsCache[j].valid /\ dnsCache[i].name = dnsCache[j].name
        => i = j

(* An answer cached while the time was known is not served after the       *)
(* midnight that follows, except for the second time(NULL) has cut off.    *)
AnswersAreOfTheDay ==
  dnsReply.fetched > 0 => DnsWall < (dnsReply.fetched * DnsDaySec + 1) * DnsTicks

(* Whoever asks for probes gets them: a round of probes ends after the     *)
(* request, even if the request came before there was a task to notify.    *)
RequestIsProbed == (diagTask /\ diagAsked) ~> ~diagAsked

=============================================================================
