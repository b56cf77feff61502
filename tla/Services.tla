------------------------------- MODULE Services -------------------------------
(***************************************************************************)
(* The services around the portal, which share no state with each other:   *)
(* the DNS server, the diagnostics, the port mappings, the settings, the   *)
(* NVS commands, the quota records, the session rows, a charging port and  *)
(* the AC meter.  A behaviour is one of any of them, the others at rest,   *)
(* so that one run covers the sum of their states and not the product.     *)
(***************************************************************************)
EXTENDS DnsServer, Portmap, Settings, NvsConsole, QuotaStore, SessionRows,
        PortSensors, AcMeter

VARIABLE part   \* the service that moves

Part == {"dns", "diag", "portmap", "settings", "nvs", "quota", "rows", "port", "ac"}

servicesVars == <<part, dnsVars, diagVars, pmVars, cfgVars, conVars, quotaVars,
                  rowVars, portVars, acVars>>

(* Every variable of every service keeps its type; the update queue its    *)
(* length.                                                                 *)
ServicesTypeOK ==
  /\ part \in Part
  /\ DnsTypeOK /\ DiagTypeOK
  /\ PmTypeOK
  /\ CfgTypeOK /\ ConTypeOK
  /\ QuotaTypeOK /\ RowsTypeOK
  /\ PortTypeOK /\ AcTypeOK

\* A service at rest starts in one of its initial states.
ServicesInit ==
  /\ part \in Part
  /\ DnsInit /\ PmInit /\ ConInit /\ QuotaInit /\ RowsInit
  /\ CfgInit /\ (part # "settings" => nvsValue = CHOOSE v \in [CfgKey -> CfgValue] : TRUE)
  /\ PortInit /\ (part # "port" => ~answers /\ load = "available" /\ portRow = load)
  /\ AcInit /\ (part # "ac" => meter = 0 /\ ~outlet /\ outletRow = "offline")

ServicesNext ==
  /\ UNCHANGED part
  /\ \/ /\ part = "dns" /\ DnsNext
        /\ UNCHANGED <<pmVars, cfgVars, conVars, quotaVars, rowVars, portVars, acVars>>
     \/ /\ part = "diag" /\ DiagNext
        /\ UNCHANGED <<dnsVars, pmVars, cfgVars, conVars, quotaVars, rowVars,
                       portVars, acVars>>
     \/ /\ part = "portmap" /\ PmNext
        /\ UNCHANGED <<dnsVars, diagVars, cfgVars, conVars, quotaVars, rowVars,
                       portVars, acVars>>
     \/ /\ part = "settings" /\ CfgNext
        /\ UNCHANGED <<dnsVars, diagVars, pmVars, conVars, quotaVars, rowVars,
                       portVars, acVars>>
     \/ /\ part = "nvs" /\ ConNext
        /\ UNCHANGED <<dnsVars, diagVars, pmVars, cfgVars, quotaVars, rowVars,
                       portVars, acVars>>
     \/ /\ part = "quota" /\ QuotaNext
        /\ UNCHANGED <<dnsVars, diagVars, pmVars, cfgVars, conVars, rowVars,
                       portVars, acVars>>
     \/ /\ part = "rows" /\ RowsNext
        /\ UNCHANGED <<dnsVars, diagVars, pmVars, cfgVars, conVars, quotaVars,
                       portVars, acVars>>
     \/ /\ part = "port" /\ PortNext
        /\ UNCHANGED <<dnsVars, diagVars, pmVars, cfgVars, conVars, quotaVars,
                       rowVars, acVars>>
     \/ /\ part = "ac" /\ AcNext
        /\ UNCHANGED <<dnsVars, diagVars, pmVars, cfgVars, conVars, quotaVars,
                       rowVars, portVars>>

\* The tasks of the service that moves go on: the diagnostics task begins
\* and ends requested probes, the task of the update queue posts, the sync
\* task polls, and its posts do not fail for ever.
ServicesFairness ==
  /\ WF_diagVars(part = "diag" /\ BeginRequested)
  /\ WF_diagVars(part = "diag" /\ EndProbes)
  /\ WF_<<updates, posting>>(part = "rows" /\ UpdateTaskRuns)
  /\ WF_pollVars(part = "port" /\ Poll)
  /\ SF_pollVars(part = "port" /\ PollSucceeds)

ServicesSpec ==
  ServicesInit /\ [][ServicesNext]_servicesVars /\ ServicesFairness

=============================================================================
