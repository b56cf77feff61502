------------------------------ MODULE Settings ------------------------------
(***************************************************************************)
(* The stored configuration: the form of main/http_server.c and the        *)
(* commands of components/cmd_router write NVS key by key, and a restart   *)
(* brings what is stored into effect.                                      *)
(*                                                                         *)
(* set_ap and set_sta are called by the console task and by the HTTP       *)
(* server's task, and both parse their arguments into one static struct.   *)
(* A value is abstracted to whether preprocess_string still changes it:    *)
(* the form's values are decoded when they are taken from the body and     *)
(* once more by set_ap, and so is a stored password that is saved again.   *)
(*                                                                         *)
(* NVS is external: what is set is read back at once, and is sure to       *)
(* survive a restart when nvs_commit has succeeded.                        *)
(***************************************************************************)
CONSTANTS CfgValue, Blank, Decode

ASSUME SettingsAssumption ==
  /\ CfgValue # {} /\ Blank \notin CfgValue
  /\ Decode \in [CfgValue -> CfgValue]

VARIABLES
  nvsValue,     \* what nvs_get returns
  nvsDurable,   \* what a restart is sure to find
  argv,         \* the argument strings of each task's call
  setArgs,      \* set_ap_args: whose strings the static struct points to
  saving,       \* where each task is in its call
  restartTimer, \* restart_timer is armed
  alone,        \* ghost: no other call overlapped the task's present one
  ack           \* ghost: the values that were reported as stored

nvsVars == <<nvsValue, nvsDurable>>
callVars == <<argv, setArgs, saving, alone>>
cfgVars == <<nvsVars, callVars, restartTimer, ack>>

SetTask == {"httpd", "console"}
CfgKey == {"ssid", "passwd"}
NotAcked == "none"
NoArgs == [k \in CfgKey |-> Blank]

(* Every variable keeps its type.                                          *)
CfgTypeOK ==
  /\ nvsValue \in [CfgKey -> CfgValue]
  /\ nvsDurable \in [CfgKey -> CfgValue]
  /\ argv \in [SetTask -> [CfgKey -> CfgValue \cup {Blank}]]
  /\ setArgs \in SetTask
  /\ saving \in [SetTask -> {"idle", "parse", "ssid", "passwd", "commit"}]
  /\ restartTimer \in BOOLEAN
  /\ alone \in [SetTask -> BOOLEAN]
  /\ ack \in [CfgKey -> CfgValue \cup {NotAcked}]

CfgInit ==
  /\ nvsValue \in [CfgKey -> CfgValue] /\ nvsDurable = nvsValue
  /\ argv = [t \in SetTask |-> NoArgs]
  /\ setArgs = "console"
  /\ saving = [t \in SetTask |-> "idle"]
  /\ restartTimer = FALSE
  /\ alone = [t \in SetTask |-> TRUE]
  /\ ack = [k \in CfgKey |-> NotAcked]

Busy == {t \in SetTask : saving[t] # "idle"}

-----------------------------------------------------------------------------
(* set_ap and set_sta, called by the form and by the console.              *)

Begin(t, args) ==
  /\ saving[t] = "idle"
  /\ saving' = [saving EXCEPT ![t] = "parse"]
  /\ argv' = [argv EXCEPT ![t] = args]
  /\ alone' = [u \in SetTask |-> IF u = t THEN Busy = {}
                                 ELSE u \notin Busy /\ alone[u]]
  /\ UNCHANGED <<nvsVars, setArgs, restartTimer, ack>>

\* admin_config_post_handler: form values are decoded once; an empty
\* password stands for the stored one.
SaveForm(ssid, passwd) ==
  Begin("httpd", [ssid |-> Decode[ssid],
                  passwd |-> IF passwd = Blank THEN nvsValue["passwd"]
                             ELSE Decode[passwd]])

SaveByCommand(ssid, passwd) ==
  Begin("console", [ssid |-> ssid, passwd |-> passwd])

\* arg_parse into the static struct, and preprocess_string in place
ParseArgs(t) ==
  /\ saving[t] = "parse"
  /\ setArgs' = t
  /\ argv' = [argv EXCEPT ![t] = [k \in CfgKey |-> Decode[@[k]]]]
  /\ saving' = [saving EXCEPT ![t] = "ssid"]
  /\ UNCHANGED <<nvsVars, restartTimer, alone, ack>>

\* What the struct points to by now: the strings of the call that parsed
\* last, or, when that has returned, memory used for something else.
Pointed(k) ==
  IF argv[setArgs][k] = Blank THEN CfgValue ELSE {argv[setArgs][k]}

\* nvs_set_str of one key
SetKey(t, k, next) ==
  /\ saving[t] = k
  /\ \E v \in Pointed(k) : nvsValue' = [nvsValue EXCEPT ![k] = v]
  /\ ack' = [ack EXCEPT ![k] = NotAcked]
  /\ saving' = [saving EXCEPT ![t] = next]
  /\ UNCHANGED <<nvsDurable, argv, setArgs, restartTimer, alone>>

Finish(t) ==
  /\ saving' = [saving EXCEPT ![t] = "idle"]
  /\ argv' = [argv EXCEPT ![t] = NoArgs]
  /\ alone' = [alone EXCEPT ![t] = TRUE]

\* Mutation: the values are set and never committed, as in set_ap_ip.
Committed_NotYet == nvsDurable

Committed == nvsValue

\* nvs_commit succeeds; the form restarts the router half a second later.
CommitSave(t) ==
  /\ saving[t] = "commit"
  /\ nvsDurable' = Committed
  /\ ack' = [k \in CfgKey |-> IF alone[t] THEN argv[t][k] ELSE ack[k]]
  /\ restartTimer' = (restartTimer \/ t = "httpd")
  /\ Finish(t)
  /\ UNCHANGED <<nvsValue, setArgs>>

\* arg_parse reports an error, and has parsed some of the arguments.
ParseFails(t) ==
  /\ saving[t] = "parse"
  /\ setArgs' \in {setArgs, t}
  /\ Finish(t)
  /\ UNCHANGED <<nvsVars, restartTimer, ack>>

\* nvs_open, one nvs_set_str or nvs_commit fails: the call gives up.
SaveFails(t) ==
  /\ saving[t] \in CfgKey \cup {"commit"}
  /\ Finish(t)
  /\ UNCHANGED <<nvsVars, setArgs, restartTimer, ack>>

-----------------------------------------------------------------------------
(* The restart.                                                            *)

\* The button Reboot of the form
Reboot ==
  /\ saving["httpd"] = "idle" /\ ~restartTimer
  /\ restartTimer' = TRUE
  /\ UNCHANGED <<nvsVars, callVars, ack>>

\* The timer fires, or the power fails: what was not committed may be lost.
CfgRestart ==
  /\ nvsValue' \in {v \in [CfgKey -> CfgValue] :
                      \A k \in CfgKey : v[k] \in {nvsValue[k], nvsDurable[k]}}
  /\ nvsDurable' = nvsValue'
  /\ argv' = [t \in SetTask |-> NoArgs]
  /\ setArgs' = "console"
  /\ saving' = [t \in SetTask |-> "idle"]
  /\ restartTimer' = FALSE
  /\ alone' = [t \in SetTask |-> TRUE]
  /\ UNCHANGED ack

CfgNext ==
  \/ \E s \in CfgValue, p \in CfgValue \cup {Blank} : SaveForm(s, p)
  \/ \E s, p \in CfgValue : SaveByCommand(s, p)
  \/ \E t \in SetTask :
        \/ ParseArgs(t) \/ ParseFails(t)
        \/ SetKey(t, "ssid", "passwd") \/ SetKey(t, "passwd", "commit")
        \/ CommitSave(t) \/ SaveFails(t)
  \/ Reboot \/ CfgRestart

CfgSpec == CfgInit /\ [][CfgNext]_cfgVars

-----------------------------------------------------------------------------
(* What was reported as stored is there after a restart: "Settings         *)
(* Applied" of the form, or a successful command that no other call        *)
(* overlapped, means that all its values are committed.                    *)
AcknowledgedIsDurable ==
  \A k \in CfgKey : ack[k] # NotAcked => nvsDurable[k] = ack[k] /\ nvsValue[k] = ack[k]

=============================================================================
