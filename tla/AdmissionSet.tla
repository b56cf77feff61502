---------------------------- MODULE AdmissionSet ----------------------------
(***************************************************************************)
(* What the admission list of the router promises to its callers, with no  *)
(* table, slots or search order: a set of bindings of an IP address to the *)
(* MAC address of the station behind it, or to no MAC when the caller did  *)
(* not know it.  ClientAcl is shown to implement this specification.       *)
(***************************************************************************)
EXTENDS Naturals, FiniteSets

CONSTANTS Mac,       \* MAC addresses of stations
          Ip,        \* IPv4 addresses other than 0.0.0.0
          NoMac,     \* a NULL mac argument
          NoIp,      \* the address 0.0.0.0
          Capacity   \* how many bindings are remembered at once

VARIABLE admitted

Binding == [ip : Ip, mac : Mac \cup {NoMac}]

AdmissionTypeOK == admitted \subseteq Binding

AdmissionInit == admitted = {}

\* The binding old is replaced by the binding new.
Rebind(old, new) == admitted' = (admitted \ {old}) \cup {new}

BoundMac(mac) == {b \in admitted : mac # NoMac /\ b.mac = mac}
BoundIp(ip)   == {b \in admitted : b.ip = ip}

(* A known station moves to its new address.                               *)
Move(ip, mac) ==
  \E b \in BoundMac(mac) : Rebind(b, [ip |-> ip, mac |-> mac])

(* A new station takes over the binding of an address.                     *)
TakeOver(ip, mac) ==
  /\ BoundMac(mac) = {}
  /\ \E b \in BoundIp(ip) :
       Rebind(b, IF mac = NoMac THEN b ELSE [ip |-> ip, mac |-> mac])

(* A new binding is remembered, or dropped when Capacity are held already. *)
Add(ip, mac) ==
  /\ BoundMac(mac) = {}
  /\ BoundIp(ip) = {}
  /\ IF Cardinality(admitted) < Capacity
       THEN admitted' = admitted \cup {[ip |-> ip, mac |-> mac]}
       ELSE UNCHANGED admitted

Forget(ip, mac) ==
  admitted' = {b \in admitted : b.ip # ip /\ (mac = NoMac \/ b.mac # mac)}

AdmissionNext ==
  \/ \E ip \in Ip, mac \in Mac \cup {NoMac} :
       Move(ip, mac) \/ TakeOver(ip, mac) \/ Add(ip, mac)
  \/ \E ip \in Ip \cup {NoIp}, mac \in Mac \cup {NoMac} : Forget(ip, mac)

AdmissionSpec == AdmissionInit /\ [][AdmissionNext]_admitted

=============================================================================
