------------------------------ MODULE ClientAcl ------------------------------
(***************************************************************************)
(* main/client_acl.c: the table of admitted clients that the lwIP input    *)
(* hook consults for every packet.  Every function of the file runs under  *)
(* one spinlock, so each of them is a single action.  The functions are    *)
(* written as operators from table to table, because the session manager   *)
(* (module Portal) calls several of them in one handler.                   *)
(*                                                                         *)
(* An entry that is not in use is all zero in the code (every revoke is a  *)
(* memset); here it is NoEntry, so "used" is ip # NoIp and "has_mac" is    *)
(* mac # NoMac.                                                            *)
(***************************************************************************)
EXTENDS Naturals, FiniteSets

CONSTANTS Mac, Ip, NoMac, NoIp,
          AclMaxClients      \* ACL_MAX_CLIENTS, 20 in the code

ASSUME AclAssumption ==
  /\ NoMac \notin Mac
  /\ NoIp \notin Ip
  /\ AclMaxClients \in Nat \ {0}

VARIABLE acl

AclSlot == 0 .. (AclMaxClients - 1)
NoEntry == [ip |-> NoIp, mac |-> NoMac]

AclEntry == [ip : Ip, mac : Mac \cup {NoMac}] \cup {NoEntry}

(* The table holds entries of its type.                                    *)
AclTypeOK == acl \in [AclSlot -> AclEntry]

\* The loops of the code stop at the first match.
FirstOf(S) == CHOOSE k \in S : \A j \in S : k <= j

AclByMac(a, mac) == {k \in AclSlot : mac # NoMac /\ a[k].mac = mac}
AclByIp(a, ip)   == {k \in AclSlot : ip # NoIp /\ a[k].ip = ip}
AclFree(a)       == {k \in AclSlot : a[k].ip = NoIp}

\* Mutation: the search by MAC before the search by address is forgotten.
AclAdmit_NoMacSearch(a, ip, mac) ==
  CASE ip = NoIp -> a
    [] ip # NoIp /\ AclByIp(a, ip) # {} ->
         [a EXCEPT ![FirstOf(AclByIp(a, ip))] =
            [ip |-> ip, mac |-> IF mac = NoMac THEN @.mac ELSE mac]]
    [] OTHER -> IF AclFree(a) = {} THEN a
                ELSE [a EXCEPT ![FirstOf(AclFree(a))] = [ip |-> ip, mac |-> mac]]

\* Mutation: a caller without a MAC always gets a fresh entry.
AclAdmit_AnonymousIsNew(a, ip, mac) ==
  LET known == IF mac = NoMac THEN {} ELSE AclByMac(a, mac) \cup AclByIp(a, ip)
      target == IF known # {} THEN known ELSE AclFree(a)
  IN  IF ip = NoIp \/ target = {} THEN a
      ELSE [a EXCEPT ![FirstOf(target)] = [ip |-> ip, mac |-> mac]]

\* The three searches of client_acl_admit, each stopping at its first match.
AclStore(a, ip, mac) ==
  LET entry == [ip |-> ip, mac |-> mac]
  IN  IF AclByMac(a, mac) # {}
        THEN [a EXCEPT ![FirstOf(AclByMac(a, mac))] = entry]
      ELSE IF AclByIp(a, ip) # {}
        THEN IF mac = NoMac THEN a
             ELSE [a EXCEPT ![FirstOf(AclByIp(a, ip))] = entry]
      ELSE IF AclFree(a) # {}
        THEN [a EXCEPT ![FirstOf(AclFree(a))] = entry]
      ELSE a                             \* table full: dropped without a word

AclAdmit(a, ip, mac) == IF ip = NoIp THEN a ELSE AclStore(a, ip, mac)

\* Mutation: the revocation stops at the first match, as the admission does.
AclRevokeByIp_FirstOnly(a, ip) ==
  IF AclByIp(a, ip) = {} THEN a
  ELSE [a EXCEPT ![FirstOf(AclByIp(a, ip))] = NoEntry]

AclRevokeByIp(a, ip) ==
  [k \in AclSlot |-> IF k \in AclByIp(a, ip) THEN NoEntry ELSE a[k]]

AclRevokeByMac(a, mac) ==
  [k \in AclSlot |-> IF k \in AclByMac(a, mac) THEN NoEntry ELSE a[k]]

AclIsAdmitted(a, ip) == AclByIp(a, ip) # {}

-----------------------------------------------------------------------------
AclInit == acl = [k \in AclSlot |-> NoEntry]

Admit(ip, mac)   == acl' = AclAdmit(acl, ip, mac)
RevokeByIp(ip)   == acl' = AclRevokeByIp(acl, ip)
RevokeByMac(mac) == acl' = AclRevokeByMac(acl, mac)

AclNext ==
  \/ \E ip \in Ip \cup {NoIp}, mac \in Mac \cup {NoMac} : Admit(ip, mac)
  \/ \E ip \in Ip \cup {NoIp} : RevokeByIp(ip)
  \/ \E mac \in Mac \cup {NoMac} : RevokeByMac(mac)

AclSpec == AclInit /\ [][AclNext]_acl

-----------------------------------------------------------------------------
(* client_acl_admit replaces the first entry of a MAC and returns; it never *)
(* looks for a second one.  That is enough only if no MAC is ever in two    *)
(* entries, through any sequence of admissions by address, by MAC, with and *)
(* without a MAC, and revocations in between.                               *)
AclOneEntryPerMac ==
  \A j, k \in AclSlot :
    acl[j].mac = acl[k].mac /\ acl[j].mac # NoMac => j = k

(* Entries whose MAC is unknown never repeat an address (entries that know  *)
(* their MAC may: a station can move to an address another entry holds).    *)
AclOneAnonymousEntryPerIp ==
  \A j, k \in AclSlot :
    acl[j] = acl[k] /\ acl[j] # NoEntry => j = k

\* The bindings the table holds.
Bindings == {acl[k] : k \in AclSlot \ AclFree(acl)}

Admission == INSTANCE AdmissionSet WITH
               admitted <- Bindings, Capacity <- AclMaxClients

(* The table with its slots and search order implements the set of bindings *)
(* of AdmissionSet: nothing is forgotten, duplicated or dropped early.      *)
ImplementsAdmissionSet == Admission!AdmissionSpec

=============================================================================
