--------------------------- MODULE ClientAclProofs ---------------------------
(***************************************************************************)
(* Proofs about module ClientAcl: the table keeps its type, it never holds *)
(* a MAC or an anonymous address twice, and it implements AdmissionSet,    *)
(* for any number of slots, stations and addresses.                        *)
(***************************************************************************)
EXTENDS ClientAcl, TLAPS, WellFoundedInduction, FunctionTheorems,
        FiniteSetTheorems

AclTable == [AclSlot -> AclEntry]

\* OneEntryPerMac and OneAnonymousEntryPerIp, of a table.
MacsDiffer(a) ==
  \A j, k \in AclSlot : a[j].mac = a[k].mac /\ a[j].mac # NoMac => j = k

EntriesDiffer(a) ==
  \A j, k \in AclSlot : a[j] = a[k] /\ a[j] # NoEntry => j = k

-----------------------------------------------------------------------------
(* A non-empty set of natural numbers has a least element.                 *)
LEMMA LeastExists ==
  ASSUME NEW S \in SUBSET Nat, S # {}
  PROVE  \E k \in S : \A j \in S : k <= j
<1> DEFINE Less == {p \in Nat \X Nat : p[1] < p[2]}
<1>1. IsWellFoundedOn(Less, Nat)
  BY NatLessThanWellFounded DEF OpToRel
<1>2. \A x, y \in S : <<y, x>> \in Less <=> y < x
  OBVIOUS
<1> HIDE DEF Less
<1>3. \E x \in S : \A y \in S : ~ (<<y, x>> \in Less)
  BY <1>1, WFMin, Zenon
<1>4. PICK k \in S : \A y \in S : ~ (<<y, k>> \in Less)
  BY <1>3
<1>5. \A y \in S : ~ (y < k)
  BY <1>2, <1>4
<1> QED BY <1>5

(* The search that stops at the first match finds a match if there is one. *)
LEMMA FirstOfIsIn ==
  ASSUME NEW S \in SUBSET Nat, S # {}
  PROVE  FirstOf(S) \in S
BY LeastExists DEF FirstOf

LEMMA SlotsAreNat == AclSlot \in SUBSET Nat
BY AclAssumption DEF AclSlot

LEMMA MatchesAreSlots ==
  ASSUME NEW a, NEW ip, NEW mac
  PROVE  /\ AclByMac(a, mac) \in SUBSET AclSlot
         /\ AclByIp(a, ip) \in SUBSET AclSlot
         /\ AclFree(a) \in SUBSET AclSlot
BY DEF AclByMac, AclByIp, AclFree

(***************************************************************************)
(* The four outcomes of an admission: nothing, or one slot k is written    *)
(* that held the MAC, or else the address, or else nothing.                *)
(***************************************************************************)
LEMMA AdmitCases ==
  ASSUME NEW a \in AclTable,
         NEW ip \in Ip \cup {NoIp}, NEW mac \in Mac \cup {NoMac}
  PROVE  \/ /\ AclAdmit(a, ip, mac) = a
            /\ \/ ip = NoIp
               \/ /\ AclByMac(a, mac) = {} /\ AclByIp(a, ip) # {}
                  /\ mac = NoMac
               \/ /\ AclByMac(a, mac) = {} /\ AclByIp(a, ip) = {}
                  /\ AclFree(a) = {}
         \/ /\ ip \in Ip
            /\ \E k \in AclSlot :
                 /\ AclAdmit(a, ip, mac) =
                      [a EXCEPT ![k] = [ip |-> ip, mac |-> mac]]
                 /\ \/ k \in AclByMac(a, mac)
                    \/ /\ AclByMac(a, mac) = {} /\ mac # NoMac
                       /\ k \in AclByIp(a, ip)
                    \/ /\ AclByMac(a, mac) = {} /\ AclByIp(a, ip) = {}
                       /\ k \in AclFree(a)
<1> DEFINE M == AclByMac(a, mac)
           I == AclByIp(a, ip)
           F == AclFree(a)
<1>0. /\ M \in SUBSET AclSlot /\ I \in SUBSET AclSlot /\ F \in SUBSET AclSlot
      /\ M \in SUBSET Nat /\ I \in SUBSET Nat /\ F \in SUBSET Nat
  BY MatchesAreSlots, SlotsAreNat
<1>1. CASE ip = NoIp
  BY <1>1 DEF AclAdmit
<1>2. ip # NoIp => ip \in Ip /\ AclAdmit(a, ip, mac) = AclStore(a, ip, mac)
  BY DEF AclAdmit
<1> HIDE DEF M, I, F
<1>3. CASE ip # NoIp /\ M # {}
  <2>1. FirstOf(M) \in M
    BY <1>0, <1>3, FirstOfIsIn
  <2>2. AclStore(a, ip, mac) = [a EXCEPT ![FirstOf(M)] = [ip |-> ip, mac |-> mac]]
    BY <1>3 DEF AclStore, M
  <2> QED BY <1>0, <1>2, <1>3, <2>1, <2>2 DEF M
<1>4. CASE ip # NoIp /\ M = {} /\ I # {}
  <2>1. FirstOf(I) \in I
    BY <1>0, <1>4, FirstOfIsIn
  <2>2. AclStore(a, ip, mac) =
          IF mac = NoMac THEN a
          ELSE [a EXCEPT ![FirstOf(I)] = [ip |-> ip, mac |-> mac]]
    BY <1>4 DEF AclStore, M, I
  <2> QED BY <1>0, <1>2, <1>4, <2>1, <2>2 DEF M, I
<1>5. CASE ip # NoIp /\ M = {} /\ I = {} /\ F # {}
  <2>1. FirstOf(F) \in F
    BY <1>0, <1>5, FirstOfIsIn
  <2>2. AclStore(a, ip, mac) = [a EXCEPT ![FirstOf(F)] = [ip |-> ip, mac |-> mac]]
    BY <1>5 DEF AclStore, M, I, F
  <2> QED BY <1>0, <1>2, <1>5, <2>1, <2>2 DEF M, I, F
<1>6. CASE ip # NoIp /\ M = {} /\ I = {} /\ F = {}
  BY <1>2, <1>6 DEF AclStore, M, I, F
<1> QED BY <1>1, <1>3, <1>4, <1>5, <1>6

-----------------------------------------------------------------------------
(* Each function of the file keeps the type of the table.                  *)
LEMMA AdmitType ==
  ASSUME NEW a \in AclTable,
         NEW ip \in Ip \cup {NoIp}, NEW mac \in Mac \cup {NoMac}
  PROVE  AclAdmit(a, ip, mac) \in AclTable
BY AdmitCases DEF AclTable, AclEntry

LEMMA RevokeType ==
  ASSUME NEW a \in AclTable, NEW ip, NEW mac
  PROVE  /\ AclRevokeByIp(a, ip) \in AclTable
         /\ AclRevokeByMac(a, mac) \in AclTable
BY DEF AclTable, AclEntry, AclRevokeByIp, AclRevokeByMac

(* Each function of the file keeps MACs and entries apart.                 *)
LEMMA AdmitKeepsApart ==
  ASSUME NEW a \in AclTable, MacsDiffer(a), EntriesDiffer(a),
         NEW ip \in Ip \cup {NoIp}, NEW mac \in Mac \cup {NoMac}
  PROVE  MacsDiffer(AclAdmit(a, ip, mac)) /\ EntriesDiffer(AclAdmit(a, ip, mac))
<1> DEFINE b == AclAdmit(a, ip, mac)
<1>1. CASE b = a
  BY <1>1
<1>2. CASE \E k \in AclSlot :
             /\ ip \in Ip
             /\ b = [a EXCEPT ![k] = [ip |-> ip, mac |-> mac]]
             /\ \/ k \in AclByMac(a, mac)
                \/ /\ AclByMac(a, mac) = {} /\ mac # NoMac
                   /\ k \in AclByIp(a, ip)
                \/ /\ AclByMac(a, mac) = {} /\ AclByIp(a, ip) = {}
                   /\ k \in AclFree(a)
  <2>1. PICK k \in AclSlot :
             /\ ip \in Ip
             /\ b = [a EXCEPT ![k] = [ip |-> ip, mac |-> mac]]
             /\ \/ k \in AclByMac(a, mac)
                \/ /\ AclByMac(a, mac) = {} /\ mac # NoMac
                   /\ k \in AclByIp(a, ip)
                \/ /\ AclByMac(a, mac) = {} /\ AclByIp(a, ip) = {}
                   /\ k \in AclFree(a)
    BY <1>2
  <2> HIDE DEF b
  <2>2. /\ b[k].mac = mac /\ b[k].ip = ip /\ ip # NoIp
        /\ \A j \in AclSlot \ {k} : b[j] = a[j]
    BY <2>1, AclAssumption DEF AclTable
  <2>3. ASSUME NEW j \in AclSlot \ {k} PROVE mac # NoMac => a[j].mac # mac
    BY <2>1 DEF AclByMac, MacsDiffer
  <2>4. ASSUME NEW j \in AclSlot \ {k} PROVE b[j] # b[k]
    <3>1. CASE mac # NoMac
      BY <3>1, <2>2, <2>3
    <3>2. CASE mac = NoMac
      <4>1. a[j].ip # ip
        BY <2>1, <2>2, <3>2 DEF AclByMac, AclByIp
      <4> QED BY <4>1, <2>2
    <3> QED BY <3>1, <3>2
  <2>5. MacsDiffer(b)
    BY <2>2, <2>3 DEF MacsDiffer
  <2>6. EntriesDiffer(b)
    BY <2>2, <2>4 DEF EntriesDiffer
  <2> QED BY <2>5, <2>6 DEF b
<1> QED BY <1>1, <1>2, AdmitCases

LEMMA RevokeKeepsApart ==
  ASSUME NEW a \in AclTable, MacsDiffer(a), EntriesDiffer(a), NEW ip, NEW mac
  PROVE  /\ MacsDiffer(AclRevokeByIp(a, ip))
         /\ EntriesDiffer(AclRevokeByIp(a, ip))
         /\ MacsDiffer(AclRevokeByMac(a, mac))
         /\ EntriesDiffer(AclRevokeByMac(a, mac))
BY DEF MacsDiffer, EntriesDiffer, AclRevokeByIp, AclRevokeByMac, NoEntry

-----------------------------------------------------------------------------
AclInv == AclTypeOK /\ MacsDiffer(acl) /\ EntriesDiffer(acl)

LEMMA AclInvInitially == AclInit => AclInv
BY DEF AclInit, AclInv, AclTypeOK, AclEntry, NoEntry, MacsDiffer, EntriesDiffer

LEMMA AclInvKept == AclInv /\ [AclNext]_acl => AclInv'
<1> SUFFICES ASSUME AclInv, [AclNext]_acl PROVE AclInv'
  OBVIOUS
<1>1. acl \in AclTable /\ MacsDiffer(acl) /\ EntriesDiffer(acl)
  BY DEF AclInv, AclTypeOK, AclTable
<1>0. acl' \in AclTable /\ MacsDiffer(acl') /\ EntriesDiffer(acl') => AclInv'
  BY DEF AclInv, AclTypeOK, AclTable, MacsDiffer, EntriesDiffer
<1>2. ASSUME NEW ip \in Ip \cup {NoIp}, NEW mac \in Mac \cup {NoMac},
             Admit(ip, mac)
      PROVE  AclInv'
  BY <1>0, <1>1, <1>2, AdmitType, AdmitKeepsApart DEF Admit
<1>3. ASSUME NEW ip \in Ip \cup {NoIp}, RevokeByIp(ip) PROVE AclInv'
  BY <1>0, <1>1, <1>3, RevokeType, RevokeKeepsApart DEF RevokeByIp
<1>4. ASSUME NEW mac \in Mac \cup {NoMac}, RevokeByMac(mac) PROVE AclInv'
  BY <1>0, <1>1, <1>4, RevokeType, RevokeKeepsApart DEF RevokeByMac
<1>5. CASE UNCHANGED acl
  BY <1>5 DEF AclInv, AclTypeOK, MacsDiffer, EntriesDiffer
<1> QED BY <1>2, <1>3, <1>4, <1>5 DEF AclNext

LEMMA AclInvAlways == AclSpec => []AclInv
BY AclInvInitially, AclInvKept, PTL DEF AclSpec

(* The table keeps its type, whatever is admitted and revoked.             *)
THEOREM AclTypeCorrect == AclSpec => []AclTypeOK
<1>1. AclInv => AclTypeOK
  BY DEF AclInv
<1> QED BY <1>1, AclInvAlways, PTL

(* No MAC is ever in two entries, so replacing the first one is enough.    *)
THEOREM AclMacsAreUnique == AclSpec => []AclOneEntryPerMac
<1>1. AclInv => AclOneEntryPerMac
  BY DEF AclInv, MacsDiffer, AclOneEntryPerMac
<1> QED BY <1>1, AclInvAlways, PTL

(* No two entries in use are equal; two without a MAC differ in address.   *)
THEOREM AclEntriesAreUnique == AclSpec => []AclOneAnonymousEntryPerIp
<1>1. AclInv => AclOneAnonymousEntryPerIp
  BY DEF AclInv, EntriesDiffer, AclOneAnonymousEntryPerIp
<1> QED BY <1>1, AclInvAlways, PTL

-----------------------------------------------------------------------------
(* The refinement: the bindings of a table, and what a step does to them.  *)

Binds(a) == {a[k] : k \in AclSlot \ AclFree(a)}

LEMMA FreeIsNoEntry ==
  ASSUME NEW a \in AclTable, NEW k \in AclSlot
  PROVE  k \in AclFree(a) <=> a[k] = NoEntry
BY AclAssumption DEF AclFree, AclTable, AclEntry, NoEntry

(* A slot that is written replaces its binding, or adds one if it was free. *)
LEMMA BindsAfterWrite ==
  ASSUME NEW a \in AclTable, EntriesDiffer(a), NEW k \in AclSlot,
         NEW ip \in Ip, NEW mac \in Mac \cup {NoMac}
  PROVE  Binds([a EXCEPT ![k] = [ip |-> ip, mac |-> mac]])
           = (Binds(a) \ {a[k]}) \cup {[ip |-> ip, mac |-> mac]}
<1> DEFINE new == [ip |-> ip, mac |-> mac]
           b == [a EXCEPT ![k] = new]
<1>1. /\ b \in AclTable /\ b[k] = new
      /\ \A j \in AclSlot \ {k} : b[j] = a[j]
      /\ new # NoEntry
  BY AclAssumption DEF AclTable, AclEntry, NoEntry
<1> HIDE DEF b, new
<1>2. Binds(b) = {b[j] : j \in {i \in AclSlot : b[i] # NoEntry}}
  BY <1>1, FreeIsNoEntry DEF Binds
<1>3. Binds(a) = {a[j] : j \in {i \in AclSlot : a[i] # NoEntry}}
  BY FreeIsNoEntry DEF Binds
<1>4. ASSUME NEW x \in Binds(b) PROVE x \in (Binds(a) \ {a[k]}) \cup {new}
  <2>1. PICK j \in AclSlot : b[j] # NoEntry /\ x = b[j]
    BY <1>2, <1>4
  <2> QED BY <2>1, <1>1, <1>3 DEF EntriesDiffer
<1>5. ASSUME NEW x \in (Binds(a) \ {a[k]}) \cup {new} PROVE x \in Binds(b)
  <2>1. CASE x = new
    BY <2>1, <1>1, <1>2
  <2>2. CASE x # new
    <3>1. PICK j \in AclSlot : a[j] # NoEntry /\ x = a[j] /\ x # a[k]
      BY <2>2, <1>3, <1>5
    <3> QED BY <3>1, <1>1, <1>2
  <2> QED BY <2>1, <2>2
<1> QED BY <1>4, <1>5 DEF b, new

(* A table with a free slot holds fewer bindings than it has slots.        *)
LEMMA FreeSlotMeansRoom ==
  ASSUME NEW a \in AclTable, NEW k \in AclFree(a)
  PROVE  Cardinality(Binds(a)) < AclMaxClients
<1> DEFINE U == AclSlot \ AclFree(a)
           f == [j \in U |-> a[j]]
<1>1. IsFiniteSet(AclSlot) /\ Cardinality(AclSlot) = AclMaxClients
  BY FS_Interval, AclAssumption DEF AclSlot
<1>2. k \in AclSlot
  BY DEF AclFree
<1>3. /\ IsFiniteSet(AclSlot \ {k})
      /\ Cardinality(AclSlot \ {k}) = AclMaxClients - 1
  BY <1>1, <1>2, FS_RemoveElement
<1>4. U \subseteq AclSlot \ {k}
  OBVIOUS
<1>5. /\ IsFiniteSet(U) /\ Cardinality(U) \in Nat
      /\ Cardinality(U) <= AclMaxClients - 1
  <2> HIDE DEF U
  <2> QED BY <1>3, <1>4, FS_Subset, FS_CardinalityType
<1>6. f \in Surjection(U, Binds(a))
  BY DEF Surjection, Binds
<1>7. IsFiniteSet(Binds(a)) /\ Cardinality(Binds(a)) <= Cardinality(U)
  <2> HIDE DEF U, f
  <2> QED BY <1>5, <1>6, FS_Surjection
<1>8. Cardinality(Binds(a)) \in Nat
  BY <1>7, FS_CardinalityType
<1> QED
  <2> HIDE DEF U
  <2> QED BY <1>5, <1>7, <1>8, AclAssumption

(* What a revocation leaves of the bindings.                               *)
LEMMA BindsAfterRevoke ==
  ASSUME NEW a \in AclTable, NEW ip \in Ip \cup {NoIp},
         NEW mac \in Mac \cup {NoMac}
  PROVE  /\ Binds(AclRevokeByIp(a, ip)) = {e \in Binds(a) : e.ip # ip}
         /\ Binds(AclRevokeByMac(a, mac)) =
              {e \in Binds(a) : e.ip # NoIp /\ (mac = NoMac \/ e.mac # mac)}
<1> DEFINE b == AclRevokeByIp(a, ip)
           c == AclRevokeByMac(a, mac)
           Used(t) == {j \in AclSlot : t[j] # NoEntry}
<1>1. b \in AclTable /\ c \in AclTable
  BY RevokeType
<1>2. ASSUME NEW t \in AclTable PROVE Binds(t) = {t[j] : j \in Used(t)}
  BY FreeIsNoEntry DEF Binds
<1>3. \A j \in Used(a) : a[j].ip \in Ip /\ a[j].ip # NoIp
  BY AclAssumption DEF AclTable, AclEntry
<1>4. ASSUME NEW j \in AclSlot
      PROVE  /\ b[j] = IF ip # NoIp /\ a[j].ip = ip THEN NoEntry ELSE a[j]
             /\ c[j] = IF mac # NoMac /\ a[j].mac = mac THEN NoEntry ELSE a[j]
  BY DEF AclRevokeByIp, AclRevokeByMac, AclByIp, AclByMac
<1> HIDE DEF b, c
<1>5. Used(b) = {j \in Used(a) : a[j].ip # ip}
  BY <1>3, <1>4
<1>6. Used(c) = {j \in Used(a) : mac = NoMac \/ a[j].mac # mac}
  BY <1>3, <1>4
<1>7. {b[j] : j \in Used(b)} = {e \in {a[j] : j \in Used(a)} : e.ip # ip}
  BY <1>4, <1>5
<1>8. {c[j] : j \in Used(c)} =
        {e \in {a[j] : j \in Used(a)} :
           e.ip # NoIp /\ (mac = NoMac \/ e.mac # mac)}
  BY <1>3, <1>4, <1>6
<1> QED BY <1>1, <1>2, <1>7, <1>8 DEF b, c

LEMMA BindingsAreBinds == Bindings = Binds(acl) /\ Bindings' = Binds(acl')
BY DEF Bindings, Binds, AclFree

\* The instance has its own copy of the operator.
LEMMA SameCardinality ==
  ASSUME NEW S PROVE Admission!Cardinality(S) = Cardinality(S)
BY DEF Admission!Cardinality, Cardinality

(* An admission is a move, a take-over, an addition, or changes nothing.   *)
LEMMA AdmitRefines ==
  ASSUME AclInv, NEW ip \in Ip \cup {NoIp}, NEW mac \in Mac \cup {NoMac},
         Admit(ip, mac)
  PROVE  [Admission!AdmissionNext]_Bindings
<1> DEFINE new == [ip |-> ip, mac |-> mac]
<1>1. acl \in AclTable /\ EntriesDiffer(acl) /\ acl' = AclAdmit(acl, ip, mac)
  BY DEF AclInv, AclTypeOK, AclTable, Admit
<1>2. CASE AclAdmit(acl, ip, mac) = acl
  BY <1>1, <1>2, BindingsAreBinds
<1>3. ASSUME ip \in Ip, NEW k \in AclSlot,
             AclAdmit(acl, ip, mac) = [acl EXCEPT ![k] = new],
             \/ k \in AclByMac(acl, mac)
             \/ /\ AclByMac(acl, mac) = {} /\ mac # NoMac
                /\ k \in AclByIp(acl, ip)
             \/ /\ AclByMac(acl, mac) = {} /\ AclByIp(acl, ip) = {}
                /\ k \in AclFree(acl)
      PROVE  Admission!AdmissionNext
  <2>1. Bindings' = (Bindings \ {acl[k]}) \cup {new}
    BY <1>1, <1>3, BindsAfterWrite, BindingsAreBinds
  <2>2. \A j \in AclSlot : acl[j] # NoEntry <=> acl[j] \in Bindings
    BY <1>1, FreeIsNoEntry, BindingsAreBinds DEF Binds
  <2>3. \A e \in Bindings : \E j \in AclSlot : e = acl[j] /\ e # NoEntry
    BY <1>1, FreeIsNoEntry, BindingsAreBinds DEF Binds
  <2>4. AclByMac(acl, mac) = {} => Admission!BoundMac(mac) = {}
    BY <2>3 DEF AclByMac, Admission!BoundMac
  <2>5. AclByIp(acl, ip) = {} => Admission!BoundIp(ip) = {}
    BY <2>3, <1>3, AclAssumption DEF AclByIp, Admission!BoundIp
  <2>6. CASE k \in AclByMac(acl, mac)
    <3>1. acl[k] \in Admission!BoundMac(mac)
      BY <2>2, <2>6, AclAssumption
         DEF AclByMac, Admission!BoundMac, NoEntry
    <3>2. Admission!Move(ip, mac)
      BY <3>1, <2>1 DEF Admission!Move, Admission!Rebind
    <3> QED BY <3>2, <1>3 DEF Admission!AdmissionNext
  <2>7. CASE /\ AclByMac(acl, mac) = {} /\ mac # NoMac
             /\ k \in AclByIp(acl, ip)
    <3>1. acl[k] \in Admission!BoundIp(ip)
      BY <2>2, <2>7, AclAssumption DEF AclByIp, Admission!BoundIp, NoEntry
    <3>2. Admission!TakeOver(ip, mac)
      BY <3>1, <2>1, <2>4, <2>7 DEF Admission!TakeOver, Admission!Rebind
    <3> QED BY <3>2, <1>3 DEF Admission!AdmissionNext
  <2>8. CASE /\ AclByMac(acl, mac) = {} /\ AclByIp(acl, ip) = {}
             /\ k \in AclFree(acl)
    <3>1. Cardinality(Bindings) < AclMaxClients
      BY <1>1, <2>8, FreeSlotMeansRoom, BindingsAreBinds
    <3>2. acl[k] \notin Bindings
      BY <1>1, <2>2, <2>8, FreeIsNoEntry
    <3>3. Bindings' = Bindings \cup {new}
      BY <2>1, <3>2
    <3>4. Admission!Add(ip, mac)
      BY <3>1, <3>3, <2>4, <2>5, <2>8, SameCardinality DEF Admission!Add
    <3> QED BY <3>4, <1>3 DEF Admission!AdmissionNext
  <2> QED BY <1>3, <2>6, <2>7, <2>8
<1> QED BY <1>1, <1>2, <1>3, AdmitCases

LEMMA RevokeRefines ==
  ASSUME AclInv, NEW ip \in Ip \cup {NoIp}, NEW mac \in Mac \cup {NoMac},
         RevokeByIp(ip) \/ RevokeByMac(mac)
  PROVE  Admission!AdmissionNext
<1>1. acl \in AclTable
  BY DEF AclInv, AclTypeOK, AclTable
<1>2. CASE RevokeByIp(ip)
  <2>1. Admission!Forget(ip, NoMac)
    BY <1>1, <1>2, BindsAfterRevoke, BindingsAreBinds
       DEF RevokeByIp, Admission!Forget
  <2> QED BY <2>1 DEF Admission!AdmissionNext
<1>3. CASE RevokeByMac(mac)
  <2>1. Admission!Forget(NoIp, mac)
    BY <1>1, <1>3, BindsAfterRevoke, BindingsAreBinds
       DEF RevokeByMac, Admission!Forget
  <2> QED BY <2>1 DEF Admission!AdmissionNext
<1> QED BY <1>2, <1>3

(* The table with its slots and search order implements the set of         *)
(* bindings: every call of client_acl.c is a step of AdmissionSet.         *)
THEOREM AclImplementsAdmissionSet == AclSpec => ImplementsAdmissionSet
<1>1. AclInit => Admission!AdmissionInit
  BY DEF AclInit, Bindings, AclFree, NoEntry, Admission!AdmissionInit
<1>2. AclInv /\ [AclNext]_acl => [Admission!AdmissionNext]_Bindings
  <2> SUFFICES ASSUME AclInv, [AclNext]_acl
               PROVE  [Admission!AdmissionNext]_Bindings
    OBVIOUS
  <2>1. CASE UNCHANGED acl
    BY <2>1 DEF Bindings, AclFree
  <2>2. CASE AclNext
    BY <2>2, AdmitRefines, RevokeRefines DEF AclNext
  <2> QED BY <2>1, <2>2
<1> QED BY <1>1, <1>2, AclInvAlways, PTL
        DEF AclSpec, ImplementsAdmissionSet, Admission!AdmissionSpec

=============================================================================
