----------------------- MODULE MulticastManager_proofs -----------------------
(***************************************************************************)
(* Proofs about MulticastManager and MulticastUse, for any callers,        *)
(* streams, addresses, ports and viewers: type correctness, the ownership  *)
(* of addresses, the readiness of listed groups, the implementation of     *)
(* StreamDirectory, the distance of stale clones, and what the cleanup     *)
(* task drops.                                                             *)
(***************************************************************************)
EXTENDS MulticastUse, FiniteSetTheorems, TLAPS

ViewerAges == UNION {[V -> Ages] : V \in SUBSET Viewers}

-----------------------------------------------------------------------------
(* Facts about the operators.                                              *)

(* Whatever the cursor, it designates an address of the range.             *)
LEMMA AddressAtType ==
    ASSUME NEW o \in Nat
    PROVE  AddressAt(o) \in Addresses
<1>1. /\ (BaseHigh + (o \div OctetSize)) % OctetSize \in Octets
      /\ (BaseLow + (o % OctetSize)) % OctetSize \in Octets
  <2>1. o \div OctetSize \in Int /\ o % OctetSize \in Int
    BY OctetAssumption
  <2>2. BaseHigh + (o \div OctetSize) \in Int /\ BaseLow + (o % OctetSize) \in Int
    BY <2>1, BaseAssumption
  <2>3. \A n \in Int : n % OctetSize \in 0..(OctetSize - 1)
    BY OctetAssumption
  <2> QED BY <2>2, <2>3 DEF Octets
<1> QED BY <1>1 DEF AddressAt, Addresses

(* Rebuilding the viewers of a group keeps it a group.                     *)
LEMMA WithViewersType ==
    ASSUME NEW g \in Groups, NEW vs, DOMAIN vs \subseteq Viewers, vs \in [DOMAIN vs -> Ages]
    PROVE  WithViewers(g, vs) \in Groups
<1>1. Cardinality(DOMAIN vs) \in Nat
  BY ViewersFinite, FS_Subset, FS_CardinalityType
<1>2. vs \in ViewerAges
  BY DEF ViewerAges
<1> QED BY <1>1, <1>2 DEF WithViewers, Groups, ViewerAges

LEMMA ViewersType ==
    ASSUME NEW g \in Groups
    PROVE  DOMAIN g.viewers \subseteq Viewers /\ g.viewers \in [DOMAIN g.viewers -> Ages]
<1>1. g.viewers \in ViewerAges
  BY DEF Groups, ViewerAges
<1>2. PICK V \in SUBSET Viewers : g.viewers \in [V -> Ages]
  BY <1>1 DEF ViewerAges
<1> QED BY <1>2

LEMMA NewGroupType ==
    ASSUME NEW l \in Leases
    PROVE  NewGroup(l) \in Groups
<1>1. [v \in {} |-> 0] \in ViewerAges
  <2>1. [v \in {} |-> 0] \in [{} -> Ages]
    OBVIOUS
  <2>2. {} \in SUBSET Viewers
    OBVIOUS
  <2> QED BY <2>1, <2>2 DEF ViewerAges
<1>2. 0 \in Ages /\ 0 \in Nat
  BY BoundAssumption DEF Ages, MaxAge
<1> QED BY <1>1, <1>2 DEF NewGroup, Groups, Leases, ViewerAges

LEMMA OlderType == \A n \in Ages : Older(n) \in Ages
BY BoundAssumption DEF Ages, MaxAge, Older

LEMMA LeaseOfType ==
    ASSUME TypeOK, NEW k \in Live
    PROVE  LeaseOf(k) \in Leases /\ LeaseOf(k) # NoLease
<1>1. groups[k] \in Groups /\ k \in StreamKeys
  BY DEF TypeOK
<1>2. LeaseOf(k) \in Leases
  BY <1>1 DEF LeaseOf, Leases, Groups
<1> QED BY <1>2, NoLeaseAssumption

LEMMA DeallocateType ==
    ASSUME TypeOK, NEW a, DeallocateAddress(a)
    PROVE  /\ Leased' \subseteq Addresses
           /\ allocated_addresses' \in [Leased' -> Ports]
           /\ allocated_ports' \subseteq Ports
           /\ next_address_offset' \in Nat
BY DEF TypeOK, DeallocateAddress, Leased

LEMMA SuspendType ==
    ASSUME TypeOK, NEW t \in Tasks, NEW where \in PCs, NEW l \in Leases, Suspend(t, where, l)
    PROVE  /\ pc' \in [Tasks -> PCs]
           /\ lease' \in [Tasks -> Leases \cup {NoLease}]
           /\ \A u \in Tasks : pc'[u] # "idle" => lease'[u] # NoLease
BY NoLeaseAssumption DEF TypeOK, Suspend

LEMMA ResumeType ==
    ASSUME TypeOK, NEW t \in Tasks, NEW from \in PCs, NEW to \in PCs, from # "idle",
           Resume(t, from, to)
    PROVE  /\ pc' \in [Tasks -> PCs]
           /\ lease' \in [Tasks -> Leases \cup {NoLease}]
           /\ \A u \in Tasks : pc'[u] # "idle" => lease'[u] # NoLease
BY DEF TypeOK, Resume

LEMMA ReturnType ==
    ASSUME TypeOK, NEW t \in Tasks, NEW from, Return(t, from)
    PROVE  /\ pc' \in [Tasks -> PCs]
           /\ lease' \in [Tasks -> Leases \cup {NoLease}]
           /\ \A u \in Tasks : pc'[u] # "idle" => lease'[u] # NoLease
BY DEF TypeOK, Return, PCs

-----------------------------------------------------------------------------
(* Type correctness.                                                       *)

LEMMA InitType == Init => TypeOK
<1> SUFFICES ASSUME Init PROVE TypeOK
  OBVIOUS
<1>1. 0 \in 0..GroupTimeout /\ 1 \in Nat
  BY BoundAssumption
<1> QED BY <1>1 DEF Init, TypeOK, Leased, Live, PCs

LEMMA NextType ==
    ASSUME TypeOK, [Next]_vars
    PROVE  TypeOK'
<1> USE DEF Leased, Live
<1>1. ASSUME NEW t \in Tasks, NEW k \in StreamKeys, CreateGroup(t, k)
      PROVE  TypeOK'
  <2>1. UNCHANGED <<sockets, groups, cleanup_due>>
    BY <1>1 DEF CreateGroup
  <2>2. CASE AllocateFails /\ UNCHANGED callers
    <3>1. next_address_offset' \in Nat
      <4>1. next_address_offset \in Nat /\ MaxTries \in Nat
        BY BoundAssumption DEF TypeOK
      <4>2. \A o \in FreeOffsets : o \in Nat
        BY <4>1 DEF FreeOffsets
      <4> QED BY <2>2, <4>1, <4>2 DEF AllocateFails
    <3> QED BY <2>1, <2>2, <3>1 DEF TypeOK, AllocateFails, callers
  <2>3. ASSUME NEW o \in FreeOffsets, NEW p \in FreePorts, AllocateSucceeds(o, p),
               Suspend(t, "bind", [key |-> k, id |-> o, address |-> AddressAt(o), port |-> p])
        PROVE  TypeOK'
    <3>1. o \in Nat /\ p \in Ports
      BY BoundAssumption DEF TypeOK, FreeOffsets, FreePorts
    <3>2. AddressAt(o) \in Addresses
      BY <3>1, AddressAtType
    <3>3. [key |-> k, id |-> o, address |-> AddressAt(o), port |-> p] \in Leases
      BY <3>1, <3>2 DEF Leases
    <3>4. /\ pc' \in [Tasks -> PCs]
          /\ lease' \in [Tasks -> Leases \cup {NoLease}]
          /\ \A u \in Tasks : pc'[u] # "idle" => lease'[u] # NoLease
      BY <2>3, <3>3, SuspendType DEF PCs
    <3>5. /\ Leased' \subseteq Addresses
          /\ allocated_addresses' \in [Leased' -> Ports]
          /\ allocated_ports' \subseteq Ports
          /\ next_address_offset' \in Nat
      BY <2>3, <3>1, <3>2 DEF AllocateSucceeds, TypeOK
    <3> QED BY <2>1, <3>4, <3>5 DEF TypeOK
  <2> QED BY <1>1, <2>2, <2>3 DEF CreateGroup
<1>2. ASSUME NEW t \in Tasks, NEW k \in StreamKeys, RemoveGroup(t, k)
      PROVE  TypeOK'
  <2>1. LeaseOf(k) \in Leases
    BY <1>2, LeaseOfType DEF RemoveGroup
  <2>2. /\ pc' \in [Tasks -> PCs]
        /\ lease' \in [Tasks -> Leases \cup {NoLease}]
        /\ \A u \in Tasks : pc'[u] # "idle" => lease'[u] # NoLease
    BY <1>2, <2>1, SuspendType DEF RemoveGroup, PCs
  <2> QED BY <1>2, <2>2 DEF TypeOK, RemoveGroup, allocator
<1>3. ASSUME NEW t \in Tasks, NEW k \in StreamKeys, SendPacket(t, k)
      PROVE  TypeOK'
  <2>1. LeaseOf(k) \in Leases
    BY <1>3, LeaseOfType DEF SendPacket
  <2>2. /\ pc' \in [Tasks -> PCs]
        /\ lease' \in [Tasks -> Leases \cup {NoLease}]
        /\ \A u \in Tasks : pc'[u] # "idle" => lease'[u] # NoLease
    BY <1>3, <2>1, SuspendType DEF SendPacket, PCs
  <2>3. [groups[k] EXCEPT !.idle = 0] \in Groups
    <3>1. 0 \in Ages
      BY BoundAssumption DEF Ages, MaxAge
    <3>2. groups[k] \in Groups
      BY <1>3 DEF SendPacket, TypeOK
    <3> QED BY <3>1, <3>2 DEF Groups
  <2>4. Live' \subseteq StreamKeys /\ groups' \in [Live' -> Groups]
    BY <1>3, <2>3 DEF SendPacket, TypeOK
  <2> QED BY <1>3, <2>2, <2>4 DEF TypeOK, SendPacket, allocator
<1>4. ASSUME NEW t \in Tasks, BindSocket(t)
      PROVE  TypeOK'
  BY <1>4, ResumeType DEF BindSocket, TypeOK, allocator, PCs
<1>5. ASSUME NEW t \in Tasks, BindFails(t) \/ AbandonCreate(t) \/ Transmit(t)
      PROVE  TypeOK'
  BY <1>5, ReturnType DEF BindFails, AbandonCreate, Transmit, TypeOK, allocator
<1>6. ASSUME NEW t \in Tasks, InsertSocket(t)
      PROVE  TypeOK'
  <2>1. lease[t] \in Leases
    BY <1>6 DEF InsertSocket, Resume, TypeOK
  <2>2. sockets' \subseteq Addresses
    BY <1>6, <2>1 DEF InsertSocket, TypeOK, Leases
  <2> QED BY <1>6, <2>2, ResumeType DEF InsertSocket, TypeOK, allocator, PCs
<1>7. ASSUME NEW t \in Tasks, InsertGroup(t)
      PROVE  TypeOK'
  <2>1. lease[t] \in Leases
    BY <1>7 DEF InsertGroup, Return, TypeOK
  <2>2. NewGroup(lease[t]) \in Groups /\ lease[t].key \in StreamKeys
    BY <2>1, NewGroupType DEF Leases
  <2>3. Live' \subseteq StreamKeys /\ groups' \in [Live' -> Groups]
    BY <1>7, <2>2 DEF InsertGroup, TypeOK
  <2> QED BY <1>7, <2>3, ReturnType DEF InsertGroup, TypeOK, allocator
<1>8. ASSUME NEW t \in Tasks, RemoveResources(t)
      PROVE  TypeOK'
  <2>1. CASE /\ Resume(t, "remove_socket", "deallocate")
             /\ sockets' = sockets \ {lease[t].address}
             /\ UNCHANGED <<allocator, groups, cleanup_due>>
    BY <2>1, ResumeType DEF TypeOK, allocator, PCs
  <2>2. CASE /\ Return(t, "deallocate")
             /\ DeallocateAddress(lease[t].address)
             /\ UNCHANGED <<sockets, groups, cleanup_due>>
    <3>1. /\ Leased' \subseteq Addresses
          /\ allocated_addresses' \in [Leased' -> Ports]
          /\ allocated_ports' \subseteq Ports
          /\ next_address_offset' \in Nat
      BY <2>2, DeallocateType
    <3> QED BY <2>2, <3>1, ReturnType DEF TypeOK
  <2> QED BY <1>8, <2>1, <2>2 DEF RemoveResources
<1>9. ASSUME NEW k \in StreamKeys, NEW v \in Viewers, AddViewer(k, v) \/ RemoveViewer(k, v)
      PROVE  TypeOK'
  <2> DEFINE old == groups[k].viewers
  <2>1. k \in Live /\ groups[k] \in Groups
    BY <1>9 DEF AddViewer, RemoveViewer, TypeOK
  <2>2. DOMAIN old \subseteq Viewers /\ old \in [DOMAIN old -> Ages]
    BY <2>1, ViewersType
  <2>3. PICK new : /\ DOMAIN new \subseteq Viewers
                   /\ new \in [DOMAIN new -> Ages]
                   /\ groups' = [groups EXCEPT ![k] = WithViewers(@, new)]
    <3>1. CASE AddViewer(k, v)
      <4> DEFINE new == [w \in DOMAIN old \cup {v} |-> IF w = v THEN 0 ELSE old[w]]
      <4>1. 0 \in Ages
        BY BoundAssumption DEF Ages, MaxAge
      <4>2. DOMAIN new \subseteq Viewers /\ new \in [DOMAIN new -> Ages]
        BY <2>2, <4>1
      <4> QED BY <3>1, <4>2 DEF AddViewer
    <3>2. CASE RemoveViewer(k, v)
      <4> DEFINE new == [w \in DOMAIN old \ {v} |-> old[w]]
      <4>1. DOMAIN new \subseteq Viewers /\ new \in [DOMAIN new -> Ages]
        BY <2>2
      <4> QED BY <3>2, <4>1 DEF RemoveViewer
    <3> QED BY <1>9, <3>1, <3>2
  <2>4. WithViewers(groups[k], new) \in Groups
    BY <2>1, <2>3, WithViewersType
  <2>5. Live' \subseteq StreamKeys /\ groups' \in [Live' -> Groups]
    BY <2>3, <2>4 DEF TypeOK
  <2> QED BY <1>9, <2>5 DEF AddViewer, RemoveViewer, TypeOK, allocator, callers
<1>10. ASSUME Tick
       PROVE  TypeOK'
  <2> DEFINE Aged(k) == [groups[k] EXCEPT !.idle = Older(@),
                                          !.viewers = [v \in DOMAIN @ |-> Older(@[v])]]
  <2>1. ASSUME NEW k \in Live
        PROVE  Aged(k) \in Groups
    <3> DEFINE vs == [v \in DOMAIN groups[k].viewers |-> Older(groups[k].viewers[v])]
    <3>1. groups[k] \in Groups
      BY DEF TypeOK
    <3>2. /\ DOMAIN groups[k].viewers \subseteq Viewers
          /\ groups[k].viewers \in [DOMAIN groups[k].viewers -> Ages]
      BY <3>1, ViewersType
    <3>3. vs \in ViewerAges
      <4>1. vs \in [DOMAIN groups[k].viewers -> Ages]
        BY <3>2, OlderType
      <4> QED BY <3>2, <4>1 DEF ViewerAges
    <3>4. Older(groups[k].idle) \in Ages
      BY <3>1, OlderType DEF Groups
    <3>5. Aged(k) = [groups[k] EXCEPT !.idle = Older(groups[k].idle), !.viewers = vs]
      BY <3>1 DEF Groups
    <3> QED BY <3>1, <3>3, <3>4, <3>5 DEF Groups, ViewerAges
  <2>2. groups' = [k \in Live |-> Aged(k)]
    BY <1>10 DEF Tick
  <2>3. Live' \subseteq StreamKeys /\ groups' \in [Live' -> Groups]
    BY <2>1, <2>2 DEF TypeOK
  <2>4. cleanup_due' \in 0..GroupTimeout
    <3>1. cleanup_due \in 0..GroupTimeout /\ GroupTimeout \in Nat
      BY BoundAssumption DEF TypeOK
    <3>2. cleanup_due > 0 /\ cleanup_due' = cleanup_due - 1
      BY <1>10 DEF Tick
    <3> QED BY <3>1, <3>2
  <2> QED BY <1>10, <2>3, <2>4 DEF Tick, TypeOK, allocator, callers
<1>11. ASSUME Cleanup
       PROVE  TypeOK'
  <2>1. ASSUME NEW k \in Live
        PROVE  DropSilent(groups[k]) \in Groups
    <3> DEFINE vs == [v \in Present(groups[k]) |-> groups[k].viewers[v]]
    <3>1. groups[k] \in Groups
      BY DEF TypeOK
    <3>2. /\ DOMAIN groups[k].viewers \subseteq Viewers
          /\ groups[k].viewers \in [DOMAIN groups[k].viewers -> Ages]
      BY <3>1, ViewersType
    <3>3. DOMAIN vs \subseteq Viewers /\ vs \in [DOMAIN vs -> Ages]
      BY <3>2 DEF Present
    <3> QED BY <3>1, <3>3, WithViewersType DEF DropSilent
  <2>2. Live' \subseteq StreamKeys /\ groups' \in [Live' -> Groups]
    BY <1>11, <2>1 DEF Cleanup, TypeOK
  <2>3. cleanup_due' \in 0..GroupTimeout
    BY <1>11, BoundAssumption DEF Cleanup
  <2> QED BY <1>11, <2>2, <2>3 DEF Cleanup, TypeOK, allocator, callers
<1>12. CASE UNCHANGED vars
  BY <1>12 DEF TypeOK, vars, allocator, callers
<1> QED BY <1>1, <1>2, <1>3, <1>4, <1>5, <1>6, <1>7, <1>8, <1>9, <1>10, <1>11, <1>12
        DEF Next, Continue

(* Every table keeps the type of its Rust declaration.                     *)
THEOREM TypeCorrect == Spec => []TypeOK
<1>1. Init => TypeOK
  BY InitType
<1>2. TypeOK /\ [Next]_vars => TypeOK'
  BY NextType
<1> QED BY <1>1, <1>2, PTL DEF Spec
-----------------------------------------------------------------------------
(* Ownership.  The invariants of the groups are not inductive by           *)
(* themselves: the addresses that create_group and remove_group carry in   *)
(* their local variables must be accounted for as well.                    *)

CallersReady ==
    \A t \in Tasks :
        /\ Holding(t) =>
             /\ lease[t].address \in Leased
             /\ allocated_addresses[lease[t].address] = lease[t].port
        /\ pc[t] = "insert_group" => lease[t].address \in sockets
        /\ pc[t] = "deallocate" => lease[t].address \notin sockets

IInv == TypeOK /\ LeasesConsistent /\ OneOwner /\ GroupsReady /\ SocketsLeased /\ CallersReady

LEMMA InitOwnership == Init => IInv
<1>1. Init => TypeOK
  BY InitType
<1>2. Init => LeasesConsistent /\ OneOwner /\ GroupsReady /\ SocketsLeased /\ CallersReady
  BY DEF Init, LeasesConsistent, OneOwner, GroupsReady, SocketsLeased, CallersReady,
         Holding, Creating, Removing, Leased, Live
<1> QED BY <1>1, <1>2 DEF IInv

(* A step of one caller to another of its await points leaves the others   *)
(* where they are.                                                         *)
LEMMA Others ==
    ASSUME TypeOK, NEW t \in Tasks, NEW from, NEW to, NEW l,
           Resume(t, from, to) \/ Return(t, from) \/ Suspend(t, to, l)
    PROVE  \A u \in Tasks \ {t} : pc'[u] = pc[u] /\ lease'[u] = lease[u]
BY DEF TypeOK, Resume, Return, Suspend

(* The five parts of the invariant depend only on these.                   *)
LEMMA OwnershipStutter ==
    ASSUME IInv, UNCHANGED <<allocator, sockets, callers>>,
           Live' \subseteq Live,
           \A k \in Live' : /\ groups'[k].address = groups[k].address
                            /\ groups'[k].port = groups[k].port
    PROVE  LeasesConsistent' /\ OneOwner' /\ GroupsReady' /\ SocketsLeased' /\ CallersReady'
<1> USE DEF allocator, callers, Leased, Holding, Creating, Removing
<1>1. LeasesConsistent' /\ SocketsLeased' /\ CallersReady'
  BY DEF IInv, LeasesConsistent, SocketsLeased, CallersReady
<1>2. OneOwner'
  BY DEF IInv, OneOwner
<1>3. GroupsReady'
  BY DEF IInv, GroupsReady
<1> QED BY <1>1, <1>2, <1>3

LEMMA CreateGroupOwnership ==
    ASSUME IInv, NEW t \in Tasks, NEW k \in StreamKeys, CreateGroup(t, k)
    PROVE  LeasesConsistent' /\ OneOwner' /\ GroupsReady' /\ SocketsLeased' /\ CallersReady'
<1> USE DEF IInv, Leased, Live
<1>1. UNCHANGED <<sockets, groups>> /\ pc[t] = "idle"
  BY DEF CreateGroup
<1>2. CASE AllocateFails /\ UNCHANGED callers
  BY <1>1, <1>2 DEF AllocateFails, callers, LeasesConsistent, OneOwner, GroupsReady,
     SocketsLeased, CallersReady, Holding, Creating, Removing
<1>3. ASSUME NEW o \in FreeOffsets, NEW p \in FreePorts, AllocateSucceeds(o, p),
             Suspend(t, "bind", [key |-> k, id |-> o, address |-> AddressAt(o), port |-> p])
      PROVE  LeasesConsistent' /\ OneOwner' /\ GroupsReady' /\ SocketsLeased' /\ CallersReady'
  <2> DEFINE a == AddressAt(o)
  <2>1. a \notin Leased /\ p \notin allocated_ports
    BY DEF FreeOffsets, FreePorts
  <2>2. /\ Leased' = Leased \cup {a}
        /\ allocated_addresses'[a] = p
        /\ \A b \in Leased : allocated_addresses'[b] = allocated_addresses[b]
        /\ allocated_ports' = allocated_ports \cup {p}
    BY <1>3, <2>1 DEF AllocateSucceeds
  <2>3. /\ pc'[t] = "bind" /\ lease'[t].address = a /\ lease'[t].port = p
        /\ \A u \in Tasks \ {t} : pc'[u] = pc[u] /\ lease'[u] = lease[u]
    BY <1>3 DEF Suspend, TypeOK
  <2> HIDE DEF a
  <2>4. LeasesConsistent'
    BY <2>1, <2>2 DEF LeasesConsistent
  <2>5. OneOwner'
    <3>1. \A g \in Live : groups[g].address # a
      BY <2>1 DEF GroupsReady
    <3>2. \A u \in Tasks : Holding(u) => lease[u].address # a
      BY <2>1 DEF CallersReady
    <3> QED BY <1>1, <2>3, <3>1, <3>2 DEF OneOwner, Holding, Creating, Removing
  <2>6. GroupsReady'
    BY <1>1, <2>1, <2>2 DEF GroupsReady
  <2>7. SocketsLeased'
    BY <1>1, <2>2 DEF SocketsLeased
  <2>8. CallersReady'
    BY <1>1, <2>2, <2>3 DEF CallersReady, Holding, Creating, Removing
  <2> QED BY <2>4, <2>5, <2>6, <2>7, <2>8
<1> QED BY <1>2, <1>3 DEF CreateGroup

LEMMA RemoveGroupOwnership ==
    ASSUME IInv, NEW t \in Tasks, NEW k \in StreamKeys, RemoveGroup(t, k)
    PROVE  LeasesConsistent' /\ OneOwner' /\ GroupsReady' /\ SocketsLeased' /\ CallersReady'
<1> USE DEF IInv, Leased, Live
<1>1. /\ k \in Live /\ pc[t] = "idle"
      /\ Live' = Live \ {k} /\ \A s \in Live' : groups'[s] = groups[s]
      /\ UNCHANGED <<allocated_addresses, allocated_ports, sockets>>
  BY DEF RemoveGroup, allocator
<1>2. /\ pc'[t] = "remove_socket"
      /\ lease'[t].address = groups[k].address /\ lease'[t].port = groups[k].port
      /\ \A u \in Tasks \ {t} : pc'[u] = pc[u] /\ lease'[u] = lease[u]
  BY DEF RemoveGroup, Suspend, LeaseOf, TypeOK
<1>3. LeasesConsistent' /\ SocketsLeased'
  BY <1>1 DEF LeasesConsistent, SocketsLeased
<1>4. OneOwner'
  BY <1>1, <1>2 DEF OneOwner, Holding, Creating, Removing
<1>5. GroupsReady'
  BY <1>1 DEF GroupsReady
<1>6. CallersReady'
  BY <1>1, <1>2 DEF CallersReady, GroupsReady, Holding, Creating, Removing
<1> QED BY <1>3, <1>4, <1>5, <1>6

LEMMA InsertSocketOwnership ==
    ASSUME IInv, NEW t \in Tasks, InsertSocket(t)
    PROVE  LeasesConsistent' /\ OneOwner' /\ GroupsReady' /\ SocketsLeased' /\ CallersReady'
<1> USE DEF IInv, Leased, Live, Holding, Creating, Removing
<1>1. /\ pc[t] = "insert_socket" /\ pc'[t] = "insert_group" /\ UNCHANGED lease
      /\ \A u \in Tasks \ {t} : pc'[u] = pc[u]
      /\ sockets' = sockets \cup {lease[t].address}
      /\ UNCHANGED <<allocated_addresses, allocated_ports, groups>>
  BY DEF InsertSocket, Resume, TypeOK, allocator
<1>2. LeasesConsistent' /\ GroupsReady'
  BY <1>1 DEF LeasesConsistent, GroupsReady
<1>3. SocketsLeased'
  BY <1>1 DEF SocketsLeased, CallersReady
<1>4. OneOwner'
  BY <1>1 DEF OneOwner
<1>5. CallersReady'
  BY <1>1 DEF CallersReady, OneOwner
<1> QED BY <1>2, <1>3, <1>4, <1>5

LEMMA InsertGroupOwnership ==
    ASSUME IInv, NEW t \in Tasks, InsertGroup(t)
    PROVE  LeasesConsistent' /\ OneOwner' /\ GroupsReady' /\ SocketsLeased' /\ CallersReady'
<1> USE DEF IInv, Leased, Live, Holding, Creating, Removing
<1> DEFINE k == lease[t].key
<1>1. /\ pc[t] = "insert_group" /\ pc'[t] = "idle"
      /\ \A u \in Tasks \ {t} : pc'[u] = pc[u] /\ lease'[u] = lease[u]
      /\ Live' = Live \cup {k}
      /\ \A s \in Live \ {k} : groups'[s] = groups[s]
      /\ groups'[k].address = lease[t].address /\ groups'[k].port = lease[t].port
      /\ UNCHANGED <<allocated_addresses, allocated_ports, sockets>>
  BY DEF InsertGroup, Return, NewGroup, TypeOK, allocator
<1> HIDE DEF k
<1>2. LeasesConsistent' /\ SocketsLeased'
  BY <1>1 DEF LeasesConsistent, SocketsLeased
<1>3. GroupsReady'
  BY <1>1 DEF GroupsReady, CallersReady
<1>4. OneOwner'
  BY <1>1 DEF OneOwner
<1>5. CallersReady'
  BY <1>1 DEF CallersReady
<1> QED BY <1>2, <1>3, <1>4, <1>5

(* Taking an address down disturbs no other owner: the caller is its only  *)
(* one, and its socket goes before its lease.                              *)
LEMMA RemoveResourcesOwnership ==
    ASSUME IInv, NEW t \in Tasks, RemoveResources(t)
    PROVE  LeasesConsistent' /\ OneOwner' /\ GroupsReady' /\ SocketsLeased' /\ CallersReady'
<1> USE DEF IInv, Leased, Live, Holding, Creating, Removing
<1> DEFINE a == lease[t].address
<1>1. CASE /\ Resume(t, "remove_socket", "deallocate")
           /\ sockets' = sockets \ {lease[t].address}
           /\ UNCHANGED <<allocator, groups, cleanup_due>>
  <2>1. /\ pc[t] = "remove_socket" /\ pc'[t] = "deallocate" /\ UNCHANGED lease
        /\ \A u \in Tasks \ {t} : pc'[u] = pc[u]
        /\ sockets' = sockets \ {a}
        /\ UNCHANGED <<allocated_addresses, allocated_ports, groups>>
    BY <1>1 DEF Resume, TypeOK, allocator
  <2>2. LeasesConsistent' /\ SocketsLeased'
    BY <2>1 DEF LeasesConsistent, SocketsLeased
  <2>3. OneOwner'
    BY <2>1 DEF OneOwner
  <2>4. GroupsReady'
    BY <2>1 DEF GroupsReady, OneOwner
  <2>5. CallersReady'
    BY <2>1 DEF CallersReady, OneOwner
  <2> QED BY <2>2, <2>3, <2>4, <2>5
<1>2. CASE /\ Return(t, "deallocate")
           /\ DeallocateAddress(lease[t].address)
           /\ UNCHANGED <<sockets, groups, cleanup_due>>
  <2>1. /\ pc[t] = "deallocate" /\ pc'[t] = "idle"
        /\ \A u \in Tasks \ {t} : pc'[u] = pc[u] /\ lease'[u] = lease[u]
        /\ UNCHANGED <<sockets, groups>>
    BY <1>2 DEF Return, TypeOK
  <2>2. a \in Leased /\ a \notin sockets
    BY <2>1 DEF CallersReady
  <2>3. /\ Leased' = Leased \ {a}
        /\ \A b \in Leased' : allocated_addresses'[b] = allocated_addresses[b]
        /\ allocated_ports' = allocated_ports \ {allocated_addresses[a]}
    BY <1>2, <2>2 DEF DeallocateAddress
  <2> HIDE DEF a
  <2>4. LeasesConsistent'
    BY <2>2, <2>3 DEF LeasesConsistent
  <2>5. SocketsLeased'
    BY <2>1, <2>2, <2>3 DEF SocketsLeased
  <2>6. OneOwner'
    BY <2>1 DEF OneOwner
  <2>7. GroupsReady'
    BY <2>1, <2>2, <2>3 DEF GroupsReady
  <2>8. CallersReady'
    <3>1. \A u \in Tasks \ {t} : Holding(u) => lease[u].address # a
      BY <2>1 DEF OneOwner, a
    <3> QED BY <2>1, <2>3, <3>1 DEF CallersReady
  <2> QED BY <2>4, <2>5, <2>6, <2>7, <2>8
<1> QED BY <1>1, <1>2 DEF RemoveResources

LEMMA NextOwnership ==
    ASSUME IInv, [Next]_vars
    PROVE  IInv'
<1> USE DEF Live
<1>1. TypeOK'
  BY NextType DEF IInv
<1> SUFFICES LeasesConsistent' /\ OneOwner' /\ GroupsReady' /\ SocketsLeased' /\ CallersReady'
  BY <1>1 DEF IInv
<1>2. ASSUME NEW t \in Tasks, NEW k \in StreamKeys, CreateGroup(t, k) \/ RemoveGroup(t, k)
      PROVE  LeasesConsistent' /\ OneOwner' /\ GroupsReady' /\ SocketsLeased' /\ CallersReady'
  BY <1>2, CreateGroupOwnership, RemoveGroupOwnership
<1>3. ASSUME NEW t \in Tasks, InsertSocket(t) \/ InsertGroup(t) \/ RemoveResources(t)
      PROVE  LeasesConsistent' /\ OneOwner' /\ GroupsReady' /\ SocketsLeased' /\ CallersReady'
  BY <1>3, InsertSocketOwnership, InsertGroupOwnership, RemoveResourcesOwnership
<1>4. ASSUME NEW t \in Tasks,
             \/ BindSocket(t) \/ BindFails(t) \/ AbandonCreate(t) \/ Transmit(t)
             \/ \E k \in StreamKeys : SendPacket(t, k)
      PROVE  LeasesConsistent' /\ OneOwner' /\ GroupsReady' /\ SocketsLeased' /\ CallersReady'
  <2>1. /\ Live' = Live /\ UNCHANGED <<allocated_addresses, allocated_ports, sockets>>
        /\ \A k \in Live : /\ groups'[k].address = groups[k].address
                            /\ groups'[k].port = groups[k].port
    <3>1. CASE \E k \in StreamKeys : SendPacket(t, k)
      <4>1. PICK k \in StreamKeys : SendPacket(t, k)
        BY <3>1
      <4>2. groups[k] \in Groups
        BY <4>1 DEF SendPacket, IInv, TypeOK
      <4>3. /\ [groups[k] EXCEPT !.idle = 0].address = groups[k].address
            /\ [groups[k] EXCEPT !.idle = 0].port = groups[k].port
        BY <4>2 DEF Groups
      <4>4. groups' = [groups EXCEPT ![k] = [groups[k] EXCEPT !.idle = 0]]
        BY <4>1 DEF SendPacket
      <4> QED BY <4>1, <4>3, <4>4 DEF SendPacket, allocator, IInv, TypeOK
    <3> QED BY <1>4, <3>1 DEF BindSocket, BindFails, AbandonCreate, Transmit, allocator
  <2>2. /\ \A u \in Tasks \ {t} : pc'[u] = pc[u] /\ lease'[u] = lease[u]
        /\ \/ pc[t] = "bind" /\ pc'[t] = "insert_socket" /\ lease'[t] = lease[t]
           \/ pc'[t] \in {"idle", "transmit"}
    BY <1>4 DEF BindSocket, BindFails, AbandonCreate, Transmit, SendPacket,
                Suspend, Resume, Return, IInv, TypeOK
  <2>3. LeasesConsistent' /\ SocketsLeased'
    BY <2>1 DEF IInv, LeasesConsistent, SocketsLeased, Leased
  <2>4. OneOwner'
    BY <2>1, <2>2 DEF IInv, OneOwner, Holding, Creating, Removing
  <2>5. GroupsReady'
    BY <2>1 DEF IInv, GroupsReady, Leased
  <2>6. CallersReady'
    BY <2>1, <2>2 DEF IInv, CallersReady, Holding, Creating, Removing, Leased
  <2> QED BY <2>3, <2>4, <2>5, <2>6
<1>5. CASE \/ \E k \in StreamKeys, v \in Viewers : AddViewer(k, v) \/ RemoveViewer(k, v)
           \/ Tick \/ Cleanup \/ UNCHANGED vars
  <2>1. UNCHANGED <<allocator, sockets, callers>>
    BY <1>5 DEF AddViewer, RemoveViewer, Tick, Cleanup, vars
  <2>2. /\ Live' \subseteq Live
        /\ \A k \in Live' : /\ groups'[k].address = groups[k].address
                             /\ groups'[k].port = groups[k].port
    <3>1. \A k \in Live : groups[k] \in Groups
      BY DEF IInv, TypeOK
    <3>2. ASSUME NEW g \in Groups, NEW vs
          PROVE  WithViewers(g, vs).address = g.address /\ WithViewers(g, vs).port = g.port
      BY DEF WithViewers, Groups
    <3>3. CASE \E k \in StreamKeys, v \in Viewers : AddViewer(k, v) \/ RemoveViewer(k, v)
      <4>1. PICK k \in Live : \E vs : groups' = [groups EXCEPT ![k] = WithViewers(@, vs)]
        BY <3>3 DEF AddViewer, RemoveViewer
      <4>2. PICK vs : groups' = [groups EXCEPT ![k] = WithViewers(@, vs)]
        BY <4>1
      <4> QED BY <3>1, <3>2, <4>2
    <3>4. CASE Tick
      <4> DEFINE Aged(k) == [groups[k] EXCEPT !.idle = Older(@),
                                              !.viewers = [v \in DOMAIN @ |-> Older(@[v])]]
      <4>1. \A k \in Live : /\ Aged(k).address = groups[k].address
                            /\ Aged(k).port = groups[k].port
        BY <3>1 DEF Groups
      <4>2. groups' = [k \in Live |-> Aged(k)]
        BY <3>4 DEF Tick
      <4> HIDE DEF Aged
      <4> QED BY <4>1, <4>2
    <3>5. CASE Cleanup
      BY <3>1, <3>2, <3>5 DEF Cleanup, DropSilent
    <3> QED BY <1>5, <3>3, <3>4, <3>5 DEF vars
  <2> QED BY <2>1, <2>2, OwnershipStutter
<1> QED BY <1>2, <1>3, <1>4, <1>5 DEF Next, Continue

(* Every leased address has one owner: a listed group, a creation, a       *)
(* removal, or nobody ever again.                                          *)
THEOREM Ownership == Spec => []IInv
<1>1. Init => IInv
  BY InitOwnership
<1>2. IInv /\ [Next]_vars => IInv'
  BY NextOwnership
<1> QED BY <1>1, <1>2, PTL DEF Spec

(* No port is lost or handed out twice.                                    *)
THEOREM LeasesStayConsistent == Spec => []LeasesConsistent
<1>1. IInv => LeasesConsistent
  BY DEF IInv
<1> QED BY <1>1, Ownership, PTL

(* No address ever has two owners.                                         *)
THEOREM AddressesHaveOneOwner == Spec => []OneOwner
<1>1. IInv => OneOwner
  BY DEF IInv
<1> QED BY <1>1, Ownership, PTL

(* A group that can be looked up has its lease and its socket.             *)
THEOREM ListedGroupsAreReady == Spec => []GroupsReady
<1>1. IInv => GroupsReady
  BY DEF IInv
<1> QED BY <1>1, Ownership, PTL

(* No socket outlives its lease.                                           *)
THEOREM SocketsStayLeased == Spec => []SocketsLeased
<1>1. IInv => SocketsLeased
  BY DEF IInv
<1> QED BY <1>1, Ownership, PTL
-----------------------------------------------------------------------------
(* The group table implements the stream directory.                        *)

EndpointOf(k) == <<groups[k].address, groups[k].port>>
AudienceOf(k) == DOMAIN groups[k].viewers

LEMMA InitDirectory == Init => Directory!DirInit
BY DEF Init, Directory!DirInit, Live

(* The directory sees only which streams are listed, where, and to whom.   *)
LEMMA SameDirectory ==
    ASSUME Live' = Live,
           \A k \in Live : EndpointOf(k)' = EndpointOf(k) /\ AudienceOf(k)' = AudienceOf(k)
    PROVE  UNCHANGED Directory!dirVars
<1>1. UNCHANGED [k \in Live |-> <<groups[k].address, groups[k].port>>]
  BY DEF EndpointOf
<1>2. UNCHANGED [k \in Live |-> DOMAIN groups[k].viewers]
  BY DEF AudienceOf
<1> QED BY <1>1, <1>2 DEF Directory!dirVars

(* A new group is published where no other stream is: its address is the   *)
(* caller's alone, and addresses with different owners differ in port.     *)
LEMMA InsertGroupPublishes ==
    ASSUME IInv, NEW t \in Tasks, InsertGroup(t)
    PROVE  Directory!DirNext
<1>1. lease[t] \in Leases /\ pc[t] = "insert_group"
  BY DEF InsertGroup, Return, IInv, TypeOK
<1>2. PICK k \in StreamKeys, a \in Addresses, p \in Ports :
        k = lease[t].key /\ a = lease[t].address /\ p = lease[t].port
  BY <1>1 DEF Leases
<1>3. Holding(t)
  BY <1>1 DEF Holding, Creating
<1>4. /\ Live' = Live \cup {k}
      /\ \A s \in Live \ {k} : groups'[s] = groups[s]
      /\ groups'[k].address = a /\ groups'[k].port = p /\ DOMAIN groups'[k].viewers = {}
  BY <1>2 DEF InsertGroup, NewGroup, Live
<1>5. ASSUME NEW s \in Live
      PROVE  groups[s].address # a /\ groups[s].port # p
  <2>1. groups[s].address # a
    BY <1>2, <1>3 DEF IInv, OneOwner
  <2>2. /\ a \in Leased /\ allocated_addresses[a] = p
        /\ groups[s].address \in Leased
        /\ allocated_addresses[groups[s].address] = groups[s].port
    BY <1>2, <1>3 DEF IInv, CallersReady, GroupsReady
  <2> QED BY <2>1, <2>2 DEF IInv, LeasesConsistent
<1>6. Directory!Vacant(k, a, p)
  BY <1>5 DEF Directory!Vacant, Directory!Listed
<1>7. Directory!Publish(k, a, p)
  BY <1>4, <1>6 DEF Directory!Publish, Directory!Listed
<1> QED BY <1>7 DEF Directory!DirNext

LEMMA RemoveGroupWithdraws ==
    ASSUME NEW t \in Tasks, NEW k \in StreamKeys, RemoveGroup(t, k)
    PROVE  Directory!DirNext
<1>1. k \in Live /\ groups' = [s \in Live \ {k} |-> groups[s]] /\ Live' = Live \ {k}
  BY DEF RemoveGroup, Live
<1>2. Directory!Withdraw(k)
  BY <1>1 DEF Directory!Withdraw, Directory!Forget, Directory!Listed
<1> QED BY <1>2 DEF Directory!DirNext

LEMMA ViewersJoinAndLeave ==
    ASSUME TypeOK, NEW k \in StreamKeys, NEW v \in Viewers,
           AddViewer(k, v) \/ RemoveViewer(k, v)
    PROVE  Directory!DirNext
<1>1. k \in Live /\ groups[k] \in Groups
  BY DEF AddViewer, RemoveViewer, TypeOK
<1>2. ASSUME NEW vs
      PROVE  /\ WithViewers(groups[k], vs).address = groups[k].address
             /\ WithViewers(groups[k], vs).port = groups[k].port
             /\ WithViewers(groups[k], vs).viewers = vs
  BY <1>1 DEF WithViewers, Groups
<1>3. CASE AddViewer(k, v)
  <2>1. PICK vs : /\ DOMAIN vs = DOMAIN groups[k].viewers \cup {v}
                  /\ groups' = [groups EXCEPT ![k] = WithViewers(groups[k], vs)]
    <3> DEFINE new == [w \in DOMAIN groups[k].viewers \cup {v} |->
                         IF w = v THEN 0 ELSE groups[k].viewers[w]]
    <3>1. groups' = [groups EXCEPT ![k] = WithViewers(groups[k], new)]
      BY <1>3 DEF AddViewer
    <3>2. DOMAIN new = DOMAIN groups[k].viewers \cup {v}
      OBVIOUS
    <3> QED BY <3>1, <3>2
  <2>2. /\ Live' = Live
        /\ \A s \in Live : EndpointOf(s)' = EndpointOf(s)
        /\ \A s \in Live \ {k} : AudienceOf(s)' = AudienceOf(s)
        /\ AudienceOf(k)' = AudienceOf(k) \cup {v}
    BY <1>1, <1>2, <2>1 DEF EndpointOf, AudienceOf, Live, TypeOK
  <2>3. [s \in Live |-> <<groups[s].address, groups[s].port>>]'
          = [s \in Live |-> <<groups[s].address, groups[s].port>>]
    BY <2>2 DEF EndpointOf
  <2>4. [s \in Live |-> DOMAIN groups[s].viewers]'
          = [[s \in Live |-> DOMAIN groups[s].viewers] EXCEPT ![k] = @ \cup {v}]
    BY <1>1, <2>2 DEF AudienceOf
  <2>5. Directory!Join(k, v)
    BY <1>1, <2>3, <2>4 DEF Directory!Join, Directory!Listed
  <2> QED BY <2>5 DEF Directory!DirNext
<1>4. CASE RemoveViewer(k, v)
  <2>1. PICK vs : /\ DOMAIN vs = DOMAIN groups[k].viewers \ {v}
                  /\ groups' = [groups EXCEPT ![k] = WithViewers(groups[k], vs)]
    <3> DEFINE new == [w \in DOMAIN groups[k].viewers \ {v} |-> groups[k].viewers[w]]
    <3>1. groups' = [groups EXCEPT ![k] = WithViewers(groups[k], new)]
      BY <1>4 DEF RemoveViewer
    <3>2. DOMAIN new = DOMAIN groups[k].viewers \ {v}
      OBVIOUS
    <3> QED BY <3>1, <3>2
  <2>2. /\ Live' = Live
        /\ \A s \in Live : EndpointOf(s)' = EndpointOf(s)
        /\ \A s \in Live \ {k} : AudienceOf(s)' = AudienceOf(s)
        /\ AudienceOf(k)' = AudienceOf(k) \ {v}
    BY <1>1, <1>2, <2>1 DEF EndpointOf, AudienceOf, Live, TypeOK
  <2>3. [s \in Live |-> <<groups[s].address, groups[s].port>>]'
          = [s \in Live |-> <<groups[s].address, groups[s].port>>]
    BY <2>2 DEF EndpointOf
  <2>4. [s \in Live |-> DOMAIN groups[s].viewers]'
          = [[s \in Live |-> DOMAIN groups[s].viewers] EXCEPT ![k] = @ \ {v}]
    BY <1>1, <2>2 DEF AudienceOf
  <2>5. Directory!Leave(k, v)
    BY <1>1, <2>3, <2>4 DEF Directory!Leave, Directory!Listed
  <2> QED BY <2>5 DEF Directory!DirNext
<1> QED BY <1>3, <1>4

LEMMA CleanupExpires ==
    ASSUME TypeOK, Cleanup
    PROVE  Directory!DirNext
<1>1. \A k \in Live : groups[k] \in Groups /\ k \in StreamKeys
  BY DEF TypeOK
<1>2. PICK K \in SUBSET StreamKeys : K = IdleGroups
  BY <1>1 DEF IdleGroups
<1>3. K \subseteq Live
  BY <1>2 DEF IdleGroups
<1>4. PICK gone \in [Live -> SUBSET Viewers] :
        \A k \in Live : gone[k] = AudienceOf(k) \ Present(groups[k])
  <2>1. [k \in Live |-> AudienceOf(k) \ Present(groups[k])] \in [Live -> SUBSET Viewers]
    BY <1>1, ViewersType DEF AudienceOf
  <2> QED BY <2>1
<1>5. \A k \in K : AudienceOf(k) \subseteq gone[k]
  BY <1>2, <1>3, <1>4 DEF IdleGroups
<1>6. \A k \in Live : AudienceOf(k) \ gone[k] = Present(groups[k])
  BY <1>4 DEF AudienceOf, Present
<1>7. /\ Live' = Live \ K
      /\ \A k \in Live' : groups'[k] = DropSilent(groups[k])
  BY <1>2 DEF Cleanup, Live
<1>8. \A k \in Live : /\ DropSilent(groups[k]).address = groups[k].address
                      /\ DropSilent(groups[k]).port = groups[k].port
                      /\ DOMAIN DropSilent(groups[k]).viewers = Present(groups[k])
  BY <1>1 DEF DropSilent, WithViewers, Groups
<1>9. [k \in Live |-> <<groups[k].address, groups[k].port>>]'
        = [s \in Live \ K |-> <<groups[s].address, groups[s].port>>]
  BY <1>3, <1>7, <1>8
<1>10. [k \in Live |-> DOMAIN groups[k].viewers]'
         = [s \in Live \ K |-> DOMAIN groups[s].viewers \ gone[s]]
  BY <1>3, <1>6, <1>7, <1>8 DEF AudienceOf
<1>11. Directory!Expire(gone, K)
  BY <1>3, <1>5, <1>9, <1>10 DEF Directory!Expire, Directory!Listed, AudienceOf
<1>12. gone \in [Directory!Listed -> SUBSET Viewers]
  BY DEF Directory!Listed
<1> QED BY <1>11, <1>12 DEF Directory!DirNext

LEMMA NextDirectory ==
    ASSUME IInv, [Next]_vars
    PROVE  [Directory!DirNext]_(Directory!dirVars)
<1> USE DEF Live
<1>1. TypeOK
  BY DEF IInv
<1>2. ASSUME NEW t \in Tasks, InsertGroup(t) \/ \E k \in StreamKeys : RemoveGroup(t, k)
      PROVE  Directory!DirNext
  BY <1>2, InsertGroupPublishes, RemoveGroupWithdraws
<1>3. ASSUME NEW k \in StreamKeys, NEW v \in Viewers, AddViewer(k, v) \/ RemoveViewer(k, v)
      PROVE  Directory!DirNext
  BY <1>1, <1>3, ViewersJoinAndLeave
<1>4. CASE Cleanup
  BY <1>1, <1>4, CleanupExpires
<1>5. CASE \/ \E t \in Tasks : \/ \E k \in StreamKeys : CreateGroup(t, k)
                             \/ BindSocket(t) \/ BindFails(t) \/ InsertSocket(t)
                             \/ RemoveResources(t) \/ Transmit(t) \/ AbandonCreate(t)
           \/ UNCHANGED vars
  <2>1. UNCHANGED groups
    BY <1>5 DEF CreateGroup, BindSocket, BindFails, InsertSocket, RemoveResources,
                Transmit, AbandonCreate, vars
  <2>2. UNCHANGED Directory!dirVars
    BY <2>1, SameDirectory DEF EndpointOf, AudienceOf
  <2> QED BY <2>2
<1>6. ASSUME NEW t \in Tasks, NEW k \in StreamKeys, SendPacket(t, k)
      PROVE  UNCHANGED Directory!dirVars
  <2>1. k \in Live /\ groups[k] \in Groups
    BY <1>1, <1>6 DEF SendPacket, TypeOK
  <2>2. /\ [groups[k] EXCEPT !.idle = 0].address = groups[k].address
        /\ [groups[k] EXCEPT !.idle = 0].port = groups[k].port
        /\ [groups[k] EXCEPT !.idle = 0].viewers = groups[k].viewers
    BY <2>1 DEF Groups
  <2>3. groups' = [groups EXCEPT ![k] = [groups[k] EXCEPT !.idle = 0]]
    BY <1>6 DEF SendPacket
  <2>4. /\ Live' = Live
        /\ \A s \in Live : EndpointOf(s)' = EndpointOf(s) /\ AudienceOf(s)' = AudienceOf(s)
    BY <1>1, <2>1, <2>2, <2>3 DEF EndpointOf, AudienceOf, TypeOK
  <2> QED BY <2>4, SameDirectory
<1>7. CASE Tick
  <2> DEFINE Aged(k) == [groups[k] EXCEPT !.idle = Older(@),
                                          !.viewers = [v \in DOMAIN @ |-> Older(@[v])]]
  <2>1. \A k \in Live : /\ Aged(k).address = groups[k].address
                        /\ Aged(k).port = groups[k].port
                        /\ DOMAIN Aged(k).viewers = DOMAIN groups[k].viewers
    BY <1>1 DEF TypeOK, Groups
  <2>2. groups' = [k \in Live |-> Aged(k)]
    BY <1>7 DEF Tick
  <2> HIDE DEF Aged
  <2>3. /\ Live' = Live
        /\ \A s \in Live : EndpointOf(s)' = EndpointOf(s) /\ AudienceOf(s)' = AudienceOf(s)
    BY <2>1, <2>2 DEF EndpointOf, AudienceOf
  <2>4. UNCHANGED Directory!dirVars
    BY <2>3, SameDirectory
  <2> QED BY <2>4
<1> QED BY <1>2, <1>3, <1>4, <1>5, <1>6, <1>7 DEF Next, Continue

(* The multicast layer implements the directory: whatever the callers do   *)
(* and wherever they are suspended, abandoned or failed, no two listed     *)
(* streams share an address or a port.                                     *)
THEOREM DirectoryImplemented == Spec => ImplementsDirectory
<1>1. Init => Directory!DirInit
  BY InitDirectory
<1>2. IInv /\ [Next]_vars => [Directory!DirNext]_(Directory!dirVars)
  BY NextDirectory
<1> QED BY <1>1, <1>2, Ownership, PTL DEF Spec, ImplementsDirectory, Directory!DirSpec

(* What the directory keeps, of a table of endpoints and one of audiences. *)
DirectoryKept(e, a) ==
    /\ DOMAIN e \subseteq StreamKeys
    /\ e \in [DOMAIN e -> Addresses \X Ports]
    /\ a \in [DOMAIN e -> SUBSET Viewers]
    /\ \A j, k \in DOMAIN e : e[j][1] = e[k][1] \/ e[j][2] = e[k][2] => j = k

LEMMA PublishKeeps ==
    ASSUME NEW e, NEW a, DirectoryKept(e, a),
           NEW k \in StreamKeys, NEW x \in Addresses, NEW p \in Ports,
           \A other \in DOMAIN e \ {k} : e[other][1] # x /\ e[other][2] # p
    PROVE  DirectoryKept([s \in DOMAIN e \cup {k} |-> IF s = k THEN <<x, p>> ELSE e[s]],
                         [s \in DOMAIN e \cup {k} |-> IF s = k THEN {} ELSE a[s]])
BY DEF DirectoryKept

LEMMA CutKeeps ==
    ASSUME NEW e, NEW a, DirectoryKept(e, a), NEW K, NEW lost
    PROVE  DirectoryKept([s \in DOMAIN e \ K |-> e[s]], [s \in DOMAIN e \ K |-> a[s] \ lost[s]])
BY DEF DirectoryKept

LEMMA ForgetKeeps ==
    ASSUME NEW e, NEW a, DirectoryKept(e, a), NEW k
    PROVE  DirectoryKept([s \in DOMAIN e \ {k} |-> e[s]], [s \in DOMAIN e \ {k} |-> a[s]])
BY DEF DirectoryKept

LEMMA AudienceKeeps ==
    ASSUME NEW e, NEW a, DirectoryKept(e, a), NEW k, NEW A, A \in SUBSET Viewers
    PROVE  DirectoryKept(e, [a EXCEPT ![k] = A])
BY DEF DirectoryKept

EndpointTable == [k \in Live |-> <<groups[k].address, groups[k].port>>]
AudienceTable == [k \in Live |-> DOMAIN groups[k].viewers]

LEMMA DirStepKeeps ==
    ASSUME DirectoryKept(EndpointTable, AudienceTable), [Directory!DirNext]_(Directory!dirVars)
    PROVE  DirectoryKept(EndpointTable, AudienceTable)'
<1> DEFINE e == EndpointTable
           a == AudienceTable
<1> USE DEF Directory!Listed
<1>1. CASE UNCHANGED Directory!dirVars
  <2>1. UNCHANGED <<EndpointTable, AudienceTable>>
    BY <1>1 DEF Directory!dirVars, EndpointTable, AudienceTable
  <2> QED BY <2>1 DEF DirectoryKept
<1>2. ASSUME NEW k \in StreamKeys, NEW x \in Addresses, NEW p \in Ports, Directory!Publish(k, x, p)
      PROVE  DirectoryKept(EndpointTable, AudienceTable)'
  <2>1. /\ EndpointTable' = [s \in DOMAIN e \cup {k} |-> IF s = k THEN <<x, p>> ELSE e[s]]
        /\ AudienceTable' = [s \in DOMAIN e \cup {k} |-> IF s = k THEN {} ELSE a[s]]
        /\ \A other \in DOMAIN e \ {k} : e[other][1] # x /\ e[other][2] # p
    BY <1>2 DEF Directory!Publish, Directory!Vacant, EndpointTable, AudienceTable
  <2> QED BY <2>1, PublishKeeps
<1>3. ASSUME NEW k \in StreamKeys, Directory!Withdraw(k)
      PROVE  DirectoryKept(EndpointTable, AudienceTable)'
  <2>1. /\ EndpointTable' = [s \in DOMAIN e \ {k} |-> e[s]]
        /\ AudienceTable' = [s \in DOMAIN e \ {k} |-> a[s]]
    BY <1>3 DEF Directory!Withdraw, Directory!Forget, EndpointTable, AudienceTable
  <2> QED BY <2>1, ForgetKeeps
<1>4. ASSUME NEW k \in StreamKeys, NEW v \in Viewers, Directory!Join(k, v) \/ Directory!Leave(k, v)
      PROVE  DirectoryKept(EndpointTable, AudienceTable)'
  <2>1. /\ EndpointTable' = e /\ k \in DOMAIN e
        /\ \/ AudienceTable' = [a EXCEPT ![k] = a[k] \cup {v}]
           \/ AudienceTable' = [a EXCEPT ![k] = a[k] \ {v}]
    BY <1>4 DEF Directory!Join, Directory!Leave, EndpointTable, AudienceTable
  <2>2. a[k] \cup {v} \in SUBSET Viewers /\ a[k] \ {v} \in SUBSET Viewers
    BY <2>1 DEF DirectoryKept
  <2> QED BY <2>1, <2>2, AudienceKeeps
<1>5. ASSUME NEW gone \in [Directory!Listed -> SUBSET Viewers], NEW K \in SUBSET StreamKeys,
             Directory!Expire(gone, K)
      PROVE  DirectoryKept(EndpointTable, AudienceTable)'
  <2>1. /\ EndpointTable' = [s \in DOMAIN e \ K |-> e[s]]
        /\ AudienceTable' = [s \in DOMAIN e \ K |-> a[s] \ gone[s]]
    BY <1>5 DEF Directory!Expire, EndpointTable, AudienceTable
  <2> QED BY <2>1, CutKeeps
<1> QED BY <1>1, <1>2, <1>3, <1>4, <1>5 DEF Directory!DirNext

(* No two streams are ever listed at one address or on one port: by the    *)
(* abstract specification, and so by the manager.                          *)
THEOREM EndpointsStayApart ==
    /\ Directory!DirSpec => [](Directory!DirTypeOK /\ Directory!EndpointsApart)
    /\ Spec => [](Directory!DirTypeOK /\ Directory!EndpointsApart)
<1>1. DirectoryKept(EndpointTable, AudienceTable)
        => Directory!DirTypeOK /\ Directory!EndpointsApart
  BY DEF DirectoryKept, EndpointTable, AudienceTable, Directory!DirTypeOK,
         Directory!EndpointsApart, Directory!Listed
<1>2. Directory!DirInit => DirectoryKept(EndpointTable, AudienceTable)
  BY DEF Directory!DirInit, DirectoryKept, EndpointTable, AudienceTable
<1>3. Directory!DirSpec => [](Directory!DirTypeOK /\ Directory!EndpointsApart)
  BY <1>1, <1>2, DirStepKeeps, PTL DEF Directory!DirSpec
<1> QED BY <1>3, DirectoryImplemented, PTL DEF ImplementsDirectory
-----------------------------------------------------------------------------
(* How far a stale clone is from a group that has its address.             *)

(* Digits: an offset is split into a multiple of OctetSize and a rest.     *)
LEMMA Division ==
    ASSUME NEW x \in Int
    PROVE  \E q \in Int : q = x \div OctetSize /\ x = OctetSize * q + (x % OctetSize)
BY OctetAssumption

LEMMA NextMultiple ==
    ASSUME NEW a \in Int, NEW b \in Int, a < b
    PROVE  OctetSize * b >= OctetSize * a + OctetSize
<1>1. OctetSize * (b - a - 1) \in Nat
  BY OctetAssumption
<1>2. OctetSize * (b - a - 1) = OctetSize * b - OctetSize * a - OctetSize
  BY OctetAssumption
<1> QED BY <1>1, <1>2, OctetAssumption

(* Two numbers with the same low digit are equal or a whole turn apart.    *)
LEMMA SameDigit ==
    ASSUME NEW x \in Int, NEW y \in Int, x % OctetSize = y % OctetSize, x < y
    PROVE  /\ y >= x + OctetSize
           /\ y \div OctetSize > x \div OctetSize
<1>1. PICK p \in Int : p = x \div OctetSize /\ x = OctetSize * p + (x % OctetSize)
  BY Division
<1>2. PICK q \in Int : q = y \div OctetSize /\ y = OctetSize * q + (y % OctetSize)
  BY Division
<1>3. PICK r \in Int : r = x % OctetSize
  BY OctetAssumption
<1>4. x = OctetSize * p + r /\ y = OctetSize * q + r
  BY <1>1, <1>2, <1>3
<1>5. OctetSize * p \in Int /\ OctetSize * q \in Int
  BY OctetAssumption
<1>6. p < q
  <2>1. CASE p = q
    BY <1>4, <2>1
  <2>2. CASE p > q
    <3>1. OctetSize * p >= OctetSize * q + OctetSize
      BY <2>2, NextMultiple
    <3> QED BY <1>4, <1>5, <3>1, OctetAssumption
  <2> QED BY <2>1, <2>2
<1>7. OctetSize * q >= OctetSize * p + OctetSize
  BY <1>6, NextMultiple
<1> QED BY <1>1, <1>2, <1>4, <1>5, <1>6, <1>7, OctetAssumption

(* The cursor comes back to an address only after all the others.          *)
LEMMA AddressComesAround ==
    ASSUME NEW i \in Nat, NEW o \in Nat, i < o, AddressAt(i) = AddressAt(o)
    PROVE  o >= i + OctetSize * OctetSize
<1> DEFINE Low(n) == n % OctetSize
           High(n) == n \div OctetSize
<1>0. \A n \in Nat : Low(n) \in 0..(OctetSize - 1) /\ High(n) \in Nat
  BY OctetAssumption
<1>1. /\ (BaseHigh + High(i)) % OctetSize = (BaseHigh + High(o)) % OctetSize
      /\ (BaseLow + Low(i)) % OctetSize = (BaseLow + Low(o)) % OctetSize
  BY DEF AddressAt
<1>2. Low(i) = Low(o)
  <2>1. ASSUME NEW a \in 0..(OctetSize - 1), NEW b \in 0..(OctetSize - 1), a < b,
               (BaseLow + a) % OctetSize = (BaseLow + b) % OctetSize
        PROVE  FALSE
    <3>1. BaseLow + a \in Int /\ BaseLow + b \in Int /\ BaseLow + a < BaseLow + b
      BY <2>1, BaseAssumption, OctetAssumption
    <3>2. BaseLow + b >= BaseLow + a + OctetSize
      BY <2>1, <3>1, SameDigit
    <3> QED BY <3>2, BaseAssumption, OctetAssumption
  <2> HIDE DEF Low
  <2>2. Low(i) \in 0..(OctetSize - 1) /\ Low(o) \in 0..(OctetSize - 1)
    BY <1>0
  <2> QED BY <1>1, <2>1, <2>2, OctetAssumption
<1>3. High(i) < High(o)
  BY <1>2, SameDigit
<1>4. High(o) >= High(i) + OctetSize
  <2> HIDE DEF High
  <2>1. BaseHigh + High(i) < BaseHigh + High(o)
    BY <1>0, <1>3, BaseAssumption
  <2>2. BaseHigh + High(o) >= BaseHigh + High(i) + OctetSize
    BY <1>0, <1>1, <2>1, SameDigit, BaseAssumption
  <2> QED BY <1>0, <2>2, BaseAssumption, OctetAssumption
<1>5. OctetSize * High(o) >= OctetSize * High(i) + OctetSize * OctetSize
  <2>1. PICK d \in Nat : High(o) = High(i) + OctetSize + d
    <3> HIDE DEF High
    <3>1. High(o) - High(i) - OctetSize \in Nat
      BY <1>0, <1>4, OctetAssumption
    <3> QED BY <1>0, <3>1, OctetAssumption
  <2>2. OctetSize * d \in Nat
    BY OctetAssumption
  <2>3. \A h \in Nat : OctetSize * (h + OctetSize + d)
                        = OctetSize * h + OctetSize * OctetSize + OctetSize * d
    BY OctetAssumption
  <2>4. OctetSize * High(i) \in Int /\ OctetSize * OctetSize \in Int
    BY <1>0, OctetAssumption
  <2> HIDE DEF High
  <2> QED BY <1>0, <2>1, <2>2, <2>3, <2>4
<1>6. i = OctetSize * High(i) + Low(i) /\ o = OctetSize * High(o) + Low(o)
  BY Division
<1>7. /\ OctetSize * High(i) \in Int /\ OctetSize * High(o) \in Int
      /\ OctetSize * OctetSize \in Int
  BY <1>0, OctetAssumption
<1> HIDE DEF Low, High
<1> QED BY <1>0, <1>2, <1>5, <1>6, <1>7

Far(old, new) == new = old \/ new >= old + OctetSize * OctetSize

(* Numbers are given out in order, and each stands for its address.        *)
IdsGivenOut ==
    /\ \A k \in Live : /\ groups[k].id < next_address_offset
                       /\ groups[k].address = AddressAt(groups[k].id)
    /\ \A t \in Tasks : pc[t] # "idle" =>
         /\ lease[t].id < next_address_offset
         /\ lease[t].address = AddressAt(lease[t].id)

(* Who has the address of a clone, or is about to, is the clone's group    *)
(* itself or came a whole round later.                                     *)
ClonesFar ==
    \A t \in Tasks : pc[t] = "transmit" =>
        /\ \A k \in Live : groups[k].address = lease[t].address =>
             Far(lease[t].id, groups[k].id)
        /\ \A u \in Tasks : Creating(u) /\ lease[u].address = lease[t].address =>
             Far(lease[t].id, lease[u].id)

CloneInv == IdsGivenOut /\ ClonesFar

(* A step that lists no group, leases nothing and clones nothing.          *)
LEMMA ClonesStutter ==
    ASSUME IInv, CloneInv, next_address_offset' \in Nat,
           next_address_offset' >= next_address_offset,
           Live' \subseteq Live,
           \A k \in Live' : groups'[k].id = groups[k].id /\ groups'[k].address = groups[k].address,
           \A t \in Tasks :
               \/ pc'[t] = "idle"
               \/ /\ pc[t] # "idle" /\ lease'[t] = lease[t]
                  /\ Creating(t)' => Creating(t)
                  /\ pc'[t] = "transmit" => pc[t] = "transmit"
    PROVE  CloneInv'
<1>0. /\ next_address_offset \in Nat
      /\ \A k \in Live : groups[k].id \in Nat
      /\ \A t \in Tasks : pc[t] # "idle" => lease[t].id \in Nat
  BY DEF IInv, TypeOK, Groups, Leases
<1>1. IdsGivenOut'
  BY <1>0 DEF CloneInv, IdsGivenOut, Live, AddressAt
<1>2. ClonesFar'
  BY DEF CloneInv, ClonesFar, Creating, Far, Live
<1> QED BY <1>1, <1>2 DEF CloneInv

LEMMA InitClones == Init => CloneInv
BY DEF Init, CloneInv, IdsGivenOut, ClonesFar, Live

LEMMA CreateGroupClones ==
    ASSUME IInv, CloneInv, NEW t \in Tasks, NEW k \in StreamKeys, CreateGroup(t, k)
    PROVE  CloneInv'
<1>0. /\ next_address_offset \in Nat /\ next_address_offset' \in Nat
      /\ \A s \in Live : groups[s].id \in Nat
      /\ \A u \in Tasks : pc[u] # "idle" => lease[u].id \in Nat
  <2>1. TypeOK'
    BY NextType DEF Next, IInv
  <2> QED BY <2>1 DEF IInv, TypeOK, Groups, Leases
<1>1. UNCHANGED groups
  BY DEF CreateGroup
<1>2. CASE AllocateFails /\ UNCHANGED callers
  <2>1. next_address_offset' >= next_address_offset
    BY <1>0, <1>2, BoundAssumption DEF AllocateFails, FreeOffsets, Least
  <2> QED BY <1>0, <1>1, <1>2, <2>1, ClonesStutter DEF callers, Live, Creating
<1>3. ASSUME NEW o \in FreeOffsets, NEW p \in FreePorts, AllocateSucceeds(o, p),
             Suspend(t, "bind", [key |-> k, id |-> o, address |-> AddressAt(o), port |-> p])
      PROVE  CloneInv'
  <2>1. o \in Nat /\ o >= next_address_offset /\ next_address_offset' = o + 1
    BY <1>0, <1>3, BoundAssumption DEF FreeOffsets, AllocateSucceeds
  <2>2. /\ pc'[t] = "bind" /\ lease'[t].id = o /\ lease'[t].address = AddressAt(o)
        /\ \A u \in Tasks \ {t} : pc'[u] = pc[u] /\ lease'[u] = lease[u]
    BY <1>3 DEF Suspend, IInv, TypeOK
  <2>3. IdsGivenOut'
    <3>1. o < next_address_offset' /\ \A n \in Nat : n < next_address_offset => n < next_address_offset'
      BY <1>0, <2>1
    <3>2. \A n : AddressAt(n)' = AddressAt(n)
      BY DEF AddressAt
    <3> QED BY <1>0, <1>1, <2>2, <3>1, <3>2 DEF CloneInv, IdsGivenOut, Live
  <2>4. ASSUME NEW u \in Tasks, pc[u] = "transmit", lease[u].address = AddressAt(o)
        PROVE  Far(lease[u].id, o)
    <3>1. lease[u].id \in Nat /\ lease[u].id < o /\ lease[u].address = AddressAt(lease[u].id)
      BY <1>0, <2>1, <2>4 DEF CloneInv, IdsGivenOut
    <3> QED BY <2>1, <2>4, <3>1, AddressComesAround DEF Far
  <2>5. ClonesFar'
    BY <1>1, <2>2, <2>4 DEF CloneInv, ClonesFar, Creating, Far, Live
  <2> QED BY <2>3, <2>5 DEF CloneInv
<1> QED BY <1>2, <1>3 DEF CreateGroup

LEMMA InsertGroupClones ==
    ASSUME IInv, CloneInv, NEW t \in Tasks, InsertGroup(t)
    PROVE  CloneInv'
<1> DEFINE k == lease[t].key
<1>1. /\ pc[t] = "insert_group" /\ pc'[t] = "idle"
      /\ \A u \in Tasks \ {t} : pc'[u] = pc[u] /\ lease'[u] = lease[u]
      /\ Live' = Live \cup {k}
      /\ \A s \in Live \ {k} : groups'[s] = groups[s]
      /\ groups'[k].address = lease[t].address /\ groups'[k].id = lease[t].id
      /\ UNCHANGED next_address_offset
  BY DEF InsertGroup, Return, NewGroup, IInv, TypeOK, allocator, Live
<1> HIDE DEF k
<1>2. IdsGivenOut'
  BY <1>1 DEF CloneInv, IdsGivenOut, AddressAt
<1>3. ClonesFar'
  BY <1>1 DEF CloneInv, ClonesFar, Creating, Far
<1> QED BY <1>2, <1>3 DEF CloneInv

(* A clone just made is of the one group with its address.                 *)
LEMMA SendPacketClones ==
    ASSUME IInv, CloneInv, NEW t \in Tasks, NEW k \in StreamKeys, SendPacket(t, k)
    PROVE  CloneInv'
<1>1. k \in Live /\ groups[k] \in Groups
  BY DEF SendPacket, IInv, TypeOK
<1>2. /\ [groups[k] EXCEPT !.idle = 0].address = groups[k].address
      /\ [groups[k] EXCEPT !.idle = 0].id = groups[k].id
  BY <1>1 DEF Groups
<1>3. groups' = [groups EXCEPT ![k] = [groups[k] EXCEPT !.idle = 0]]
  BY DEF SendPacket
<1>4. /\ Live' = Live
      /\ \A s \in Live : groups'[s].address = groups[s].address /\ groups'[s].id = groups[s].id
  BY <1>1, <1>2, <1>3 DEF Live, IInv, TypeOK
<1>5. /\ pc'[t] = "transmit"
      /\ lease'[t].address = groups[k].address /\ lease'[t].id = groups[k].id
      /\ \A u \in Tasks \ {t} : pc'[u] = pc[u] /\ lease'[u] = lease[u]
      /\ UNCHANGED next_address_offset
  BY DEF SendPacket, Suspend, LeaseOf, IInv, TypeOK, allocator
<1>6. IdsGivenOut'
  BY <1>1, <1>4, <1>5 DEF CloneInv, IdsGivenOut, AddressAt
<1>7. /\ \A s \in Live : groups[s].address = groups[k].address => s = k
      /\ \A u \in Tasks : Creating(u) => lease[u].address # groups[k].address
  BY <1>1 DEF IInv, OneOwner, Holding
<1>8. ClonesFar'
  BY <1>4, <1>5, <1>7 DEF CloneInv, ClonesFar, Creating, Far
<1> QED BY <1>6, <1>8 DEF CloneInv

LEMMA NextClones ==
    ASSUME IInv, CloneInv, [Next]_vars
    PROVE  CloneInv'
<1>0. /\ next_address_offset \in Nat /\ next_address_offset' \in Nat
      /\ \A k \in Live : groups[k] \in Groups
  BY NextType DEF IInv, TypeOK
<1>1. ASSUME NEW t \in Tasks, InsertGroup(t) \/ \E k \in StreamKeys : CreateGroup(t, k) \/ SendPacket(t, k)
      PROVE  CloneInv'
  BY <1>1, CreateGroupClones, InsertGroupClones, SendPacketClones
<1>2. ASSUME NEW t \in Tasks,
             \/ BindSocket(t) \/ BindFails(t) \/ AbandonCreate(t) \/ Transmit(t)
             \/ InsertSocket(t) \/ RemoveResources(t)
      PROVE  CloneInv'
  <2>1. UNCHANGED <<next_address_offset, groups>>
    BY <1>2 DEF BindSocket, BindFails, AbandonCreate, Transmit, InsertSocket, RemoveResources,
                DeallocateAddress, allocator
  <2>2. \A u \in Tasks :
           \/ pc'[u] = "idle"
           \/ /\ lease'[u] = lease[u]
              /\ \/ pc'[u] = pc[u]
                 \/ pc[u] \in {"bind", "insert_socket"} /\ pc'[u] \in {"insert_socket", "insert_group"}
                 \/ pc[u] = "remove_socket" /\ pc'[u] = "deallocate"
    BY <1>2 DEF BindSocket, BindFails, AbandonCreate, Transmit, InsertSocket, RemoveResources,
                Resume, Return, IInv, TypeOK
  <2> QED BY <1>0, <2>1, <2>2, ClonesStutter DEF Live, Creating
<1>3. ASSUME NEW t \in Tasks, NEW k \in StreamKeys, RemoveGroup(t, k)
      PROVE  CloneInv'
  <2>1. /\ k \in Live /\ Live' = Live \ {k} /\ \A s \in Live' : groups'[s] = groups[s]
        /\ UNCHANGED next_address_offset
        /\ pc'[t] = "remove_socket"
        /\ lease'[t].address = groups[k].address /\ lease'[t].id = groups[k].id
        /\ \A u \in Tasks \ {t} : pc'[u] = pc[u] /\ lease'[u] = lease[u]
    BY <1>3 DEF RemoveGroup, Suspend, LeaseOf, IInv, TypeOK, allocator, Live
  <2>2. IdsGivenOut'
    BY <2>1 DEF CloneInv, IdsGivenOut, AddressAt
  <2>3. ClonesFar'
    BY <2>1 DEF CloneInv, ClonesFar, Creating, Far
  <2> QED BY <2>2, <2>3 DEF CloneInv
<1>4. CASE \/ \E k \in StreamKeys, v \in Viewers : AddViewer(k, v) \/ RemoveViewer(k, v)
           \/ Tick \/ Cleanup \/ UNCHANGED vars
  <2>1. UNCHANGED <<next_address_offset, pc, lease>>
    BY <1>4 DEF AddViewer, RemoveViewer, Tick, Cleanup, vars, allocator, callers
  <2>2. /\ Live' \subseteq Live
        /\ \A k \in Live' : groups'[k].id = groups[k].id /\ groups'[k].address = groups[k].address
    <3>1. ASSUME NEW g \in Groups, NEW vs
          PROVE  WithViewers(g, vs).address = g.address /\ WithViewers(g, vs).id = g.id
      BY DEF WithViewers, Groups
    <3>2. CASE \E k \in StreamKeys, v \in Viewers : AddViewer(k, v) \/ RemoveViewer(k, v)
      <4>1. PICK k \in Live : \E vs : groups' = [groups EXCEPT ![k] = WithViewers(@, vs)]
        BY <3>2 DEF AddViewer, RemoveViewer
      <4>2. PICK vs : groups' = [groups EXCEPT ![k] = WithViewers(@, vs)]
        BY <4>1
      <4> QED BY <1>0, <3>1, <4>2 DEF Live
    <3>3. CASE Tick
      <4> DEFINE Aged(k) == [groups[k] EXCEPT !.idle = Older(@),
                                              !.viewers = [v \in DOMAIN @ |-> Older(@[v])]]
      <4>1. \A k \in Live : Aged(k).address = groups[k].address /\ Aged(k).id = groups[k].id
        BY <1>0 DEF Groups
      <4>2. groups' = [k \in Live |-> Aged(k)]
        BY <3>3 DEF Tick
      <4> HIDE DEF Aged
      <4> QED BY <4>1, <4>2 DEF Live
    <3>4. CASE Cleanup
      BY <1>0, <3>1, <3>4 DEF Cleanup, DropSilent, Live
    <3> QED BY <1>4, <3>2, <3>3, <3>4 DEF vars, Live
  <2> QED BY <1>0, <2>1, <2>2, ClonesStutter DEF Creating
<1> QED BY <1>1, <1>2, <1>3, <1>4 DEF Next, Continue

(* A packet on its way can reach another stream's group only if the        *)
(* allocator went all the way round in between.                            *)
THEOREM StaleClonesStayFar == Spec => []StaleCloneFar
<1>1. Init => CloneInv
  BY InitClones
<1>2. IInv /\ CloneInv /\ [Next]_vars => CloneInv'
  BY NextClones
<1>3. CloneInv => StaleCloneFar
  BY DEF CloneInv, ClonesFar, StaleCloneFar, Far
<1> QED BY <1>1, <1>2, <1>3, Ownership, PTL DEF Spec
-----------------------------------------------------------------------------
(* The ages of viewers, and the groups that the cleanup drops.             *)

(* The count is the number of viewers, and a viewer's age and what is left *)
(* until the next cleanup are never more than two timeouts together.       *)
Audited(g) ==
    /\ g.viewer_count = Cardinality(DOMAIN g.viewers)
    /\ \A v \in DOMAIN g.viewers : g.viewers[v] + cleanup_due <= 2 * GroupTimeout

AgesBounded == \A k \in Live : Audited(groups[k])

LEMMA WithViewersAudited ==
    ASSUME NEW g \in Groups, NEW vs,
           \A v \in DOMAIN vs : vs[v] + cleanup_due <= 2 * GroupTimeout
    PROVE  Audited(WithViewers(g, vs))
<1>1. /\ WithViewers(g, vs).viewers = vs
      /\ WithViewers(g, vs).viewer_count = Cardinality(DOMAIN vs)
  BY DEF WithViewers, Groups
<1> QED BY <1>1 DEF Audited

LEMMA NextAudited ==
    ASSUME TypeOK, AgesBounded, [Next]_vars
    PROVE  AgesBounded'
<1>0. /\ cleanup_due \in 0..GroupTimeout /\ GroupTimeout \in Nat \ {0}
      /\ \A k \in Live : groups[k] \in Groups
  BY BoundAssumption DEF TypeOK
<1>1. ASSUME NEW t \in Tasks, InsertGroup(t)
      PROVE  AgesBounded'
  <2> DEFINE new == NewGroup(lease[t])
  <2>1. /\ Live' = Live \cup {lease[t].key} /\ UNCHANGED cleanup_due
        /\ \A k \in Live' : (k \in Live /\ groups'[k] = groups[k]) \/ groups'[k] = new
    BY <1>1 DEF InsertGroup, Live
  <2>2. new.viewer_count = 0 /\ DOMAIN new.viewers = {}
    BY DEF NewGroup
  <2> HIDE DEF new
  <2> QED BY <2>1, <2>2, FS_EmptySet DEF AgesBounded, Audited, Live
<1>2. ASSUME NEW k \in StreamKeys, NEW v \in Viewers, AddViewer(k, v) \/ RemoveViewer(k, v)
      PROVE  AgesBounded'
  <2>0. k \in Live
    BY <1>2 DEF AddViewer, RemoveViewer
  <2>1. PICK vs : /\ groups' = [groups EXCEPT ![k] = WithViewers(groups[k], vs)]
                  /\ \A w \in DOMAIN vs :
                       \/ vs[w] = 0
                       \/ w \in DOMAIN groups[k].viewers /\ vs[w] = groups[k].viewers[w]
    <3>1. CASE AddViewer(k, v)
      <4> DEFINE new == [w \in DOMAIN groups[k].viewers \cup {v} |->
                           IF w = v THEN 0 ELSE groups[k].viewers[w]]
      <4>1. groups' = [groups EXCEPT ![k] = WithViewers(groups[k], new)]
        BY <3>1 DEF AddViewer
      <4>2. \A w \in DOMAIN new :
               \/ new[w] = 0
               \/ w \in DOMAIN groups[k].viewers /\ new[w] = groups[k].viewers[w]
        OBVIOUS
      <4> HIDE DEF new
      <4> QED BY <4>1, <4>2
    <3>2. CASE RemoveViewer(k, v)
      <4> DEFINE new == [w \in DOMAIN groups[k].viewers \ {v} |-> groups[k].viewers[w]]
      <4>1. groups' = [groups EXCEPT ![k] = WithViewers(groups[k], new)]
        BY <3>2 DEF RemoveViewer
      <4>2. \A w \in DOMAIN new : w \in DOMAIN groups[k].viewers /\ new[w] = groups[k].viewers[w]
        OBVIOUS
      <4> HIDE DEF new
      <4> QED BY <4>1, <4>2
    <3> QED BY <1>2, <3>1, <3>2
  <2>2. \A w \in DOMAIN vs : vs[w] + cleanup_due <= 2 * GroupTimeout
    BY <1>0, <2>0, <2>1 DEF AgesBounded, Audited
  <2>3. Audited(WithViewers(groups[k], vs))
    BY <1>0, <2>0, <2>2, WithViewersAudited
  <2>4. UNCHANGED cleanup_due
    BY <1>2 DEF AddViewer, RemoveViewer
  <2>5. Live' = Live /\ \A s \in Live : groups'[s] = IF s = k THEN WithViewers(groups[k], vs) ELSE groups[s]
    BY <2>0, <2>1 DEF Live, TypeOK
  <2> QED BY <2>3, <2>4, <2>5 DEF AgesBounded, Audited
<1>3. CASE Tick
  <2>1. cleanup_due > 0 /\ cleanup_due' = cleanup_due - 1
    BY <1>3 DEF Tick
  <2> DEFINE Aged(k) == [groups[k] EXCEPT !.idle = Older(@),
                                          !.viewers = [v \in DOMAIN @ |-> Older(@[v])]]
  <2>2. \A k \in Live : /\ Aged(k).viewer_count = groups[k].viewer_count
                        /\ Aged(k).viewers = [v \in DOMAIN groups[k].viewers |-> Older(groups[k].viewers[v])]
    BY <1>0 DEF Groups
  <2>3. Live' = Live /\ \A k \in Live : groups'[k] = Aged(k)
    BY <1>3 DEF Tick, Live
  <2> HIDE DEF Aged
  <2>4. ASSUME NEW k \in Live, NEW v \in DOMAIN groups[k].viewers
        PROVE  Older(groups[k].viewers[v]) <= groups[k].viewers[v] + 1
    <3>1. groups[k].viewers[v] \in Ages
      BY <1>0, ViewersType
    <3> QED BY <3>1, BoundAssumption DEF Older, Ages, MaxAge
  <2>5. ASSUME NEW k \in Live, NEW v \in DOMAIN groups[k].viewers
        PROVE  Older(groups[k].viewers[v]) + cleanup_due' <= 2 * GroupTimeout
    <3>1. groups[k].viewers[v] \in Ages /\ Older(groups[k].viewers[v]) \in Ages
      BY <1>0, ViewersType, OlderType
    <3>2. groups[k].viewers[v] \in Int /\ Older(groups[k].viewers[v]) \in Int
      BY <3>1, BoundAssumption DEF Ages, MaxAge
    <3>3. groups[k].viewers[v] + cleanup_due <= 2 * GroupTimeout
      BY DEF AgesBounded, Audited
    <3> QED BY <1>0, <2>1, <2>4, <3>2, <3>3
  <2>6. ASSUME NEW k \in Live
        PROVE  Audited(groups[k])'
    <3> DEFINE older == [v \in DOMAIN groups[k].viewers |-> Older(groups[k].viewers[v])]
    <3>1. /\ groups'[k].viewers = older
          /\ groups'[k].viewer_count = Cardinality(DOMAIN groups[k].viewers)
      BY <2>2, <2>3 DEF AgesBounded, Audited
    <3>2. /\ DOMAIN older = DOMAIN groups[k].viewers
          /\ \A v \in DOMAIN older : older[v] + cleanup_due' <= 2 * GroupTimeout
      BY <2>5
    <3> HIDE DEF older
    <3> QED BY <3>1, <3>2 DEF Audited
  <2> QED BY <2>3, <2>6 DEF AgesBounded
<1>4. CASE Cleanup
  <2>1. cleanup_due' = GroupTimeout
    BY <1>4 DEF Cleanup
  <2>2. \A k \in Live' : k \in Live /\ groups'[k] = DropSilent(groups[k])
    BY <1>4 DEF Cleanup, Live
  <2>3. ASSUME NEW k \in Live'
        PROVE  Audited(groups[k])'
    <3>0. k \in Live /\ groups'[k] = DropSilent(groups[k])
      BY <2>2
    <3> DEFINE vs == [v \in Present(groups[k]) |-> groups[k].viewers[v]]
    <3>1. /\ DropSilent(groups[k]).viewers = vs
          /\ DropSilent(groups[k]).viewer_count = Cardinality(DOMAIN vs)
      BY <1>0, <3>0 DEF DropSilent, WithViewers, Groups
    <3>2. \A v \in Present(groups[k]) : groups[k].viewers[v] \in Int /\ groups[k].viewers[v] <= GroupTimeout
      BY <1>0, <3>0, ViewersType, BoundAssumption DEF Present, Expired, Ages, MaxAge
    <3>3. \A v \in DOMAIN vs : vs[v] + GroupTimeout <= 2 * GroupTimeout
      BY <1>0, <3>2
    <3> HIDE DEF vs
    <3> QED BY <2>1, <3>0, <3>1, <3>3 DEF Audited
  <2> QED BY <2>2, <2>3 DEF AgesBounded
<1>5. CASE \/ \E t \in Tasks : \/ \E k \in StreamKeys : CreateGroup(t, k)
                             \/ BindSocket(t) \/ BindFails(t) \/ InsertSocket(t)
                             \/ RemoveResources(t) \/ Transmit(t) \/ AbandonCreate(t)
           \/ UNCHANGED vars
  <2>1. UNCHANGED <<groups, cleanup_due>>
    BY <1>5 DEF CreateGroup, BindSocket, BindFails, InsertSocket, RemoveResources,
                Transmit, AbandonCreate, vars
  <2> QED BY <2>1 DEF AgesBounded, Audited, Live
<1>6. ASSUME NEW t \in Tasks, NEW k \in StreamKeys, RemoveGroup(t, k)
      PROVE  AgesBounded'
  BY <1>6 DEF RemoveGroup, AgesBounded, Audited, Live
<1>7. ASSUME NEW t \in Tasks, NEW k \in StreamKeys, SendPacket(t, k)
      PROVE  AgesBounded'
  <2>1. k \in Live /\ groups[k] \in Groups /\ UNCHANGED cleanup_due
    BY <1>0, <1>7 DEF SendPacket
  <2>2. /\ [groups[k] EXCEPT !.idle = 0].viewer_count = groups[k].viewer_count
        /\ [groups[k] EXCEPT !.idle = 0].viewers = groups[k].viewers
    BY <2>1 DEF Groups
  <2>3. groups' = [groups EXCEPT ![k] = [groups[k] EXCEPT !.idle = 0]]
    BY <1>7 DEF SendPacket
  <2>4. /\ Live' = Live
        /\ \A s \in Live : /\ groups'[s].viewer_count = groups[s].viewer_count
                           /\ groups'[s].viewers = groups[s].viewers
    BY <2>1, <2>2, <2>3 DEF Live, TypeOK
  <2> QED BY <2>1, <2>4 DEF AgesBounded, Audited
<1> QED BY <1>1, <1>2, <1>3, <1>4, <1>5, <1>6, <1>7 DEF Next, Continue

(* A viewer that does not come back is forgotten within two timeouts, and  *)
(* the count reported is that of the viewers kept.                         *)
THEOREM ViewersDoExpire == Spec => []ViewersExpire
<1>1. Init => AgesBounded
  BY DEF Init, AgesBounded, Live
<1>2. TypeOK /\ AgesBounded /\ [Next]_vars => AgesBounded'
  BY NextAudited
<1>3. TypeOK /\ AgesBounded => ViewersExpire
  <2> SUFFICES ASSUME TypeOK, AgesBounded, NEW k \in Live
               PROVE  /\ groups[k].viewer_count = Cardinality(DOMAIN groups[k].viewers)
                      /\ \A v \in DOMAIN groups[k].viewers : groups[k].viewers[v] <= 2 * GroupTimeout
    BY DEF ViewersExpire
  <2>1. groups[k] \in Groups /\ cleanup_due \in Nat
    BY BoundAssumption DEF TypeOK
  <2>2. \A v \in DOMAIN groups[k].viewers : groups[k].viewers[v] \in Int
    BY <2>1, ViewersType, BoundAssumption DEF Ages, MaxAge
  <2> QED BY <2>1, <2>2, BoundAssumption DEF AgesBounded, Audited
<1> QED BY <1>1, <1>2, <1>3, TypeCorrect, PTL DEF Spec

-----------------------------------------------------------------------------
(* The use of the groups.                                                  *)

(* The ages in the table are the true ones: that of a group counts from    *)
(* its creation or the last packet, that of a viewer from its last join,   *)
(* and a viewer who is not there left, or joined more than a timeout ago.  *)
AgesTrue ==
    /\ used \in [StreamKeys -> Ages]
    /\ joined \in [StreamKeys -> [Viewers -> Ages]]
    /\ \A k \in Live :
         /\ groups[k].idle = used[k]
         /\ \A v \in Viewers :
              IF v \in DOMAIN groups[k].viewers THEN groups[k].viewers[v] = joined[k][v]
                                               ELSE joined[k][v] > GroupTimeout

LEMMA AgeFacts ==
    /\ MaxAge \in Ages /\ 0 \in Ages /\ MaxAge > GroupTimeout
    /\ \A n \in Ages : n > GroupTimeout => Older(n) > GroupTimeout
    /\ LongAgo \in [Viewers -> Ages] /\ \A v \in Viewers : LongAgo[v] > GroupTimeout
  BY BoundAssumption DEF MaxAge, Ages, Older, LongAgo

(* What Remember leaves of two well-formed histories.                      *)
LEMMA RememberType ==
    ASSUME NEW u \in [StreamKeys -> Ages], NEW j \in [StreamKeys -> [Viewers -> Ages]],
           Remember(u, j)
    PROVE  /\ used' \in [StreamKeys -> Ages]
           /\ joined' \in [StreamKeys -> [Viewers -> Ages]]
           /\ \A k \in StreamKeys : k \in Live' => used'[k] = u[k] /\ joined'[k] = j[k]
  BY AgeFacts DEF Remember

(* A step that rewrites the viewers of one group and nothing else.         *)
LEMMA ViewersRewritten ==
    ASSUME TypeOK, NEW k \in Live, NEW vs,
           groups' = [groups EXCEPT ![k] = WithViewers(groups[k], vs)]
    PROVE  /\ Live' = Live
           /\ \A s \in Live : groups'[s].idle = groups[s].idle
           /\ \A s \in Live : groups'[s].viewers = IF s = k THEN vs ELSE groups[s].viewers
<1>1. groups[k] \in Groups /\ groups \in [Live -> Groups]
  BY DEF TypeOK
<1>2. WithViewers(groups[k], vs).idle = groups[k].idle /\ WithViewers(groups[k], vs).viewers = vs
  BY <1>1 DEF WithViewers, Groups
<1>3. Live' = Live /\ \A s \in Live : groups'[s] = IF s = k THEN WithViewers(groups[k], vs) ELSE groups[s]
  BY <1>1 DEF Live
<1> QED BY <1>2, <1>3

LEMMA NextAgesTrue ==
    ASSUME TypeOK, AgesTrue, [UseNext]_useVars
    PROVE  AgesTrue'
<1>0. /\ groups \in [Live -> Groups] /\ Live \subseteq StreamKeys
      /\ used \in [StreamKeys -> Ages] /\ joined \in [StreamKeys -> [Viewers -> Ages]]
      /\ \A k \in Live : groups[k] \in Groups
  BY DEF TypeOK, AgesTrue
<1>1. ASSUME NEW t \in Tasks, NEW k \in StreamKeys, UsePacket(t, k)
      PROVE  AgesTrue'
  <2> DEFINE u == [used EXCEPT ![k] = 0]
  <2>1. u \in [StreamKeys -> Ages] /\ Remember(u, joined)
    BY <1>0, <1>1, AgeFacts DEF UsePacket
  <2>2. k \in Live /\ groups' = [groups EXCEPT ![k] = [groups[k] EXCEPT !.idle = 0]]
    BY <1>1 DEF UsePacket, SendPacket
  <2>3. /\ [groups[k] EXCEPT !.idle = 0].idle = 0
        /\ [groups[k] EXCEPT !.idle = 0].viewers = groups[k].viewers
    BY <1>0, <2>2 DEF Groups
  <2>4. /\ Live' = Live
        /\ \A s \in Live : /\ groups'[s].idle = u[s]
                           /\ groups'[s].viewers = groups[s].viewers
    BY <1>0, <2>2, <2>3 DEF AgesTrue, Live
  <2> HIDE DEF u
  <2>5. /\ used' \in [StreamKeys -> Ages] /\ joined' \in [StreamKeys -> [Viewers -> Ages]]
        /\ \A s \in Live : used'[s] = u[s] /\ joined'[s] = joined[s]
    BY <1>0, <2>1, <2>4, RememberType
  <2> QED BY <2>4, <2>5 DEF AgesTrue
<1>2. ASSUME NEW t \in Tasks, UseGroup(t)
      PROVE  AgesTrue'
  <2> DEFINE k == lease[t].key
             u == [used EXCEPT ![k] = 0]
             j == [joined EXCEPT ![k] = LongAgo]
  <2>1. k \in StreamKeys
    BY <1>2 DEF UseGroup, InsertGroup, Return, TypeOK, Leases
  <2>2. /\ u \in [StreamKeys -> Ages] /\ j \in [StreamKeys -> [Viewers -> Ages]]
        /\ Remember(u, j)
    BY <1>0, <1>2, <2>1, AgeFacts DEF UseGroup
  <2>3. /\ Live' = Live \cup {k} /\ Live' \subseteq StreamKeys
        /\ \A s \in Live' : groups'[s] = IF s = k THEN NewGroup(lease[t]) ELSE groups[s]
    BY <1>0, <1>2, <2>1 DEF UseGroup, InsertGroup, Live
  <2>4. NewGroup(lease[t]).idle = 0 /\ DOMAIN NewGroup(lease[t]).viewers = {}
    BY DEF NewGroup
  <2>5. /\ \A s \in StreamKeys : u[s] = IF s = k THEN 0 ELSE used[s]
        /\ \A s \in StreamKeys : j[s] = IF s = k THEN LongAgo ELSE joined[s]
    BY <1>0, <2>1
  <2> HIDE DEF k, u, j
  <2>6. /\ used' \in [StreamKeys -> Ages] /\ joined' \in [StreamKeys -> [Viewers -> Ages]]
        /\ \A s \in Live' : used'[s] = u[s] /\ joined'[s] = j[s]
    BY <2>2, <2>3, RememberType
  <2>7. ASSUME NEW s \in Live'
        PROVE  /\ groups'[s].idle = used'[s]
               /\ \A v \in Viewers :
                    IF v \in DOMAIN groups'[s].viewers THEN groups'[s].viewers[v] = joined'[s][v]
                                                      ELSE joined'[s][v] > GroupTimeout
    <3>1. CASE s = k
      BY <2>3, <2>4, <2>5, <2>6, <3>1, AgeFacts
    <3>2. CASE s # k
      <4>1. s \in Live /\ s \in StreamKeys /\ groups'[s] = groups[s]
        BY <2>3, <3>2
      <4>2. used'[s] = used[s] /\ joined'[s] = joined[s]
        BY <2>5, <2>6, <3>2, <4>1
      <4> QED BY <4>1, <4>2 DEF AgesTrue
    <3> QED BY <3>1, <3>2
  <2> QED BY <2>6, <2>7 DEF AgesTrue
<1>3. ASSUME NEW k \in StreamKeys, NEW v \in Viewers, UseJoin(k, v)
      PROVE  AgesTrue'
  <2> DEFINE old == groups[k].viewers
             vs == [w \in DOMAIN old \cup {v} |-> IF w = v THEN 0 ELSE old[w]]
             j == [joined EXCEPT ![k][v] = 0]
  <2>1. k \in Live /\ groups' = [groups EXCEPT ![k] = WithViewers(groups[k], vs)]
    BY <1>3 DEF UseJoin, AddViewer
  <2>2. /\ Live' = Live
        /\ \A s \in Live : groups'[s].idle = groups[s].idle
        /\ \A s \in Live : groups'[s].viewers = IF s = k THEN vs ELSE groups[s].viewers
    BY <2>1, ViewersRewritten
  <2>3. j \in [StreamKeys -> [Viewers -> Ages]] /\ Remember(used, j)
    BY <1>0, <1>3, AgeFacts DEF UseJoin
  <2>4. \A s \in StreamKeys, w \in Viewers :
           j[s][w] = IF s = k /\ w = v THEN 0 ELSE joined[s][w]
    BY <1>0
  <2>5. DOMAIN vs = DOMAIN old \cup {v} /\ \A w \in DOMAIN vs : vs[w] = IF w = v THEN 0 ELSE old[w]
    OBVIOUS
  <2> HIDE DEF j, vs
  <2>6. /\ used' \in [StreamKeys -> Ages] /\ joined' \in [StreamKeys -> [Viewers -> Ages]]
        /\ \A s \in Live : used'[s] = used[s] /\ joined'[s] = j[s]
    BY <1>0, <2>2, <2>3, RememberType
  <2>7. ASSUME NEW s \in Live, NEW w \in Viewers
        PROVE  IF w \in DOMAIN groups'[s].viewers THEN groups'[s].viewers[w] = joined'[s][w]
                                                 ELSE joined'[s][w] > GroupTimeout
    <3>1. joined'[s][w] = IF s = k /\ w = v THEN 0 ELSE joined[s][w]
      BY <1>0, <2>4, <2>6
    <3>2. CASE s = k
      BY <2>2, <2>5, <3>1, <3>2 DEF AgesTrue
    <3>3. CASE s # k
      BY <2>2, <3>1, <3>3 DEF AgesTrue
    <3> QED BY <3>2, <3>3
  <2> QED BY <2>2, <2>6, <2>7 DEF AgesTrue
<1>4. ASSUME NEW k \in StreamKeys, NEW v \in Viewers, UseLeave(k, v)
      PROVE  AgesTrue'
  <2> DEFINE old == groups[k].viewers
             vs == [w \in DOMAIN old \ {v} |-> old[w]]
             j == [joined EXCEPT ![k][v] = MaxAge]
  <2>1. k \in Live /\ groups' = [groups EXCEPT ![k] = WithViewers(groups[k], vs)]
    BY <1>4 DEF UseLeave, RemoveViewer
  <2>2. /\ Live' = Live
        /\ \A s \in Live : groups'[s].idle = groups[s].idle
        /\ \A s \in Live : groups'[s].viewers = IF s = k THEN vs ELSE groups[s].viewers
    BY <2>1, ViewersRewritten
  <2>3. j \in [StreamKeys -> [Viewers -> Ages]] /\ Remember(used, j)
    BY <1>0, <1>4, AgeFacts DEF UseLeave
  <2>4. \A s \in StreamKeys, w \in Viewers :
           j[s][w] = IF s = k /\ w = v THEN MaxAge ELSE joined[s][w]
    BY <1>0
  <2>5. DOMAIN vs = DOMAIN old \ {v} /\ \A w \in DOMAIN vs : vs[w] = old[w]
    OBVIOUS
  <2> HIDE DEF j, vs
  <2>6. /\ used' \in [StreamKeys -> Ages] /\ joined' \in [StreamKeys -> [Viewers -> Ages]]
        /\ \A s \in Live : used'[s] = used[s] /\ joined'[s] = j[s]
    BY <1>0, <2>2, <2>3, RememberType
  <2>7. ASSUME NEW s \in Live, NEW w \in Viewers
        PROVE  IF w \in DOMAIN groups'[s].viewers THEN groups'[s].viewers[w] = joined'[s][w]
                                                 ELSE joined'[s][w] > GroupTimeout
    <3>1. joined'[s][w] = IF s = k /\ w = v THEN MaxAge ELSE joined[s][w]
      BY <1>0, <2>4, <2>6
    <3>2. CASE s = k
      BY <2>2, <2>5, <3>1, <3>2, AgeFacts DEF AgesTrue
    <3>3. CASE s # k
      BY <2>2, <3>1, <3>3 DEF AgesTrue
    <3> QED BY <3>2, <3>3
  <2> QED BY <2>2, <2>6, <2>7 DEF AgesTrue
<1>5. CASE UseTick
  <2> DEFINE u == [k \in StreamKeys |-> Older(used[k])]
             j == [k \in StreamKeys |-> [v \in Viewers |-> Older(joined[k][v])]]
  <2>1. u \in [StreamKeys -> Ages] /\ j \in [StreamKeys -> [Viewers -> Ages]] /\ Remember(u, j)
    BY <1>0, <1>5, OlderType DEF UseTick
  <2> DEFINE Aged(k) == [groups[k] EXCEPT !.idle = Older(@),
                                          !.viewers = [v \in DOMAIN @ |-> Older(@[v])]]
  <2>2. \A k \in Live : /\ Aged(k).idle = Older(groups[k].idle)
                        /\ Aged(k).viewers = [v \in DOMAIN groups[k].viewers |-> Older(groups[k].viewers[v])]
    BY <1>0 DEF Groups
  <2>3. Live' = Live /\ \A k \in Live : groups'[k] = Aged(k)
    BY <1>5 DEF UseTick, Tick, Live
  <2> HIDE DEF Aged
  <2>4. /\ used' \in [StreamKeys -> Ages] /\ joined' \in [StreamKeys -> [Viewers -> Ages]]
        /\ \A s \in Live : used'[s] = u[s] /\ joined'[s] = j[s]
    BY <1>0, <2>1, <2>3, RememberType
  <2>5. ASSUME NEW s \in Live
        PROVE  /\ groups'[s].idle = used'[s]
               /\ \A w \in Viewers :
                    IF w \in DOMAIN groups'[s].viewers THEN groups'[s].viewers[w] = joined'[s][w]
                                                      ELSE joined'[s][w] > GroupTimeout
    <3>1. groups'[s].idle = used'[s]
      <4>1. groups'[s].idle = Older(groups[s].idle) /\ groups[s].idle = used[s] /\ s \in StreamKeys
        BY <1>0, <2>2, <2>3 DEF AgesTrue
      <4>2. used'[s] = Older(used[s])
        BY <2>4, <4>1
      <4> QED BY <4>1, <4>2
    <3>2. ASSUME NEW w \in Viewers
          PROVE  IF w \in DOMAIN groups'[s].viewers THEN groups'[s].viewers[w] = joined'[s][w]
                                                   ELSE joined'[s][w] > GroupTimeout
      <4>1. joined'[s][w] = Older(joined[s][w]) /\ joined[s][w] \in Ages
        BY <1>0, <2>4
      <4>2. groups'[s].viewers = [v \in DOMAIN groups[s].viewers |-> Older(groups[s].viewers[v])]
        BY <2>2, <2>3
      <4>3. CASE w \in DOMAIN groups[s].viewers
        BY <4>1, <4>2, <4>3 DEF AgesTrue
      <4>4. CASE w \notin DOMAIN groups[s].viewers
        <5>1. joined[s][w] > GroupTimeout
          BY <4>4 DEF AgesTrue
        <5> QED BY <4>1, <4>2, <4>4, <5>1, AgeFacts
      <4> QED BY <4>3, <4>4
    <3> QED BY <3>1, <3>2
  <2> QED BY <2>3, <2>4, <2>5 DEF AgesTrue
<1>6. ASSUME UseElse
      PROVE  AgesTrue'
  <2>1. Live' \subseteq Live
    BY <1>0, <1>6 DEF UseElse, CreateGroup, RemoveGroup, BindSocket, BindFails, InsertSocket,
                   RemoveResources, Transmit, AbandonCreate, Cleanup, Live
  <2>2. /\ used' \in [StreamKeys -> Ages] /\ joined' \in [StreamKeys -> [Viewers -> Ages]]
        /\ \A s \in Live' : used'[s] = used[s] /\ joined'[s] = joined[s]
    BY <1>0, <1>6, <2>1, RememberType DEF UseElse
  <2>3. CASE Cleanup
    <3>1. \A s \in Live' : s \in Live /\ groups'[s] = DropSilent(groups[s])
      BY <2>3 DEF Cleanup, Live
    <3>2. ASSUME NEW s \in Live'
          PROVE  /\ groups'[s].idle = used'[s]
                 /\ \A w \in Viewers :
                      IF w \in DOMAIN groups'[s].viewers THEN groups'[s].viewers[w] = joined'[s][w]
                                                        ELSE joined'[s][w] > GroupTimeout
      <4>1. s \in Live /\ groups[s] \in Groups
        BY <1>0, <3>1
      <4>2. /\ groups'[s].idle = groups[s].idle
            /\ groups'[s].viewers = [v \in Present(groups[s]) |-> groups[s].viewers[v]]
        BY <3>1, <4>1 DEF DropSilent, WithViewers, Groups
      <4> QED BY <2>2, <4>1, <4>2 DEF AgesTrue, Present, Expired
    <3> QED BY <2>2, <3>2 DEF AgesTrue
  <2>4. CASE \/ \E t \in Tasks, k \in StreamKeys : CreateGroup(t, k) \/ RemoveGroup(t, k)
             \/ \E t \in Tasks : \/ BindSocket(t) \/ BindFails(t) \/ InsertSocket(t)
                                 \/ RemoveResources(t) \/ Transmit(t) \/ AbandonCreate(t)
    <3>1. \A s \in Live' : s \in Live /\ groups'[s] = groups[s]
      BY <1>0, <2>4 DEF CreateGroup, RemoveGroup, BindSocket, BindFails, InsertSocket,
                     RemoveResources, Transmit, AbandonCreate, Live
    <3> QED BY <2>2, <3>1 DEF AgesTrue
  <2> QED BY <1>6, <2>3, <2>4 DEF UseElse
<1>7. CASE UNCHANGED useVars
  BY <1>7 DEF useVars, vars, history, AgesTrue, Live
<1> QED BY <1>1, <1>2, <1>3, <1>4, <1>5, <1>6, <1>7 DEF UseNext

(* What is written down beside the manager never holds it back: every step *)
(* of UseNext is one of Next.                                              *)
LEMMA UseIsNext == [UseNext]_useVars => [Next]_vars
  BY DEF UseNext, UsePacket, UseGroup, UseJoin, UseLeave, UseTick, UseElse, Next, Continue,
         useVars, vars

(* The cleanup drops a group only when it was neither sent to, created nor *)
(* joined for a whole timeout, and a viewer only when it did not join for  *)
(* a whole timeout: because the ages it goes by are the true ones.         *)
THEOREM OnlyIdleDropped == UseSpec => DroppedOnlyIdle
<1> DEFINE Kept ==
      cleanup_due' > cleanup_due =>
         \A k \in Live :
            IF k \in Live'
            THEN \A v \in DOMAIN groups[k].viewers \ DOMAIN groups'[k].viewers :
                    joined[k][v] > GroupTimeout
            ELSE /\ used[k] > GroupTimeout
                 /\ \A v \in Viewers : joined[k][v] > GroupTimeout
<1>1. ASSUME TypeOK, AgesTrue, UseNext, cleanup_due' > cleanup_due
      PROVE  Cleanup
  <2>1. cleanup_due \in Nat
    BY <1>1, BoundAssumption DEF TypeOK
  <2>2. ~Tick
    <3>1. ASSUME cleanup_due' = cleanup_due - 1 PROVE FALSE
      BY <1>1, <2>1, <3>1
    <3> QED BY <3>1 DEF Tick
  <2>3. CASE ~Cleanup
    <3>1. UNCHANGED cleanup_due
      BY <1>1, <2>2, <2>3 DEF UseNext, UsePacket, UseGroup, UseJoin, UseLeave, UseTick, UseElse,
            CreateGroup, RemoveGroup, SendPacket, BindSocket, BindFails, InsertSocket, InsertGroup,
            RemoveResources, Transmit, AbandonCreate, AddViewer, RemoveViewer
    <3> QED BY <1>1, <2>1, <3>1
  <2> QED BY <2>3
<1>2. ASSUME TypeOK, AgesTrue, Cleanup, NEW k \in Live
      PROVE  IF k \in Live'
             THEN \A v \in DOMAIN groups[k].viewers \ DOMAIN groups'[k].viewers :
                     joined[k][v] > GroupTimeout
             ELSE /\ used[k] > GroupTimeout
                  /\ \A v \in Viewers : joined[k][v] > GroupTimeout
  <2>1. groups[k] \in Groups
    BY <1>2 DEF TypeOK
  <2>2. DOMAIN groups[k].viewers \subseteq Viewers
    BY <2>1, ViewersType
  <2>3. /\ Live' = Live \ IdleGroups
        /\ \A s \in Live' : groups'[s] = DropSilent(groups[s])
    BY <1>2 DEF Cleanup, Live
  <2>4. CASE k \in Live'
    <3>1. DOMAIN groups'[k].viewers = Present(groups[k])
      <4> DEFINE vs == [v \in Present(groups[k]) |-> groups[k].viewers[v]]
      <4>1. groups'[k] = WithViewers(groups[k], vs)
        BY <2>3, <2>4 DEF DropSilent
      <4>2. WithViewers(groups[k], vs).viewers = vs
        BY <2>1 DEF WithViewers, Groups
      <4> QED BY <4>1, <4>2
    <3> QED BY <1>2, <2>2, <2>4, <3>1 DEF AgesTrue, Present, Expired
  <2>5. CASE k \notin Live'
    <3>1. Present(groups[k]) = {} /\ groups[k].idle > GroupTimeout
      BY <2>3, <2>5 DEF IdleGroups, Expired
    <3>2. \A v \in DOMAIN groups[k].viewers : groups[k].viewers[v] > GroupTimeout
      BY <3>1 DEF Present, Expired
    <3> QED BY <1>2, <2>2, <2>5, <3>1, <3>2 DEF AgesTrue
  <2> QED BY <2>4, <2>5
<1>3. TypeOK /\ AgesTrue /\ [UseNext]_useVars => [Kept]_useVars
  BY <1>1, <1>2
<1>4. UseInit => TypeOK /\ AgesTrue
  BY InitType, AgeFacts DEF UseInit, Init, AgesTrue, Live
<1>5. TypeOK /\ AgesTrue /\ [UseNext]_useVars => TypeOK' /\ AgesTrue'
  BY NextAgesTrue, NextType, UseIsNext
<1> QED BY <1>3, <1>4, <1>5, PTL DEF UseSpec, DroppedOnlyIdle
=============================================================================
