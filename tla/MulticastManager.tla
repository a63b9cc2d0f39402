-------------------------- MODULE MulticastManager --------------------------
(***************************************************************************)
(* src/multicast.rs: the address allocator, the socket table, the group    *)
(* table and the cleanup task.                                             *)
(*                                                                         *)
(* Each table has a lock of its own and no lock is held across two tables, *)
(* so an operation that touches several of them is several atomic steps.   *)
(* Tasks are the concurrent callers of the manager (API handlers, RTMP     *)
(* sessions); pc[t] is the await a caller is suspended at, and lease[t]    *)
(* the stream and address it carries across that await in local variables. *)
(*                                                                         *)
(* Abstracted: packet payloads and the packet and byte counters, which are *)
(* only reported.  Time is counted in ticks; ages saturate at MaxAge.      *)
(***************************************************************************)
EXTENDS Integers, FiniteSets

CONSTANTS
    Tasks,          \* concurrent callers
    StreamKeys,
    Viewers,        \* viewer socket addresses
    OctetSize,      \* 256 in the code: values of one octet of an address
    BaseHigh,       \* third octet of config.base_address
    BaseLow,        \* fourth octet
    FirstPort,      \* config.port_range, both ends included
    LastPort,
    MaxTries,       \* 1000 in the code: addresses tried by one allocation
    GroupTimeout,   \* config.group_timeout, in ticks
    MaxOffset,      \* bound: no allocation starts once the cursor is past it
    NoLease         \* what lease[t] is when t carries no address

ASSUME OctetAssumption == OctetSize \in Nat \ {0}
ASSUME BaseAssumption == BaseHigh \in 0..(OctetSize - 1) /\ BaseLow \in 0..(OctetSize - 1)
ASSUME PortAssumption == FirstPort \in Nat /\ LastPort \in Nat
ASSUME BoundAssumption == MaxTries \in Nat /\ GroupTimeout \in Nat \ {0} /\ MaxOffset \in Nat
ASSUME ViewersFinite == IsFiniteSet(Viewers)

Octets == 0..(OctetSize - 1)
Addresses == Octets \X Octets     \* the two octets an allocation varies
Ports == FirstPort..LastPort
Leases == [key : StreamKeys, id : Nat, address : Addresses, port : Ports]
ASSUME NoLeaseAssumption == NoLease \notin Leases

MaxAge == 2 * GroupTimeout + 1
Ages == 0..MaxAge

VARIABLES
    allocated_addresses,    \* address -> port, for the leased addresses
    allocated_ports,        \* the ports marked as in use
    next_address_offset,    \* the allocator's cursor
    sockets,                \* addresses that have a socket
    groups,                 \* stream key -> group
    cleanup_due,            \* ticks until the cleanup interval fires
    pc,
    lease

allocator == <<allocated_addresses, allocated_ports, next_address_offset>>
callers == <<pc, lease>>
vars == <<allocator, sockets, groups, cleanup_due, callers>>

Groups == [id : Nat, address : Addresses, port : Ports, idle : Ages,
           viewers : UNION {[V -> Ages] : V \in SUBSET Viewers}, viewer_count : Nat]

Leased == DOMAIN allocated_addresses
Live == DOMAIN groups

Init ==
    /\ allocated_addresses = [a \in {} |-> 0]
    /\ allocated_ports = {}
    /\ next_address_offset = 1
    /\ sockets = {}
    /\ groups = [k \in {} |-> 0]
    /\ cleanup_due = 0
    /\ pc = [t \in Tasks |-> "idle"]
    /\ lease = [t \in Tasks |-> NoLease]
-----------------------------------------------------------------------------
(* Definitions named Unchecked, Swapped, PastEnd, NoCarry, AddressOnly,    *)
(* KeepCount, Forgetful and Inverted are faulty variants of the definition *)
(* that follows them.  Next uses none of them: they are put in its place   *)
(* to see which property catches the fault.                                *)
-----------------------------------------------------------------------------
(* The allocator.                                                          *)

AddressAtNoCarry(offset) ==
    << BaseHigh, (BaseLow + (offset % OctetSize)) % OctetSize >>

(* The address the cursor designates: the carry of the offset is added to  *)
(* the third octet, its low part to the fourth, each wrapping by itself.   *)
AddressAt(offset) ==
    << (BaseHigh + (offset \div OctetSize)) % OctetSize,
       (BaseLow + (offset % OctetSize)) % OctetSize >>

FreeOffsetsUnchecked == next_address_offset .. (next_address_offset + MaxTries - 1)
FreeOffsets ==
    {o \in next_address_offset .. (next_address_offset + MaxTries - 1) :
        AddressAt(o) \notin Leased}
FreePortsUnchecked == Ports
FreePortsPastEnd == (FirstPort..(LastPort + 1)) \ allocated_ports
FreePorts == Ports \ allocated_ports
Least(S, x) == x \in S /\ \A y \in S : x <= y

(* allocate_address found an address and a port.                           *)
AllocateSucceeds(o, p) ==
    /\ Least(FreeOffsets, o)
    /\ Least(FreePorts, p)
    /\ allocated_addresses' =
         [a \in Leased \cup {AddressAt(o)} |->
            IF a = AddressAt(o) THEN p ELSE allocated_addresses[a]]
    /\ allocated_ports' = allocated_ports \cup {p}
    /\ next_address_offset' = o + 1

(* It did not: the cursor has moved all the same, and nothing is leased.   *)
AllocateFails ==
    /\ \/ /\ FreeOffsets = {}
          /\ next_address_offset' = next_address_offset + MaxTries
       \/ /\ FreePorts = {}
          /\ \E o \in FreeOffsets :
                Least(FreeOffsets, o) /\ next_address_offset' = o + 1
    /\ UNCHANGED <<allocated_addresses, allocated_ports>>

FreeAddressOnly(a) ==
    /\ allocated_addresses' = [b \in Leased \ {a} |-> allocated_addresses[b]]
    /\ UNCHANGED <<allocated_ports, next_address_offset>>

DeallocateAddress(a) ==
    /\ allocated_addresses' = [b \in Leased \ {a} |-> allocated_addresses[b]]
    /\ allocated_ports' = allocated_ports \ (IF a \in Leased THEN {allocated_addresses[a]} ELSE {})
    /\ UNCHANGED next_address_offset
-----------------------------------------------------------------------------
(* Callers.                                                                *)

Suspend(t, where, l) ==
    /\ pc' = [pc EXCEPT ![t] = where]
    /\ lease' = [lease EXCEPT ![t] = l]

Resume(t, from, to) ==
    /\ pc[t] = from
    /\ pc' = [pc EXCEPT ![t] = to]
    /\ UNCHANGED lease

Return(t, from) ==
    /\ pc[t] = from
    /\ pc' = [pc EXCEPT ![t] = "idle"]
    /\ lease' = [lease EXCEPT ![t] = NoLease]

(* create_group: lease an address under the allocator's lock; the error of *)
(* an exhausted allocator goes straight back to the caller.                *)
CreateGroup(t, k) ==
    /\ pc[t] = "idle"
    /\ next_address_offset <= MaxOffset
    /\ \/ \E o \in FreeOffsets, p \in FreePorts :
            /\ AllocateSucceeds(o, p)
            /\ Suspend(t, "bind", [key |-> k, id |-> o, address |-> AddressAt(o), port |-> p])
       \/ AllocateFails /\ UNCHANGED callers
    /\ UNCHANGED <<sockets, groups, cleanup_due>>

(* create_multicast_socket binds and configures a socket of its own.       *)
BindSocket(t) ==
    /\ Resume(t, "bind", "insert_socket")
    /\ UNCHANGED <<allocator, sockets, groups, cleanup_due>>

(* It fails, and `?` returns: the lease stays with nobody to give it back. *)
BindFails(t) ==
    /\ Return(t, "bind")
    /\ UNCHANGED <<allocator, sockets, groups, cleanup_due>>

InsertSocket(t) ==
    /\ Resume(t, "insert_socket", "insert_group")
    /\ sockets' = sockets \cup {lease[t].address}
    /\ UNCHANGED <<allocator, groups, cleanup_due>>

NewGroup(l) ==
    [id |-> l.id, address |-> l.address, port |-> l.port, idle |-> 0,
     viewers |-> [v \in {} |-> 0], viewer_count |-> 0]

(* The group replaces any older one of the same key.                       *)
InsertGroup(t) ==
    /\ Return(t, "insert_group")
    /\ groups' = [k \in Live \cup {lease[t].key} |->
                    IF k = lease[t].key THEN NewGroup(lease[t]) ELSE groups[k]]
    /\ UNCHANGED <<allocator, sockets, cleanup_due>>

(* The future of a publishing RTMP session is dropped by the timeout that  *)
(* wraps the session, at whatever await create_group is suspended.         *)
AbandonCreate(t) ==
    /\ \E where \in {"bind", "insert_socket", "insert_group"} : Return(t, where)
    /\ UNCHANGED <<allocator, sockets, groups, cleanup_due>>

LeaseOf(k) == [key |-> k, id |-> groups[k].id, address |-> groups[k].address,
               port |-> groups[k].port]

(* remove_group: take the group out of the table, then its socket, then    *)
(* give the address back.  Without a group there is nothing to do.         *)
RemoveGroup(t, k) ==
    /\ pc[t] = "idle"
    /\ k \in Live
    /\ groups' = [s \in Live \ {k} |-> groups[s]]
    /\ Suspend(t, "remove_socket", LeaseOf(k))
    /\ UNCHANGED <<allocator, sockets, cleanup_due>>

RemoveResourcesSwapped(t) ==
    \/ /\ Resume(t, "remove_socket", "deallocate")
       /\ DeallocateAddress(lease[t].address)
       /\ UNCHANGED <<sockets, groups, cleanup_due>>
    \/ /\ Return(t, "deallocate")
       /\ sockets' = sockets \ {lease[t].address}
       /\ UNCHANGED <<allocator, groups, cleanup_due>>

RemoveResources(t) ==
    \/ /\ Resume(t, "remove_socket", "deallocate")
       /\ sockets' = sockets \ {lease[t].address}
       /\ UNCHANGED <<allocator, groups, cleanup_due>>
    \/ /\ Return(t, "deallocate")
       /\ DeallocateAddress(lease[t].address)
       /\ UNCHANGED <<sockets, groups, cleanup_due>>

SendPacketForgetful(t, k) ==
    /\ pc[t] = "idle"
    /\ k \in Live
    /\ Suspend(t, "transmit", LeaseOf(k))
    /\ UNCHANGED <<allocator, sockets, groups, cleanup_due>>

(* send_packet: mark the group active and clone it under the lock ...      *)
SendPacket(t, k) ==
    /\ pc[t] = "idle"
    /\ k \in Live
    /\ groups' = [groups EXCEPT ![k].idle = 0]
    /\ Suspend(t, "transmit", LeaseOf(k))
    /\ UNCHANGED <<allocator, sockets, cleanup_due>>

(* ... then send from the socket of the clone's address, which may be gone *)
(* by now (an error), or be another stream's.                              *)
Transmit(t) ==
    /\ Return(t, "transmit")
    /\ UNCHANGED <<allocator, sockets, groups, cleanup_due>>
-----------------------------------------------------------------------------
(* Viewers: one step under the lock of the group table.                    *)

WithViewers(g, vs) == [g EXCEPT !.viewers = vs, !.viewer_count = Cardinality(DOMAIN vs)]

AddViewer(k, v) ==
    /\ k \in Live
    /\ LET old == groups[k].viewers
           new == [w \in DOMAIN old \cup {v} |-> IF w = v THEN 0 ELSE old[w]]
       IN groups' = [groups EXCEPT ![k] = WithViewers(@, new)]
    /\ UNCHANGED <<allocator, sockets, cleanup_due, callers>>

RemoveViewer(k, v) ==
    /\ k \in Live
    /\ LET old == groups[k].viewers
           new == [w \in DOMAIN old \ {v} |-> old[w]]
       IN groups' = [groups EXCEPT ![k] = WithViewers(@, new)]
    /\ UNCHANGED <<allocator, sockets, cleanup_due, callers>>
-----------------------------------------------------------------------------
(* Time and the cleanup task.                                              *)

Older(age) == IF age < MaxAge THEN age + 1 ELSE age

(* The interval fires on time: a tick waits for a cleanup that is due.     *)
Tick ==
    /\ cleanup_due > 0
    /\ cleanup_due' = cleanup_due - 1
    /\ groups' = [k \in Live |->
                    [groups[k] EXCEPT !.idle = Older(@),
                                      !.viewers = [v \in DOMAIN @ |-> Older(@[v])]]]
    /\ UNCHANGED <<allocator, sockets, callers>>

Expired(age) == age > GroupTimeout

Present(g) == {v \in DOMAIN g.viewers : ~Expired(g.viewers[v])}
DropSilentKeepCount(g) == [g EXCEPT !.viewers = [v \in Present(g) |-> @[v]]]
DropSilent(g) == WithViewers(g, [v \in Present(g) |-> g.viewers[v]])
IdleGroupsInverted == {k \in Live : Present(groups[k]) = {} /\ ~Expired(groups[k].idle)}
IdleGroups == {k \in Live : Present(groups[k]) = {} /\ Expired(groups[k].idle)}

(* One iteration of cleanup_task, under the lock of the group table: it    *)
(* forgets the group, and touches neither its socket nor its lease.        *)
Cleanup ==
    /\ cleanup_due = 0
    /\ cleanup_due' = GroupTimeout
    /\ groups' = [k \in Live \ IdleGroups |-> DropSilent(groups[k])]
    /\ UNCHANGED <<allocator, sockets, callers>>
-----------------------------------------------------------------------------
Continue(t) ==
    \/ BindSocket(t)
    \/ BindFails(t)
    \/ InsertSocket(t)
    \/ InsertGroup(t)
    \/ RemoveResources(t)
    \/ Transmit(t)

Next ==
    \/ \E t \in Tasks, k \in StreamKeys :
        CreateGroup(t, k) \/ RemoveGroup(t, k) \/ SendPacket(t, k)
    \/ \E t \in Tasks : Continue(t) \/ AbandonCreate(t)
    \/ \E k \in StreamKeys, v \in Viewers : AddViewer(k, v) \/ RemoveViewer(k, v)
    \/ Tick
    \/ Cleanup

(* The runtime keeps polling a suspended caller, time passes, and the      *)
(* cleanup task runs when its interval fires.                              *)
Fairness ==
    /\ \A t \in Tasks : WF_vars(Continue(t))
    /\ WF_vars(Tick)
    /\ WF_vars(Cleanup)

Spec == Init /\ [][Next]_vars
FairSpec == Spec /\ Fairness
-----------------------------------------------------------------------------
(* Properties.                                                             *)

PCs == {"idle", "bind", "insert_socket", "insert_group", "remove_socket",
        "deallocate", "transmit"}

(* Every table holds what its Rust type says.                              *)
TypeOK ==
    /\ Leased \subseteq Addresses /\ allocated_addresses \in [Leased -> Ports]
    /\ allocated_ports \subseteq Ports
    /\ next_address_offset \in Nat
    /\ sockets \subseteq Addresses
    /\ Live \subseteq StreamKeys /\ groups \in [Live -> Groups]
    /\ cleanup_due \in 0..GroupTimeout
    /\ pc \in [Tasks -> PCs]
    /\ lease \in [Tasks -> Leases \cup {NoLease}]
    /\ \A t \in Tasks : pc[t] # "idle" => lease[t] # NoLease

(* The two maps of the allocator agree: a port is marked in use exactly    *)
(* when one address holds it, so no port is lost or handed out twice       *)
(* however allocations and deallocations interleave.                       *)
LeasesConsistent ==
    /\ allocated_ports = {allocated_addresses[a] : a \in Leased}
    /\ \A a, b \in Leased : allocated_addresses[a] = allocated_addresses[b] => a = b

Creating(t) == pc[t] \in {"bind", "insert_socket", "insert_group"}
Removing(t) == pc[t] \in {"remove_socket", "deallocate"}
Holding(t) == Creating(t) \/ Removing(t)

(* An address has one owner: a group of the table, a create_group that has *)
(* leased it, or a remove_group that is taking it down; never two of them. *)
OneOwner ==
    /\ \A j, k \in Live : groups[j].address = groups[k].address => j = k
    /\ \A t \in Tasks : Holding(t) =>
         /\ \A k \in Live : groups[k].address # lease[t].address
         /\ \A u \in Tasks : Holding(u) /\ lease[u].address = lease[t].address => u = t

(* A group that can be looked up can be sent to: its address is leased     *)
(* with its port, and its socket is in the table.  Losing the socket of a  *)
(* new owner to a late remove_group would break this.                      *)
GroupsReady ==
    \A k \in Live :
        LET a == groups[k].address
        IN a \in Leased /\ allocated_addresses[a] = groups[k].port /\ a \in sockets

(* A socket is never left on an address that is free to be leased again.   *)
SocketsLeased == sockets \subseteq Leased

(* A packet cloned its group before the group was removed: its destination *)
(* can belong to another group only after the cursor went through every    *)
(* other address, because allocation never goes back to a freed address.   *)
StaleCloneFar ==
    \A t \in Tasks, k \in Live :
        pc[t] = "transmit" /\ groups[k].address = lease[t].address =>
            \/ groups[k].id = lease[t].id
            \/ groups[k].id >= lease[t].id + OctetSize * OctetSize

(* Nothing refreshes a viewer but joining again, and the cleanup interval  *)
(* is the timeout itself: a viewer is gone two timeouts after it joined,   *)
(* and the reported count is the number of viewers still there.            *)
ViewersExpire ==
    \A k \in Live :
        /\ groups[k].viewer_count = Cardinality(DOMAIN groups[k].viewers)
        /\ \A v \in DOMAIN groups[k].viewers : groups[k].viewers[v] <= 2 * GroupTimeout

(* A group is kept for ever only if it is used again and again: created    *)
(* anew, sent to, or joined.                                               *)
IdleReclaimed ==
    \A k \in StreamKeys :
        <>[](k \in Live) =>
            []<><<\/ \E t \in Tasks : SendPacket(t, k) \/ (InsertGroup(t) /\ lease[t].key = k)
                 \/ \E v \in Viewers : AddViewer(k, v)>>_vars

(* The group table is a directory of streams: see StreamDirectory.         *)
Directory == INSTANCE StreamDirectory WITH
    endpoint <- [k \in Live |-> <<groups[k].address, groups[k].port>>],
    audience <- [k \in Live |-> DOMAIN groups[k].viewers]

(* The manager implements the directory: no two streams are ever listed    *)
(* at the same address or the same port.                                   *)
ImplementsDirectory == Directory!DirSpec
=============================================================================
