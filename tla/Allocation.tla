----------------------------- MODULE Allocation -----------------------------
(***************************************************************************)
(* apps/provisioning/allocation.py: concurrent provisions reserve a VMID   *)
(* by INSERTing a VMInstance row under a UNIQUE constraint, and an address *)
(* by flipping an IPLease row under SELECT ... FOR UPDATE SKIP LOCKED.     *)
(* Every database transaction and every Proxmox call is one step, so the   *)
(* live list, the read of the committed reservations and the INSERT of one *)
(* call interleave with those of every other call.                         *)
(*                                                                         *)
(* A member of Req stands for one reservation: the call that creates a     *)
(* VMInstance row, and the row.  Phase 3 of the reaper (unbound leases)    *)
(* is here too, because it is the other writer of the lease table.         *)
(***************************************************************************)
EXTENDS Integers

CONSTANTS
  Req,       \* reservations in flight or held
  MinVmid,   \* TARGET_VMID_MIN
  MaxVmid,   \* TARGET_VMID_MAX
  Ip,        \* the IPLease pool, ordered by address
  Sweep,     \* reaper sweeps that may run at once
  NoVal      \* SQL NULL, Python None

Vmid == MinVmid .. MaxVmid

\* _VMID_SLOTS, the default of max_attempts.
VmidSlots == MaxVmid - MinVmid + 1

ASSUME RangeAssumption == MinVmid \in Nat /\ MaxVmid \in Nat /\ MinVmid =< MaxVmid
ASSUME IpAssumption == Ip \subseteq Nat
ASSUME NoValAssumption == NoVal \notin Vmid /\ NoVal \notin Ip /\ NoVal \notin Req

VARIABLES
  row,      \* row[r]: the vmid of r's VMInstance row, NoVal when it has no row
  rowIp,    \* rowIp[r]: the row's ip foreign key
  lease,    \* lease[i]: state and vm_instance of the IPLease row of address i
  node,     \* the VMIDs that exist on the Proxmox node
  pc,       \* where the call of reservation r is
  live,     \* live[r]: the Proxmox listing the call took, once
  pick,     \* pick[r]: the lowest free vmid it read
  tries,    \* tries[r]: attempts made
  hand,     \* hand[r]: the lease lease_ip() returned, not yet bound
  listed    \* listed[s]: the unbound leases sweep s fetched and has yet to release

vars == <<row, rowIp, lease, node, pc, live, pick, tries, hand, listed>>

FreeLease == [state |-> "free", vm |-> NoVal]

-----------------------------------------------------------------------------
(* Reads *)

DbTargetVmids == {row[r] : r \in Req} \ {NoVal}

\* (bug: "unbound" taken for "free")
UnboundLeases == {i \in Ip : lease[i].vm = NoVal}
FreeLeases == {i \in Ip : lease[i].state = "free"}

\* A leased row without vm_instance that is older than the grace period.  The
\* bind follows lease_ip() at once and the grace is fifteen minutes, so a lease
\* that is still in the hands of a running call is not that old.
\* (bugs: the age is not looked at; leased_at is never set, so no age exceeds it)
UnboundOfAnyAge == {i \in Ip : lease[i].state = "leased" /\ lease[i].vm = NoVal}
NeverAged == {}
AgedUnbound ==
  {i \in Ip : lease[i].state = "leased" /\ lease[i].vm = NoVal
                /\ \A r \in Req : hand[r] # i}

-----------------------------------------------------------------------------
Init ==
  /\ row = [r \in Req |-> NoVal]
  /\ rowIp = [r \in Req |-> NoVal]
  /\ lease = [i \in Ip |-> FreeLease]
  /\ node = {}
  /\ pc = [r \in Req |-> "idle"]
  /\ live = [r \in Req |-> {}]
  /\ pick = [r \in Req |-> NoVal]
  /\ tries = [r \in Req |-> 0]
  /\ hand = [r \in Req |-> NoVal]
  /\ listed = [s \in Sweep |-> {}]

-----------------------------------------------------------------------------
(* allocate_and_reserve_vmid *)

\* The locals of the call go out of scope when it returns or raises.
LocalsDropped(r) ==
  /\ live' = [live EXCEPT ![r] = {}]
  /\ pick' = [pick EXCEPT ![r] = NoVal]
  /\ tries' = [tries EXCEPT ![r] = 0]

LocalsKept == UNCHANGED <<live, pick, tries>>

\* The one Proxmox enumeration of the call.
ReadLive(r) ==
  /\ pc[r] = "idle"
  /\ live' = [live EXCEPT ![r] = node]
  /\ pc' = [pc EXCEPT ![r] = "pick"]
  /\ UNCHANGED <<row, rowIp, lease, node, pick, tries, hand, listed>>

\* while attempts < cap ... attempts += 1  (bugs: one round too many; not counted)
AttemptsLeftLate(r) == tries[r] =< VmidSlots
AttemptsLeft(r) == tries[r] < VmidSlots
SameAttempt(r) == tries[r]
NextAttempt(r) == tries[r] + 1

\* Re-read the committed reservations and take the lowest vmid in neither list.
PickVmid(r) ==
  /\ pc[r] = "pick"
  /\ AttemptsLeft(r)
  /\ LET free == Vmid \ (live[r] \cup DbTargetVmids)
     IN \/ /\ \E v \in free :
                /\ \A w \in free : v =< w
                /\ pick' = [pick EXCEPT ![r] = v]
           /\ tries' = [tries EXCEPT ![r] = NextAttempt(r)]
           /\ pc' = [pc EXCEPT ![r] = "insert"]
           /\ UNCHANGED live
        \/ /\ free = {}
           /\ pc' = [pc EXCEPT ![r] = "failing"]
           /\ LocalsDropped(r)
  /\ UNCHANGED <<row, rowIp, lease, node, hand, listed>>

\* The attempts are used up: CapacityError.
GiveUp(r) ==
  /\ pc[r] = "pick"
  /\ ~AttemptsLeft(r)
  /\ pc' = [pc EXCEPT ![r] = "failing"]
  /\ LocalsDropped(r)
  /\ UNCHANGED <<row, rowIp, lease, node, hand, listed>>

\* VMInstance.vmid is UNIQUE.  (bug: the column is a plain integer)
AnyVmid(v) == v \in Vmid
UniqueVmid(v) == \A q \in Req : row[q] # v

\* The INSERT commits, or raises IntegrityError and the loop goes round.
InsertRow(r) ==
  /\ pc[r] = "insert"
  /\ \/ /\ UniqueVmid(pick[r])
        /\ row' = [row EXCEPT ![r] = pick[r]]
        /\ pc' = [pc EXCEPT ![r] = "lease"]
        /\ LocalsDropped(r)
     \/ /\ ~UniqueVmid(pick[r])
        /\ pc' = [pc EXCEPT ![r] = "pick"]
        /\ LocalsKept
        /\ UNCHANGED row
  /\ UNCHANGED <<rowIp, lease, node, hand, listed>>

-----------------------------------------------------------------------------
(* lease_ip and the bind transaction of its caller *)

\* One row is locked and flipped; a row another transaction holds is skipped,
\* so any free row may be the one taken, and none free is a CapacityError.
LeaseIp(r) ==
  /\ pc[r] = "lease"
  /\ \/ \E i \in FreeLeases :
          /\ lease' = [lease EXCEPT ![i].state = "leased"]
          /\ hand' = [hand EXCEPT ![r] = i]
          /\ pc' = [pc EXCEPT ![r] = "bind"]
     \/ /\ FreeLeases = {}
        /\ pc' = [pc EXCEPT ![r] = "failing"]
        /\ UNCHANGED <<lease, hand>>
  /\ UNCHANGED <<row, rowIp, node, live, pick, tries, listed>>

\* Both sides of the link commit together; the lease object is written with
\* update_fields=["vm_instance"], so its state column is left alone.
BindLease(r) ==
  /\ pc[r] = "bind"
  /\ rowIp' = [rowIp EXCEPT ![r] = hand[r]]
  /\ lease' = [lease EXCEPT ![hand[r]].vm = r]
  /\ hand' = [hand EXCEPT ![r] = NoVal]
  /\ pc' = [pc EXCEPT ![r] = "held"]
  /\ UNCHANGED <<row, node, live, pick, tries, listed>>

-----------------------------------------------------------------------------
(* Failure, release *)

\* An exception (database or Proxmox) between two steps: the caller goes to its
\* error path and forgets the lease it had not bound.
Raise(r) ==
  /\ pc[r] \in {"pick", "insert", "lease", "bind", "held"}
  /\ pc' = [pc EXCEPT ![r] = "failing"]
  /\ hand' = [hand EXCEPT ![r] = NoVal]
  /\ LocalsDropped(r)
  /\ UNCHANGED <<row, rowIp, lease, node, listed>>

\* The worker dies: what it committed stays, nobody runs the error path.
Crash(r) ==
  /\ pc[r] \in {"pick", "insert", "lease", "bind", "held", "failing"}
  /\ pc' = [pc EXCEPT ![r] = "crashed"]
  /\ hand' = [hand EXCEPT ![r] = NoVal]
  /\ LocalsDropped(r)
  /\ UNCHANGED <<row, rowIp, lease, node, listed>>

\* release_lease on every lease bound to r.  (bug: the binding is not cleared)
StillBound(r) ==
  [i \in Ip |-> IF lease[i].vm = r THEN [lease[i] EXCEPT !.state = "free"] ELSE lease[i]]
LeasesWithout(r) ==
  [i \in Ip |-> IF lease[i].vm = r THEN FreeLease ELSE lease[i]]

\* release_reservation: free every lease bound to the row, delete the row.  Run
\* by the error path, by a deprovision of a held box, or by the reaper for a
\* reservation whose worker died.
ReleaseReservation(r) ==
  /\ pc[r] \in {"held", "failing", "crashed"}
  /\ lease' = LeasesWithout(r)
  /\ row' = [row EXCEPT ![r] = NoVal]
  /\ rowIp' = [rowIp EXCEPT ![r] = NoVal]
  /\ pc' = [pc EXCEPT ![r] = "idle"]
  /\ UNCHANGED <<node, live, pick, tries, hand, listed>>

-----------------------------------------------------------------------------
(* The node, and phase 3 of the reaper *)

\* The holder clones into its reserved vmid.
CloneInto(r) ==
  /\ pc[r] = "held"
  /\ node' = node \cup {row[r]}
  /\ UNCHANGED <<row, rowIp, lease, pc, live, pick, tries, hand, listed>>

\* A VM disappears: destroyed by a teardown, by the reaper, or by hand.
Destroyed(v) ==
  /\ v \in node
  /\ node' = node \ {v}
  /\ UNCHANGED <<row, rowIp, lease, pc, live, pick, tries, hand, listed>>

\* The sweep fetches the orphaned leases in one query ...
SweepFetch(s) ==
  /\ listed[s] = {}
  /\ AgedUnbound # {}
  /\ listed' = [listed EXCEPT ![s] = AgedUnbound]
  /\ UNCHANGED <<row, rowIp, lease, node, pc, live, pick, tries, hand>>

\* release_lease: unconditional, whatever the row has become since the fetch.
ReleaseLease(i) == lease' = [lease EXCEPT ![i] = FreeLease]

\* ... and releases them one by one.
SweepRelease(s) ==
  /\ \E i \in listed[s] :
       /\ ReleaseLease(i)
       /\ listed' = [listed EXCEPT ![s] = @ \ {i}]
  /\ UNCHANGED <<row, rowIp, node, pc, live, pick, tries, hand>>

-----------------------------------------------------------------------------
Call(r) ==
  \/ PickVmid(r) \/ GiveUp(r) \/ InsertRow(r) \/ LeaseIp(r) \/ BindLease(r)

Next ==
  \/ \E r \in Req :
       \/ ReadLive(r) \/ Call(r)
       \/ Raise(r) \/ Crash(r) \/ ReleaseReservation(r) \/ CloneInto(r)
  \/ \E v \in Vmid : Destroyed(v)
  \/ \E s \in Sweep : SweepFetch(s) \/ SweepRelease(s)

\* A worker runs the statements of a call it has begun; beat keeps the reaper
\* coming.  Nothing obliges a provision to start, to be released or to fail.
Fairness ==
  /\ \A r \in Req : WF_vars(Call(r))
  /\ \A s \in Sweep : WF_vars(SweepFetch(s)) /\ WF_vars(SweepRelease(s))

Spec == Init /\ [][Next]_vars

FairSpec == Spec /\ Fairness

-----------------------------------------------------------------------------
(* Properties *)

PcSet == {"idle", "pick", "insert", "lease", "bind", "held", "failing", "crashed"}

\* Every variable has its type; the tries of a call never pass the slot count.
TypeOK ==
  /\ row \in [Req -> Vmid \cup {NoVal}]
  /\ rowIp \in [Req -> Ip \cup {NoVal}]
  /\ lease \in [Ip -> [state : {"free", "leased"}, vm : Req \cup {NoVal}]]
  /\ node \subseteq Vmid
  /\ pc \in [Req -> PcSet]
  /\ live \in [Req -> SUBSET Vmid]
  /\ pick \in [Req -> Vmid \cup {NoVal}]
  /\ tries \in [Req -> 0 .. VmidSlots]
  /\ hand \in [Req -> Ip \cup {NoVal}]
  /\ listed \in [Sweep -> SUBSET Ip]

\* Two provisions never hold the same VMID (allocation.py:3-11), however stale
\* the list each of them picked from.
SlotsExclusive ==
  \A r, q \in Req : r # q /\ row[r] # NoVal => row[r] # row[q]

\* The addresses a reservation is using: the one it just leased and the one
\* its row points to.
Holds(r) == {hand[r], rowIp[r]} \ {NoVal}

\* Two provisions never hold the same IP (allocation.py:3-4), from the moment
\* lease_ip() returns it to the deletion of the row.
AddressesExclusive ==
  \A r, q \in Req : r # q => Holds(r) \cap Holds(q) = {}

\* VMInstance.ip and IPLease.vm_instance agree, and a bound lease is a leased
\* one: no free-listed address is still written on a reservation.
LeaseBookkeeping ==
  /\ \A r \in Req, i \in Ip : rowIp[r] = i <=> lease[i].vm = r
  /\ \A i \in Ip : lease[i].vm # NoVal => lease[i].state = "leased"

\* The reaper frees only leases that are nobody's at the moment it frees them
\* (reaper.py:233): it never takes an address a provision holds.
SweepFreesOnlyOrphans ==
  [][\A s \in Sweep : SweepRelease(s) =>
       \A i \in Ip : lease'[i] # lease[i] => \A r \in Req : i \notin Holds(r)]_vars

\* A call ends: contention cannot keep it picking and colliding for ever, the
\* cap on attempts stops it (allocation.py:161-186).
CallsEnd ==
  \A r \in Req : pc[r] \in {"pick", "insert", "lease", "bind"}
                   ~> pc[r] \in {"held", "failing", "crashed"}

\* A lease lost between lease_ip() and the bind returns to the pool
\* (reaper.py:233-247).
Lost(i) ==
  /\ lease[i].state = "leased"
  /\ \A r \in Req : i \notin Holds(r)
LostLeasesReturn == \A i \in Ip : Lost(i) ~> lease[i].state = "free"

\* What a call holds at each of its statements.
Phases ==
  \A r \in Req :
    /\ pc[r] \in {"idle", "pick", "insert"} => row[r] = NoVal /\ rowIp[r] = NoVal
    /\ pc[r] \in {"lease", "bind", "held"} => row[r] # NoVal
    /\ pc[r] \in {"lease", "bind"} => rowIp[r] = NoVal
    /\ pc[r] = "insert" => pick[r] # NoVal
    /\ hand[r] # NoVal <=> pc[r] = "bind"

\* A lease that left the pool and is written on no row.
Unbound(i) == lease[i] = [state |-> "leased", vm |-> NoVal]

\* The lease in a call's hand is unbound and in nobody else's hand, and what a
\* sweep has fetched is still unbound and in nobody's hand.
UnboundLeasesOwned ==
  /\ \A r \in Req : hand[r] # NoVal => Unbound(hand[r])
  /\ \A r, q \in Req : r # q /\ hand[r] # NoVal => hand[r] # hand[q]
  /\ \A s \in Sweep : \A i \in listed[s] : Unbound(i) /\ \A r \in Req : hand[r] # i

\* The inductive invariant behind the address properties.
LeaseInv == LeaseBookkeeping /\ UnboundLeasesOwned

\* The allocator implements the atomic pool.
Pool == INSTANCE SlotPool WITH
  slot <- row,
  addr <- rowIp,
  out  <- {i \in Ip : lease[i].state = "leased"}

PoolSpec == Pool!Spec

\* At most one sweep: what the reaper's schedule intends and does not enforce.
OneSweep == \A s, t \in Sweep : s = t

=============================================================================
