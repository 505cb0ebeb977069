------------------------------ MODULE BoxState ------------------------------
(***************************************************************************)
(* The state the provisioning tasks share: the LabInstance, VMInstance and *)
(* IPLease tables, the VMs of the Proxmox node, and the Celery tasks that  *)
(* act on both.  Provision, Power and Reaper add the tasks; StudentBox     *)
(* composes them.                                                          *)
(*                                                                         *)
(* A provision task creates at most one LabInstance, so the task and its   *)
(* lab share one name.  Each attempt of the task creates at most one       *)
(* VMInstance row, so a row is named by its lab and attempt; a task can    *)
(* hold a row object after the row was deleted.                            *)
(***************************************************************************)
EXTENDS Integers, FiniteSets

CONSTANTS
  Task,         \* provision_student_instance calls, and the labs they create
  Student,
  StudentOf,    \* the student each call is for
  Op,           \* start / stop / deprovision calls
  Sweep,        \* reap_orphans calls that may run at once
  Vmid,         \* TARGET_VMID_MIN .. TARGET_VMID_MAX
  Ip,           \* the IPLease pool
  Attempts,     \* CLONE_SELF_HEAL_ATTEMPTS
  Cap,          \* STUDENT_MAX_CONCURRENT
  StrayKinds,   \* what an earlier incident may have left on the node
  FaultKinds,   \* the kinds of fault of this instance
  MaxFaults,    \* bound on their number
  OpKinds,           \* which of start, stop and deprovision are called
  EarlyKinds,        \* which of them may begin while the lab is provisioned
  NoVal

ASSUME SizeAssumption ==
  /\ Attempts \in Nat \ {0} /\ Cap \in Nat /\ MaxFaults \in Nat
  /\ Vmid \subseteq Nat /\ Ip \subseteq Nat
ASSUME StudentAssumption == StudentOf \in [Task -> Student]
ASSUME KindAssumption ==
  /\ FaultKinds \subseteq {"call", "late", "destroy", "misread", "crash", "database", "slow"}
  /\ StrayKinds \subseteq {"conf", "stopped", "running", "locked"}
  /\ OpKinds \subseteq {"start", "stop", "deprovision"} /\ EarlyKinds \subseteq OpKinds
ASSUME ActorAssumption == Task \cap Op = {} /\ Sweep \cap (Task \cup Op) = {}

\* A VM of the node: who cloned it, its state, its configured and its actual address.
VmSet ==
  [by : Task \cup {NoVal}, st : {"conf", "cloning", "locked", "stopped", "running"},
   ip : Ip \cup {NoVal}, guest : Ip \cup {NoVal}]
ASSUME NullAssumption ==
  NoVal \notin Nat \cup Task \cup Vmid \cup Ip \cup (Task \X (1 .. Attempts)) \cup VmSet

VARIABLES
  status,   \* status[l]: LabInstance.status, "none" before the row exists
  row,      \* row[id]: the VMInstance row, its vmid and its ip key
  index,    \* index[s]: student_index of the student, unique in its table
  lease,    \* lease[i]: state and vm_instance of the IPLease row
  vm,       \* vm[v]: the VM the node has under vmid v
  oldVm,    \* vmids whose VM is older than REAPER_GRACE
  oldLab,   \* labs older than REAPER_GRACE
  pc,       \* where each task is
  obj,      \* obj[p]: the VMInstance object (row and vmid) the task works on
  pick,     \* pick[t]: the number the provision is about to save
  hand,     \* hand[t]: the address the provision leased
  att,      \* att[t]: the provision's attempt
  was,      \* was[o]: which power task it is, the lab and the status it loaded, and
            \* whether the lab was still being provisioned
  snap,     \* snap[s]: what the sweep read when it began
  todo,     \* todo[s]: what its current phase has yet to process
  faults    \* the number of faults so far, and their kinds

db == <<status, row, lease>>
ages == <<oldVm, oldLab>>
sweeps == <<snap, todo>>
numbers == <<index, pick>>
vars == <<status, row, index, lease, vm, oldVm, oldLab, pc, obj, pick, hand, att, was,
          snap, todo, faults>>

-----------------------------------------------------------------------------
(* The database *)

RowId == Task \X (1 .. Attempts)
Rows == {id \in RowId : row[id] # NoVal}
RowVmids == {row[id].vmid : id \in Rows}
LabRows(l) == {id \in Rows : id[1] = l}

\* _active_reservation_vmids_excluding: the vmids of every row but this one.
VmidsOfOthers(id) == {row[k].vmid : k \in Rows \ {id}}

\* PERSISTENT_STATUSES, _LIVE_STUDENT_STATUSES and the constraint's condition.
Active == {"pending", "running", "stopped"}
HasBox(s) == \E l \in Task : StudentOf[l] = s /\ status[l] \in Active
BoxCount == Cardinality({l \in Task : status[l] \in Active})

\* uniq_active_per_student_box lets l be written with an active status.  An
\* INSERT or UPDATE against it raises IntegrityError.
\* (bug: the constraint does not exist)
NoConstraint(l) == l \in Task
UniqueBox(l) ==
  \A k \in Task \ {l} : StudentOf[k] = StudentOf[l] => status[k] \notin Active

\* vm.save() and lab.save(): the row must still be there to be updated, and an
\* active status must not break the constraint.
\* (bug: a row that is gone goes unnoticed)
CanRecordLab(id) == UniqueBox(id[1])
CanRecord(id) == id \in Rows /\ UniqueBox(id[1])

FreeLease == [state |-> "free", vm |-> NoVal]

\* (bug: "unbound" taken for "free")
UnboundLeases == {i \in Ip : lease[i].vm = NoVal}
FreeLeases == {i \in Ip : lease[i].state = "free"}
LeasesWithout(id) ==
  [i \in Ip |-> IF lease[i].vm = id THEN FreeLease ELSE lease[i]]

\* A pool with nothing left is a CapacityError.  (bug: wait for something)
WaitForOne(pool) == FALSE
Exhausted(pool) == pool = {}

\* release_reservation, and the transaction at the end of a deprovision: free
\* the leases bound to the row and delete it; nothing happens if it is gone.
DeleteRow(id) ==
  /\ lease' = LeasesWithout(id)
  /\ row' = [row EXCEPT ![id] = NoVal]

-----------------------------------------------------------------------------
(* The Proxmox node.  "conf" is a configuration file with no VM the node lists; *)
(* "cloning" and "locked" VMs refuse to be configured, started and destroyed.  *)

Exists(v) == vm[v] # NoVal /\ vm[v].st # "conf"           \* get_status
Present(v) == vm[v] # NoVal                               \* or get_config
Listed == {v \in Vmid : Exists(v)}                        \* list_target_vmids
Running(v) == Exists(v) /\ vm[v].st = "running"
Usable(v) == Exists(v) /\ vm[v].st \in {"stopped", "running"}
Destroyable(v) == Present(v) /\ vm[v].st \notin {"cloning", "locked"}

NewVm(by, st) == [by |-> by, st |-> st, ip |-> NoVal, guest |-> NoVal]

\* Power on: cloud-init gives a guest that was off its configured address.
Boot(v) ==
  vm' = IF Running(v) THEN vm
        ELSE [vm EXCEPT ![v].st = "running", ![v].guest = vm[v].ip]
PowerOff(v) ==
  vm' = [vm EXCEPT ![v].st = "stopped", ![v].guest = NoVal]

\* Force stop and destroy.
Destroy(v) == vm' = [vm EXCEPT ![v] = NoVal]

-----------------------------------------------------------------------------
(* Tasks *)

Proc == Task \cup Op \cup Sweep
Goto(p, label) == pc' = [pc EXCEPT ![p] = label]

\* Provision t has been taken by a worker and has not ended.
InFlight(t) == pc[t] \notin {"queued", "done", "crashed"}

\* A fault of the given kind happens in this step.  "call": what is done inside a task's
\* try raises, or its answer is lost; "late": a cap is breached; "destroy": a destroy
\* fails; "misread": an error answer is read as absence; "crash": the worker dies;
\* "database": a write outside of the try or in the error path raises; "slow": a task
\* waits for longer than REAPER_GRACE.
Fault(kind) ==
  /\ kind \in FaultKinds
  /\ faults.n < MaxFaults
  /\ faults' = [n |-> faults.n + 1, kinds |-> faults.kinds \cup {kind}]
NoFault == UNCHANGED faults

\* Nobody is between lease_ip() and the bind with address i in hand.
InHand(i) == \E t \in Task : pc[t] = "bind" /\ hand[t] = i

=============================================================================
