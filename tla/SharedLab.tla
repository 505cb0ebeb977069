----------------------------- MODULE SharedLab -----------------------------
(***************************************************************************)
(* A batch's shared lab: the API that accepts and enqueues, the tasks      *)
(* provision_shared_instance and deprovision_instance (tasks.py:479-783),  *)
(* and beside them the operator's two probes (tasks.py:57-434), which      *)
(* clone into ProbeVmid without reserving it.                              *)
(*                                                                         *)
(* A call makes at most one VMInstance row and a probe at most one, so a   *)
(* row is named by the call or probe that made it.                         *)
(***************************************************************************)
EXTENDS Naturals, FiniteSets

CONSTANTS
  Lab,
  Call,        \* runs of provision_shared_instance
  Op,          \* runs of deprovision_instance
  Probe,       \* runs of the probes
  Vmid, Ip,    \* the VMID range and the IPLease pool
  Cap,         \* PROVISION_MAX_CONCURRENT
  MaxBoxes,    \* bound on the students' boxes that count against it
  FaultKinds,  \* what may go wrong
  MaxFaults,   \* bound on how often
  NoVal

ASSUME SharedSizes ==
  Cap \in Nat /\ MaxBoxes \in 0 .. Cap /\ MaxFaults \in Nat /\ Vmid \subseteq Nat /\ Ip \subseteq Nat
ASSUME SharedFaults ==
  FaultKinds \subseteq {"call", "late", "cleanup", "misread", "database", "crash", "unreachable"}
\* There is a lowest vmid.
ASSUME SharedFirst == \E v \in Vmid : \A w \in Vmid : v =< w
ASSUME SharedFinite == IsFiniteSet(Lab) /\ IsFiniteSet(Call)
ASSUME SharedActors == Call \cap Probe = {} /\ Op \cap (Call \cup Probe) = {}

\* A VMInstance row, an IPLease row and a VM.
Owner == Call \cup Probe
Row == [vmid : Vmid, ip : Ip \cup {NoVal}, running : BOOLEAN]
Lease == [state : {"free", "leased"}, vm : Owner \cup {NoVal}]
Vm == [by : Owner, st : {"conf", "cloning", "stopped", "running"}, ip : Ip \cup {NoVal}]

ASSUME SharedNull ==
  NoVal \notin Lab \cup Owner \cup Op \cup Vmid \cup Ip \cup Row \cup Vm

VARIABLES
  boxes,    \* students' boxes that are pending or running, all along
  status,   \* status[l]: LabInstance.status, "none" before the row exists
  row,      \* row[x]: the VMInstance row x made: vmid, ip key, recorded as running
  lease,    \* lease[i]: state and vm_instance
  vm,       \* vm[v]: the VM under v: who cloned it, its state, its configured address
  pc,       \* where each call, deprovision and probe is
  for,      \* for[x]: the lab the call or deprovision is for
  mine,     \* mine[x]: the vmid a call reserved; the vmids of the rows a
            \* deprovision loaded
  hand,     \* hand[x]: the address a call or probe leased; the row a deprovision
            \* is at
  todo,     \* todo[o]: the rows the deprovision loaded and has yet to process
  partial,  \* deprovisions one of whose VMs did not go
  hasty,    \* labs deprovisioned while a call of theirs was at work
  faults    \* number and kinds of the faults so far

db == <<boxes, status, row, lease>>
locals == <<for, mine, hand, todo, partial, hasty>>
vars == <<boxes, status, row, lease, vm, pc, for, mine, hand, todo, partial, hasty, faults>>

Proc == Owner \cup Op
ProbeVmid == CHOOSE v \in Vmid : \A w \in Vmid : v =< w

FreeLease == [state |-> "free", vm |-> NoVal]

Init ==
  /\ boxes \in 0 .. MaxBoxes
  /\ status = [l \in Lab |-> "none"]
  /\ row = [x \in Owner |-> NoVal]
  /\ lease = [i \in Ip |-> FreeLease]
  /\ vm = [v \in Vmid |-> NoVal]
  /\ pc = [p \in Proc |-> "idle"]
  /\ for = [p \in Call \cup Op |-> NoVal]
  /\ mine = [p \in Call \cup Op |-> NoVal]
  /\ hand = [p \in Proc |-> NoVal]
  /\ todo = [o \in Op |-> {}]
  /\ partial = {}
  /\ hasty = {}
  /\ faults = [n |-> 0, kinds |-> {}]

Goto(p, label) == pc' = [pc EXCEPT ![p] = label]

\* A fault of the given kind.  "call": what is done inside a try raises, or its answer is
\* lost; "late": a cap is breached; "cleanup": a call of the clean-up raises; "misread":
\* an error answer is read as absence; "database": a write outside of the try or in the
\* error path raises; "crash": a process dies; "unreachable": the node is not there.
Fault(kind) ==
  /\ kind \in FaultKinds /\ faults.n < MaxFaults
  /\ faults' = [n |-> faults.n + 1, kinds |-> faults.kinds \cup {kind}]
NoFault == UNCHANGED faults

-----------------------------------------------------------------------------
(* Queries *)

Rows == {x \in Owner : row[x] # NoVal}
RowVmids == {row[x].vmid : x \in Rows}
CallsOf(l) == {c \in Call : for[c] = l}
RowsOf(l) == CallsOf(l) \cap Rows
RunningRows(l) == {x \in RowsOf(l) : row[x].running}

FreeLeases == {i \in Ip : lease[i].state = "free"}
LeasesWithout(x) == [i \in Ip |-> IF lease[i].vm = x THEN FreeLease ELSE lease[i]]

Exists(v) == vm[v] # NoVal /\ vm[v].st # "conf"
Running(v) == Exists(v) /\ vm[v].st = "running"
Usable(v) == Exists(v) /\ vm[v].st \in {"stopped", "running"}
NewVm(x, st) == [by |-> x, st |-> st, ip |-> NoVal]
Boot(v) == vm' = [vm EXCEPT ![v].st = "running"]
Destroy(v) == vm' = [vm EXCEPT ![v] = NoVal]

\* active_instance_count, which counts labs of every mode, and the two capacity
\* tests.  (bug: only running labs
\* are counted)
CountRunning(l) == boxes + Cardinality({k \in Lab \ {l} : status[k] = "running"})
ActiveCount(l) ==
  boxes + Cardinality({k \in Lab \ {l} : status[k] \in {"pending", "running"}})
Precheck(l) == ActiveCount(l) < Cap /\ FreeLeases # {} /\ Vmid \ RowVmids # {}
CapacityOk(l) == Precheck(l) /\ {v \in Vmid : ~Exists(v)} \ RowVmids # {}

\* Free the leases bound to the row and delete it.
DeleteRow(x) ==
  /\ lease' = LeasesWithout(x)
  /\ row' = [row EXCEPT ![x] = NoVal]

-----------------------------------------------------------------------------
(* The API *)

Working(c) == pc[c] \notin {"idle", "done", "crashed"}

\* POST labinstances: the database's capacity is read, and later the lab written.
Ask(c, l) ==
  /\ pc[c] = "idle" /\ CallsOf(l) = {} /\ status[l] = "none" /\ Precheck(l)
  /\ for' = [for EXCEPT ![c] = l]
  /\ Goto(c, "asked")
  /\ UNCHANGED <<db, vm, mine, hand, todo, partial, hasty, faults>>

\* The lab is created PENDING and the task enqueued, unless the web process dies
\* between the two.
Accept(c) ==
  /\ pc[c] = "asked"
  /\ status' = [status EXCEPT ![for[c]] = "pending"]
  /\ (Goto(c, "queued") /\ NoFault) \/ (Goto(c, "crashed") /\ Fault("crash"))
  /\ UNCHANGED <<boxes, row, lease, vm, locals>>

\* The task is called again for a lab whose earlier call is over.
Retry(c, l) ==
  /\ pc[c] = "idle" /\ status[l] # "none"
  /\ \A k \in CallsOf(l) : ~Working(k)
  /\ for' = [for EXCEPT ![c] = l]
  /\ Goto(c, "queued")
  /\ UNCHANGED <<db, vm, mine, hand, todo, partial, hasty, faults>>

-----------------------------------------------------------------------------
(* provision_shared_instance *)

SetStatus(l, st) == status' = [status EXCEPT ![l] = st]

\* (bug: a lab that runs is provisioned once more)
ProvisionAgain(l) == FALSE
IsProvisioned(l) == RunningRows(l) # {}

\* No-op, rejected, or admitted.  An unreachable node, and an audit entry or a status
\* that cannot be written, raise outside of the try: the task fails and the status stays.
Admit(c) ==
  /\ pc[c] = "queued"
  /\ LET l == for[c]
     IN \/ IsProvisioned(l) /\ Goto(c, "done") /\ UNCHANGED status /\ NoFault
        \/ /\ ~IsProvisioned(l) /\ ~CapacityOk(l)
           /\ SetStatus(l, "error") /\ Goto(c, "done") /\ NoFault
        \/ /\ ~IsProvisioned(l) /\ CapacityOk(l)
           /\ Goto(c, "reserve") /\ UNCHANGED status /\ NoFault
        \/ /\ ~IsProvisioned(l) /\ (Fault("unreachable") \/ Fault("database"))
           /\ Goto(c, "done") /\ UNCHANGED status
  /\ UNCHANGED <<boxes, row, lease, vm, locals>>

\* allocate_and_reserve_vmid: the lowest vmid neither the node lists nor a row has.
\* (bug: the rows are not read)
Unlisted == {v \in Vmid : ~Exists(v)}
FreeVmids == {v \in Vmid : ~Exists(v)} \ RowVmids

Reserve(c) ==
  /\ pc[c] = "reserve"
  /\ \/ \E v \in FreeVmids :
          /\ \A w \in FreeVmids : v =< w
          /\ row' = [row EXCEPT ![c] = [vmid |-> v, ip |-> NoVal, running |-> FALSE]]
          /\ mine' = [mine EXCEPT ![c] = v]
          /\ Goto(c, "lease")
          /\ NoFault
     \/ /\ (FreeVmids = {} /\ NoFault) \/ Fault("call")
        /\ Goto(c, "teardown")
        /\ UNCHANGED <<row, mine>>
  /\ UNCHANGED <<boxes, status, lease, vm, for, hand, todo, partial, hasty>>

NothingToLease(c) == FreeLeases = {} /\ Goto(c, "teardown")

LeaseIp(c) ==
  /\ pc[c] = "lease"
  /\ \/ \E i \in FreeLeases :
          /\ \A j \in FreeLeases : i =< j
          /\ lease' = [lease EXCEPT ![i].state = "leased"]
          /\ hand' = [hand EXCEPT ![c] = i]
          /\ Goto(c, "bind")
     \/ NothingToLease(c) /\ UNCHANGED <<lease, hand>>
  /\ UNCHANGED <<boxes, status, row, vm, for, mine, todo, partial, hasty, faults>>

\* Saving a row that a deprovision deleted raises.
Bind(c) ==
  /\ pc[c] = "bind"
  /\ \/ /\ c \in Rows
        /\ row' = [row EXCEPT ![c].ip = hand[c]]
        /\ lease' = [lease EXCEPT ![hand[c]].vm = c]
        /\ Goto(c, "clone")
     \/ c \notin Rows /\ Goto(c, "teardown") /\ UNCHANGED <<row, lease>>
  /\ UNCHANGED <<boxes, status, vm, locals, faults>>

\* Whoever clones into v: the clone begins, though its answer, with the upid, may be
\* lost; or the call fails, or Proxmox refuses it because v is in use.
StartClone(x, v, refused) ==
  /\ pc[x] = "clone"
  /\ \/ /\ vm[v] = NoVal /\ vm' = [vm EXCEPT ![v] = NewVm(x, "cloning")]
        /\ (Goto(x, "cloning") /\ NoFault) \/ (Goto(x, refused) /\ Fault("call"))
     \/ /\ (vm[v] # NoVal /\ NoFault) \/ Fault("call")
        /\ Goto(x, refused) /\ UNCHANGED vm
  /\ UNCHANGED <<db, locals>>

\* The clone is done; a poll failed, and the clone goes on, or the clone did, perhaps
\* leaving its configuration file; or the wait gives up on it.
WaitClone(x, v, failed) ==
  /\ pc[x] = "cloning"
  /\ \/ vm' = [vm EXCEPT ![v].st = "stopped"] /\ Goto(x, "cloned") /\ NoFault
     \/ /\ Fault("call") /\ Goto(x, failed)
        /\ \E left \in {vm[v], NoVal, NewVm(x, "conf")} : vm' = [vm EXCEPT ![v] = left]
     \/ Fault("late") /\ Goto(x, failed) /\ UNCHANGED vm
  /\ UNCHANGED <<db, locals>>

\* set_ipconfig
Configure(c) ==
  /\ pc[c] = "cloned"
  /\ \/ Usable(mine[c]) /\ vm' = [vm EXCEPT ![mine[c]].ip = hand[c]]
        /\ Goto(c, "boot") /\ NoFault
     \/ /\ (~Usable(mine[c]) /\ NoFault) \/ Fault("call")
        /\ Goto(c, "teardown") /\ UNCHANGED vm
  /\ UNCHANGED <<db, locals>>

\* start and wait_status: up; up, but after the cap; refused.
BootBox(c) ==
  /\ pc[c] = "boot"
  /\ \/ Usable(mine[c]) /\ Boot(mine[c]) /\ Goto(c, "confirm") /\ NoFault
     \/ Usable(mine[c]) /\ Boot(mine[c]) /\ Goto(c, "teardown") /\ Fault("late")
     \/ /\ (~Usable(mine[c]) /\ NoFault) \/ Fault("call")
        /\ Goto(c, "teardown") /\ UNCHANGED vm
  /\ UNCHANGED <<db, locals>>

\* The guest agent reports the address the VM was set to, in time or not at all.
\* Whether port 22 answers is recorded and decides nothing.
ConfirmIp(c) ==
  /\ pc[c] = "confirm"
  /\ LET seen == Running(mine[c]) /\ vm[mine[c]].ip # NoVal
     IN \/ seen /\ Goto(c, "record") /\ NoFault
        \/ ((~seen /\ NoFault) \/ Fault("late")) /\ Goto(c, "teardown")
  /\ UNCHANGED <<db, vm, locals>>

\* One transaction.  A deleted row rolls it back; an exception after it, in the
\* audit entry, tears the recorded box down.
Record(c) ==
  /\ pc[c] = "record"
  /\ \/ /\ c \in Rows
        /\ row' = [row EXCEPT ![c].running = TRUE]
        /\ SetStatus(for[c], "running")
        /\ (Goto(c, "done") /\ NoFault) \/ (Goto(c, "teardown") /\ Fault("call"))
     \/ c \notin Rows /\ Goto(c, "teardown") /\ UNCHANGED <<row, status>> /\ NoFault
  /\ UNCHANGED <<boxes, lease, vm, locals>>

\* Force stop if needed and destroy what is under v, unless it is locked, the node
\* answers with an error, which reads as absence, or one of the calls fails; a failure
\* is noted and the path goes on.
TearDown(v) ==
  \/ Usable(v) /\ Destroy(v) /\ NoFault
  \/ ~Usable(v) /\ UNCHANGED vm /\ NoFault
  \/ Exists(v) /\ UNCHANGED vm /\ (Fault("cleanup") \/ Fault("misread"))

\* A clone of its own that is still going is waited for first, which comes to nothing
\* when its upid was lost, a poll fails or it takes one more CAP_CLONE: it is locked then.
ErrorPath(c) ==
  /\ pc[c] = "teardown"
  /\ \/ mine[c] = NoVal /\ UNCHANGED <<vm, faults>>
     \/ mine[c] # NoVal /\ TearDown(mine[c])
  /\ Goto(c, "release")
  /\ UNCHANGED <<db, locals>>

\* (bug: the row is deleted and its address stays leased to it)
KeepLease(c) == row' = [row EXCEPT ![c] = NoVal] /\ UNCHANGED lease
ReleaseReservation(c) == DeleteRow(c)

\* The release and the status are written in one try: when a write raises, what is left
\* of the two is skipped.
Release(c) ==
  /\ pc[c] = "release"
  /\ \/ ReleaseReservation(c) /\ Goto(c, "fail") /\ NoFault
     \/ Fault("database") /\ Goto(c, "done") /\ UNCHANGED <<row, lease>>
  /\ UNCHANGED <<boxes, status, vm, locals>>

\* (bug: the status is left to the operator)
LeaveStatus(c) == UNCHANGED status
RecordError(c) == SetStatus(for[c], "error")

Fail(c) ==
  /\ pc[c] = "fail"
  /\ (RecordError(c) /\ NoFault) \/ (Fault("database") /\ UNCHANGED status)
  /\ Goto(c, "done")
  /\ UNCHANGED <<boxes, row, lease, vm, locals>>

\* The worker dies; the message was acknowledged, nobody runs the call again.
Crash(x) ==
  /\ pc[x] \notin {"idle", "asked", "queued", "done", "crashed"}
  /\ Fault("crash")
  /\ Goto(x, "crashed")
  /\ UNCHANGED <<db, vm, locals>>

\* A clone nobody waits for any more still finishes.
FinishClone(v) ==
  /\ vm[v] # NoVal /\ vm[v].st = "cloning" /\ pc[vm[v].by] # "cloning"
  /\ vm' = [vm EXCEPT ![v].st = "stopped"]
  /\ UNCHANGED <<db, pc, locals, faults>>

-----------------------------------------------------------------------------
(* deprovision_instance *)

\* The lab's rows are loaded once; no status is looked at, here or in the API.
Deprovision(o, l) ==
  /\ pc[o] = "idle" /\ status[l] # "none"
  /\ for' = [for EXCEPT ![o] = l]
  /\ todo' = [todo EXCEPT ![o] = RowsOf(l)]
  /\ mine' = [mine EXCEPT ![o] = [x \in RowsOf(l) |-> row[x].vmid]]
  /\ hasty' = IF \E c \in CallsOf(l) : Working(c) THEN hasty \cup {l} ELSE hasty
  /\ Goto(o, "next")
  /\ UNCHANGED <<db, vm, hand, partial, faults>>

\* Stop and destroy the VM of the next row, x; an error answer of the node reads as
\* absence.  An exception keeps the row and makes the outcome partial.
DestroyNext(o) ==
  /\ pc[o] = "next"
  /\ \E x \in todo[o] :
       LET v == mine[o][x]
       IN /\ \/ /\ \/ Usable(v) /\ Destroy(v) /\ NoFault
                   \/ ~Exists(v) /\ UNCHANGED vm /\ NoFault
                   \/ Exists(v) /\ UNCHANGED vm /\ Fault("misread")
                /\ Goto(o, "drop") /\ hand' = [hand EXCEPT ![o] = x]
                /\ UNCHANGED <<todo, partial>>
             \/ /\ (Exists(v) /\ ~Usable(v) /\ NoFault) \/ Fault("cleanup")
                /\ todo' = [todo EXCEPT ![o] = @ \ {x}]
                /\ partial' = partial \cup {o}
                /\ UNCHANGED <<vm, pc, hand>>
  /\ UNCHANGED <<db, for, mine, hasty>>

\* Look at the VM once more, then free the address and delete the row, gone or not; a
\* transaction that fails keeps the row.
DropNext(o) ==
  /\ pc[o] = "drop"
  /\ LET x == hand[o]
         v == mine[o][x]
     IN /\ \/ /\ DeleteRow(x)
              /\ \/ Exists(v) /\ partial' = partial \cup {o} /\ NoFault
                 \/ ~Exists(v) /\ UNCHANGED partial /\ NoFault
                 \/ Exists(v) /\ UNCHANGED partial /\ Fault("misread")
           \/ Fault("database") /\ partial' = partial \cup {o} /\ UNCHANGED <<row, lease>>
        /\ todo' = [todo EXCEPT ![o] = @ \ {x}]
  /\ Goto(o, "next")
  /\ UNCHANGED <<boxes, status, vm, for, mine, hand, hasty>>

\* DESTROYED only if everything went, and if that can be written.
RecordDestroyed(o) ==
  /\ pc[o] = "next" /\ todo[o] = {}
  /\ \/ o \notin partial /\ SetStatus(for[o], "destroyed") /\ NoFault
     \/ o \in partial /\ UNCHANGED status /\ NoFault
     \/ Fault("database") /\ UNCHANGED status
  /\ Goto(o, "done")
  /\ UNCHANGED <<boxes, row, lease, vm, locals>>

=============================================================================
