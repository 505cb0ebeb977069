----------------------------- MODULE Provision -----------------------------
(***************************************************************************)
(* provision_student_instance (tasks.py:907-1202): create the lab, reserve *)
(* a vmid and an address, clone into the vmid with up to three self-healing*)
(* attempts, configure, boot, confirm, record; on any exception tear down. *)
(* Every database transaction and every Proxmox call that can interleave   *)
(* with another task is a step.                                            *)
(***************************************************************************)
EXTENDS BoxState

V(t) == obj[t].vmid

\* What the allocator will not give out: the vmids the node lists and the vmids
\* rows hold.  (bug: the rows are not read)
ListedOnly == Listed
TakenVmids == Listed \cup RowVmids

\* capacity_ok with the student cap and the student count.
CapacityOk ==
  /\ BoxCount < Cap
  /\ FreeLeases # {}
  /\ Vmid \ TakenVmids # {}

Me(t) == StudentOf[t]

\* An existing box makes the call a no-op.
FindBox(t) ==
  /\ pc[t] = "queued"
  /\ Goto(t, IF HasBox(Me(t)) THEN "done" ELSE "number")
  /\ UNCHANGED <<db, vm, ages, obj, hand, att, was, sweeps, numbers, faults>>

\* assign_student_index: the student's row is locked and read again, so a call for
\* the same student waits for the commit; a number once given is returned, else
\* the lowest that no student has is picked.  (bug: the number is not looked at)
NeverNumbered(t) == t \notin Task
Numbered(t) == index[Me(t)] # NoVal

RowLocked(t) == \E u \in Task \ {t} : Me(u) = Me(t) /\ pc[u] = "save_number"

PickNumber(t) ==
  /\ pc[t] = "number" /\ ~RowLocked(t)
  /\ \/ Numbered(t) /\ Goto(t, "admit") /\ UNCHANGED pick
     \/ /\ ~Numbered(t)
        /\ LET free == (1 .. Cardinality(Student) + 1) \ {index[s] : s \in Student}
           IN \E i \in free : /\ \A j \in free : i =< j
                             /\ pick' = [pick EXCEPT ![t] = i]
        /\ Goto(t, "save_number")
  /\ UNCHANGED <<db, index, vm, ages, obj, hand, att, was, sweeps, faults>>

\* The save, or IntegrityError and another turn; each turn lost is a number given
\* to somebody else, and 50 turns are more than there are students here.
\* (bug: the column is not UNIQUE)
AnyNumber(i) == i \in Nat
UniqueNumber(i) == \A s \in Student : index[s] # i

SaveNumber(t) ==
  /\ pc[t] = "save_number"
  /\ \/ /\ UniqueNumber(pick[t])
        /\ index' = [index EXCEPT ![Me(t)] = pick[t]]
        /\ Goto(t, "admit")
     \/ ~UniqueNumber(pick[t]) /\ Goto(t, "number") /\ UNCHANGED index
  /\ pick' = [pick EXCEPT ![t] = NoVal]
  /\ UNCHANGED <<db, vm, ages, obj, hand, att, was, sweeps, faults>>

\* No capacity refuses the call; so does a failing scope test or an unreachable
\* node.  Nothing but the number has been written yet.
Admit(t) ==
  /\ pc[t] = "admit"
  /\ \/ CapacityOk /\ Goto(t, "create") /\ NoFault
     \/ ~CapacityOk /\ Goto(t, "done") /\ NoFault
     \/ Goto(t, "done") /\ Fault("call")
  /\ UNCHANGED <<db, vm, ages, obj, hand, att, was, sweeps, numbers>>

\* INSERT the lab; the loser of a double provision ends as a no-op.  The audit entry
\* after it stands before the try: when it raises, the task ends there.
CreateLab(t) ==
  /\ pc[t] = "create"
  /\ \/ /\ UniqueBox(t)
        /\ status' = [status EXCEPT ![t] = "pending"]
        /\ (Goto(t, "reserve") /\ NoFault) \/ (Goto(t, "done") /\ Fault("database"))
     \/ ~UniqueBox(t) /\ Goto(t, "done") /\ UNCHANGED <<status, faults>>
  /\ UNCHANGED <<row, lease, vm, ages, obj, hand, att, was, sweeps, numbers>>

-----------------------------------------------------------------------------
(* Reserve, lease, bind *)

\* allocate_and_reserve_vmid, the atomic step Allocation implements, with a fresh
\* list of the node.  What an older list could miss, something without a row
\* under the vmid, is what StrayKinds "conf" leaves there.
Reserve(t) ==
  /\ pc[t] = "reserve"
  /\ LET free == Vmid \ TakenVmids
         id == <<t, att[t]>>
     IN \/ \E v \in free :
             /\ \A w \in free : v =< w
             /\ row' = [row EXCEPT ![id] = [vmid |-> v, ip |-> NoVal]]
             /\ obj' = [obj EXCEPT ![t] = [id |-> id, vmid |-> v]]
             /\ Goto(t, "lease")
        \/ Exhausted(free) /\ Goto(t, "teardown") /\ UNCHANGED <<row, obj>>
  /\ UNCHANGED <<status, lease, vm, ages, hand, att, was, sweeps, numbers, faults>>

LeaseIp(t) ==
  /\ pc[t] = "lease"
  /\ \/ /\ \E i \in FreeLeases :
             /\ \A j \in FreeLeases : i =< j
             /\ lease' = [lease EXCEPT ![i].state = "leased"]
             /\ hand' = [hand EXCEPT ![t] = i]
        /\ Goto(t, "bind")
        /\ NoFault
     \/ /\ (Exhausted(FreeLeases) /\ NoFault) \/ Fault("call")
        /\ Goto(t, "teardown")
        /\ UNCHANGED <<lease, hand>>
  /\ UNCHANGED <<status, row, vm, ages, obj, att, was, sweeps, numbers>>

\* vm.save(update_fields) of a row that is gone raises DatabaseError and rolls
\* the transaction back; the lease then stays leased and unbound.
Bind(t) ==
  /\ pc[t] = "bind"
  /\ LET id == obj[t].id
     IN \/ /\ id \in Rows
           /\ row' = [row EXCEPT ![id].ip = hand[t]]
           /\ lease' = [lease EXCEPT ![hand[t]].vm = id]
           /\ Goto(t, "heal")
           /\ NoFault
        \/ /\ (id \notin Rows /\ NoFault) \/ Fault("call")
           /\ Goto(t, "teardown")
           /\ UNCHANGED <<row, lease>>
  /\ UNCHANGED <<status, vm, ages, obj, hand, att, was, sweeps, numbers>>

-----------------------------------------------------------------------------
(* Self-heal and clone *)

\* Something is already under the vmid and no other reservation owns it.
OrphanHere(t) == Present(V(t)) /\ V(t) \notin VmidsOfOthers(obj[t].id)

CheckVmid(t) ==
  /\ pc[t] = "heal"
  /\ \/ OrphanHere(t) /\ Goto(t, "reap") /\ NoFault
     \/ ~OrphanHere(t) /\ Goto(t, "clone") /\ NoFault
     \/ OrphanHere(t) /\ Goto(t, "clone") /\ Fault("misread")
     \/ Fault("call") /\ Goto(t, "teardown")
  /\ UNCHANGED <<db, vm, ages, obj, hand, att, was, sweeps, numbers>>

\* (bug: the configuration is not looked at, so nothing seems left to clear)
ReapableByStatus(v) == Exists(v) /\ Destroyable(v)
Reapable(v) == Destroyable(v)

\* _reap_orphan_vmid: destroy what is there; a failing destroy is logged, any
\* other failing call raises.  True goes to the label "then", False to "drop".
ReapOrphan(t, then) ==
  LET v == V(t)
  IN \/ ~Present(v) /\ Goto(t, then) /\ UNCHANGED <<vm, faults>>
     \/ Reapable(v) /\ Destroy(v) /\ Goto(t, then) /\ NoFault
     \/ Present(v) /\ Fault("misread") /\ Goto(t, then) /\ UNCHANGED vm
     \/ Present(v) /\ Fault("destroy") /\ Goto(t, "drop") /\ UNCHANGED vm
     \/ Fault("call") /\ Goto(t, "teardown") /\ UNCHANGED vm
     \/ Present(v) /\ ~Reapable(v) /\ Goto(t, "drop") /\ UNCHANGED <<vm, faults>>

ReapBeforeClone(t) ==
  /\ pc[t] = "reap"
  /\ ReapOrphan(t, "clone")
  /\ UNCHANGED <<db, ages, obj, hand, att, was, sweeps, numbers>>

\* The clone task begins, but its answer, with the upid, may be lost; or the call
\* fails, or Proxmox refuses it: the vmid is in use.
StartClone(t) ==
  /\ pc[t] = "clone"
  /\ \/ /\ ~Present(V(t))
        /\ vm' = [vm EXCEPT ![V(t)] = NewVm(t, "cloning")]
        /\ oldVm' = oldVm \ {V(t)}
        /\ (Goto(t, "cloning") /\ NoFault) \/ (Goto(t, "clone_failed") /\ Fault("call"))
     \/ /\ (Present(V(t)) /\ NoFault) \/ Fault("call")
        /\ Goto(t, "clone_failed")
        /\ UNCHANGED <<vm, oldVm>>
  /\ UNCHANGED <<db, oldLab, obj, hand, att, was, sweeps, numbers>>

\* wait_task: done; a poll failed, and the clone goes on, or the clone did, with or
\* without a configuration left behind; or still running when the cap is breached.
WaitClone(t) ==
  /\ pc[t] = "cloning"
  /\ LET v == V(t)
     IN \/ /\ vm' = [vm EXCEPT ![v].st = "stopped"]
           /\ Goto(t, "configure")
           /\ NoFault
        \/ /\ Fault("call")
           /\ \E left \in {vm[v], NoVal, NewVm(t, "conf")} : vm' = [vm EXCEPT ![v] = left]
           /\ Goto(t, "clone_failed")
        \/ Fault("late") /\ Goto(t, "clone_failed") /\ UNCHANGED vm
  /\ UNCHANGED <<db, ages, obj, hand, att, was, sweeps, numbers>>

\* The last attempt raises; an earlier one reaps what the clone left, unless
\* another reservation owns the vmid.
CloneFailed(t) ==
  /\ pc[t] = "clone_failed"
  /\ \/ att[t] >= Attempts /\ Goto(t, "teardown")
     \/ /\ att[t] < Attempts
        /\ \/ V(t) \notin VmidsOfOthers(obj[t].id) /\ Goto(t, "reap_failed")
           \/ V(t) \in VmidsOfOthers(obj[t].id) /\ Goto(t, "drop")
  /\ UNCHANGED <<db, vm, ages, obj, hand, att, was, sweeps, numbers, faults>>

ReapFailedClone(t) ==
  /\ pc[t] = "reap_failed"
  /\ ReapOrphan(t, "drop")
  /\ UNCHANGED <<db, ages, obj, hand, att, was, sweeps, numbers>>

\* (bug: the reservation is kept while the next one is made)
KeepRow(id) == UNCHANGED <<row, lease>>
DropRow(id) == DeleteRow(id)

\* release_reservation, then the next attempt; after the last, an exception
\* with nothing reserved.
DropReservation(t) ==
  /\ pc[t] = "drop"
  /\ DropRow(obj[t].id)
  /\ obj' = [obj EXCEPT ![t] = NoVal]
  /\ hand' = [hand EXCEPT ![t] = NoVal]
  /\ \/ /\ att[t] < Attempts
        /\ att' = [att EXCEPT ![t] = @ + 1]
        /\ Goto(t, "reserve")
     \/ att[t] >= Attempts /\ Goto(t, "teardown") /\ UNCHANGED att
  /\ UNCHANGED <<status, vm, ages, was, sweeps, numbers, faults>>

-----------------------------------------------------------------------------
(* Configure, boot, confirm, record *)

\* set_resources and set_ipconfig; Proxmox knows the VM by its vmid only.
Configure(t) ==
  /\ pc[t] = "configure"
  /\ \/ /\ Usable(V(t))
        /\ vm' = [vm EXCEPT ![V(t)].ip = hand[t]]
        /\ Goto(t, "boot")
        /\ NoFault
     \/ /\ (~Usable(V(t)) /\ NoFault) \/ Fault("call")
        /\ Goto(t, "teardown")
        /\ UNCHANGED vm
  /\ UNCHANGED <<db, ages, obj, hand, att, was, sweeps, numbers>>

\* start and wait_status: up; refused; or up but after the cap.
BootBox(t) ==
  /\ pc[t] = "boot"
  /\ \/ Usable(V(t)) /\ Boot(V(t)) /\ Goto(t, "confirm") /\ NoFault
     \/ /\ (~Usable(V(t)) /\ NoFault) \/ Fault("call")
        /\ Goto(t, "teardown")
        /\ UNCHANGED vm
     \/ Usable(V(t)) /\ Boot(V(t)) /\ Goto(t, "teardown") /\ Fault("late")
  /\ UNCHANGED <<db, ages, obj, hand, att, was, sweeps, numbers>>

\* (bug: a VM that is up is taken for one that has its address)
UpIsEnough(v, i) == Running(v)
GuestHas(v, i) == Running(v) /\ vm[v].guest = i

\* The leased address is on a guest interface, or the cap is breached.
ConfirmIp(t) ==
  /\ pc[t] = "confirm"
  /\ LET seen == GuestHas(V(t), hand[t])
     IN \/ seen /\ Goto(t, "record") /\ NoFault
        \/ /\ (~seen /\ NoFault) \/ Fault("late")
           /\ Goto(t, "teardown")
  /\ UNCHANGED <<db, vm, ages, obj, hand, att, was, sweeps, numbers>>

\* One transaction; a deleted row (DatabaseError) or another active box of the
\* student (IntegrityError) rolls it back.  An exception after the commit, in the
\* audit entry, tears the recorded box down.
Record(t) ==
  /\ pc[t] = "record"
  /\ \/ /\ CanRecord(obj[t].id)
        /\ status' = [status EXCEPT ![t] = "running"]
        /\ (Goto(t, "done") /\ NoFault) \/ (Goto(t, "teardown") /\ Fault("call"))
     \/ /\ (~CanRecord(obj[t].id) /\ NoFault) \/ Fault("call")
        /\ Goto(t, "teardown")
        /\ UNCHANGED status
  /\ UNCHANGED <<row, lease, vm, ages, obj, hand, att, was, sweeps, numbers>>

-----------------------------------------------------------------------------
(* The error path *)

\* (bug: a VM that is still running is not destroyed)
TeardownIfOff(v) == Destroyable(v) /\ ~Running(v)
TeardownCan(v) == Destroyable(v)

\* Force stop and destroy; a failure is recorded and the path goes on.  A clone in
\* flight is waited for first, which comes to nothing when its upid was lost, a poll
\* fails or it takes one more CAP_CLONE: it is locked then, as a stray may be.  An
\* error answer to get_status reads as "not there".
Teardown(t) ==
  /\ pc[t] = "teardown"
  /\ \/ obj[t] = NoVal /\ UNCHANGED <<vm, faults>>
     \/ /\ obj[t] # NoVal
        /\ LET v == V(t)
           IN \/ ~Exists(v) /\ UNCHANGED <<vm, faults>>
              \/ Exists(v) /\ TeardownCan(v) /\ Destroy(v) /\ NoFault
              \/ Exists(v) /\ ~TeardownCan(v) /\ UNCHANGED <<vm, faults>>
              \/ Exists(v) /\ (Fault("destroy") \/ Fault("misread")) /\ UNCHANGED vm
              \/ Running(v) /\ Fault("destroy") /\ PowerOff(v)
  /\ Goto(t, "release")
  /\ UNCHANGED <<db, ages, obj, hand, att, was, sweeps, numbers>>

\* release_reservation, whatever became of the VM, and the status.  Either write may
\* raise; that is noted, and the task ends without what is left of the two.
ReleaseAfterError(t) ==
  /\ pc[t] = "release"
  /\ \/ obj[t] # NoVal /\ DeleteRow(obj[t].id) /\ Goto(t, "fail") /\ NoFault
     \/ obj[t] = NoVal /\ UNCHANGED <<row, lease>> /\ Goto(t, "fail") /\ NoFault
     \/ Fault("database") /\ Goto(t, "done") /\ UNCHANGED <<row, lease>>
  /\ UNCHANGED <<status, vm, ages, obj, hand, att, was, sweeps, numbers>>

MarkError(t) ==
  /\ pc[t] = "fail"
  /\ \/ status' = [status EXCEPT ![t] = "error"] /\ NoFault
     \/ Fault("database") /\ UNCHANGED status
  /\ Goto(t, "done")
  /\ UNCHANGED <<row, lease, vm, ages, obj, hand, att, was, sweeps, numbers>>

-----------------------------------------------------------------------------
\* The worker process dies; the message was acknowledged when it was taken, so
\* nobody runs the task again.
CrashProvision(t) ==
  /\ InFlight(t)
  /\ Fault("crash")
  /\ Goto(t, "crashed")
  /\ UNCHANGED <<db, vm, ages, obj, hand, att, was, sweeps, numbers>>

\* A clone nobody waits for any more still finishes.
FinishClone(v) ==
  /\ vm[v] # NoVal /\ vm[v].st = "cloning"
  /\ \A t \in Task : ~(pc[t] = "cloning" /\ V(t) = v)
  /\ vm' = [vm EXCEPT ![v].st = "stopped"]
  /\ UNCHANGED <<db, ages, pc, obj, hand, att, was, sweeps, numbers, faults>>

ProvisionStep(t) ==
  \/ FindBox(t) \/ PickNumber(t) \/ SaveNumber(t) \/ Admit(t)
  \/ CreateLab(t) \/ Reserve(t) \/ LeaseIp(t) \/ Bind(t)
  \/ CheckVmid(t) \/ ReapBeforeClone(t) \/ StartClone(t) \/ WaitClone(t)
  \/ CloneFailed(t) \/ ReapFailedClone(t) \/ DropReservation(t)
  \/ Configure(t) \/ BootBox(t) \/ ConfirmIp(t) \/ Record(t)
  \/ Teardown(t) \/ ReleaseAfterError(t) \/ MarkError(t)

=============================================================================
