------------------------------- MODULE Power -------------------------------
(***************************************************************************)
(* The tasks that act on an existing box: start_student_instance,          *)
(* stop_student_instance (tasks.py:1205-1332) and                          *)
(* deprovision_student_instance (tasks.py:1335-1409).                      *)
(*                                                                         *)
(* Each loads the lab and its row, works on the node, and then writes a    *)
(* status without looking at what the lab has become meanwhile.            *)
(***************************************************************************)
EXTENDS BoxState

Target(o) == obj[o].vmid

\* Steps of a task leave the other tasks' locals alone.
OthersLocals == UNCHANGED <<hand, att, sweeps, numbers>>
OnlyCalls == UNCHANGED <<db, ages, obj, was>> /\ OthersLocals

\* The task begins on lab l: enqueued while the box was active (api.py:417-438)
\* or by staff in any state (api.py:257-273), it loads the lab as it is now.
\* start and stop take the lab's row with the lowest vmid and fail without one;
\* a lab has at most one row.
Begin(o, kind, l) ==
  /\ pc[o] = "idle" /\ kind \in OpKinds /\ status[l] # "none"
  /\ InFlight(l) => kind \in EarlyKinds
  /\ was' = [was EXCEPT ![o] = [kind |-> kind, lab |-> l, status |-> status[l],
                                early |-> InFlight(l)]]
  /\ \/ /\ \E id \in LabRows(l) : obj' = [obj EXCEPT ![o] = [id |-> id, vmid |-> row[id].vmid]]
        /\ Goto(o, kind)
     \/ /\ LabRows(l) = {} /\ kind = "deprovision"
        /\ Goto(o, "destroyed")
        /\ UNCHANGED obj
  /\ UNCHANGED <<db, vm, ages, faults>> /\ OthersLocals

\* vm.save() and lab.save(): a deleted row or a second active box of the student
\* raises, and nothing is recorded.
RecordStatus(o, st) ==
  /\ LET id == obj[o].id
     IN \/ /\ CanRecord(id)
           /\ status' = [status EXCEPT ![id[1]] = st]
        \/ ~CanRecord(id) /\ UNCHANGED status
  /\ Goto(o, "done")
  /\ UNCHANGED <<row, lease, vm, ages, obj, was, faults>> /\ OthersLocals

-----------------------------------------------------------------------------
(* start *)

\* Missing: failed.  Up and recorded so when loaded: nothing to do.  Up:
\* reconcile.  Off: power on and wait, perhaps past the cap.
StartBox(o) ==
  /\ pc[o] = "start"
  /\ LET v == Target(o)
     IN \/ /\ ~Usable(v) \/ (Running(v) /\ was[o].status = "running")
           /\ Goto(o, "done") /\ UNCHANGED vm /\ NoFault
        \/ /\ Running(v) /\ was[o].status # "running"
           /\ Goto(o, "started") /\ UNCHANGED vm /\ NoFault
        \/ /\ Usable(v) /\ ~Running(v)
           /\ Boot(v) /\ Goto(o, "started") /\ NoFault
        \/ /\ Usable(v) /\ ~Running(v)
           /\ Boot(v) /\ Goto(o, "done") /\ Fault("late")
        \/ (Fault("call") \/ Fault("misread")) /\ Goto(o, "done") /\ UNCHANGED vm
  /\ OnlyCalls

RecordStarted(o) == pc[o] = "started" /\ RecordStatus(o, "running")

-----------------------------------------------------------------------------
(* stop *)

\* Graceful shutdown, forced stop past its cap; "not running" is taken for
\* stopped, and so is an error answer to get_status.
StopBox(o) ==
  /\ pc[o] = "stop"
  /\ LET v == Target(o)
     IN \/ ~Running(v) /\ Goto(o, "stopped") /\ UNCHANGED vm /\ NoFault
        \/ Running(v) /\ PowerOff(v) /\ Goto(o, "stopped") /\ NoFault
        \/ Running(v) /\ PowerOff(v) /\ Goto(o, "done") /\ Fault("late")
        \/ Running(v) /\ Goto(o, "stopped") /\ Fault("misread") /\ UNCHANGED vm
        \/ Fault("call") /\ Goto(o, "done") /\ UNCHANGED vm
  /\ OnlyCalls

RecordStopped(o) == pc[o] = "stopped" /\ RecordStatus(o, "stopped")

-----------------------------------------------------------------------------
(* deprovision *)

\* (bug: a VM that was running when looked at is powered off and left)
KillIfOff(v) == vm' = [vm EXCEPT ![v] = IF @.st = "running" THEN [@ EXCEPT !.st = "stopped"]
                                        ELSE NoVal]
Kill(v) == Destroy(v)

\* Power off and destroy.  An exception keeps the row, for the next try.  An
\* error answer to get_status reads as "gone"; when only the first one is an
\* error, the second sees the VM, but its row goes all the same.
DestroyBox(o) ==
  /\ pc[o] = "deprovision"
  /\ LET v == Target(o)
     IN \/ ~Exists(v) /\ Goto(o, "release") /\ UNCHANGED vm /\ NoFault
        \/ Exists(v) /\ Destroyable(v) /\ Kill(v) /\ Goto(o, "release") /\ NoFault
        \/ Exists(v) /\ ~Destroyable(v) /\ Goto(o, "done") /\ UNCHANGED vm /\ NoFault
        \/ Exists(v) /\ Fault("destroy") /\ Goto(o, "done") /\ UNCHANGED vm
        \/ Running(v) /\ Fault("destroy") /\ Goto(o, "done") /\ PowerOff(v)
        \/ Exists(v) /\ Destroyable(v) /\ Fault("late") /\ Goto(o, "done") /\ Destroy(v)
        \/ /\ Exists(v) /\ Fault("misread") /\ UNCHANGED vm
           /\ Goto(o, "release") \/ Goto(o, "release_partial")
  /\ OnlyCalls

\* One transaction: free the leases bound to the row, delete the row.
ReleaseBox(o) ==
  /\ \/ pc[o] = "release" /\ Goto(o, "destroyed")
     \/ pc[o] = "release_partial" /\ Goto(o, "done")
  /\ DeleteRow(obj[o].id)
  /\ UNCHANGED <<status, vm, ages, obj, was, faults>> /\ OthersLocals

\* lab.save(update_fields=["status"]), whatever the lab is by now.
MarkDestroyed(o) ==
  /\ pc[o] = "destroyed"
  /\ status' = [status EXCEPT ![was[o].lab] = "destroyed"]
  /\ Goto(o, "done")
  /\ UNCHANGED <<row, lease, vm, ages, obj, was, faults>> /\ OthersLocals

-----------------------------------------------------------------------------
\* The worker process dies during the task, or a write raises, which ends it as well.
CrashOp(o) ==
  /\ pc[o] \notin {"idle", "done"}
  /\ Fault("crash") \/ Fault("database")
  /\ Goto(o, "done")
  /\ UNCHANGED vm /\ OnlyCalls

OpStep(o) ==
  \/ StartBox(o) \/ RecordStarted(o) \/ StopBox(o) \/ RecordStopped(o)
  \/ DestroyBox(o) \/ ReleaseBox(o) \/ MarkDestroyed(o)

=============================================================================
