------------------------------- MODULE Probes -------------------------------
(***************************************************************************)
(* provision_clone_primitive and provision_lifecycle_probe                 *)
(* (tasks.py:57-434): clone into ProbeVmid, record a lab, a row and an     *)
(* address, power the clone on and off (lifecycle only), and leave nothing.*)
(***************************************************************************)
EXTENDS SharedLab

\* The probe's vmid must be absent, and the token must be refused elsewhere.  It
\* is not looked up among the reservations, and none is made.
ProbeVmidFree == ~Exists(ProbeVmid)

BeginProbe(p) ==
  /\ pc[p] = "idle"
  /\ \/ ProbeVmidFree /\ Goto(p, "clone") /\ NoFault
     \/ ~ProbeVmidFree /\ Goto(p, "done") /\ NoFault
     \/ ~ProbeVmidFree /\ Goto(p, "clone") /\ Fault("misread")
     \/ Goto(p, "done") /\ Fault("unreachable")
  /\ UNCHANGED <<db, vm, locals>>

\* A probe that did not see its clone succeed goes straight to its records: nothing is
\* destroyed, though the clone may be going on.
ProbeClone(p) == StartClone(p, ProbeVmid, "clean")
ProbeWait(p) == WaitClone(p, ProbeVmid, "clean")

\* Read back: present and powered off.  Then one transaction: lab, row and first
\* free address; a row that reserves the vmid breaks UNIQUE(vmid) and undoes it.
ReadBack(p) ==
  /\ pc[p] = "cloned"
  /\ \/ Usable(ProbeVmid) /\ ~Running(ProbeVmid) /\ Goto(p, "record") /\ NoFault
     \/ /\ (~(Usable(ProbeVmid) /\ ~Running(ProbeVmid)) /\ NoFault) \/ Fault("call")
        /\ Goto(p, "destroy")
  /\ UNCHANGED <<db, vm, locals>>

\* (bug: UNIQUE(vmid) does not exist)
AnyVmid == TRUE
UniqueVmid == ProbeVmid \notin RowVmids

RecordProbe(p) ==
  /\ pc[p] = "record"
  /\ \/ /\ UniqueVmid
        /\ \E i \in FreeLeases :
             /\ \A j \in FreeLeases : i =< j
             /\ row' = [row EXCEPT ![p] = [vmid |-> ProbeVmid, ip |-> i, running |-> FALSE]]
             /\ lease' = [lease EXCEPT ![i] = [state |-> "leased", vm |-> p]]
             /\ hand' = [hand EXCEPT ![p] = i]
        /\ \E next \in {"destroy", "power_on"} : Goto(p, next)
     \/ ~(UniqueVmid /\ FreeLeases # {}) /\ Goto(p, "destroy") /\ UNCHANGED <<row, lease, hand>>
  /\ UNCHANGED <<boxes, status, vm, for, mine, todo, partial, hasty, faults>>

PowerOn(p) ==
  /\ pc[p] = "power_on"
  /\ \/ Usable(ProbeVmid) /\ Boot(ProbeVmid) /\ Goto(p, "power_off") /\ NoFault
     \/ ((~Usable(ProbeVmid) /\ NoFault) \/ Fault("call")) /\ Goto(p, "destroy") /\ UNCHANGED vm
     \/ Usable(ProbeVmid) /\ Boot(ProbeVmid) /\ Goto(p, "destroy") /\ Fault("late")
  /\ UNCHANGED <<db, locals>>

\* Graceful, then forced; a VM that stays up, or is locked, is left to the teardown.
PowerOff(p) ==
  /\ pc[p] = "power_off"
  /\ \/ Usable(ProbeVmid) /\ vm' = [vm EXCEPT ![ProbeVmid].st = "stopped"] /\ NoFault
     \/ ~Usable(ProbeVmid) /\ UNCHANGED vm /\ NoFault
     \/ (Fault("call") \/ Fault("late")) /\ UNCHANGED vm
  /\ Goto(p, "destroy")
  /\ UNCHANGED <<db, locals>>

DestroyProbe(v) == TearDown(v)

ProbeDestroy(p) ==
  /\ pc[p] = "destroy"
  /\ DestroyProbe(ProbeVmid)
  /\ Goto(p, "clean")
  /\ UNCHANGED <<db, locals>>

\* One transaction: the address the probe leased is free again, whoever has it by
\* now, and the probe's rows are deleted.
ProbeClean(p) ==
  /\ pc[p] = "clean"
  /\ \/ /\ NoFault
        /\ row' = [row EXCEPT ![p] = NoVal]
        /\ lease' = IF hand[p] = NoVal THEN lease ELSE [lease EXCEPT ![hand[p]] = FreeLease]
     \/ Fault("cleanup") /\ UNCHANGED <<row, lease>>
  /\ Goto(p, "done")
  /\ UNCHANGED <<boxes, status, vm, locals>>

ProbeStep(p) ==
  \/ BeginProbe(p) \/ ProbeClone(p) \/ ProbeWait(p) \/ ReadBack(p) \/ RecordProbe(p)
  \/ PowerOn(p) \/ PowerOff(p) \/ ProbeDestroy(p) \/ ProbeClean(p)

=============================================================================
