------------------------------- MODULE Reaper -------------------------------
(***************************************************************************)
(* reap_orphans (reaper.py:104-249), queued by beat every ten minutes.  A  *)
(* sweep lists the node and reads the reservations once, then works from   *)
(* that snapshot: orphan VMs are destroyed, reservations without a VM are  *)
(* dropped and their lab closed, unbound leases are freed.                 *)
(***************************************************************************)
EXTENDS BoxState

SweepLocals == UNCHANGED <<hand, att, was, numbers>>
NodeKept == UNCHANGED <<vm, ages, faults>>

NoSnap == [live |-> {}, reserved |-> {}, oldRunning |-> {}, oldLab |-> {}]

-----------------------------------------------------------------------------
(* The snapshot *)

\* `now` is taken and the node is listed; the listing carries each VM's uptime.
ListNode(s) ==
  /\ pc[s] = "idle"
  /\ snap' = [snap EXCEPT ![s] = [live |-> Listed, reserved |-> {},
                oldRunning |-> {v \in oldVm : Running(v)}, oldLab |-> oldLab]]
  /\ Goto(s, "reserved")
  /\ UNCHANGED <<db, obj, todo>> /\ NodeKept /\ SweepLocals

ReservedVmids == RowVmids

ReadReserved(s) ==
  /\ pc[s] = "reserved"
  /\ snap' = [snap EXCEPT ![s].reserved = ReservedVmids]
  /\ todo' = [todo EXCEPT ![s] = snap[s].live \ ReservedVmids]
  /\ Goto(s, "orphans")
  /\ UNCHANGED <<db, obj>> /\ NodeKept /\ SweepLocals

-----------------------------------------------------------------------------
(* Phase 1: orphan VMs *)

\* vm_reap_decision on the age _vm_age_seconds resolves: the uptime in the
\* listing, or the clone task's start as the node knows it now.
\* (bug: only the uptime is looked at)
AgedByUptime(s, v) == v \in snap[s].oldRunning
Aged(s, v) == v \in snap[s].oldRunning \cup oldVm

SkipYoung(s) ==
  /\ pc[s] = "orphans"
  /\ \E v \in todo[s] :
       /\ ~Aged(s, v)
       /\ todo' = [todo EXCEPT ![s] = @ \ {v}]
  /\ UNCHANGED <<db, pc, obj, snap>> /\ NodeKept /\ SweepLocals

\* Force stop and destroy.  A destroy that fails, on a VM that is locked or is
\* gone, raises out of the task: the rest of the sweep does not happen.
KillOrphan(s) ==
  /\ pc[s] = "orphans"
  /\ \E v \in todo[s] :
       /\ Aged(s, v)
       /\ \/ /\ Destroyable(v) /\ Exists(v)
             /\ Destroy(v)
             /\ obj' = [obj EXCEPT ![s] = [id |-> NoVal, vmid |-> v]]
             /\ Goto(s, "unlease")
             /\ NoFault
             /\ UNCHANGED <<snap, todo>>
          \/ /\ ((~Destroyable(v) \/ ~Exists(v)) /\ NoFault) \/ Fault("destroy")
             /\ Goto(s, "idle")
             /\ snap' = [snap EXCEPT ![s] = NoSnap]
             /\ todo' = [todo EXCEPT ![s] = {}]
             /\ UNCHANGED <<vm, obj>>
  /\ UNCHANGED <<db, ages>> /\ SweepLocals

\* "release any lease still bound to this vmid's (now-gone) reservation": bound to
\* whatever row holds the vmid now.  (bug: those of every vmid on the list)
LeasesOfListed(s) == {i \in Ip : \E id \in Rows : row[id].vmid \in snap[s].live /\ lease[i].vm = id}
LeasesOfOrphan(s) == {i \in Ip : \E id \in Rows : row[id].vmid = obj[s].vmid /\ lease[i].vm = id}

Unlease(s) ==
  /\ pc[s] = "unlease"
  /\ lease' = [i \in Ip |-> IF i \in LeasesOfOrphan(s) THEN FreeLease ELSE lease[i]]
  /\ todo' = [todo EXCEPT ![s] = @ \ {obj[s].vmid}]
  /\ obj' = [obj EXCEPT ![s] = NoVal]
  /\ Goto(s, "orphans")
  /\ UNCHANGED <<status, row, snap>> /\ NodeKept /\ SweepLocals

-----------------------------------------------------------------------------
(* Phase 2: stale reservations *)

\* Lab age against the grace, by the sweep's clock.  (bug: the comparison the wrong
\* way round)
YoungLab(s, id) == id[1] \notin snap[s].oldLab
OldLab(s, id) == id[1] \in snap[s].oldLab

\* The rows are read now, the VMs and the clock are those of the snapshot.
StaleQuery(s) ==
  /\ pc[s] = "orphans" /\ todo[s] = {}
  /\ todo' = [todo EXCEPT ![s] = {id \in Rows : row[id].vmid \notin snap[s].live}]
  /\ Goto(s, "stale")
  /\ UNCHANGED <<db, obj, snap>> /\ NodeKept /\ SweepLocals

SkipRecent(s) ==
  /\ pc[s] = "stale"
  /\ \E id \in todo[s] :
       /\ ~OldLab(s, id)
       /\ todo' = [todo EXCEPT ![s] = @ \ {id}]
  /\ UNCHANGED <<db, pc, obj, snap>> /\ NodeKept /\ SweepLocals

\* release_reservation ...
StaleRelease(s) ==
  /\ pc[s] = "stale"
  /\ \E id \in todo[s] :
       /\ OldLab(s, id)
       /\ DeleteRow(id)
       /\ obj' = [obj EXCEPT ![s] = [id |-> id, vmid |-> NoVal]]
       /\ todo' = [todo EXCEPT ![s] = @ \ {id}]
  /\ Goto(s, "mark")
  /\ UNCHANGED <<status, snap>> /\ NodeKept /\ SweepLocals

\* ... and the lab's status, in a transaction of its own.
StaleMark(s) ==
  /\ pc[s] = "mark"
  /\ status' = [status EXCEPT ![obj[s].id[1]] = "error"]
  /\ obj' = [obj EXCEPT ![s] = NoVal]
  /\ Goto(s, "stale")
  /\ UNCHANGED <<row, lease, sweeps>> /\ NodeKept /\ SweepLocals

-----------------------------------------------------------------------------
(* Phase 3: orphaned leases *)

\* The bind follows lease_ip() at once, so a lease still in hand is young.
LeaseQuery(s) ==
  /\ pc[s] = "stale" /\ todo[s] = {}
  /\ todo' = [todo EXCEPT ![s] =
       {i \in Ip : lease[i] = [FreeLease EXCEPT !.state = "leased"] /\ ~InHand(i)}]
  /\ Goto(s, "leases")
  /\ UNCHANGED <<db, obj, snap>> /\ NodeKept /\ SweepLocals

LeaseRelease(s) ==
  /\ pc[s] = "leases"
  /\ \E i \in todo[s] :
       /\ lease' = [lease EXCEPT ![i] = FreeLease]
       /\ todo' = [todo EXCEPT ![s] = @ \ {i}]
  /\ UNCHANGED <<status, row, pc, obj, snap>> /\ NodeKept /\ SweepLocals

SweepEnds(s) ==
  /\ pc[s] = "leases" /\ todo[s] = {}
  /\ snap' = [snap EXCEPT ![s] = NoSnap]
  /\ Goto(s, "idle")
  /\ UNCHANGED <<db, obj, todo>> /\ NodeKept /\ SweepLocals

-----------------------------------------------------------------------------
(* Time: VMs and labs grow older than the grace of 900 s, as a rule after the  *)
(* provision ended.  The waits for a clone (900 s), for the guest's address    *)
(* (600 s) and for a destroy (300 s) may add up to more: the fault "slow".     *)

OutlivesGrace(t) == InFlight(t) /\ Fault("slow")

AgeVm(v) ==
  /\ Sweep # {} /\ Present(v) /\ v \notin oldVm
  /\ \/ (\A t \in Task : vm[v].by = t => ~InFlight(t)) /\ NoFault
     \/ \E t \in Task : vm[v].by = t /\ OutlivesGrace(t)
  /\ oldVm' = oldVm \cup {v}
  /\ UNCHANGED <<db, vm, oldLab, pc, obj, sweeps>> /\ SweepLocals

AgeLab(t) ==
  /\ Sweep # {} /\ status[t] # "none" /\ t \notin oldLab
  /\ (~InFlight(t) /\ NoFault) \/ OutlivesGrace(t)
  /\ oldLab' = oldLab \cup {t}
  /\ UNCHANGED <<db, vm, oldVm, pc, obj, sweeps>> /\ SweepLocals

SweepStep(s) ==
  \/ ListNode(s) \/ ReadReserved(s) \/ SkipYoung(s) \/ KillOrphan(s) \/ Unlease(s)
  \/ StaleQuery(s) \/ SkipRecent(s) \/ StaleRelease(s) \/ StaleMark(s)
  \/ LeaseQuery(s) \/ LeaseRelease(s) \/ SweepEnds(s)

=============================================================================
