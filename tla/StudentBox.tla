----------------------------- MODULE StudentBox -----------------------------
(***************************************************************************)
(* The life of the students' persistent boxes: provisions, starts, stops,  *)
(* deprovisions and reaper sweeps on one database and one Proxmox node.    *)
(***************************************************************************)
EXTENDS Provision, Power, Reaper

Init ==
  /\ status = [l \in Task |-> "none"]
  /\ row = [id \in RowId |-> NoVal]
  /\ lease = [i \in Ip |-> FreeLease]
  /\ vm \in [Vmid -> {NoVal} \cup {NewVm(NoVal, st) : st \in StrayKinds}]
  /\ oldVm = {} /\ oldLab = {}
  /\ pc = [p \in Proc |-> IF p \in Task THEN "queued" ELSE "idle"]
  /\ obj = [p \in Proc |-> NoVal]
  /\ index = [s \in Student |-> NoVal] /\ pick = [t \in Task |-> NoVal]
  /\ hand = [t \in Task |-> NoVal]
  /\ att = [t \in Task |-> 1]
  /\ was = [o \in Op |-> NoVal]
  /\ snap = [s \in Sweep |-> NoSnap]
  /\ todo = [s \in Sweep |-> {}]
  /\ faults = [n |-> 0, kinds |-> {}]

Next ==
  \/ \E t \in Task : ProvisionStep(t) \/ CrashProvision(t) \/ AgeLab(t)
  \/ \E o \in Op :
       \/ OpStep(o) \/ CrashOp(o)
       \/ \E kind \in OpKinds, l \in Task : Begin(o, kind, l)
  \/ \E s \in Sweep : SweepStep(s)
  \/ \E v \in Vmid : FinishClone(v) \/ AgeVm(v)

\* A worker runs every task it has taken and beat keeps the sweeps coming;
\* Proxmox finishes its clones and time passes.  Nobody is obliged to call
\* start, stop or deprovision, or to crash.
Fairness ==
  /\ \A t \in Task : WF_vars(ProvisionStep(t)) /\ WF_vars(AgeLab(t))
  /\ \A o \in Op : WF_vars(OpStep(o))
  /\ \A s \in Sweep : WF_vars(SweepStep(s))
  /\ \A v \in Vmid : WF_vars(FinishClone(v)) /\ WF_vars(AgeVm(v))

Spec == Init /\ [][Next]_vars

FairSpec == Spec /\ Fairness

-----------------------------------------------------------------------------
(* Types *)

ProvisionLabels ==
  {"queued", "number", "save_number", "admit", "create", "reserve", "lease", "bind", "heal", "reap", "clone", "cloning",
   "clone_failed", "reap_failed", "drop", "configure", "boot", "confirm", "record",
   "teardown", "release", "fail", "done", "crashed"}
OpLabels ==
  {"idle", "start", "started", "stop", "stopped", "deprovision", "release",
   "release_partial", "destroyed", "done"}
SweepLabels == {"idle", "reserved", "orphans", "unlease", "stale", "mark", "leases"}

StatusSet == {"none", "pending", "running", "stopped", "error", "destroyed"}
RowSet == [vmid : Vmid, ip : Ip \cup {NoVal}]
LeaseSet == [state : {"free", "leased"}, vm : RowId \cup {NoVal}]
ObjSet == [id : RowId \cup {NoVal}, vmid : Vmid \cup {NoVal}]
WasSet == [kind : OpKinds, lab : Task, status : StatusSet, early : BOOLEAN]
ASSUME NoRecordAssumption == NoVal \notin RowSet /\ NoVal \notin ObjSet /\ NoVal \notin WasSet

\* Every variable has its type, and a lab never has two rows: what start, stop
\* and deprovision rely on when they take "the" row of a lab.
TypeOK ==
  /\ status \in [Task -> StatusSet]
  /\ row \in [RowId -> RowSet \cup {NoVal}]
  /\ \A l \in Task : Cardinality(LabRows(l)) =< 1
  /\ lease \in [Ip -> LeaseSet]
  /\ vm \in [Vmid -> VmSet \cup {NoVal}]
  /\ oldVm \subseteq Vmid /\ oldLab \subseteq Task
  /\ \A p \in Proc :
       pc[p] \in IF p \in Task THEN ProvisionLabels
                 ELSE IF p \in Op THEN OpLabels ELSE SweepLabels
  /\ obj \in [Proc -> ObjSet \cup {NoVal}]
  /\ index \in [Student -> Nat \cup {NoVal}] /\ pick \in [Task -> Nat \cup {NoVal}]
  /\ hand \in [Task -> Ip \cup {NoVal}]
  /\ att \in [Task -> 1 .. Attempts]
  /\ was \in [Op -> WasSet \cup {NoVal}]
  /\ \A s \in Sweep : snap[s].live \cup snap[s].reserved \cup snap[s].oldRunning \subseteq Vmid
  /\ \A s \in Sweep : todo[s] \subseteq Vmid \cup RowId \cup Ip
  /\ faults \in [n : 0 .. MaxFaults, kinds : SUBSET FaultKinds]

-----------------------------------------------------------------------------
(* Safety *)

\* The calls that have begun to deprovision lab l.
Deprovisions(l) ==
  {o \in Op : was[o] # NoVal /\ was[o].kind = "deprovision" /\ was[o].lab = l}

\* The lab's row names v and the VM under v is the one this lab cloned.
OwnVm(l, v) == Exists(v) /\ vm[v].by = l

\* uniq_active_per_student_box and the two places that lose to it
\* (models.py:79-92, tasks.py:972-983): whatever provisions, starts, stops and
\* deprovisions overlap, a student never has two active boxes.
OneBoxPerStudent ==
  \A l, k \in Task :
    l # k /\ StudentOf[l] = StudentOf[k] => ~(status[l] \in Active /\ status[k] \in Active)

\* assign_student_index: however the calls of all students interleave, no two
\* students have one number (allocation.py:66-91) ...
NumbersDistinct ==
  \A s, u \in Student : s # u /\ index[s] # NoVal => index[s] # index[u]

\* ... and a number, which names the student's machines, never changes once given,
\* also when two calls for the student look for one at the same time.
NumbersStable ==
  [][\A s \in Student : index[s] # NoVal => index'[s] = index[s]]_vars

\* No lab has been deprovisioned while it was being provisioned.  Nothing prevents
\* that (api.py:257-273); the provision then works on without a reservation, under a
\* vmid that may be given to another student meanwhile.
NoneHasty == \A o \in Op : was[o] # NoVal /\ was[o].kind = "deprovision" => ~was[o].early

\* No lab is deprovisioned by two calls.
DeprovisionedOnce == \A l \in Task : \A o, q \in Deprovisions(l) : o = q

\* Once its provision has ended, a box recorded as running or stopped is whole: a
\* row, an address that is leased to that row, and under its vmid the VM this
\* very lab cloned, set to that address and seen with it when it is up
\* (tasks.py:1138-1143), until somebody begins to deprovision it.  The student may
\* have pressed start and stop all through the provision (api.py:417-438).  Not
\* promised when some lab is deprovisioned twice (DeprovisionSparesOthers) or during
\* its provision, nor when the error path of a box already recorded could not write.
BoxesAreWhole ==
  DeprovisionedOnce /\ NoneHasty /\ "database" \notin faults.kinds =>
  \A l \in Task :
    pc[l] = "done" /\ status[l] \in {"running", "stopped"} /\ Deprovisions(l) = {} =>
    \E id \in LabRows(l) :
      /\ row[id].ip # NoVal
      /\ lease[row[id].ip] = [state |-> "leased", vm |-> id]
      /\ OwnVm(l, row[id].vmid)
      /\ vm[row[id].vmid].ip = row[id].ip
      /\ Running(row[id].vmid) => vm[row[id].vmid].guest = row[id].ip

\* What a reservation says it owns is its own: no vmid and no address is written
\* on two rows, and an address on a row is bound to that row.
RowsDistinct ==
  \A id, k \in Rows :
    /\ id # k => row[id].vmid # row[k].vmid
    /\ id # k /\ row[id].ip # NoVal => row[id].ip # row[k].ip
    /\ row[id].ip # NoVal => lease[row[id].ip] = [state |-> "leased", vm |-> id]

\* The pool of SlotPool as the tasks use it: a row is a reservation, and an address is
\* out of the pool from lease_ip() until release.
Slots == [id \in RowId |-> IF row[id] = NoVal THEN NoVal ELSE row[id].vmid]
Addresses == [id \in RowId |-> IF row[id] = NoVal THEN NoVal ELSE row[id].ip]
LeasedIps == {i \in Ip : lease[i].state = "leased"}
Pool == INSTANCE SlotPool WITH Req <- RowId, slot <- Slots, addr <- Addresses, out <- LeasedIps

\* Whatever provisions, retries, deprovisions and dead workers do, the tables of the boxes
\* change as the atomic pool does: a VMID or an address passes on only after it was
\* given back, the two of a row are given back together, and an address is given to a row
\* that has none (allocation.py:1-18, tasks.py:1011-1022).
BoxesUsePool == Pool!Spec

\* A box on record keeps its reservation, though a deprovision or, when the provision
\* outlives its grace, the reaper takes it away under a provision at work: once the
\* provision has ended, a lab that is recorded as running or stopped has its row, unless
\* whoever deleted the row is about to write the lab's status (tasks.py:1130-1143,
\* 1239-1243, reaper.py:215-224).  Not promised when that writer dies or cannot write,
\* nor of a deprovision that misread the node and writes no status.
RunningHasRow ==
  faults.kinds \cap {"crash", "database", "misread"} = {} =>
  \A l \in Task :
    pc[l] = "done" /\ status[l] \in {"running", "stopped"} =>
      \/ LabRows(l) # {}
      \/ \E s \in Sweep : pc[s] = "mark" /\ obj[s].id[1] = l
      \/ \E o \in Op : pc[o] = "destroyed" /\ was[o].lab = l

\* A deprovision destroys nothing whose vmid is reserved for another lab
\* (tasks.py:1336-1339).
DeprovisionSparesOthers ==
  [][\A o \in Op : OpStep(o) =>
       \A v \in Vmid : Exists(v) /\ vm'[v] = NoVal =>
         \A id \in Rows : row[id].vmid = v => id[1] = was[o].lab]_vars

\* However many calls fail in whatever places, a provision that ended in error left no
\* row, no lease and, on the node, no box that was ever configured or started with its
\* address.  The docstring's "ZERO residue" (tasks.py:913-915) is more than the code
\* does: a clone whose upid or whose end was lost stays, bare, for the reaper.  A failing
\* destroy or a breached cap leaves more, and so may a deprovision during a provision.
NoResidueAfterError ==
  NoneHasty =>
  \A t \in Task : pc[t] = "done" /\ status[t] = "error" /\ faults.kinds \subseteq {"call"} =>
    /\ LabRows(t) = {}
    /\ \A i \in Ip : lease[i].vm = NoVal \/ lease[i].vm[1] # t
    /\ \A v \in Vmid : OwnVm(t, v) => vm[v].ip = NoVal

\* DESTROYED means gone: once recorded of a box, the lab has no row, and its VM is
\* not there (tasks.py:1336-1339), also when a destroy failed on the way.  Not
\* promised of a lab that had ended in error, whose VM a failed teardown may have
\* left; nor when the provision's worker died, or its error path could not write, where
\* a call, a clone or a destroy had failed it; nor when Proxmox answered a status query
\* with an error, which reads as absence; nor when a lab is deprovisioned during its
\* provision or a provision outlives the reaper's grace.
DestroyedMeansGone ==
  NoneHasty /\ faults.kinds \cap {"misread", "slow"} = {} =>
  \A l \in Task :
    /\ status[l] = "destroyed"
    /\ \A o \in Deprovisions(l) : was[o].status # "error"
    /\ pc[l] = "crashed" \/ "database" \in faults.kinds =>
         faults.kinds \cap {"call", "destroy", "late"} = {}
    =>
    /\ LabRows(l) = {}
    /\ obj[l] # NoVal => ~OwnVm(l, V(l))

\* A sweep frees no address of a reservation it saw and leaves in place: after the
\* destroy of an orphan it frees what is "still bound to this vmid's (now-gone)
\* reservation" (reaper.py:189-192).  A reservation made since may lose its address.
ReaperSparesAddresses ==
  [][\A s \in Sweep, id \in Rows :
       SweepStep(s) /\ row'[id] # NoVal /\ row[id].vmid \in snap[s].reserved =>
         \A i \in Ip : lease[i].vm = id => lease'[i] = lease[i]]_vars

-----------------------------------------------------------------------------
(* Liveness *)

\* A provision that began ends, whatever fails.
ProvisionEnds ==
  \A t \in Task : InFlight(t) ~> pc[t] = "done"

\* The self-heal gets past what an earlier incident left under the vmid: while
\* nothing else fails, a provision that was admitted ends with a running box
\* (tasks.py:856-860).
ProvisionHeals ==
  \A t \in Task : pc[t] = "create" ~> status[t] = "running" \/ faults.n > 0

\* A lab is not left pending for ever: its provision or the reaper closes it.
PendingIsResolved ==
  \A l \in Task : status[l] = "pending" ~> status[l] # "pending"

\* A VM nobody reserves is destroyed in the end, or somebody reserves its vmid
\* (reaper.py:128-200).
OrphansGo ==
  \A v \in Vmid : Exists(v) /\ v \notin RowVmids ~> ~Exists(v) \/ v \in RowVmids

\* A reservation without a VM is dropped in the end (reaper.py:203-231).
StaleRowsGo ==
  \A l \in Task : pc[l] = "crashed" /\ LabRows(l) # {} /\ (\A id \in LabRows(l) : ~Exists(row[id].vmid))
                   ~> \A id \in LabRows(l) : Exists(row[id].vmid)

=============================================================================
