----------------------------- MODULE SharedNode -----------------------------
(***************************************************************************)
(* Shared labs and probes on one database and one Proxmox node.            *)
(***************************************************************************)
EXTENDS Probes, TLC

CallStep(c) ==
  \/ Accept(c) \/ Admit(c) \/ Reserve(c) \/ LeaseIp(c) \/ Bind(c)
  \/ (c \in Call /\ pc[c] = "clone" /\ StartClone(c, mine[c], "teardown"))
  \/ (c \in Call /\ pc[c] = "cloning" /\ WaitClone(c, mine[c], "teardown"))
  \/ Configure(c) \/ BootBox(c) \/ ConfirmIp(c) \/ Record(c)
  \/ ErrorPath(c) \/ Release(c) \/ Fail(c)
OpStep(o) == DestroyNext(o) \/ DropNext(o) \/ RecordDestroyed(o)

Next ==
  \/ \E c \in Call : CallStep(c) \/ Crash(c) \/ \E l \in Lab : Ask(c, l) \/ Retry(c, l)
  \/ \E o \in Op : OpStep(o) \/ \E l \in Lab : Deprovision(o, l)
  \/ \E p \in Probe : ProbeStep(p) \/ Crash(p)
  \/ \E v \in Vmid : FinishClone(v)

Spec == Init /\ [][Next]_vars

-----------------------------------------------------------------------------
CallLabels ==
  {"idle", "asked", "queued", "reserve", "lease", "bind", "clone", "cloning", "cloned",
   "boot", "confirm", "record", "teardown", "release", "fail", "done", "crashed"}
ProbeLabels ==
  {"idle", "clone", "cloning", "cloned", "record", "power_on", "power_off", "destroy",
   "clean", "done", "crashed"}

\* Every variable has its type, and who binds an address or goes on has one.
TypeOK ==
  /\ boxes \in 0 .. MaxBoxes
  /\ status \in [Lab -> {"none", "pending", "running", "error", "destroyed"}]
  /\ row \in [Owner -> Row \cup {NoVal}]
  /\ lease \in [Ip -> Lease]
  /\ vm \in [Vmid -> Vm \cup {NoVal}]
  /\ \A c \in Call : pc[c] \in CallLabels /\ mine[c] \in Vmid \cup {NoVal}
  /\ \A p \in Probe : pc[p] \in ProbeLabels
  /\ \A o \in Op : pc[o] \in {"idle", "next", "drop", "done"} /\ todo[o] \subseteq Call
  /\ for \in [Call \cup Op -> Lab \cup {NoVal}]
  /\ \A x \in Owner : hand[x] \in Ip \cup {NoVal}
  /\ \A c \in Call : pc[c] \in {"bind", "clone", "cloning", "cloned", "boot", "record"} =>
       mine[c] # NoVal /\ hand[c] # NoVal
  /\ hasty \subseteq Lab /\ partial \subseteq Op
  /\ faults \in [n : 0 .. MaxFaults, kinds : SUBSET FaultKinds]

\* No probe has touched v.
ProbeFree(v) == v # ProbeVmid \/ \A p \in Probe : pc[p] = "idle"

\* What a row says it owns is its own, beside probes that record a vmid nobody
\* reserved for them (models.py:119-133, tasks.py:142-158): no vmid and no address
\* is on two rows, and an address on a row is leased to it.
ReservationsDistinct ==
  \A x, y \in Rows :
    /\ x # y => row[x].vmid # row[y].vmid
    /\ x # y /\ row[x].ip # NoVal => row[x].ip # row[y].ip
    /\ row[x].ip # NoVal => lease[row[x].ip] = [state |-> "leased", vm |-> x]

\* Labs asked for at the same time never run more boxes than
\* PROVISION_MAX_CONCURRENT leaves, though nothing is locked between the test and the
\* count (api.py:122-142, tasks.py:522-532): a lab is written pending before it is
\* tested.  Not promised once a lab in error is retried, which counts nowhere until
\* it runs, or is deprovisioned during its own provision.
CapHonoured ==
  (hasty = {} /\ \A l \in Lab : Cardinality(CallsOf(l)) =< 1) =>
    boxes + Cardinality({l \in Lab : status[l] = "running"}) =< Cap

\* No lab is deprovisioned twice: the second would destroy, by their vmids, VMs whose
\* rows the first deleted and another lab may have reserved since (tasks.py:732-768).
DeprovisionedOnce == \A o, p \in Op : for[o] = for[p] /\ for[o] # NoVal => o = p

\* A lab that is recorded as running has, once its calls are over and until it is
\* deprovisioned, exactly one running row, with its address and its own VM set to
\* that address, retries included (tasks.py:505-512, 624-630).  Not promised while
\* some lab is deprovisioned during its own provision or twice, nor of a lab whose
\* worker died, or could not write, after a call failed: it may have been in the error
\* path of a box already recorded; and not of ProbeVmid beside a probe.
SharedBoxesAreWhole ==
  hasty = {} /\ DeprovisionedOnce =>
  \A l \in Lab :
    /\ status[l] = "running" /\ (\A c \in CallsOf(l) : ~Working(c))
    /\ \A o \in Op : for[o] # l
    /\ "call" \in faults.kinds =>
         "database" \notin faults.kinds /\ \A c \in CallsOf(l) : pc[c] # "crashed"
    =>
    \E x \in RunningRows(l) :
      /\ RunningRows(l) = {x}
      /\ ProbeFree(row[x].vmid) =>
           vm[row[x].vmid] = [by |-> x, st |-> "running", ip |-> row[x].ip]

\* Somebody else has worked with ProbeVmid, of whom each takes what is there for its own.
Disputed(x, v) ==
  /\ v = ProbeVmid
  /\ \E y \in Owner \ {x} : IF y \in Probe THEN pc[y] # "idle" ELSE mine[y] = v

\* A clone of x that was never configured nor started, unless by somebody else.
Bare(x, v) == (vm[v].ip = NoVal /\ ~Running(v)) \/ Disputed(x, v)

\* Failing calls leave no row and no address of a provision that ended in error
\* (tasks.py:488-490), nor of a probe (tasks.py:8-17), and no VM of its own that was ever
\* configured or started.  The "ZERO residue" of the docstrings is more than the code does:
\* a clone whose upid or whose end was lost stays, bare, and a probe does not even try to
\* destroy it.  A breached cap, a failing clean-up, an error read as absence, a crash and
\* a deprovision during the provision leave more.
ZeroResidue ==
  \A x \in Owner :
    pc[x] = "done" /\ faults.kinds \subseteq {"call", "unreachable"}
      /\ (x \in Call => status[for[x]] = "error") /\ hasty = {}
    =>
    /\ x \notin Rows
    /\ \A i \in Ip : lease[i].vm # x
    /\ \A v \in Vmid : Exists(v) /\ vm[v].by = x => Bare(x, v)

\* The error path of a provision destroys no VM whose vmid another lab or a probe
\* has on record (tasks.py:647-682), as long as no lab is deprovisioned during
\* its own provision.
TeardownSparesOthers ==
  [][hasty = {} => \A c \in Call : CallStep(c) =>
       \A v \in Vmid : Exists(v) /\ vm'[v] = NoVal =>
         \A x \in Rows : row[x].vmid = v => x = c]_vars

\* A provision that ended has closed its lab, none stays pending, whatever call to the
\* node fails inside of the try (tasks.py:488-490, 684-692).  Not promised when the node
\* cannot be asked for its VMs or the audit entry before the try cannot be written
\* (tasks.py:517-538), nor when a write of the error path raises, which skips the status
\* (tasks.py:685-692).
EndedMeansClosed ==
  \A c \in Call :
    pc[c] = "done" /\ faults.kinds \cap {"unreachable", "database"} = {} =>
      status[for[c]] # "pending"

\* Labs and calls are interchangeable, and so are any two states they differ in.
Symmetry == Permutations(Lab) \cup Permutations(Call)

=============================================================================
