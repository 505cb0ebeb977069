------------------------- MODULE SharedNode_proofs -------------------------
(***************************************************************************)
(* Proofs about SharedNode, for any number of labs, calls, deprovisions,   *)
(* probes, VMIDs and addresses and any faults.                             *)
(*                                                                         *)
(* Typed is inductive.  That reservations are distinct needs to know who   *)
(* has an address that is on no row yet (BindersAlone) and that a probe    *)
(* frees what it still has (ProbesOwn).                                    *)
(***************************************************************************)
EXTENDS SharedNode, TLAPS

LabStatus == {"none", "pending", "running", "error", "destroyed"}
Labels == CallLabels \cup ProbeLabels \cup {"next", "drop"}

DbTyped ==
  /\ boxes \in 0 .. MaxBoxes
  /\ status \in [Lab -> LabStatus]
  /\ row \in [Owner -> Row \cup {NoVal}]
  /\ lease \in [Ip -> Lease]
VmTyped == vm \in [Vmid -> Vm \cup {NoVal}]
FaultsTyped == faults \in [n : 0 .. MaxFaults, kinds : SUBSET FaultKinds]
NotesTyped == hasty \subseteq Lab /\ partial \subseteq Op
PcTyped ==
  /\ pc \in [Proc -> Labels]
  /\ \A c \in Call : pc[c] \in CallLabels
  /\ \A p \in Probe : pc[p] \in ProbeLabels
  /\ \A o \in Op : pc[o] \in {"idle", "next", "drop", "done"}
ForTyped ==
  /\ for \in [Call \cup Op -> Lab \cup {NoVal}]
  /\ \A x \in Call \cup Op : pc[x] # "idle" => for[x] \in Lab
OpsTyped ==
  /\ todo \in [Op -> SUBSET Call]
  /\ \A o \in Op : pc[o] = "drop" => hand[o] \in Call

\* Who binds an address or goes on with a box has a vmid and an address.
Holding == {"bind", "clone", "cloning", "cloned", "boot", "confirm", "record"}
HandsTyped ==
  /\ mine = [p \in Call \cup Op |-> mine[p]]
  /\ hand \in [Proc -> Ip \cup Call \cup {NoVal}]
  /\ \A c \in Call : mine[c] \in Vmid \cup {NoVal}
  /\ \A x \in Owner : hand[x] \in Ip \cup {NoVal}
  /\ \A c \in Call : pc[c] \in Holding \cup {"lease"} => mine[c] # NoVal
  /\ \A c \in Call : pc[c] \in Holding => hand[c] # NoVal

Typed ==
  /\ DbTyped /\ VmTyped /\ FaultsTyped /\ NotesTyped
  /\ PcTyped /\ ForTyped /\ OpsTyped /\ HandsTyped

LEMMA TypedIsTypeOK == Typed => TypeOK
  BY DEF Typed, TypeOK, DbTyped, VmTyped, FaultsTyped, NotesTyped, PcTyped, ForTyped, OpsTyped,
         HandsTyped, LabStatus, Holding

-----------------------------------------------------------------------------
(* Type correctness *)

LEMMA ProbeVmidInRange == ProbeVmid \in Vmid
  BY SharedFirst DEF ProbeVmid

\* Who is who: calls, probes and deprovisions are different processes.
LEMMA Actors ==
  /\ Owner \subseteq Proc /\ Call \cup Op \subseteq Proc /\ NoVal \notin Proc
  /\ \A c \in Call : c \in Owner /\ c \notin Probe /\ c \notin Op
  /\ \A p \in Probe : p \in Owner /\ p \notin Call /\ p \notin Op
  /\ \A o \in Op : o \notin Owner
  /\ NoVal \notin Vmid /\ NoVal \notin Ip /\ NoVal \notin Lab /\ NoVal \notin Row /\ NoVal \notin Vm
  BY SharedNull, SharedActors DEF Owner, Proc

\* A fault is counted (SharedLab's Fault).
LEMMA FaultStep == FaultsTyped /\ [Next]_vars => FaultsTyped'
<1> SUFFICES ASSUME FaultsTyped, [Next]_vars PROVE FaultsTyped'
  OBVIOUS
<1>1. ASSUME NEW k, Fault(k) PROVE FaultsTyped'
  BY <1>1, SharedSizes DEF Fault, FaultsTyped
<1>2. CASE UNCHANGED faults
  BY <1>2 DEF FaultsTyped
<1>3. ASSUME NEW c \in Call, CallStep(c) PROVE (\E k : Fault(k)) \/ UNCHANGED faults
  BY <1>3 DEF CallStep, Accept, Admit, Reserve, LeaseIp, Bind, StartClone, WaitClone, Configure,
              BootBox, ConfirmIp, Record, ErrorPath, TearDown, Release, Fail, NoFault
<1>4. ASSUME NEW p \in Probe, ProbeStep(p) PROVE (\E k : Fault(k)) \/ UNCHANGED faults
  BY <1>4 DEF ProbeStep, BeginProbe, ProbeClone, StartClone, ProbeWait, WaitClone, ReadBack,
              RecordProbe, PowerOn, PowerOff, ProbeDestroy, DestroyProbe, TearDown, ProbeClean, NoFault
<1>5. ASSUME NEW o \in Op, OpStep(o) PROVE (\E k : Fault(k)) \/ UNCHANGED faults
  BY <1>5 DEF OpStep, DestroyNext, DropNext, RecordDestroyed, NoFault
<1> QED
  BY <1>1, <1>2, <1>3, <1>4, <1>5 DEF Next, vars, Ask, Retry, Crash, Deprovision, FinishClone

\* Who takes a step goes to a label of its own kind, and nobody else moves.
LEMMA Moves ==
  ASSUME PcTyped, [Next]_vars
  PROVE  \/ pc' = pc
         \/ \E c \in Call, l \in CallLabels \ {"idle"} : pc' = [pc EXCEPT ![c] = l]
         \/ \E p \in Probe, l \in ProbeLabels \ {"idle"} : pc' = [pc EXCEPT ![p] = l]
         \/ \E o \in Op, l \in {"next", "drop", "done"} : pc' = [pc EXCEPT ![o] = l]
<1>1. ASSUME NEW c \in Call, CallStep(c)
      PROVE  \E l \in CallLabels \ {"idle"} : pc' = [pc EXCEPT ![c] = l]
  <2>1. \E l \in {"queued", "crashed", "done", "reserve", "lease", "teardown", "bind", "clone",
                  "cloning", "cloned", "boot", "confirm", "record", "release", "fail"} : Goto(c, l)
    <3>1. CASE Accept(c) \/ Admit(c) \/ Reserve(c) \/ LeaseIp(c) \/ Bind(c)
      BY <3>1 DEF Accept, Admit, Reserve, LeaseIp, NothingToLease, Bind
    <3>2. CASE \/ StartClone(c, mine[c], "teardown") \/ WaitClone(c, mine[c], "teardown")
               \/ Configure(c) \/ BootBox(c)
      BY <3>2 DEF StartClone, WaitClone, Configure, BootBox
    <3>3. CASE ConfirmIp(c) \/ Record(c) \/ ErrorPath(c) \/ Release(c) \/ Fail(c)
      BY <3>3 DEF ConfirmIp, Record, ErrorPath, Release, Fail
    <3> QED
      BY <1>1, <3>1, <3>2, <3>3 DEF CallStep
  <2> QED
    BY <2>1 DEF Goto, CallLabels
<1>2. ASSUME NEW p \in Probe, ProbeStep(p)
      PROVE  \E l \in ProbeLabels \ {"idle"} : pc' = [pc EXCEPT ![p] = l]
  <2>1. \E l \in {"clone", "cloning", "cloned", "record", "power_on", "power_off", "destroy",
                  "clean", "done"} : Goto(p, l)
    BY <1>2 DEF ProbeStep, BeginProbe, ProbeClone, StartClone, ProbeWait, WaitClone, ReadBack,
                RecordProbe, PowerOn, PowerOff, ProbeDestroy, ProbeClean
  <2> QED
    BY <2>1 DEF Goto, ProbeLabels
<1>3. ASSUME NEW o \in Op, OpStep(o)
      PROVE  pc' = pc \/ \E l \in {"next", "drop", "done"} : pc' = [pc EXCEPT ![o] = l]
  BY <1>3 DEF OpStep, DestroyNext, DropNext, RecordDestroyed, Goto
<1> QED
  BY <1>1, <1>2, <1>3
     DEF Next, vars, Ask, Retry, Crash, Deprovision, FinishClone, Goto, CallLabels, ProbeLabels

LEMMA PcStep == PcTyped /\ [Next]_vars => PcTyped'
<1> SUFFICES ASSUME PcTyped, [Next]_vars PROVE PcTyped'
  OBVIOUS
<1>1. CASE pc' = pc
  BY <1>1 DEF PcTyped
<1>2. ASSUME NEW c \in Call, NEW l \in CallLabels, pc' = [pc EXCEPT ![c] = l] PROVE PcTyped'
  BY <1>2, Actors DEF PcTyped, Labels
<1>3. ASSUME NEW p \in Probe, NEW l \in ProbeLabels, pc' = [pc EXCEPT ![p] = l] PROVE PcTyped'
  BY <1>3, Actors DEF PcTyped, Labels
<1>4. ASSUME NEW o \in Op, NEW l \in {"next", "drop", "done"}, pc' = [pc EXCEPT ![o] = l]
      PROVE  PcTyped'
  BY <1>4, Actors DEF PcTyped, Labels, CallLabels
<1> QED
  BY <1>1, <1>2, <1>3, <1>4, Moves

LEMMA ForStep == PcTyped /\ ForTyped /\ [Next]_vars => ForTyped'
<1> SUFFICES ASSUME PcTyped, ForTyped, [Next]_vars PROVE ForTyped'
  OBVIOUS
<1> USE Actors
<1>1. ASSUME NEW x \in Call \cup Op, NEW l \in Lab, for' = [for EXCEPT ![x] = l],
             NEW v, pc' = [pc EXCEPT ![x] = v]
      PROVE  ForTyped'
  BY <1>1 DEF ForTyped, PcTyped
<1>2. ASSUME for' = for, NEW x \in Proc, NEW v,
             pc[x] # "idle" \/ x \in Probe, pc' = [pc EXCEPT ![x] = v]
      PROVE  ForTyped'
  BY <1>2 DEF ForTyped, PcTyped
<1>3. ASSUME NEW c \in Call, CallStep(c)
      PROVE  for' = for /\ pc[c] # "idle" /\ \E l : pc' = [pc EXCEPT ![c] = l]
  <2>1. pc[c] # "idle"
    BY <1>3 DEF CallStep, Accept, Admit, Reserve, LeaseIp, Bind, StartClone, WaitClone, Configure,
              BootBox, ConfirmIp, Record, ErrorPath, Release, Fail
  <2>2. for' = for
    BY <1>3 DEF CallStep, Accept, Admit, Reserve, LeaseIp, Bind, StartClone, WaitClone, Configure,
              BootBox, ConfirmIp, Record, ErrorPath, Release, Fail, locals
  <2>3. \E l : Goto(c, l)
    BY <1>3 DEF CallStep, Accept, Admit, Reserve, LeaseIp, NothingToLease, Bind, StartClone,
              WaitClone, Configure, BootBox, ConfirmIp, Record, ErrorPath, Release, Fail
  <2> QED
    BY <2>1, <2>2, <2>3 DEF Goto
<1>4. ASSUME NEW p \in Probe, ProbeStep(p)
      PROVE  for' = for /\ \E l : pc' = [pc EXCEPT ![p] = l]
  BY <1>4 DEF ProbeStep, BeginProbe, ProbeClone, StartClone, ProbeWait, WaitClone, ReadBack,
              RecordProbe, PowerOn, PowerOff, ProbeDestroy, ProbeClean, locals, Goto
<1>5. ASSUME NEW o \in Op, OpStep(o)
      PROVE  for' = for /\ pc[o] # "idle" /\ (pc' = pc \/ \E l : pc' = [pc EXCEPT ![o] = l])
  BY <1>5 DEF OpStep, DestroyNext, DropNext, RecordDestroyed, locals, Goto
<1>6. ASSUME NEW x \in Owner, Crash(x) PROVE ForTyped'
  BY <1>2, <1>6 DEF Crash, Goto, locals
<1>7. CASE for' = for /\ pc' = pc
  BY <1>7 DEF ForTyped
<1> QED
  BY <1>1, <1>2, <1>3, <1>4, <1>5, <1>6, <1>7
     DEF Next, vars, Ask, Retry, Deprovision, FinishClone, Goto, locals, Owner

\* DeleteRow, which frees what is bound to the row (tasks.py:684-690, 757-768).
LEMMA DeleteRowTyped ==
  ASSUME DbTyped, NEW x \in Owner, DeleteRow(x)
  PROVE  row' \in [Owner -> Row \cup {NoVal}] /\ lease' \in [Ip -> Lease]
  BY DEF DeleteRow, LeasesWithout, FreeLease, DbTyped, Lease

LEMMA DbStep == DbTyped /\ PcTyped /\ ForTyped /\ OpsTyped /\ HandsTyped /\ [Next]_vars => DbTyped'
<1> SUFFICES ASSUME DbTyped, PcTyped, ForTyped, OpsTyped, HandsTyped, [Next]_vars PROVE DbTyped'
  OBVIOUS
<1> USE Actors
<1>1. ASSUME NEW c \in Call, CallStep(c) PROVE DbTyped'
  <2>1. CASE Accept(c) \/ Admit(c) \/ Fail(c)
    <3>1. for[c] \in Lab
      BY <2>1 DEF ForTyped, Accept, Admit, Fail
    <3> QED
      BY <2>1, <3>1 DEF Accept, Admit, Fail, SetStatus, RecordError, DbTyped, LabStatus
  <2>2. CASE Reserve(c)
    <3>1. ASSUME NEW v \in Vmid PROVE [vmid |-> v, ip |-> NoVal, running |-> FALSE] \in Row
      BY DEF Row
    <3>2. UNCHANGED row \/ \E v \in Vmid :
            row' = [row EXCEPT ![c] = [vmid |-> v, ip |-> NoVal, running |-> FALSE]]
      BY <2>2 DEF Reserve, FreeVmids
    <3>3. row' \in [Owner -> Row \cup {NoVal}] /\ UNCHANGED <<boxes, status, lease>>
      BY <2>2, <3>1, <3>2 DEF Reserve, DbTyped
    <3> QED
      BY <3>3 DEF DbTyped
  <2>3. CASE LeaseIp(c)
    <3>1. ASSUME NEW i \in Ip PROVE [lease[i] EXCEPT !.state = "leased"] \in Lease
      BY DEF DbTyped, Lease
    <3> QED
      BY <2>3, <3>1 DEF LeaseIp, FreeLeases, DbTyped
  <2>4. CASE Bind(c)
    <3>1. hand[c] \in Ip
      BY <2>4 DEF Bind, HandsTyped, Holding
    <3>2. row[c] # NoVal => [row[c] EXCEPT !.ip = hand[c]] \in Row
      BY <3>1 DEF DbTyped, Row
    <3>3. [lease[hand[c]] EXCEPT !.vm = c] \in Lease
      BY <3>1 DEF DbTyped, Lease
    <3> QED
      BY <2>4, <3>1, <3>2, <3>3 DEF Bind, Rows, DbTyped
  <2>5. CASE Record(c)
    <3>1. for[c] \in Lab
      BY <2>5 DEF ForTyped, Record
    <3>2. row[c] # NoVal => [row[c] EXCEPT !.running = TRUE] \in Row
      BY DEF DbTyped, Row
    <3>3. row' = row \/ (row[c] # NoVal /\ row' = [row EXCEPT ![c] = [row[c] EXCEPT !.running = TRUE]])
      BY <2>5 DEF Record, Rows
    <3>4. row' \in [Owner -> Row \cup {NoVal}]
      BY <3>2, <3>3 DEF DbTyped
    <3>5. status' \in [Lab -> LabStatus] /\ UNCHANGED <<boxes, lease>>
      BY <2>5, <3>1 DEF Record, SetStatus, DbTyped, LabStatus
    <3> QED
      BY <3>4, <3>5 DEF DbTyped
  <2>6. CASE Release(c)
    BY <2>6, DeleteRowTyped DEF Release, ReleaseReservation, DbTyped
  <2>7. ASSUME NEW v, StartClone(c, v, "teardown") \/ WaitClone(c, v, "teardown")
        PROVE  DbTyped'
    BY <2>7 DEF StartClone, WaitClone, db, DbTyped
  <2>8. CASE Configure(c) \/ BootBox(c) \/ ConfirmIp(c) \/ ErrorPath(c)
    BY <2>8 DEF Configure, BootBox, ConfirmIp, ErrorPath, db, DbTyped
  <2> QED
    BY <1>1, <2>1, <2>2, <2>3, <2>4, <2>5, <2>6, <2>7, <2>8 DEF CallStep
<1>2. ASSUME NEW p \in Probe, ProbeStep(p) PROVE DbTyped'
  <2>1. CASE RecordProbe(p)
    <3>1. ASSUME NEW i \in FreeLeases
          PROVE  i \in Ip /\ [vmid |-> ProbeVmid, ip |-> i, running |-> FALSE] \in Row
                 /\ [state |-> "leased", vm |-> p] \in Lease
      BY ProbeVmidInRange DEF FreeLeases, Row, Lease
    <3> QED
      BY <2>1, <3>1 DEF RecordProbe, DbTyped
  <2>2. CASE ProbeClean(p)
    BY <2>2 DEF ProbeClean, FreeLease, DbTyped, Lease
  <2>3. CASE UNCHANGED db
    BY <2>3 DEF db, DbTyped
  <2> QED
    BY <1>2, <2>1, <2>2, <2>3
       DEF ProbeStep, BeginProbe, ProbeClone, StartClone, ProbeWait, WaitClone, ReadBack,
           PowerOn, PowerOff, ProbeDestroy
<1>3. ASSUME NEW o \in Op, OpStep(o) PROVE DbTyped'
  <2>1. CASE DestroyNext(o)
    BY <2>1 DEF DestroyNext, db, DbTyped
  <2>2. CASE DropNext(o)
    <3>1. hand[o] \in Owner
      BY <2>2 DEF DropNext, OpsTyped
    <3> QED
      BY <2>2, <3>1, DeleteRowTyped DEF DropNext, DbTyped
  <2>3. CASE RecordDestroyed(o)
    <3>1. for[o] \in Lab
      BY <2>3 DEF ForTyped, RecordDestroyed
    <3> QED
      BY <2>3, <3>1 DEF RecordDestroyed, SetStatus, DbTyped, LabStatus
  <2> QED
    BY <1>3, <2>1, <2>2, <2>3 DEF OpStep
<1>4. CASE UNCHANGED db
  BY <1>4 DEF db, DbTyped
<1> QED
  BY <1>1, <1>2, <1>3, <1>4 DEF Next, vars, db, Ask, Retry, Crash, Deprovision, FinishClone

-----------------------------------------------------------------------------
(* The node *)

\* The vmid x clones into.
VmidOf(x) == IF x \in Probe THEN ProbeVmid ELSE mine[x]

\* As long as somebody waits for a clone, the VM is there, his and locked.
CloneThere(x) ==
  pc[x] = "cloning" =>
    /\ VmidOf(x) \in Vmid
    /\ vm[VmidOf(x)] # NoVal /\ vm[VmidOf(x)].by = x /\ vm[VmidOf(x)].st = "cloning"
ClonesThere == \A x \in Owner : CloneThere(x)

NodeInv == VmTyped /\ ClonesThere

\* How a step may change the node: not at all; begin, end or fail a clone; or change
\* or destroy a VM that nobody clones.
LEMMA NodeChanges ==
  ASSUME PcTyped, HandsTyped, VmTyped, [Next]_vars
  PROVE  \/ vm' = vm
         \/ \E x \in Owner, r \in {"clean", "teardown"} :
              StartClone(x, VmidOf(x), r) \/ WaitClone(x, VmidOf(x), r)
         \/ \E v \in Vmid, y \in Vm \cup {NoVal} :
              vm' = [vm EXCEPT ![v] = y] /\ Usable(v)
         \/ \E v \in Vmid : FinishClone(v)
<1> USE Actors, ProbeVmidInRange
<1> DEFINE Changes == \E v \in Vmid, y \in Vm \cup {NoVal} :
                        vm' = [vm EXCEPT ![v] = y] /\ Usable(v)
<1>1. ASSUME NEW v \in Vmid, Usable(v), NEW st \in {"stopped", "running"},
             vm' = [vm EXCEPT ![v].st = st]
      PROVE  Changes
  <2>1. [vm[v] EXCEPT !.st = st] \in Vm /\ vm' = [vm EXCEPT ![v] = [vm[v] EXCEPT !.st = st]]
    BY <1>1 DEF Usable, Exists, VmTyped, Vm
  <2> QED
    BY <1>1, <2>1
<1>2. ASSUME NEW v \in Vmid, Usable(v), NEW i \in Ip \cup {NoVal}, vm' = [vm EXCEPT ![v].ip = i]
      PROVE  Changes
  <2>1. [vm[v] EXCEPT !.ip = i] \in Vm /\ vm' = [vm EXCEPT ![v] = [vm[v] EXCEPT !.ip = i]]
    BY <1>2 DEF Usable, Exists, VmTyped, Vm
  <2> QED
    BY <1>2, <2>1
<1>3. ASSUME NEW v \in Vmid, TearDown(v) PROVE vm' = vm \/ Changes
  BY <1>3 DEF TearDown, Destroy
<1>4. ASSUME NEW c \in Call, CallStep(c)
      PROVE  \/ vm' = vm \/ Changes
             \/ StartClone(c, mine[c], "teardown") \/ WaitClone(c, mine[c], "teardown")
  <2>1. CASE Configure(c)
    <3>1. mine[c] \in Vmid /\ hand[c] \in Ip \cup {NoVal}
      BY <2>1 DEF Configure, HandsTyped, Holding
    <3> QED
      BY <1>2, <2>1, <3>1 DEF Configure
  <2>2. CASE BootBox(c)
    <3>1. mine[c] \in Vmid
      BY <2>2 DEF BootBox, HandsTyped, Holding
    <3> QED
      BY <1>1, <2>2, <3>1 DEF BootBox, Boot
  <2>3. CASE ErrorPath(c)
    <3>1. mine[c] \in Vmid \/ mine[c] = NoVal
      BY DEF HandsTyped
    <3> QED
      BY <1>3, <2>3, <3>1 DEF ErrorPath
  <2>4. CASE \/ Accept(c) \/ Admit(c) \/ Reserve(c) \/ LeaseIp(c) \/ Bind(c) \/ ConfirmIp(c)
             \/ Record(c) \/ Release(c) \/ Fail(c)
    BY <2>4 DEF Accept, Admit, Reserve, LeaseIp, Bind, ConfirmIp, Record, Release, Fail
  <2> QED
    BY <1>4, <2>1, <2>2, <2>3, <2>4 DEF CallStep
<1>5. ASSUME NEW p \in Probe, ProbeStep(p)
      PROVE  vm' = vm \/ Changes \/ StartClone(p, ProbeVmid, "clean") \/ WaitClone(p, ProbeVmid, "clean")
  <2>1. CASE PowerOn(p)
    BY <1>1, <2>1 DEF PowerOn, Boot
  <2>2. CASE PowerOff(p)
    BY <1>1, <2>2 DEF PowerOff
  <2>3. CASE ProbeDestroy(p)
    BY <1>3, <2>3 DEF ProbeDestroy, DestroyProbe
  <2>4. CASE BeginProbe(p) \/ ReadBack(p) \/ RecordProbe(p) \/ ProbeClean(p)
    BY <2>4 DEF BeginProbe, ReadBack, RecordProbe, ProbeClean
  <2> QED
    BY <1>5, <2>1, <2>2, <2>3, <2>4 DEF ProbeStep, ProbeClone, ProbeWait
<1>6. ASSUME NEW o \in Op, OpStep(o) PROVE vm' = vm \/ Changes
  <2>1. CASE DestroyNext(o)
    <3>1. PICK v : (Usable(v) /\ Destroy(v)) \/ vm' = vm
      BY <2>1 DEF DestroyNext
    <3>2. CASE v \in Vmid
      BY <3>1, <3>2 DEF Destroy
    <3>3. CASE v \notin Vmid
      BY <3>1, <3>3 DEF Destroy, VmTyped
    <3> QED
      BY <3>2, <3>3
  <2> QED
    BY <1>6, <2>1 DEF OpStep, DropNext, RecordDestroyed
<1> HIDE DEF Changes
<1>7. ASSUME NEW c \in Call PROVE VmidOf(c) = mine[c]
  BY DEF VmidOf
<1>8. ASSUME NEW p \in Probe PROVE VmidOf(p) = ProbeVmid
  BY DEF VmidOf
<1>9. \/ vm' = vm \/ Changes
      \/ \E x \in Owner, r \in {"clean", "teardown"} :
           StartClone(x, VmidOf(x), r) \/ WaitClone(x, VmidOf(x), r)
      \/ \E v \in Vmid : FinishClone(v)
  BY <1>4, <1>5, <1>6, <1>7, <1>8 DEF Next, vars, Ask, Retry, Crash, Deprovision
<1> QED
  BY <1>9 DEF Changes

\* Only who begins a clone comes to wait for one, and the vmid stays.
LEMMA CloneBegins ==
  ASSUME PcTyped, HandsTyped, [Next]_vars, NEW x \in Owner, pc'[x] = "cloning"
  PROVE  /\ VmidOf(x) \in Vmid /\ VmidOf(x)' = VmidOf(x)
         /\ \/ pc[x] = "cloning"
            \/ vm[VmidOf(x)] = NoVal /\ vm' = [vm EXCEPT ![VmidOf(x)] = NewVm(x, "cloning")]
<1> USE Actors, ProbeVmidInRange
<1> DEFINE Begun(y, v) == vm[v] = NoVal /\ vm' = [vm EXCEPT ![v] = NewVm(y, "cloning")]
<1>1. ASSUME NEW c \in Call, CallStep(c)
      PROVE  \/ \E l \in Labels \ {"cloning"} : pc' = [pc EXCEPT ![c] = l]
             \/ pc[c] = "clone" /\ pc' = [pc EXCEPT ![c] = "cloning"] /\ Begun(c, mine[c]) /\ mine' = mine
  <2>1. CASE StartClone(c, mine[c], "teardown")
    BY <2>1 DEF StartClone, Goto, locals, Labels, CallLabels
  <2>2. CASE WaitClone(c, mine[c], "teardown")
    BY <2>2 DEF WaitClone, Goto, Labels, CallLabels
  <2>3. CASE Accept(c) \/ Admit(c) \/ Reserve(c) \/ LeaseIp(c) \/ Bind(c)
    BY <2>3 DEF Accept, Admit, Reserve, LeaseIp, NothingToLease, Bind, Goto, Labels, CallLabels
  <2>4. CASE \/ Configure(c) \/ BootBox(c) \/ ConfirmIp(c) \/ Record(c) \/ ErrorPath(c)
             \/ Release(c) \/ Fail(c)
    BY <2>4 DEF Configure, BootBox, ConfirmIp, Record, ErrorPath, Release, Fail, Goto, Labels, CallLabels
  <2> QED
    BY <1>1, <2>1, <2>2, <2>3, <2>4 DEF CallStep
<1>2. ASSUME NEW p \in Probe, ProbeStep(p)
      PROVE  \/ \E l \in Labels \ {"cloning"} : pc' = [pc EXCEPT ![p] = l]
             \/ pc' = [pc EXCEPT ![p] = "cloning"] /\ Begun(p, ProbeVmid) /\ mine' = mine
  <2>1. CASE ProbeClone(p)
    BY <2>1 DEF ProbeClone, StartClone, Goto, locals, Labels, ProbeLabels
  <2>2. CASE ~ProbeClone(p)
    BY <1>2, <2>2 DEF ProbeStep, BeginProbe, ProbeWait, WaitClone, ReadBack, RecordProbe, PowerOn,
                PowerOff, ProbeDestroy, ProbeClean, Goto, Labels, ProbeLabels
  <2> QED
    BY <2>1, <2>2
<1>3. ASSUME NEW o \in Op, OpStep(o)
      PROVE  pc' = pc \/ \E l \in Labels \ {"cloning"} : pc' = [pc EXCEPT ![o] = l]
  BY <1>3 DEF OpStep, DestroyNext, DropNext, RecordDestroyed, Goto, Labels, CallLabels
<1>4. \/ pc' = pc
      \/ \E y \in Proc, l \in Labels \ {"cloning"} : pc' = [pc EXCEPT ![y] = l]
      \/ \E c \in Call : /\ pc[c] = "clone" /\ pc' = [pc EXCEPT ![c] = "cloning"]
                         /\ Begun(c, mine[c]) /\ mine' = mine
      \/ \E p \in Probe : /\ pc' = [pc EXCEPT ![p] = "cloning"]
                          /\ Begun(p, ProbeVmid) /\ mine' = mine
  BY <1>1, <1>2, <1>3
     DEF Next, vars, Ask, Retry, Crash, Deprovision, FinishClone, Goto, Labels, CallLabels, ProbeLabels
<1> HIDE DEF Begun
<1>5. \/ pc[x] = "cloning"
      \/ x \in Call /\ pc[x] = "clone" /\ Begun(x, mine[x]) /\ mine' = mine
      \/ x \in Probe /\ Begun(x, ProbeVmid)
  BY <1>4 DEF PcTyped
<1>6. x \in Call => pc[x] \in {"clone", "cloning"}
  BY <1>5
<1>7. x \in Call => mine[x] \in Vmid
  BY <1>6 DEF HandsTyped, Holding
<1>8. ASSUME NEW c \in Call, pc[c] \in {"clone", "cloning"} PROVE mine'[c] = mine[c]
  <2>1. ASSUME NEW d \in Call, CallStep(d) PROVE mine' = mine \/ (d # c /\ mine'[c] = mine[c])
    <3>1. CASE Reserve(d)
      BY <1>8, <3>1 DEF Reserve, HandsTyped
    <3>2. CASE ~Reserve(d)
      BY <2>1, <3>2 DEF CallStep, Accept, Admit, LeaseIp, Bind, StartClone, WaitClone, Configure,
              BootBox, ConfirmIp, Record, ErrorPath, Release, Fail, locals
    <3> QED
      BY <3>1, <3>2
  <2>2. ASSUME NEW p \in Probe, ProbeStep(p) PROVE mine' = mine
    BY <2>2 DEF ProbeStep, BeginProbe, ProbeClone, StartClone, ProbeWait, WaitClone, ReadBack,
              RecordProbe, PowerOn, PowerOff, ProbeDestroy, ProbeClean, locals
  <2>3. ASSUME NEW o \in Op, OpStep(o) PROVE mine' = mine
    BY <2>3 DEF OpStep, DestroyNext, DropNext, RecordDestroyed, locals
  <2>4. ASSUME NEW o \in Op, NEW l \in Lab, Deprovision(o, l) PROVE mine'[c] = mine[c]
    BY <2>4 DEF Deprovision, HandsTyped
  <2> QED
    BY <2>1, <2>2, <2>3, <2>4 DEF Next, vars, locals, Ask, Retry, Crash, FinishClone
<1> QED
  BY <1>5, <1>6, <1>7, <1>8 DEF VmidOf, Owner, Begun

LEMMA NodeStep == PcTyped /\ HandsTyped /\ NodeInv /\ [Next]_vars => NodeInv'
<1> SUFFICES ASSUME PcTyped, HandsTyped, NodeInv, [Next]_vars PROVE NodeInv'
  OBVIOUS
<1> USE Actors, ProbeVmidInRange DEF NodeInv
<1>0. ASSUME NEW x \in Owner, vm[VmidOf(x)] = NoVal \/ vm'[VmidOf(x)] = vm[VmidOf(x)]
      PROVE  CloneThere(x)'
  <2> SUFFICES ASSUME pc'[x] = "cloning" PROVE CloneThere(x)'
    BY DEF CloneThere
  <2>1. CASE pc[x] = "cloning"
    BY <1>0, <2>1, CloneBegins DEF ClonesThere, CloneThere
  <2>2. CASE vm[VmidOf(x)] = NoVal /\ vm' = [vm EXCEPT ![VmidOf(x)] = NewVm(x, "cloning")]
    <3>1. NewVm(x, "cloning") \in Vm /\ NewVm(x, "cloning").by = x /\ NewVm(x, "cloning").st = "cloning"
      BY DEF NewVm, Vm
    <3> QED
      BY <2>2, <3>1, CloneBegins DEF CloneThere, VmTyped
  <2> QED
    BY <2>1, <2>2, CloneBegins
<1>1. CASE vm' = vm
  BY <1>0, <1>1 DEF VmTyped, ClonesThere
<1>2. ASSUME NEW v \in Vmid, NEW y \in Vm \cup {NoVal}, vm' = [vm EXCEPT ![v] = y],
             \A x \in Owner : pc'[x] = "cloning" /\ pc[x] = "cloning" => VmidOf(x) # v
      PROVE  NodeInv'
  <2>1. VmTyped'
    BY <1>2 DEF VmTyped
  <2>2. ASSUME NEW x \in Owner, pc'[x] = "cloning" PROVE CloneThere(x)'
    <3>1. CASE pc[x] = "cloning"
      BY <1>0, <1>2, <2>2, <3>1, CloneBegins DEF VmTyped
    <3>2. CASE vm[VmidOf(x)] = NoVal
      BY <1>0, <3>2
    <3> QED
      BY <2>2, <3>1, <3>2, CloneBegins
  <2> QED
    BY <2>1, <2>2 DEF ClonesThere, CloneThere
<1>3. ASSUME NEW x \in Owner, NEW r \in {"clean", "teardown"}, StartClone(x, VmidOf(x), r)
      PROVE  NodeInv'
  <2>1. CASE vm' = vm
    BY <1>1, <2>1
  <2>2. CASE vm' # vm
    <3>1. pc[x] = "clone" /\ vm[VmidOf(x)] = NoVal
          /\ vm' = [vm EXCEPT ![VmidOf(x)] = NewVm(x, "cloning")]
      BY <1>3, <2>2 DEF StartClone
    <3>2. VmidOf(x) \in Vmid /\ NewVm(x, "cloning") \in Vm
      BY <3>1 DEF NewVm, Vm, VmidOf, HandsTyped, Holding, Owner
    <3>3. \A y \in Owner : pc[y] = "cloning" => VmidOf(y) # VmidOf(x)
      BY <3>1 DEF ClonesThere, CloneThere
    <3> QED
      BY <1>2, <3>1, <3>2, <3>3
  <2> QED
    BY <2>1, <2>2
<1>4. ASSUME NEW x \in Owner, NEW r \in {"clean", "teardown"}, WaitClone(x, VmidOf(x), r)
      PROVE  NodeInv'
  <2> DEFINE v == VmidOf(x)
  <2>1. v \in Vmid /\ vm[v] # NoVal /\ vm[v].by = x /\ pc[x] = "cloning" /\ pc'[x] # "cloning"
    BY <1>4 DEF WaitClone, Goto, ClonesThere, CloneThere, PcTyped
  <2>2. \A y \in Owner : pc'[y] = "cloning" /\ pc[y] = "cloning" => VmidOf(y) # v
    BY <2>1 DEF ClonesThere, CloneThere
  <2>3. vm[v] \in Vm
    BY <2>1 DEF VmTyped
  <2>4. [vm[v] EXCEPT !.st = "stopped"] \in Vm /\ NewVm(x, "conf") \in Vm
    BY <2>3 DEF Vm, NewVm
  <2>5. \/ vm' = vm \/ vm' = [vm EXCEPT ![v] = [vm[v] EXCEPT !.st = "stopped"]]
        \/ \E y \in {NoVal, NewVm(x, "conf")} : vm' = [vm EXCEPT ![v] = y]
    <3> HIDE DEF v
    <3>1. vm' = vm \/ vm' = [vm EXCEPT ![v].st = "stopped"]
          \/ \E y \in {vm[v], NoVal, NewVm(x, "conf")} : vm' = [vm EXCEPT ![v] = y]
      BY <1>4 DEF WaitClone, v
    <3>2. [vm EXCEPT ![v] = vm[v]] = vm
      BY DEF VmTyped
    <3> QED
      BY <2>1, <3>1, <3>2 DEF VmTyped
  <2> QED
    BY <1>1, <1>2, <2>1, <2>2, <2>4, <2>5
<1>5. ASSUME NEW v \in Vmid, NEW y \in Vm \cup {NoVal}, vm' = [vm EXCEPT ![v] = y], Usable(v)
      PROVE  NodeInv'
  <2>1. \A x \in Owner : pc[x] = "cloning" => VmidOf(x) # v
    BY <1>5 DEF Usable, ClonesThere, CloneThere
  <2> QED
    BY <1>2, <1>5, <2>1
<1>6. ASSUME NEW v \in Vmid, FinishClone(v) PROVE NodeInv'
  <2>1. vm[v] \in Vm /\ vm' = [vm EXCEPT ![v] = [vm[v] EXCEPT !.st = "stopped"]]
    BY <1>6 DEF FinishClone, VmTyped
  <2>2. [vm[v] EXCEPT !.st = "stopped"] \in Vm
    BY <2>1 DEF Vm
  <2>3. \A x \in Owner : pc[x] = "cloning" => VmidOf(x) # v
    BY <1>6 DEF FinishClone, ClonesThere, CloneThere
  <2> QED
    BY <1>2, <2>1, <2>2, <2>3
<1> QED
  BY <1>1, <1>3, <1>4, <1>5, <1>6, NodeChanges

-----------------------------------------------------------------------------
(* What the processes hold *)

LEMMA NotesStep == NotesTyped /\ [Next]_vars => NotesTyped'
<1> SUFFICES ASSUME NotesTyped, [Next]_vars PROVE NotesTyped'
  OBVIOUS
<1>1. ASSUME NEW c \in Call, CallStep(c) PROVE UNCHANGED <<hasty, partial>>
  BY <1>1 DEF CallStep, Accept, Admit, Reserve, LeaseIp, Bind, StartClone, WaitClone, Configure,
              BootBox, ConfirmIp, Record, ErrorPath, Release, Fail, locals
<1>2. ASSUME NEW p \in Probe, ProbeStep(p) PROVE UNCHANGED <<hasty, partial>>
  BY <1>2 DEF ProbeStep, BeginProbe, ProbeClone, StartClone, ProbeWait, WaitClone, ReadBack,
              RecordProbe, PowerOn, PowerOff, ProbeDestroy, ProbeClean, locals
<1>3. ASSUME NEW o \in Op, OpStep(o) PROVE NotesTyped'
  BY <1>3 DEF OpStep, DestroyNext, DropNext, RecordDestroyed, locals, NotesTyped
<1>4. ASSUME NEW o \in Op, NEW l \in Lab, Deprovision(o, l) PROVE NotesTyped'
  BY <1>4 DEF Deprovision, NotesTyped
<1>5. CASE UNCHANGED <<hasty, partial>>
  BY <1>5 DEF NotesTyped
<1> QED
  BY <1>1, <1>2, <1>3, <1>4, <1>5 DEF Next, vars, locals, Ask, Retry, Crash, FinishClone

\* Which steps of a call take a vmid or an address, and what the others leave.
LEMMA CallHolds ==
  ASSUME PcTyped, NEW c \in Call, CallStep(c)
  PROVE  \/ Reserve(c) \/ LeaseIp(c)
         \/ /\ UNCHANGED <<mine, hand, todo>>
            /\ \E l \in CallLabels \ {"lease"} :
                 pc' = [pc EXCEPT ![c] = l] /\ (l \in Holding => pc[c] \in Holding)
<1>1. CASE Accept(c) \/ Admit(c) \/ Bind(c)
  BY <1>1 DEF Accept, Admit, Bind, Goto, locals, CallLabels, Holding
<1>2. CASE StartClone(c, mine[c], "teardown") \/ WaitClone(c, mine[c], "teardown")
  BY <1>2 DEF StartClone, WaitClone, Goto, locals, CallLabels, Holding
<1>3. CASE Configure(c) \/ BootBox(c) \/ ConfirmIp(c)
  BY <1>3 DEF Configure, BootBox, ConfirmIp, Goto, locals, CallLabels, Holding
<1>4. CASE Record(c) \/ ErrorPath(c) \/ Release(c) \/ Fail(c)
  BY <1>4 DEF Record, ErrorPath, Release, Fail, Goto, locals, CallLabels, Holding
<1> QED
  BY <1>1, <1>2, <1>3, <1>4 DEF CallStep

\* A probe takes an address when it records one, and no vmid.
LEMMA ProbeHolds ==
  ASSUME NEW p \in Probe, ProbeStep(p)
  PROVE  /\ UNCHANGED <<mine, todo>>
         /\ hand' = hand \/ \E i \in Ip : hand' = [hand EXCEPT ![p] = i]
         /\ \E l \in ProbeLabels : pc' = [pc EXCEPT ![p] = l]
<1>1. CASE RecordProbe(p)
  BY <1>1 DEF RecordProbe, FreeLeases, Goto, ProbeLabels
<1>2. CASE ~RecordProbe(p)
  BY <1>2 DEF ProbeStep, BeginProbe, ProbeClone, StartClone, ProbeWait, WaitClone, ReadBack,
              PowerOn, PowerOff, ProbeDestroy, ProbeClean, locals, Goto, ProbeLabels
<1> QED
  BY <1>1, <1>2

LEMMA OpsStep == PcTyped /\ HandsTyped /\ OpsTyped /\ [Next]_vars => OpsTyped'
<1> SUFFICES ASSUME PcTyped, HandsTyped, OpsTyped, [Next]_vars PROVE OpsTyped'
  OBVIOUS
<1> USE Actors
<1>1. ASSUME todo' = todo, NEW x \in Owner, hand' = hand \/ \E i : hand' = [hand EXCEPT ![x] = i],
             pc' = pc \/ \E l : pc' = [pc EXCEPT ![x] = l]
      PROVE  OpsTyped'
  BY <1>1 DEF OpsTyped, PcTyped, HandsTyped
<1>2. ASSUME NEW c \in Call, CallStep(c) PROVE OpsTyped'
  <2>1. CASE Reserve(c)
    BY <1>1, <2>1 DEF Reserve, Goto
  <2>2. CASE LeaseIp(c)
    BY <1>1, <2>2 DEF LeaseIp, NothingToLease, Goto
  <2> QED
    BY <1>1, <1>2, <2>1, <2>2, CallHolds
<1>3. ASSUME NEW p \in Probe, ProbeStep(p) PROVE OpsTyped'
  BY <1>1, <1>3, ProbeHolds
<1>4. ASSUME NEW o \in Op, OpStep(o) PROVE OpsTyped'
  <2>1. CASE DestroyNext(o)
    BY <2>1 DEF DestroyNext, Goto, OpsTyped, PcTyped, HandsTyped
  <2>2. CASE DropNext(o)
    BY <2>2 DEF DropNext, Goto, OpsTyped, PcTyped
  <2>3. CASE RecordDestroyed(o)
    BY <2>3 DEF RecordDestroyed, Goto, locals, OpsTyped, PcTyped
  <2> QED
    BY <1>4, <2>1, <2>2, <2>3 DEF OpStep
<1>5. ASSUME NEW o \in Op, NEW l \in Lab, Deprovision(o, l) PROVE OpsTyped'
  <2>1. RowsOf(l) \subseteq Call
    BY DEF RowsOf, CallsOf
  <2> QED
    BY <1>5, <2>1 DEF Deprovision, Goto, OpsTyped, PcTyped
<1>6. ASSUME NEW c \in Call, NEW l \in Lab, Ask(c, l) \/ Retry(c, l) PROVE OpsTyped'
  BY <1>1, <1>6 DEF Ask, Retry, Goto
<1>7. ASSUME NEW x \in Owner, Crash(x) PROVE OpsTyped'
  BY <1>1, <1>7 DEF Crash, Goto, locals
<1>8. CASE UNCHANGED <<pc, hand, todo>>
  BY <1>8 DEF OpsTyped
<1> QED
  BY <1>2, <1>3, <1>4, <1>5, <1>6, <1>7, <1>8 DEF Next, vars, locals, FinishClone, Owner

LEMMA HandsStep == PcTyped /\ OpsTyped /\ HandsTyped /\ [Next]_vars => HandsTyped'
<1> SUFFICES ASSUME PcTyped, OpsTyped, HandsTyped, [Next]_vars PROVE HandsTyped'
  OBVIOUS
<1> USE Actors
<1>1. ASSUME UNCHANGED <<mine, hand>>, NEW x \in Proc, NEW l, pc' = [pc EXCEPT ![x] = l],
             x \in Call => l # "lease" /\ (l \in Holding => pc[x] \in Holding)
      PROVE  HandsTyped'
  BY <1>1 DEF HandsTyped, PcTyped
<1>2. ASSUME NEW c \in Call, CallStep(c) PROVE HandsTyped'
  <2>1. CASE Reserve(c)
    <3>1. \/ \E v \in Vmid : mine' = [mine EXCEPT ![c] = v] /\ pc' = [pc EXCEPT ![c] = "lease"]
          \/ mine' = mine /\ pc' = [pc EXCEPT ![c] = "teardown"]
      BY <2>1 DEF Reserve, FreeVmids, Goto
    <3>2. hand' = hand
      BY <2>1 DEF Reserve
    <3>3. CASE mine' = mine /\ pc' = [pc EXCEPT ![c] = "teardown"]
      BY <3>2, <3>3 DEF HandsTyped, PcTyped, Holding
    <3>4. ASSUME NEW v \in Vmid, mine' = [mine EXCEPT ![c] = v], pc' = [pc EXCEPT ![c] = "lease"]
          PROVE  HandsTyped'
      <4>1. mine' = [p \in Call \cup Op |-> mine'[p]]
        BY <3>4 DEF HandsTyped
      <4>2. \A d \in Call : mine'[d] = IF d = c THEN v ELSE mine[d]
        BY <3>4 DEF HandsTyped
      <4> QED
        BY <3>2, <3>4, <4>1, <4>2 DEF HandsTyped, PcTyped, Holding
    <3> QED
      BY <3>1, <3>3, <3>4
  <2>2. CASE LeaseIp(c)
    <3>1. \/ \E i \in Ip : hand' = [hand EXCEPT ![c] = i] /\ pc' = [pc EXCEPT ![c] = "bind"]
          \/ hand' = hand /\ pc' = [pc EXCEPT ![c] = "teardown"]
      BY <2>2 DEF LeaseIp, NothingToLease, FreeLeases, Goto
    <3>2. mine' = mine /\ pc[c] = "lease"
      BY <2>2 DEF LeaseIp
    <3> QED
      BY <3>1, <3>2 DEF HandsTyped, PcTyped, Holding
  <2> QED
    BY <1>1, <1>2, <2>1, <2>2, CallHolds
<1>3. ASSUME NEW p \in Probe, ProbeStep(p) PROVE HandsTyped'
  <2>1. /\ mine' = mine
        /\ hand' = hand \/ \E i \in Ip : hand' = [hand EXCEPT ![p] = i]
        /\ \E l \in ProbeLabels : pc' = [pc EXCEPT ![p] = l]
    BY <1>3, ProbeHolds
  <2> QED
    BY <2>1 DEF HandsTyped, PcTyped
<1>4. ASSUME NEW o \in Op, OpStep(o) PROVE HandsTyped'
  <2>1. /\ mine' = mine
        /\ hand' = hand \/ \E x \in Call : hand' = [hand EXCEPT ![o] = x]
        /\ pc' = pc \/ \E l : pc' = [pc EXCEPT ![o] = l]
    BY <1>4 DEF OpStep, DestroyNext, DropNext, RecordDestroyed, locals, Goto, OpsTyped
  <2> QED
    BY <2>1 DEF HandsTyped, PcTyped
<1>5. ASSUME NEW o \in Op, NEW l \in Lab, Deprovision(o, l) PROVE HandsTyped'
  BY <1>5 DEF Deprovision, Goto, HandsTyped, PcTyped
<1>6. ASSUME NEW c \in Call, NEW l \in Lab, Ask(c, l) \/ Retry(c, l) PROVE HandsTyped'
  BY <1>1, <1>6 DEF Ask, Retry, Goto, Holding
<1>7. ASSUME NEW x \in Owner, Crash(x) PROVE HandsTyped'
  BY <1>1, <1>7 DEF Crash, Goto, locals, Holding
<1>8. CASE UNCHANGED <<pc, mine, hand>>
  BY <1>8 DEF HandsTyped
<1> QED
  BY <1>2, <1>3, <1>4, <1>5, <1>6, <1>7, <1>8 DEF Next, vars, locals, FinishClone, Owner

\* What the other theorems start from.
LEMMA AlwaysTyped == Spec => [](Typed /\ NodeInv)
<1> DEFINE IInv == Typed /\ NodeInv
<1>1. Init => IInv
  <2> SUFFICES ASSUME Init PROVE IInv
    OBVIOUS
  <2>1. DbTyped
    BY DEF Init, DbTyped, LabStatus, FreeLease, Lease
  <2>2. VmTyped /\ ClonesThere /\ FaultsTyped /\ NotesTyped
    BY Actors, SharedSizes DEF Init, VmTyped, ClonesThere, CloneThere, FaultsTyped, NotesTyped
  <2>3. PcTyped /\ ForTyped /\ OpsTyped /\ HandsTyped
    BY Actors DEF Init, PcTyped, ForTyped, OpsTyped, HandsTyped, Labels, CallLabels, ProbeLabels, Holding
  <2> QED
    BY <2>1, <2>2, <2>3 DEF Typed, NodeInv
<1>2. IInv /\ [Next]_vars => IInv'
  BY DbStep, NodeStep, FaultStep, NotesStep, PcStep, ForStep, OpsStep, HandsStep DEF Typed, NodeInv
<1> QED
  BY <1>1, <1>2, PTL DEF Spec

\* Every variable keeps its type, whatever fails, dies or comes in between: nobody
\* binds an address he has not leased or configures a box he has not reserved
\* (tasks.py:479-783).
THEOREM SharedTypeCorrect == Spec => []TypeOK
  BY AlwaysTyped, TypedIsTypeOK, PTL

-----------------------------------------------------------------------------
(* Reservations *)

VmidsApart == \A x, y \in Rows : x # y => row[x].vmid # row[y].vmid
LeasesMatch ==
  \A x \in Rows : row[x].ip # NoVal => lease[row[x].ip] = [state |-> "leased", vm |-> x]
FreeIsUnbound == \A i \in Ip : lease[i].state = "free" => lease[i].vm = NoVal

\* An address between lease_ip() and the row is bound to nobody and one call's.
BindersAlone ==
  \A c \in Call : pc[c] = "bind" =>
    /\ lease[hand[c]] = [state |-> "leased", vm |-> NoVal]
    /\ \A d \in Call \ {c} : pc[d] = "bind" => hand[d] # hand[c]

\* What a probe has leased is on its row until it frees it.
ProbesOwn ==
  \A p \in Probe :
    hand[p] # NoVal /\ pc[p] \notin {"done", "crashed"} => p \in Rows /\ row[p].ip = hand[p]
ProbesEmpty ==
  \A p \in Probe : pc[p] \in {"idle", "clone", "cloning", "cloned", "record"} => hand[p] = NoVal

ResInv ==
  /\ VmidsApart /\ LeasesMatch /\ FreeIsUnbound
  /\ BindersAlone /\ ProbesOwn /\ ProbesEmpty

\* The address on a row is leased, and to that row.
LEMMA OnRow ==
  ASSUME ResInv, NEW x \in Rows, row[x].ip # NoVal
  PROVE  lease[row[x].ip].state = "leased" /\ lease[row[x].ip].vm = x
<1>1. lease[row[x].ip] = [state |-> "leased", vm |-> x]
  BY DEF ResInv, LeasesMatch
<1> QED
  BY <1>1

LEMMA ResInvSuffices == ResInv => ReservationsDistinct
<1> SUFFICES ASSUME ResInv PROVE ReservationsDistinct
  OBVIOUS
<1>1. ASSUME NEW x \in Rows, NEW y \in Rows, x # y, row[x].ip # NoVal
      PROVE  row[x].ip # row[y].ip
  BY <1>1, OnRow
<1> QED
  BY <1>1 DEF ResInv, VmidsApart, LeasesMatch, ReservationsDistinct

\* Deleting a call's row frees what is bound to it and nothing else.
LEMMA DeleteRowKeeps ==
  ASSUME DbTyped, PcTyped, HandsTyped, ResInv, NEW x \in Call, DeleteRow(x),
         \A c \in Call : pc'[c] = "bind" => pc[c] = "bind" /\ hand'[c] = hand[c],
         \A p \in Probe : pc'[p] = pc[p] /\ hand'[p] = hand[p]
  PROVE  ResInv'
<1> USE Actors
<1>1. Rows' = Rows \ {x} /\ \A y \in Owner : y # x => row'[y] = row[y]
  BY DEF DeleteRow, Rows, DbTyped
<1>2. \A i \in Ip : lease'[i] = IF lease[i].vm = x THEN FreeLease ELSE lease[i]
  BY DEF DeleteRow, LeasesWithout
<1>3. \A y \in Rows : y \in Owner /\ row[y].ip \in Ip \cup {NoVal}
  BY DEF Rows, DbTyped, Row
<1>4. VmidsApart'
  BY <1>1 DEF ResInv, VmidsApart, Rows
<1>5. LeasesMatch'
  BY <1>1, <1>2, <1>3 DEF ResInv, LeasesMatch
<1>6. FreeIsUnbound'
  BY <1>2 DEF ResInv, FreeIsUnbound, FreeLease
<1>7. BindersAlone'
  <2>1. \A c \in Call : pc[c] = "bind" => hand[c] \in Ip
    BY DEF HandsTyped, Holding
  <2> QED
    BY <1>2, <2>1 DEF ResInv, BindersAlone
<1>8. ProbesOwn' /\ ProbesEmpty'
  BY <1>1 DEF ResInv, ProbesOwn, ProbesEmpty, Rows
<1> QED
  BY <1>4, <1>5, <1>6, <1>7, <1>8 DEF ResInv

\* A step that leaves rows and leases alone and sends nobody to "bind".
LEMMA ResInvKept ==
  ASSUME PcTyped, HandsTyped, ResInv, UNCHANGED <<row, lease>>,
         \A c \in Call : pc'[c] = "bind" => pc[c] = "bind" /\ hand'[c] = hand[c],
         \A p \in Probe : hand'[p] = hand[p],
         \A p \in Probe : pc'[p] \notin {"done", "crashed"} => pc[p] \notin {"done", "crashed"},
         \A p \in Probe : pc'[p] \in {"idle", "clone", "cloning", "cloned", "record"} =>
                            pc[p] \in {"idle", "clone", "cloning", "cloned", "record"}
  PROVE  ResInv'
<1>1. VmidsApart' /\ LeasesMatch' /\ FreeIsUnbound'
  BY DEF ResInv, VmidsApart, LeasesMatch, FreeIsUnbound, Rows
<1>2. BindersAlone'
  BY DEF ResInv, BindersAlone
<1>3. ProbesOwn' /\ ProbesEmpty'
  BY DEF ResInv, ProbesOwn, ProbesEmpty, Rows
<1> QED
  BY <1>1, <1>2, <1>3 DEF ResInv

LEMMA CallReserves ==
  ASSUME DbTyped, PcTyped, HandsTyped, ResInv, NEW c \in Call, CallStep(c)
  PROVE  ResInv'
<1> USE Actors
<1>1. CASE Reserve(c)
  <2>1. UNCHANGED <<lease, hand>> /\ pc[c] = "reserve"
    BY <1>1 DEF Reserve
  <2>2. PICK l \in {"lease", "teardown"} : pc' = [pc EXCEPT ![c] = l]
    BY <1>1 DEF Reserve, Goto
  <2>3. CASE row' = row
    BY <2>1, <2>2, <2>3, ResInvKept DEF PcTyped
  <2>4. ASSUME NEW v \in FreeVmids,
               row' = [row EXCEPT ![c] = [vmid |-> v, ip |-> NoVal, running |-> FALSE]]
        PROVE  ResInv'
    <3>1. v \notin RowVmids
      BY <2>4 DEF FreeVmids
    <3>2. /\ \A y \in Owner : y # c => row'[y] = row[y]
          /\ row'[c].vmid = v /\ row'[c].ip = NoVal
      BY <2>4 DEF DbTyped
    <3>3. VmidsApart'
      BY <3>1, <3>2 DEF ResInv, VmidsApart, Rows, RowVmids
    <3>4. LeasesMatch' /\ FreeIsUnbound'
      BY <2>1, <3>2 DEF ResInv, LeasesMatch, FreeIsUnbound, Rows
    <3>5. BindersAlone'
      BY <2>1, <2>2 DEF ResInv, BindersAlone, PcTyped
    <3>6. ProbesOwn' /\ ProbesEmpty'
      BY <2>1, <2>2, <3>2 DEF ResInv, ProbesOwn, ProbesEmpty, Rows, PcTyped
    <3> QED
      BY <3>3, <3>4, <3>5, <3>6 DEF ResInv
  <2> QED
    BY <1>1, <2>3, <2>4 DEF Reserve
<1>2. CASE LeaseIp(c)
  <2>1. UNCHANGED row /\ pc[c] = "lease"
    BY <1>2 DEF LeaseIp
  <2>2. CASE NothingToLease(c) /\ UNCHANGED <<lease, hand>>
    BY <2>1, <2>2, ResInvKept DEF NothingToLease, Goto, PcTyped
  <2>3. ASSUME NEW i \in FreeLeases, lease' = [lease EXCEPT ![i].state = "leased"],
               hand' = [hand EXCEPT ![c] = i], Goto(c, "bind")
        PROVE  ResInv'
    <3>1. i \in Ip /\ lease[i] \in Lease /\ lease[i].state = "free" /\ lease[i].vm = NoVal
      BY <2>3 DEF FreeLeases, ResInv, FreeIsUnbound, DbTyped
    <3>2. lease'[i] = [state |-> "leased", vm |-> NoVal]
      BY <2>3, <3>1 DEF DbTyped, Lease
    <3>3. \A j \in Ip : j # i => lease'[j] = lease[j]
      BY <2>3 DEF DbTyped
    <3>4. /\ pc'[c] = "bind" /\ hand'[c] = i
          /\ \A x \in Proc : x # c => pc'[x] = pc[x] /\ hand'[x] = hand[x]
      BY <2>3 DEF Goto, PcTyped, HandsTyped
    <3>5. VmidsApart' /\ FreeIsUnbound'
      BY <2>1, <3>2, <3>3 DEF ResInv, VmidsApart, FreeIsUnbound, Rows
    <3>6. LeasesMatch'
      <4>1. \A x \in Rows : row[x].ip \in Ip \cup {NoVal}
        BY DEF Rows, DbTyped, Row
      <4>2. \A x \in Rows : row[x].ip # NoVal => row[x].ip # i
        BY <3>1, OnRow
      <4> QED
        BY <2>1, <3>3, <4>1, <4>2 DEF ResInv, LeasesMatch, Rows
    <3>7. BindersAlone'
      <4>1. \A d \in Call : pc[d] = "bind" => hand[d] \in Ip /\ hand[d] # i
        BY <3>1 DEF ResInv, BindersAlone, HandsTyped, Holding
      <4> QED
        BY <2>1, <3>2, <3>3, <3>4, <4>1 DEF ResInv, BindersAlone
    <3>8. ProbesOwn' /\ ProbesEmpty'
      BY <2>1, <3>4 DEF ResInv, ProbesOwn, ProbesEmpty, Rows
    <3> QED
      BY <3>5, <3>6, <3>7, <3>8 DEF ResInv
  <2> QED
    BY <1>2, <2>2, <2>3 DEF LeaseIp
<1>3. CASE Bind(c)
  <2>1. UNCHANGED hand /\ pc[c] = "bind" /\ hand[c] \in Ip
        /\ lease[hand[c]] = [state |-> "leased", vm |-> NoVal]
    BY <1>3 DEF Bind, locals, HandsTyped, Holding, ResInv, BindersAlone
  <2>2. CASE UNCHANGED <<row, lease>>
    <3>1. \E l \in {"clone", "teardown"} : pc' = [pc EXCEPT ![c] = l]
      BY <1>3 DEF Bind, Goto
    <3> QED
      BY <2>1, <2>2, <3>1, ResInvKept DEF PcTyped
  <2>3. CASE /\ c \in Rows /\ row' = [row EXCEPT ![c].ip = hand[c]]
             /\ lease' = [lease EXCEPT ![hand[c]].vm = c] /\ Goto(c, "clone")
    <3>1. row[c] \in Row /\ row' = [row EXCEPT ![c] = [row[c] EXCEPT !.ip = hand[c]]]
      BY <2>3 DEF Rows, DbTyped
    <3>2. /\ row'[c].ip = hand[c] /\ row'[c].vmid = row[c].vmid
          /\ \A y \in Owner : y # c => row'[y] = row[y]
      BY <3>1 DEF Row, DbTyped
    <3>3. Rows' = Rows
      BY <2>1, <2>3, <3>1, <3>2 DEF Rows, Row, DbTyped
    <3>4. lease'[hand[c]] = [state |-> "leased", vm |-> c]
      BY <2>1, <2>3 DEF DbTyped, Lease
    <3>5. \A j \in Ip : j # hand[c] => lease'[j] = lease[j]
      BY <2>3 DEF DbTyped
    <3>6. pc' = [pc EXCEPT ![c] = "clone"]
      BY <2>3 DEF Goto
    <3>7. VmidsApart'
      BY <3>2, <3>3 DEF ResInv, VmidsApart, Rows
    <3>8. FreeIsUnbound'
      BY <3>4, <3>5 DEF ResInv, FreeIsUnbound
    <3>9. LeasesMatch'
      <4>1. \A x \in Rows : x \in Owner /\ row[x].ip \in Ip \cup {NoVal}
        BY DEF Rows, DbTyped, Row
      <4>2. \A x \in Rows : row[x].ip # NoVal => row[x].ip # hand[c]
        <5>1. lease[hand[c]].vm = NoVal
          BY <2>1
        <5> QED
          BY <4>1, <5>1, OnRow
      <4> QED
        BY <3>2, <3>3, <3>4, <3>5, <4>1, <4>2 DEF ResInv, LeasesMatch
    <3>10. BindersAlone'
      <4>1. \A d \in Call : pc[d] = "bind" => hand[d] \in Ip /\ (d # c => hand[d] # hand[c])
        BY <2>1 DEF ResInv, BindersAlone, HandsTyped, Holding
      <4> QED
        BY <2>1, <3>5, <3>6, <4>1 DEF ResInv, BindersAlone, PcTyped
    <3>11. ProbesOwn' /\ ProbesEmpty'
      BY <2>1, <3>2, <3>3, <3>6 DEF ResInv, ProbesOwn, ProbesEmpty, PcTyped
    <3> QED
      BY <3>7, <3>8, <3>9, <3>10, <3>11 DEF ResInv
  <2> QED
    BY <1>3, <2>2, <2>3 DEF Bind
<1>4. CASE Record(c)
  <2>1. UNCHANGED <<lease, hand>> /\ \E l \in {"done", "teardown"} : pc' = [pc EXCEPT ![c] = l]
    BY <1>4 DEF Record, locals, Goto
  <2>2. CASE row' = row
    BY <2>1, <2>2, ResInvKept DEF PcTyped
  <2>3. CASE c \in Rows /\ row' = [row EXCEPT ![c].running = TRUE]
    <3>1. row[c] \in Row /\ row' = [row EXCEPT ![c] = [row[c] EXCEPT !.running = TRUE]]
      BY <2>3 DEF Rows, DbTyped
    <3>2. /\ \A y \in Owner : y # c => row'[y] = row[y]
          /\ row'[c].ip = row[c].ip /\ row'[c].vmid = row[c].vmid /\ row'[c] \in Row
      BY <3>1 DEF Row, DbTyped
    <3>3. Rows' = Rows
      BY <2>3, <3>2 DEF Rows
    <3>4. VmidsApart' /\ LeasesMatch' /\ FreeIsUnbound'
      BY <2>1, <3>2, <3>3 DEF ResInv, VmidsApart, LeasesMatch, FreeIsUnbound, Rows
    <3>5. BindersAlone' /\ ProbesOwn' /\ ProbesEmpty'
      BY <2>1, <3>2, <3>3 DEF ResInv, BindersAlone, ProbesOwn, ProbesEmpty, PcTyped
    <3> QED
      BY <3>4, <3>5 DEF ResInv
  <2> QED
    BY <1>4, <2>2, <2>3 DEF Record
<1>5. CASE Release(c)
  <2>1. CASE DeleteRow(c) /\ UNCHANGED hand /\ pc' = [pc EXCEPT ![c] = "fail"]
    BY <2>1, DeleteRowKeeps DEF PcTyped
  <2>2. CASE UNCHANGED <<row, lease, hand>> /\ pc' = [pc EXCEPT ![c] = "done"]
    BY <2>2, ResInvKept DEF PcTyped
  <2> QED
    BY <1>5, <2>1, <2>2 DEF Release, ReleaseReservation, locals, Goto
<1>6. CASE \/ Accept(c) \/ Admit(c) \/ ErrorPath(c) \/ Fail(c)
           \/ Configure(c) \/ BootBox(c) \/ ConfirmIp(c)
           \/ StartClone(c, mine[c], "teardown") \/ WaitClone(c, mine[c], "teardown")
  <2>1. UNCHANGED <<row, lease, hand>>
    BY <1>6 DEF Accept, Admit, ErrorPath, Fail, Configure, BootBox, ConfirmIp, StartClone, WaitClone,
                db, locals
  <2>2. \E l \in CallLabels \ {"bind"} : pc' = [pc EXCEPT ![c] = l]
    <3>1. CASE \/ Accept(c) \/ Admit(c) \/ ErrorPath(c) \/ Fail(c)
               \/ Configure(c) \/ BootBox(c) \/ ConfirmIp(c)
      BY <3>1 DEF Accept, Admit, ErrorPath, Fail, Configure, BootBox, ConfirmIp, Goto, CallLabels
    <3>2. CASE StartClone(c, mine[c], "teardown") \/ WaitClone(c, mine[c], "teardown")
      BY <3>2 DEF StartClone, WaitClone, Goto, CallLabels
    <3> QED
      BY <1>6, <3>1, <3>2
  <2> QED
    BY <2>1, <2>2, ResInvKept DEF PcTyped
<1> QED
  BY <1>1, <1>2, <1>3, <1>4, <1>5, <1>6 DEF CallStep

LEMMA ProbeReserves ==
  ASSUME DbTyped, PcTyped, HandsTyped, ResInv, NEW p \in Probe, ProbeStep(p)
  PROVE  ResInv'
<1> USE Actors
<1>1. CASE RecordProbe(p)
  <2>1. pc[p] = "record" /\ hand[p] = NoVal
    BY <1>1 DEF RecordProbe, ResInv, ProbesEmpty
  <2>2. PICK l \in {"destroy", "power_on"} : pc' = [pc EXCEPT ![p] = l]
    BY <1>1 DEF RecordProbe, Goto
  <2>3. \A x \in Proc : x # p => pc'[x] = pc[x]
    BY <2>2 DEF PcTyped
  <2>4. CASE UNCHANGED <<row, lease, hand>>
    BY <2>1, <2>2, <2>3, <2>4, ResInvKept DEF PcTyped
  <2>5. ASSUME UniqueVmid, NEW i \in FreeLeases,
               row' = [row EXCEPT ![p] = [vmid |-> ProbeVmid, ip |-> i, running |-> FALSE]],
               lease' = [lease EXCEPT ![i] = [state |-> "leased", vm |-> p]],
               hand' = [hand EXCEPT ![p] = i]
        PROVE  ResInv'
    <3>1. i \in Ip /\ lease[i].state = "free" /\ lease[i].vm = NoVal
      BY <2>5 DEF FreeLeases, ResInv, FreeIsUnbound
    <3>2. /\ row'[p] = [vmid |-> ProbeVmid, ip |-> i, running |-> FALSE]
          /\ row'[p] \in Row
          /\ \A y \in Owner : y # p => row'[y] = row[y]
      BY <2>5, <3>1, ProbeVmidInRange DEF DbTyped, Row
    <3>3. Rows' = Rows \cup {p} /\ row'[p].ip = i /\ row'[p].vmid = ProbeVmid
      BY <3>2 DEF Rows
    <3>4. lease'[i] = [state |-> "leased", vm |-> p] /\ \A j \in Ip : j # i => lease'[j] = lease[j]
      BY <2>5, <3>1 DEF DbTyped
    <3>5. hand'[p] = i /\ \A x \in Proc : x # p => hand'[x] = hand[x]
      BY <2>5 DEF HandsTyped
    <3>6. VmidsApart'
      <4>1. \A x \in Rows : row[x].vmid # ProbeVmid
        BY <2>5 DEF UniqueVmid, RowVmids
      <4> QED
        BY <3>2, <3>3, <4>1 DEF ResInv, VmidsApart, Rows
    <3>7. FreeIsUnbound'
      BY <3>4 DEF ResInv, FreeIsUnbound
    <3>8. LeasesMatch'
      <4>1. \A x \in Rows : x \in Owner /\ row[x].ip \in Ip \cup {NoVal}
        BY DEF Rows, DbTyped, Row
      <4>2. \A x \in Rows : row[x].ip # NoVal => row[x].ip # i
        BY <3>1, OnRow
      <4> QED
        BY <3>2, <3>3, <3>4, <4>1, <4>2 DEF ResInv, LeasesMatch
    <3>9. BindersAlone'
      <4>1. ASSUME NEW d \in Call, pc[d] = "bind" PROVE hand[d] \in Ip /\ hand[d] # i
        <5>1. lease[hand[d]].state = "leased"
          BY <4>1 DEF ResInv, BindersAlone
        <5> QED
          BY <3>1, <4>1, <5>1 DEF HandsTyped, Holding
      <4> QED
        BY <2>3, <3>4, <3>5, <4>1 DEF ResInv, BindersAlone
    <3>10. ProbesOwn' /\ ProbesEmpty'
      BY <2>2, <2>3, <3>2, <3>3, <3>5 DEF ResInv, ProbesOwn, ProbesEmpty, PcTyped
    <3> QED
      BY <3>6, <3>7, <3>8, <3>9, <3>10 DEF ResInv
  <2> QED
    BY <1>1, <2>4, <2>5 DEF RecordProbe
<1>2. CASE ProbeClean(p)
  <2>1. UNCHANGED hand /\ pc' = [pc EXCEPT ![p] = "done"] /\ pc[p] = "clean"
    BY <1>2 DEF ProbeClean, locals, Goto
  <2>2. CASE UNCHANGED <<row, lease>>
    BY <2>1, <2>2, ResInvKept DEF PcTyped
  <2>3. CASE /\ row' = [row EXCEPT ![p] = NoVal]
             /\ lease' = IF hand[p] = NoVal THEN lease ELSE [lease EXCEPT ![hand[p]] = FreeLease]
    <3>1. Rows' = Rows \ {p} /\ \A y \in Owner : y # p => row'[y] = row[y]
      BY <2>3 DEF Rows, DbTyped
    <3>2. hand[p] \in Ip \cup {NoVal}
      BY DEF HandsTyped
    <3>3. \A i \in Ip : lease'[i] = IF i = hand[p] THEN FreeLease ELSE lease[i]
      BY <2>3, <3>2 DEF DbTyped
    <3>4. hand[p] # NoVal => p \in Rows /\ row[p].ip = hand[p] /\ lease[hand[p]].vm = p
      BY <2>1, OnRow DEF ResInv, ProbesOwn
    <3>5. VmidsApart' /\ FreeIsUnbound'
      BY <3>1, <3>3 DEF ResInv, VmidsApart, FreeIsUnbound, FreeLease, Rows
    <3>6. LeasesMatch'
      <4>1. ASSUME NEW x \in Rows, x # p, row[x].ip # NoVal PROVE row[x].ip # hand[p]
        BY <3>4, <4>1, OnRow
      <4>2. \A x \in Rows : x \in Owner /\ row[x].ip \in Ip \cup {NoVal}
        BY DEF Rows, DbTyped, Row
      <4> QED
        BY <3>1, <3>3, <4>1, <4>2 DEF ResInv, LeasesMatch
    <3>7. BindersAlone'
      <4>1. ASSUME NEW d \in Call, pc[d] = "bind" PROVE hand[d] \in Ip /\ hand[d] # hand[p]
        <5>1. lease[hand[d]].vm = NoVal
          BY <4>1 DEF ResInv, BindersAlone
        <5> QED
          BY <3>4, <4>1, <5>1 DEF HandsTyped, Holding
      <4> QED
        BY <2>1, <3>3, <4>1 DEF ResInv, BindersAlone, PcTyped
    <3>8. ProbesOwn' /\ ProbesEmpty'
      BY <2>1, <3>1 DEF ResInv, ProbesOwn, ProbesEmpty, PcTyped
    <3> QED
      BY <3>5, <3>6, <3>7, <3>8 DEF ResInv
  <2> QED
    BY <1>2, <2>2, <2>3 DEF ProbeClean
<1>3. CASE ~RecordProbe(p) /\ ~ProbeClean(p)
  <2>1. UNCHANGED <<row, lease, hand>>
    <3>1. CASE BeginProbe(p) \/ ReadBack(p) \/ ProbeClone(p) \/ ProbeWait(p)
      BY <3>1 DEF BeginProbe, ReadBack, ProbeClone, StartClone, ProbeWait, WaitClone, db, locals
    <3>2. CASE PowerOn(p) \/ PowerOff(p) \/ ProbeDestroy(p)
      BY <3>2 DEF PowerOn, PowerOff, ProbeDestroy, db, locals
    <3> QED
      BY <1>3, <3>1, <3>2 DEF ProbeStep
  <2>2. \E l \in ProbeLabels \ {"idle"} :
          /\ pc' = [pc EXCEPT ![p] = l]
          /\ l \in {"clone", "cloning", "cloned", "record"} =>
               pc[p] \in {"idle", "clone", "cloning", "cloned", "record"}
          /\ pc[p] \notin {"done", "crashed"}
    <3>1. CASE BeginProbe(p) \/ ReadBack(p)
      BY <3>1 DEF BeginProbe, ReadBack, Goto, ProbeLabels
    <3>2. CASE ProbeClone(p) \/ ProbeWait(p)
      BY <3>2 DEF ProbeClone, StartClone, ProbeWait, WaitClone, Goto, ProbeLabels
    <3>3. CASE PowerOn(p) \/ PowerOff(p) \/ ProbeDestroy(p)
      BY <3>3 DEF PowerOn, PowerOff, ProbeDestroy, Goto, ProbeLabels
    <3> QED
      BY <1>3, <3>1, <3>2, <3>3 DEF ProbeStep
  <2>3. pc'[p] # "idle" /\ \A x \in Proc : x # p => pc'[x] = pc[x]
    BY <2>2 DEF PcTyped
  <2>4. /\ pc'[p] \in {"clone", "cloning", "cloned", "record"} =>
             pc[p] \in {"idle", "clone", "cloning", "cloned", "record"}
        /\ pc[p] \notin {"done", "crashed"}
    BY <2>2 DEF PcTyped
  <2>5. \A q \in Probe : q # p => q \in Proc /\ pc'[q] = pc[q]
    BY <2>3
  <2>6. \A c \in Call : pc'[c] = pc[c]
    BY <2>3
  <2> QED
    BY <2>1, <2>3, <2>4, <2>5, <2>6, ResInvKept
<1> QED
  BY <1>1, <1>2, <1>3

LEMMA ReservesStep == Typed /\ ResInv /\ [Next]_vars => ResInv'
<1> SUFFICES ASSUME DbTyped, PcTyped, HandsTyped, OpsTyped, ResInv, [Next]_vars PROVE ResInv'
  BY DEF Typed
<1> USE Actors
<1>1. ASSUME NEW o \in Op, OpStep(o) PROVE ResInv'
  <2>1. CASE DropNext(o)
    <3>1. /\ hand[o] \in Call /\ UNCHANGED hand
          /\ pc' = [pc EXCEPT ![o] = "next"]
      BY <2>1 DEF DropNext, Goto, OpsTyped
    <3>2. CASE DeleteRow(hand[o])
      BY <3>1, <3>2, DeleteRowKeeps DEF PcTyped
    <3>3. CASE UNCHANGED <<row, lease>>
      BY <3>1, <3>3, ResInvKept DEF PcTyped
    <3> QED
      BY <2>1, <3>2, <3>3 DEF DropNext
  <2>2. CASE DestroyNext(o) \/ RecordDestroyed(o)
    <3>1. /\ UNCHANGED <<row, lease>>
          /\ hand' = hand \/ \E x : hand' = [hand EXCEPT ![o] = x]
          /\ pc' = pc \/ \E l : pc' = [pc EXCEPT ![o] = l]
      BY <2>2 DEF DestroyNext, RecordDestroyed, db, locals, Goto
    <3> QED
      BY <3>1, ResInvKept DEF PcTyped, HandsTyped
  <2> QED
    BY <1>1, <2>1, <2>2 DEF OpStep
<1>2. ASSUME NEW x \in Proc, UNCHANGED <<row, lease, hand>>,
             NEW l \in {"asked", "queued", "next", "crashed"}, pc' = [pc EXCEPT ![x] = l],
             x \in Probe => l = "crashed"
      PROVE  ResInv'
  BY <1>2, ResInvKept DEF PcTyped
<1>3. ASSUME NEW c \in Call, NEW l \in Lab, Ask(c, l) \/ Retry(c, l) PROVE ResInv'
  BY <1>2, <1>3 DEF Ask, Retry, Goto, db
<1>4. ASSUME NEW o \in Op, NEW l \in Lab, Deprovision(o, l) PROVE ResInv'
  BY <1>2, <1>4 DEF Deprovision, Goto, db
<1>5. ASSUME NEW x \in Owner, Crash(x) PROVE ResInv'
  BY <1>2, <1>5 DEF Crash, Goto, db, locals
<1>6. CASE UNCHANGED <<row, lease, pc, hand>>
  BY <1>6, ResInvKept
<1> QED
  BY <1>1, <1>3, <1>4, <1>5, <1>6, CallReserves, ProbeReserves
     DEF Next, vars, db, locals, FinishClone, Owner

\* No vmid and no address is ever on two rows, and an address on a row is leased to
\* it, beside probes that record a vmid nobody reserved for them and deprovisions that
\* delete the rows of calls at work (models.py:119-133, tasks.py:142-158, 757-768).
THEOREM ReservationsAreDistinct == Spec => []ReservationsDistinct
<1>1. Init => ResInv
  BY Actors DEF Init, ResInv, VmidsApart, LeasesMatch, FreeIsUnbound, BindersAlone, ProbesOwn,
         ProbesEmpty, Rows, FreeLease, Owner
<1> QED
  BY <1>1, AlwaysTyped, ReservesStep, ResInvSuffices, PTL DEF Spec

-----------------------------------------------------------------------------
(* Labs are closed *)

\* Until its first call has written it, a lab has no other call.
OnlyAsker ==
  \A c \in Call : pc[c] = "asked" =>
    status[for[c]] = "none" /\ \A d \in Call : for[d] = for[c] => d = c
NoneIsAsked == \A l \in Lab : status[l] = "none" => \A c \in Call : for[c] = l => pc[c] = "asked"

\* A row that is recorded as running is of a lab that was.
RunningWas ==
  \A c \in Call : c \in Rows /\ row[c].running => status[for[c]] \notin {"none", "pending"}
IdleIsEmpty == \A c \in Call : pc[c] = "idle" => for[c] = NoVal /\ c \notin Rows

OpsAfter == \A o \in Op : pc[o] # "idle" => status[for[o]] # "none"

ClosedInv ==
  OnlyAsker /\ NoneIsAsked /\ RunningWas /\ IdleIsEmpty /\ OpsAfter /\ EndedMeansClosed

\* Somebody could not ask the node, or could not write.
Excused == faults.kinds \cap {"unreachable", "database"} # {}

\* No step forgets a fault.
LEMMA FaultsStay ==
  ASSUME [Next]_vars, ~Excused' PROVE ~Excused
<1>a. ASSUME NEW k, Fault(k) PROVE faults'.kinds = faults.kinds \cup {k}
  BY <1>a DEF Fault
<1>1. ASSUME NEW c \in Call, CallStep(c) PROVE (\E k : Fault(k)) \/ UNCHANGED faults
  BY <1>1 DEF CallStep, Accept, Admit, Reserve, LeaseIp, Bind, StartClone, WaitClone, Configure,
              BootBox, ConfirmIp, Record, ErrorPath, TearDown, Release, Fail, NoFault
<1>2. ASSUME NEW p \in Probe, ProbeStep(p) PROVE (\E k : Fault(k)) \/ UNCHANGED faults
  BY <1>2 DEF ProbeStep, BeginProbe, ProbeClone, StartClone, ProbeWait, WaitClone, ReadBack,
              RecordProbe, PowerOn, PowerOff, ProbeDestroy, DestroyProbe, TearDown, ProbeClean, NoFault
<1>3. ASSUME NEW o \in Op, OpStep(o) PROVE (\E k : Fault(k)) \/ UNCHANGED faults
  BY <1>3 DEF OpStep, DestroyNext, DropNext, RecordDestroyed, NoFault
<1>b. (\E k : Fault(k)) \/ UNCHANGED faults
  BY <1>1, <1>2, <1>3 DEF Next, vars, Ask, Retry, Crash, Deprovision, FinishClone
<1> QED
  BY <1>a, <1>b DEF Excused

\* A step that leaves the labs and the calls alone and marks no row as running.
LEMMA ClosedKept ==
  ASSUME DbTyped, PcTyped, ForTyped, ClosedInv, [Next]_vars,
         \A c \in Call : for'[c] = for[c] /\ (pc'[c] = "asked" <=> pc[c] = "asked"),
         \A c \in Call : pc'[c] = "idle" => pc[c] = "idle",
         \A l \in Lab : status'[l] = status[l] \/ (status[l] # "none" /\ status'[l] \notin {"none", "pending"}),
         \A c \in Call : c \in Rows' /\ row'[c].running =>
            (c \in Rows /\ row[c].running) \/ (pc[c] # "idle" /\ status'[for[c]] \notin {"none", "pending"}),
         \A c \in Call : c \in Rows' => c \in Rows \/ pc'[c] # "idle",
         \A c \in Call : pc'[c] = "done" =>
           pc[c] = "done" \/ status'[for[c]] # "pending" \/ Excused',
         \A o \in Op : pc'[o] # "idle" =>
           for'[o] \in Lab /\ ((pc[o] # "idle" /\ for'[o] = for[o]) \/ status[for'[o]] # "none")
  PROVE  ClosedInv'
<1>1. \A c \in Call : for[c] \in Lab \/ (for[c] = NoVal /\ pc[c] = "idle")
  BY Actors DEF ForTyped
<1>2. OnlyAsker'
  BY <1>1 DEF ClosedInv, OnlyAsker
<1>3. NoneIsAsked'
  BY <1>1 DEF ClosedInv, NoneIsAsked
<1>4. RunningWas'
  BY <1>1 DEF ClosedInv, RunningWas, IdleIsEmpty
<1>5. IdleIsEmpty'
  BY DEF ClosedInv, IdleIsEmpty
<1>6. EndedMeansClosed'
  <2> SUFFICES ASSUME NEW c \in Call, pc'[c] = "done", ~Excused'
               PROVE  status'[for'[c]] # "pending"
    BY DEF EndedMeansClosed, Excused
  <2>1. ~Excused
    BY FaultsStay
  <2>2. CASE pc[c] = "done"
    BY <1>1, <2>1, <2>2 DEF ClosedInv, EndedMeansClosed, Excused
  <2> QED
    BY <2>2
<1>7. OpsAfter'
  BY DEF ClosedInv, OpsAfter
<1> QED
  BY <1>2, <1>3, <1>4, <1>5, <1>6, <1>7 DEF ClosedInv

LEMMA CallCloses ==
  ASSUME Typed, ClosedInv, [Next]_vars, NEW c \in Call, CallStep(c)
  PROVE  ClosedInv'
<1> USE Actors
<1>a. DbTyped /\ PcTyped /\ ForTyped
  BY DEF Typed
<1>b. for[c] \in Lab /\ for' = for /\ pc[c] # "idle"
  <2>1. pc[c] # "idle"
    BY DEF CallStep, Accept, Admit, Reserve, LeaseIp, Bind, StartClone, WaitClone, Configure,
              BootBox, ConfirmIp, Record, ErrorPath, Release, Fail
  <2>2. for' = for
    BY DEF CallStep, Accept, Admit, Reserve, LeaseIp, Bind, StartClone, WaitClone, Configure,
              BootBox, ConfirmIp, Record, ErrorPath, Release, Fail, locals
  <2> QED
    BY <1>a, <2>1, <2>2 DEF ForTyped
<1>c. ASSUME NEW l \in CallLabels \ {"idle", "asked"}, pc' = [pc EXCEPT ![c] = l], pc[c] # "asked",
             status' = status \/ \E st \in {"running", "error"} : SetStatus(for[c], st),
             \A d \in Call : d \in Rows' => d \in Rows \/ d = c,
             \A d \in Call : d \in Rows' /\ row'[d].running =>
                (d \in Rows /\ row[d].running) \/ (d = c /\ status'[for[c]] = "running"),
             l = "done" => status'[for[c]] # "pending" \/ Excused'
      PROVE  ClosedInv'
  <2>1. status[for[c]] # "none"
    BY <1>b, <1>c DEF ClosedInv, NoneIsAsked
  <2>2. \A d \in Call : d # c => pc'[d] = pc[d]
    BY <1>a, <1>c DEF PcTyped
  <2>3. pc'[c] = l
    BY <1>a, <1>c DEF PcTyped
  <2>4. \A k \in Lab : status'[k] = status[k] \/ (status[k] # "none" /\ status'[k] \in {"running", "error"})
    BY <1>a, <1>b, <1>c, <2>1 DEF SetStatus, DbTyped
  <2>5. \A o \in Op : pc'[o] # "idle" => for'[o] \in Lab /\ pc[o] # "idle" /\ for'[o] = for[o]
    BY <1>a, <1>b, <1>c DEF PcTyped, ForTyped
  <2> QED
    BY <1>a, <1>b, <1>c, <2>2, <2>3, <2>4, <2>5, ClosedKept
<1>1. CASE Accept(c)
  <2>1. /\ pc[c] = "asked" /\ UNCHANGED row
        /\ status' = [status EXCEPT ![for[c]] = "pending"]
        /\ \E l \in {"queued", "crashed"} : pc' = [pc EXCEPT ![c] = l]
    BY <1>1 DEF Accept, Goto
  <2>2. /\ status'[for[c]] = "pending" /\ \A l \in Lab : l # for[c] => status'[l] = status[l]
        /\ pc'[c] \in {"queued", "crashed"} /\ \A d \in Call : d # c => pc'[d] = pc[d]
    BY <1>a, <1>b, <2>1 DEF DbTyped, PcTyped
  <2>3. status[for[c]] = "none" /\ \A d \in Call : for[d] = for[c] => d = c
    BY <2>1 DEF ClosedInv, OnlyAsker
  <2>4. \A d \in Call : for[d] \in Lab \/ (for[d] = NoVal /\ pc[d] = "idle")
    BY <1>a DEF ForTyped
  <2>5. OnlyAsker'
    BY <1>b, <2>2, <2>3, <2>4 DEF ClosedInv, OnlyAsker
  <2>6. NoneIsAsked'
    BY <1>b, <2>2, <2>3, <2>4 DEF ClosedInv, NoneIsAsked
  <2>7. RunningWas'
    BY <1>b, <2>1, <2>2, <2>3, <2>4 DEF ClosedInv, RunningWas, IdleIsEmpty, Rows
  <2>8. IdleIsEmpty'
    BY <1>b, <2>1, <2>2 DEF ClosedInv, IdleIsEmpty, Rows
  <2>9. EndedMeansClosed'
    BY <1>b, <2>2, <2>3, <2>4, FaultsStay DEF ClosedInv, EndedMeansClosed, Excused
  <2>10. OpsAfter'
    <3>1. \A o \in Op : pc'[o] = pc[o] /\ (pc[o] # "idle" => for[o] \in Lab)
      BY <1>a, <2>1 DEF PcTyped, ForTyped
    <3> QED
      BY <1>b, <2>2, <3>1 DEF ClosedInv, OpsAfter
  <2> QED
    BY <2>5, <2>6, <2>7, <2>8, <2>9, <2>10 DEF ClosedInv
<1>2. CASE Admit(c)
  <2>1. UNCHANGED row /\ pc[c] = "queued"
    BY <1>2 DEF Admit
  <2>2. CASE IsProvisioned(for[c]) /\ Goto(c, "done") /\ UNCHANGED status
    <3>1. PICK x \in RunningRows(for[c]) : TRUE
      BY <2>2 DEF IsProvisioned
    <3>2. x \in Call /\ for[x] = for[c] /\ x \in Rows /\ row[x].running
      BY <3>1 DEF RunningRows, RowsOf, CallsOf
    <3>3. status[for[c]] # "pending"
      BY <3>2 DEF ClosedInv, RunningWas
    <3> QED
      BY <1>c, <2>1, <2>2, <3>3 DEF Goto, CallLabels, Rows
  <2>3. CASE SetStatus(for[c], "error") /\ Goto(c, "done")
    <3>1. status'[for[c]] = "error"
      BY <1>a, <1>b, <2>3 DEF SetStatus, DbTyped
    <3> QED
      BY <1>c, <2>1, <2>3, <3>1 DEF Goto, CallLabels, Rows
  <2>4. CASE Goto(c, "reserve") /\ UNCHANGED status
    BY <1>c, <2>1, <2>4 DEF Goto, CallLabels, Rows
  <2>5. CASE Goto(c, "done") /\ UNCHANGED status /\ (Fault("unreachable") \/ Fault("database"))
    <3>1. Excused'
      BY <2>5 DEF Fault, Excused
    <3> QED
      BY <1>c, <2>1, <2>5, <3>1 DEF Goto, CallLabels, Rows
  <2> QED
    BY <1>2, <2>2, <2>3, <2>4, <2>5 DEF Admit
<1>3. CASE Reserve(c)
  <2>1. UNCHANGED status /\ pc[c] = "reserve"
    BY <1>3 DEF Reserve
  <2>2. \E l \in {"lease", "teardown"} : pc' = [pc EXCEPT ![c] = l]
    BY <1>3 DEF Reserve, Goto
  <2>3. row' = row \/ \E v : row' = [row EXCEPT ![c] = [vmid |-> v, ip |-> NoVal, running |-> FALSE]]
    BY <1>3 DEF Reserve
  <2>4. row' = row \/ row'[c].running = FALSE
    BY <1>a, <2>3 DEF DbTyped
  <2>5. \A d \in Call : d # c => row'[d] = row[d]
    BY <1>a, <2>3 DEF DbTyped
  <2> QED
    BY <1>c, <2>1, <2>2, <2>4, <2>5 DEF CallLabels, Rows
<1>4. CASE Bind(c)
  <2>1. UNCHANGED status /\ pc[c] = "bind" /\ \E l \in {"clone", "teardown"} : pc' = [pc EXCEPT ![c] = l]
    BY <1>4 DEF Bind, Goto
  <2>2. row' = row \/ (c \in Rows /\ row' = [row EXCEPT ![c].ip = hand[c]])
    BY <1>4 DEF Bind
  <2>3. c \in Rows => row[c] \in Row
    BY <1>a DEF Rows, DbTyped
  <2>4. row' = row \/ (c \in Rows /\ row'[c] = [row[c] EXCEPT !.ip = hand[c]])
    BY <1>a, <2>2 DEF DbTyped
  <2>5. row' = row \/ (c \in Rows /\ row'[c].running = row[c].running)
    BY <2>3, <2>4 DEF Row
  <2>6. \A d \in Call : d # c => row'[d] = row[d]
    BY <1>a, <2>2 DEF DbTyped
  <2> QED
    BY <1>c, <2>1, <2>5, <2>6 DEF CallLabels, Rows
<1>5. CASE Record(c)
  <2>1. pc[c] = "record" /\ \E l \in {"done", "teardown"} : pc' = [pc EXCEPT ![c] = l]
    BY <1>5 DEF Record, Goto
  <2>2. CASE c \in Rows /\ row' = [row EXCEPT ![c].running = TRUE] /\ SetStatus(for[c], "running")
    <3>1. status'[for[c]] = "running"
      BY <1>a, <1>b, <2>2 DEF SetStatus, DbTyped
    <3>2. \A d \in Call : d # c => row'[d] = row[d]
      BY <1>a, <2>2 DEF DbTyped
    <3> QED
      BY <1>c, <2>1, <2>2, <3>1, <3>2 DEF CallLabels, Rows
  <2>3. CASE Goto(c, "teardown") /\ UNCHANGED <<row, status>>
    BY <1>c, <2>1, <2>3 DEF Goto, CallLabels, Rows
  <2> QED
    BY <1>5, <2>2, <2>3 DEF Record
<1>6. CASE Release(c)
  <2>1. pc[c] = "release" /\ UNCHANGED status
    BY <1>6 DEF Release
  <2>2. CASE pc' = [pc EXCEPT ![c] = "fail"] /\ row' = [row EXCEPT ![c] = NoVal]
    <3>1. \A d \in Call : row'[d] = row[d] \/ row'[d] = NoVal
      BY <1>a, <2>2 DEF DbTyped
    <3> QED
      BY <1>c, <2>1, <2>2, <3>1 DEF CallLabels, Rows
  <2>3. CASE pc' = [pc EXCEPT ![c] = "done"] /\ UNCHANGED row /\ Excused'
    BY <1>c, <2>1, <2>3 DEF CallLabels, Rows
  <2>4. \/ pc' = [pc EXCEPT ![c] = "fail"] /\ row' = [row EXCEPT ![c] = NoVal]
        \/ pc' = [pc EXCEPT ![c] = "done"] /\ UNCHANGED row /\ Excused'
    BY <1>6 DEF Release, ReleaseReservation, DeleteRow, Goto, Fault, Excused
  <2> QED
    BY <2>2, <2>3, <2>4
<1>7. CASE Fail(c)
  <2>1. /\ pc[c] = "fail" /\ UNCHANGED row /\ pc' = [pc EXCEPT ![c] = "done"]
        /\ SetStatus(for[c], "error") \/ (UNCHANGED status /\ Excused')
    BY <1>7 DEF Fail, RecordError, Goto, Fault, Excused
  <2>2. status'[for[c]] = "error" \/ Excused'
    BY <1>a, <1>b, <2>1 DEF SetStatus, DbTyped
  <2> QED
    BY <1>c, <2>1, <2>2 DEF CallLabels, Rows
<1>8. CASE \/ LeaseIp(c) \/ ErrorPath(c) \/ Configure(c) \/ BootBox(c) \/ ConfirmIp(c)
           \/ StartClone(c, mine[c], "teardown") \/ WaitClone(c, mine[c], "teardown")
  <2>1. UNCHANGED <<row, status>> /\ pc[c] # "asked"
    BY <1>8 DEF LeaseIp, ErrorPath, Configure, BootBox, ConfirmIp, StartClone, WaitClone, db
  <2>2. \E l \in CallLabels \ {"idle", "asked", "done"} : pc' = [pc EXCEPT ![c] = l]
    <3>1. CASE LeaseIp(c) \/ ErrorPath(c) \/ Configure(c) \/ BootBox(c) \/ ConfirmIp(c)
      BY <3>1 DEF LeaseIp, NothingToLease, ErrorPath, Configure, BootBox, ConfirmIp, Goto, CallLabels
    <3>2. CASE StartClone(c, mine[c], "teardown") \/ WaitClone(c, mine[c], "teardown")
      BY <3>2 DEF StartClone, WaitClone, Goto, CallLabels
    <3> QED
      BY <1>8, <3>1, <3>2
  <2> QED
    BY <1>c, <2>1, <2>2 DEF Rows
<1> QED
  BY <1>1, <1>2, <1>3, <1>4, <1>5, <1>6, <1>7, <1>8 DEF CallStep

LEMMA ClosesStep == Typed /\ ClosedInv /\ [Next]_vars => ClosedInv'
<1> SUFFICES ASSUME Typed, ClosedInv, [Next]_vars PROVE ClosedInv'
  OBVIOUS
<1> USE Actors
<1>a. DbTyped /\ PcTyped /\ ForTyped /\ OpsTyped
  BY DEF Typed
<1>1. ASSUME \A c \in Call : for'[c] = for[c] /\ pc'[c] = pc[c],
             \A o \in Op : pc'[o] # "idle" => for'[o] \in Lab /\
               ((pc[o] # "idle" /\ for'[o] = for[o]) \/ status[for'[o]] # "none"),
             \A c \in Call : row'[c] = row[c] \/ row'[c] = NoVal,
             \A l \in Lab : status'[l] = status[l] \/ (status[l] # "none" /\ status'[l] = "destroyed")
      PROVE  ClosedInv'
  <2>1. \A c \in Call : c \in Rows' => c \in Rows /\ row'[c] = row[c]
    BY <1>1 DEF Rows
  <2>2. \A c \in Call : pc'[c] = "done" => pc[c] = "done"
    BY <1>1
  <2>3. /\ \A c \in Call : for'[c] = for[c] /\ (pc'[c] = "asked" <=> pc[c] = "asked")
        /\ \A c \in Call : pc'[c] = "idle" => pc[c] = "idle"
    BY <1>1
  <2> QED
    BY <1>a, <1>1, <2>1, <2>2, <2>3, ClosedKept
<1>b. ASSUME for' = for, NEW x \in Proc, pc' = pc \/ \E l : pc' = [pc EXCEPT ![x] = l],
             x \in Probe \/ pc[x] # "idle"
      PROVE  \A o \in Op : pc'[o] # "idle" => for'[o] \in Lab /\
               ((pc[o] # "idle" /\ for'[o] = for[o]) \/ status[for'[o]] # "none")
  BY <1>a, <1>b DEF PcTyped, ForTyped
<1>2. ASSUME NEW p \in Probe, ProbeStep(p) PROVE ClosedInv'
  <2>1. \E l \in ProbeLabels : pc' = [pc EXCEPT ![p] = l]
    BY <1>2, ProbeHolds
  <2>2. CASE RecordProbe(p) \/ ProbeClean(p)
    <3>1. UNCHANGED <<status, for>> /\ (row' = row \/ \E y : row' = [row EXCEPT ![p] = y])
      BY <2>2 DEF RecordProbe, ProbeClean, locals
    <3>2. \A c \in Call : row'[c] = row[c] /\ pc'[c] = pc[c]
      BY <1>a, <2>1, <3>1 DEF PcTyped, DbTyped
    <3> QED
      BY <1>b, <1>1, <2>1, <3>1, <3>2
  <2>3. CASE ~RecordProbe(p) /\ ~ProbeClean(p)
    <3>1. UNCHANGED <<status, for, row>>
      <4>1. CASE BeginProbe(p) \/ ReadBack(p) \/ ProbeClone(p) \/ ProbeWait(p)
        BY <4>1 DEF BeginProbe, ReadBack, ProbeClone, StartClone, ProbeWait, WaitClone, db, locals
      <4>2. CASE PowerOn(p) \/ PowerOff(p) \/ ProbeDestroy(p)
        BY <4>2 DEF PowerOn, PowerOff, ProbeDestroy, db, locals
      <4> QED
        BY <1>2, <2>3, <4>1, <4>2 DEF ProbeStep
    <3> QED
      BY <1>a, <1>b, <1>1, <2>1, <3>1 DEF PcTyped
  <2> QED
    BY <2>2, <2>3
<1>3. ASSUME NEW o \in Op, OpStep(o) PROVE ClosedInv'
  <2>1. for' = for /\ (pc' = pc \/ \E l : pc' = [pc EXCEPT ![o] = l])
    BY <1>3 DEF OpStep, DestroyNext, DropNext, RecordDestroyed, locals, Goto
  <2>2. \A c \in Call : pc'[c] = pc[c]
    BY <1>a, <2>1 DEF PcTyped
  <2>3. pc[o] # "idle"
    BY <1>3 DEF OpStep, DestroyNext, DropNext, RecordDestroyed
  <2>4. \A q \in Op : pc'[q] # "idle" =>
          for'[q] \in Lab /\ ((pc[q] # "idle" /\ for'[q] = for[q]) \/ status[for'[q]] # "none")
    BY <1>b, <2>1, <2>3
  <2>5. CASE DestroyNext(o)
    <3>1. UNCHANGED <<row, status>>
      BY <2>5 DEF DestroyNext, db
    <3> QED
      BY <1>1, <2>1, <2>2, <2>4, <3>1
  <2>6. CASE DropNext(o)
    <3>1. UNCHANGED status /\ (UNCHANGED row \/ row' = [row EXCEPT ![hand[o]] = NoVal])
      BY <2>6 DEF DropNext, DeleteRow
    <3> QED
      BY <1>a, <1>1, <2>1, <2>2, <2>4, <3>1 DEF DbTyped
  <2>7. CASE RecordDestroyed(o)
    <3>1. UNCHANGED row /\ (UNCHANGED status \/ SetStatus(for[o], "destroyed"))
      BY <2>7 DEF RecordDestroyed
    <3>2. for[o] \in Lab /\ status[for[o]] # "none"
      BY <1>a, <2>3 DEF ForTyped, ClosedInv, OpsAfter
    <3>3. \A l \in Lab : status'[l] = status[l] \/ (status[l] # "none" /\ status'[l] = "destroyed")
      BY <1>a, <3>1, <3>2 DEF SetStatus, DbTyped
    <3> QED
      BY <1>1, <2>1, <2>2, <2>4, <3>1, <3>3
  <2> QED
    BY <1>3, <2>5, <2>6, <2>7 DEF OpStep
<1>4. ASSUME NEW o \in Op, NEW l \in Lab, Deprovision(o, l) PROVE ClosedInv'
  <2>1. /\ UNCHANGED <<row, status>> /\ for' = [for EXCEPT ![o] = l] /\ status[l] # "none"
        /\ pc' = [pc EXCEPT ![o] = "next"]
    BY <1>4 DEF Deprovision, Goto, db
  <2>2. \A c \in Call : for'[c] = for[c] /\ pc'[c] = pc[c]
    BY <1>a, <2>1 DEF PcTyped, ForTyped
  <2>3. for'[o] = l /\ \A q \in Op : q # o => for'[q] = for[q] /\ pc'[q] = pc[q]
    BY <1>a, <2>1 DEF PcTyped, ForTyped
  <2>4. \A q \in Op : pc[q] # "idle" => for[q] \in Lab
    BY <1>a DEF ForTyped
  <2> QED
    BY <1>1, <2>1, <2>2, <2>3, <2>4
<1>5. ASSUME NEW x \in Owner, Crash(x) PROVE ClosedInv'
  <2>1. /\ UNCHANGED <<row, status, for>> /\ pc' = [pc EXCEPT ![x] = "crashed"]
        /\ pc[x] \notin {"idle", "asked", "done"}
    BY <1>5 DEF Crash, Goto, db, locals
  <2>2. /\ \A c \in Call : for'[c] = for[c] /\ (pc'[c] = "asked" <=> pc[c] = "asked")
        /\ \A c \in Call : pc'[c] = "idle" => pc[c] = "idle"
        /\ \A c \in Call : pc'[c] = "done" => pc[c] = "done"
    BY <1>a, <2>1 DEF PcTyped
  <2>3. \A o \in Op : pc'[o] # "idle" =>
          for'[o] \in Lab /\ ((pc[o] # "idle" /\ for'[o] = for[o]) \/ status[for'[o]] # "none")
    BY <1>b, <2>1
  <2> QED
    BY <1>a, <2>1, <2>2, <2>3, ClosedKept DEF Rows
<1>6. ASSUME NEW c \in Call, NEW l \in Lab, Ask(c, l) \/ Retry(c, l) PROVE ClosedInv'
  <2>1. /\ UNCHANGED <<row, status, faults>> /\ for' = [for EXCEPT ![c] = l] /\ pc[c] = "idle"
        /\ \E k \in {"asked", "queued"} : pc' = [pc EXCEPT ![c] = k]
    BY <1>6 DEF Ask, Retry, Goto, db
  <2>2. /\ for'[c] = l /\ pc'[c] \in {"asked", "queued"}
        /\ \A d \in Call : d # c => for'[d] = for[d] /\ pc'[d] = pc[d]
        /\ \A o \in Op : for'[o] = for[o] /\ pc'[o] = pc[o]
    BY <1>a, <2>1 DEF PcTyped, ForTyped
  <2>3. pc'[c] = "asked" => status[l] = "none" /\ \A d \in Call : for[d] # l
    <3>1. CASE Ask(c, l)
      BY <3>1 DEF Ask, CallsOf
    <3>2. CASE Retry(c, l)
      BY <1>a, <3>2 DEF Retry, Goto, PcTyped
    <3> QED
      BY <1>6, <3>1, <3>2
  <2>4. pc'[c] = "queued" => status[l] # "none"
    BY <1>a, <1>6, <2>2 DEF Ask, Retry, Goto, PcTyped
  <2>5. \A d \in Call : for[d] \in Lab \/ (for[d] = NoVal /\ pc[d] = "idle")
    BY <1>a DEF ForTyped
  <2>6. OnlyAsker'
    BY <2>1, <2>2, <2>3, <2>4, <2>5 DEF ClosedInv, OnlyAsker
  <2>7. NoneIsAsked'
    BY <2>1, <2>2, <2>3, <2>4, <2>5 DEF ClosedInv, NoneIsAsked
  <2>8. RunningWas' /\ IdleIsEmpty'
    <3>1. \A d \in Call : d \in Rows' => d \in Rows /\ d # c /\ row'[d] = row[d]
      BY <2>1 DEF ClosedInv, IdleIsEmpty, Rows
    <3> QED
      BY <2>1, <2>2, <3>1 DEF ClosedInv, RunningWas, IdleIsEmpty
  <2>9. OpsAfter' /\ EndedMeansClosed'
    BY <2>1, <2>2 DEF ClosedInv, OpsAfter, EndedMeansClosed
  <2> QED
    BY <2>6, <2>7, <2>8, <2>9 DEF ClosedInv
<1>7. CASE UNCHANGED <<row, status, for, pc>>
  <2>1. \A o \in Op : pc[o] # "idle" => for[o] \in Lab
    BY <1>a DEF ForTyped
  <2> QED
    BY <1>1, <1>7, <2>1
<1> QED
  BY <1>2, <1>3, <1>4, <1>5, <1>6, <1>7, CallCloses DEF Next, vars, db, locals, FinishClone, Owner

\* No call to the node that fails inside of the try, and no breached cap, misread answer,
\* dead worker or deprovision, keeps a provision that ends from closing its lab
\* (tasks.py:488-490, 684-700).  A node that cannot be asked for its VMs before the try and
\* a write that raises (tasks.py:517-538, 685-692) may.
THEOREM EndedIsClosed == Spec => []EndedMeansClosed
<1>1. Init => ClosedInv
  BY Actors DEF Init, ClosedInv, OnlyAsker, NoneIsAsked, RunningWas, IdleIsEmpty, OpsAfter,
         EndedMeansClosed, Rows, Owner, Proc
<1>2. ClosedInv => EndedMeansClosed
  BY DEF ClosedInv
<1> QED
  BY <1>1, <1>2, AlwaysTyped, ClosesStep, PTL DEF Spec

==================================================
