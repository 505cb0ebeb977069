------------------------- MODULE StudentLife_proofs --------------------------
(***************************************************************************)
(* What becomes of a box: who owns the row, the address and the VM of a    *)
(* lab from the reservation to the release, for any number of students,    *)
(* calls and sweeps, any VMIDs and addresses, any strays and any faults.   *)
(***************************************************************************)
EXTENDS StudentBox_proofs

\* A provision that will do nothing more, and the statements before its lab exists.
Ended(l) == pc[l] \in {"done", "crashed"}
Before == {"queued", "number", "save_number", "admit", "create"}

\* A provision that has ended stays as it is.
LEMMA EndedStays ==
  ASSUME Typed, [Next]_vars, NEW l \in Task, Ended(l)
  PROVE  pc'[l] = pc[l] /\ obj'[l] = obj[l] /\ ~ProvisionStep(l)
<1>1. ~ProvisionStep(l)
  BY DEF Ended, ProvisionStep, FindBox, PickNumber, SaveNumber, Admit, CreateLab, Reserve, LeaseIp, Bind,
         CheckVmid, ReapBeforeClone, StartClone, WaitClone, CloneFailed, ReapFailedClone,
         DropReservation, Configure, BootBox, ConfirmIp, Record, Teardown, ReleaseAfterError, MarkError
<1>2. ~CrashProvision(l)
  BY DEF Ended, CrashProvision, InFlight
<1> QED
  BY <1>1, <1>2, Still DEF Typed

\* A provision's next statement.
LEMMA Onwards ==
  ASSUME Typed, NEW t \in Task, ProvisionStep(t)
  PROVE  /\ pc'[t] # "queued" /\ pc'[t] # "crashed" /\ pc'[t] # pc[t]
         /\ pc'[t] \in Before => pc[t] \in Before /\ obj' = obj /\ status' = status
         /\ pc'[t] = "reserve" => CreateLab(t) \/ DropReservation(t)
         /\ pc'[t] = "lease" => Reserve(t)
         /\ pc'[t] = "heal" => Bind(t)
         /\ pc'[t] = "cloning" => StartClone(t)
         /\ pc'[t] = "configure" => WaitClone(t)
         /\ pc'[t] = "boot" => Configure(t)
         /\ pc'[t] = "confirm" => BootBox(t)
         /\ pc'[t] = "record" => ConfirmIp(t)
         /\ pc'[t] = "release" => Teardown(t)
         /\ pc'[t] = "fail" => ReleaseAfterError(t)
         /\ pc'[t] = "done" => \/ FindBox(t) \/ Admit(t) \/ CreateLab(t) \/ Record(t)
                               \/ ReleaseAfterError(t) \/ MarkError(t)
<1> USE Actors
<1>1. ASSUME NEW l, Goto(t, l) PROVE pc'[t] = l
  BY <1>1 DEF Goto, Typed, PcTyped
<1>2. CASE FindBox(t) \/ SaveNumber(t) \/ Admit(t)
  BY <1>1, <1>2 DEF FindBox, SaveNumber, Admit, Before, db
<1>3. CASE PickNumber(t)
  BY <1>1, <1>3 DEF PickNumber, Before, db
<1>4. CASE CreateLab(t) \/ Reserve(t)
  BY <1>1, <1>4 DEF CreateLab, Reserve, Before
<1>5. CASE LeaseIp(t) \/ Bind(t) \/ CheckVmid(t)
  BY <1>1, <1>5 DEF LeaseIp, Bind, CheckVmid, Before
<1>6. CASE ReapBeforeClone(t) \/ ReapFailedClone(t)
  BY <1>1, <1>6 DEF ReapBeforeClone, ReapFailedClone, ReapOrphan, Before
<1>7. CASE StartClone(t) \/ WaitClone(t)
  BY <1>1, <1>7 DEF StartClone, WaitClone, Before
<1>8. CASE CloneFailed(t) \/ DropReservation(t)
  BY <1>1, <1>8 DEF CloneFailed, DropReservation, Before
<1>9. CASE Configure(t) \/ BootBox(t) \/ ConfirmIp(t) \/ Record(t)
  BY <1>1, <1>9 DEF Configure, BootBox, ConfirmIp, Record, Before
<1>10. CASE Teardown(t) \/ ReleaseAfterError(t) \/ MarkError(t)
  BY <1>1, <1>10 DEF Teardown, ReleaseAfterError, MarkError, Before
<1> QED
  BY <1>2, <1>3, <1>4, <1>5, <1>6, <1>7, <1>8, <1>9, <1>10 DEF ProvisionStep

\* What a step of somebody else leaves of a power task, and of a sweep.
LEMMA Calls ==
  ASSUME Typed, [Next]_vars, NEW o \in Op
  PROVE  \/ pc'[o] = pc[o] /\ obj'[o] = obj[o] /\ was'[o] = was[o]
         \/ \E kind \in OpKinds, l \in Task : Begin(o, kind, l)
         \/ (OpStep(o) \/ CrashOp(o)) /\ obj'[o] = obj[o] /\ was'[o] = was[o]
<1> USE Actors DEF Typed
<1>1. ASSUME NEW q \in Op, OpStep(q) \/ CrashOp(q) PROVE UNCHANGED <<was, obj>>
  BY <1>1 DEF OpStep, StartBox, RecordStarted, StopBox, RecordStopped, DestroyBox, ReleaseBox,
         MarkDestroyed, RecordStatus, OnlyCalls, CrashOp
<1>2. ASSUME NEW q \in Op, q # o, OpStep(q) \/ CrashOp(q) PROVE pc'[o] = pc[o]
  BY <1>2, OpMoves, OtherMoves DEF PcTyped
<1>3. ASSUME NEW q \in Op, q # o, NEW kind \in OpKinds, NEW l \in Task, Begin(q, kind, l)
      PROVE  pc'[o] = pc[o] /\ obj'[o] = obj[o] /\ was'[o] = was[o]
  BY <1>3 DEF Begin, Goto, PcTyped, ObjTyped, OpsTyped
<1>4. ASSUME NEW t \in Task, ProvisionStep(t) \/ CrashProvision(t)
      PROVE  pc'[o] = pc[o] /\ obj'[o] = obj[o] /\ was' = was
  <2>1. was' = was
    BY <1>4 DEF ProvisionStep, FindBox, PickNumber, SaveNumber, Admit, CreateLab, Reserve, LeaseIp, Bind,
           CheckVmid, ReapBeforeClone, StartClone, WaitClone, CloneFailed, ReapFailedClone,
           DropReservation, Configure, BootBox, ConfirmIp, Record, Teardown, ReleaseAfterError, MarkError,
           CrashProvision
  <2>2. obj' = obj \/ \E x : obj' = [obj EXCEPT ![t] = x]
    BY <1>4, ProvisionLocals DEF CrashProvision, Reserve, LeaseIp, DropReservation
  <2>3. \E l : pc' = [pc EXCEPT ![t] = l]
    BY <1>4, ProvisionMoves, OtherMoves
  <2> QED
    BY <2>1, <2>2, <2>3 DEF PcTyped, ObjTyped
<1>5. ASSUME NEW s \in Sweep, SweepStep(s) PROVE pc'[o] = pc[o] /\ obj'[o] = obj[o] /\ was' = was
  <2>1. was' = was
    BY <1>5 DEF SweepStep, ListNode, ReadReserved, SkipYoung, KillOrphan, Unlease, StaleQuery, SkipRecent,
         StaleRelease, StaleMark, LeaseQuery, LeaseRelease, SweepEnds, SweepLocals
  <2> QED
    BY <1>5, <2>1, SweepMoves, SweepGoesOn DEF PcTyped, ObjTyped
<1> QED
  BY <1>1, <1>2, <1>3, <1>4, <1>5 DEF Next, vars, AgeLab, FinishClone, AgeVm, SweepLocals

LEMMA Sweeping ==
  ASSUME Typed, [Next]_vars, NEW s \in Sweep
  PROVE  \/ SweepStep(s)
         \/ pc'[s] = pc[s] /\ obj'[s] = obj[s] /\ snap'[s] = snap[s] /\ todo'[s] = todo[s]
<1> USE Actors DEF Typed
<1>1. ASSUME NEW q \in Sweep, SweepStep(q), q # s
      PROVE  pc'[s] = pc[s] /\ obj'[s] = obj[s] /\ snap'[s] = snap[s] /\ todo'[s] = todo[s]
  BY <1>1, SweepMoves, SweepGoesOn DEF PcTyped, ObjTyped, SweepsTyped
<1>2. ASSUME NEW t \in Task, ProvisionStep(t) \/ CrashProvision(t)
      PROVE  pc'[s] = pc[s] /\ obj'[s] = obj[s] /\ UNCHANGED sweeps
  <2>1. UNCHANGED sweeps
    BY <1>2 DEF ProvisionStep, FindBox, PickNumber, SaveNumber, Admit, CreateLab, Reserve, LeaseIp, Bind,
           CheckVmid, ReapBeforeClone, StartClone, WaitClone, CloneFailed, ReapFailedClone,
           DropReservation, Configure, BootBox, ConfirmIp, Record, Teardown, ReleaseAfterError, MarkError,
           CrashProvision
  <2>2. obj' = obj \/ \E x : obj' = [obj EXCEPT ![t] = x]
    BY <1>2, ProvisionLocals DEF CrashProvision, Reserve, LeaseIp, DropReservation
  <2>3. \E l : pc' = [pc EXCEPT ![t] = l]
    BY <1>2, ProvisionMoves, OtherMoves
  <2> QED
    BY <2>1, <2>2, <2>3 DEF PcTyped, ObjTyped
<1>3. ASSUME NEW o \in Op, OpStep(o) \/ CrashOp(o) \/ \E kind \in OpKinds, l \in Task : Begin(o, kind, l)
      PROVE  pc'[s] = pc[s] /\ obj'[s] = obj[s] /\ UNCHANGED sweeps
  <2>1. UNCHANGED sweeps
    BY <1>3 DEF OpStep, StartBox, RecordStarted, StopBox, RecordStopped, DestroyBox, ReleaseBox,
         MarkDestroyed, RecordStatus, OnlyCalls, OthersLocals, CrashOp, Begin
  <2>2. obj' = obj \/ \E x : obj' = [obj EXCEPT ![o] = x]
    BY <1>3 DEF OpStep, StartBox, RecordStarted, StopBox, RecordStopped, DestroyBox, ReleaseBox,
         MarkDestroyed, RecordStatus, OnlyCalls, CrashOp, Begin
  <2>3. \E l : pc' = [pc EXCEPT ![o] = l]
    BY <1>3, OpMoves, OtherMoves
  <2> QED
    BY <2>1, <2>2, <2>3 DEF PcTyped, ObjTyped
<1> QED
  BY <1>1, <1>2, <1>3 DEF Next, vars, sweeps, AgeLab, FinishClone, AgeVm

\* Who writes the status of a lab: its provision, a power task on a row of the lab, a
\* deprovision of the lab, a sweep that dropped its row.
LEMMA StatusOf ==
  ASSUME Typed, [Next]_vars, NEW l \in Task, status'[l] # status[l]
  PROVE  \/ CreateLab(l) /\ status'[l] = "pending"
         \/ Record(l) /\ status'[l] = "running"
         \/ MarkError(l) /\ status'[l] = "error"
         \/ \E o \in Op : RecordStarted(o) /\ obj[o].id \in Rows /\ obj[o].id[1] = l /\ status'[l] = "running"
         \/ \E o \in Op : RecordStopped(o) /\ obj[o].id \in Rows /\ obj[o].id[1] = l /\ status'[l] = "stopped"
         \/ \E o \in Op : MarkDestroyed(o) /\ was[o].lab = l /\ status'[l] = "destroyed"
         \/ \E s \in Sweep : StaleMark(s) /\ obj[s].id[1] = l /\ status'[l] = "error"
<1> USE Actors DEF Typed
<1>1. ASSUME NEW t \in Task, ProvisionStep(t)
      PROVE  \/ CreateLab(l) /\ status'[l] = "pending"
             \/ Record(l) /\ status'[l] = "running"
             \/ MarkError(l) /\ status'[l] = "error"
  <2>1. CASE CreateLab(t)
    BY <2>1 DEF CreateLab, DbTyped
  <2>2. CASE Record(t)
    BY <2>2 DEF Record, DbTyped
  <2>3. CASE MarkError(t)
    BY <2>3 DEF MarkError, DbTyped
  <2> QED
    BY <1>1, <2>1, <2>2, <2>3
       DEF ProvisionStep, FindBox, PickNumber, SaveNumber, Admit, Reserve, LeaseIp, Bind, CheckVmid,
           ReapBeforeClone, StartClone, WaitClone, CloneFailed, ReapFailedClone, DropReservation,
           Configure, BootBox, ConfirmIp, Teardown, ReleaseAfterError, db
<1>2. ASSUME NEW o \in Op, OpStep(o)
      PROVE  \/ RecordStarted(o) /\ obj[o].id \in Rows /\ obj[o].id[1] = l /\ status'[l] = "running"
             \/ RecordStopped(o) /\ obj[o].id \in Rows /\ obj[o].id[1] = l /\ status'[l] = "stopped"
             \/ MarkDestroyed(o) /\ was[o].lab = l /\ status'[l] = "destroyed"
  <2>1. ASSUME NEW st, RecordStatus(o, st)
        PROVE  obj[o].id \in Rows /\ obj[o].id[1] = l /\ status'[l] = st
    BY <2>1 DEF RecordStatus, CanRecord, DbTyped
  <2>2. CASE MarkDestroyed(o)
    BY <2>2 DEF MarkDestroyed, DbTyped
  <2> QED
    BY <1>2, <2>1, <2>2
       DEF OpStep, StartBox, RecordStarted, StopBox, RecordStopped, DestroyBox, ReleaseBox, OnlyCalls, db
<1>3. ASSUME NEW s \in Sweep, SweepStep(s)
      PROVE  StaleMark(s) /\ obj[s].id[1] = l /\ status'[l] = "error"
  <2>1. CASE StaleMark(s)
    BY <2>1 DEF StaleMark, DbTyped
  <2> QED
    BY <1>3, <2>1 DEF SweepStep, ListNode, ReadReserved, SkipYoung, KillOrphan, Unlease, StaleQuery,
         SkipRecent, StaleRelease, LeaseQuery, LeaseRelease, SweepEnds, db
<1> QED
  BY <1>1, <1>2, <1>3 DEF Next, vars, db, CrashProvision, CrashOp, OnlyCalls, Begin, AgeLab, FinishClone, AgeVm

\* How the rows change, with the objects that name them.
LEMMA RowMoves ==
  ASSUME Typed, [Next]_vars
  PROVE  \/ row' = row /\ \A t \in Task : obj'[t] # obj[t] => Reserve(t) \/ DropReservation(t)
         \/ \E t \in Task : Reserve(t) \/ Bind(t) \/ DropReservation(t)
         \/ \E id : DeleteRow(id) /\ \A t \in Task : obj'[t] = obj[t]
<1>1. ASSUME NEW t \in Task, ProvisionStep(t)
      PROVE  Reserve(t) \/ DropReservation(t) \/ \A u \in Task : obj'[u] = obj[u]
  BY <1>1, ProvisionLocals DEF LeaseIp
<1>2. ASSUME NEW t \in Task, CrashProvision(t) PROVE obj' = obj
  BY <1>2 DEF CrashProvision
<1>3. \/ \E t \in Task : Reserve(t) \/ DropReservation(t)
      \/ \A u \in Task : obj'[u] = obj[u]
  BY <1>1, <1>2, OthersLocalsKept DEF Typed
<1>4. \A t \in Task : LeaseIp(t) => row' = row
  BY DEF LeaseIp
<1>5. \A s \in Sweep : Unlease(s) \/ LeaseRelease(s) => row' = row
  BY DEF Unlease, LeaseRelease
<1> QED
  BY <1>3, <1>4, <1>5, RowChanges

\* Who changes the rows and the leases.
LEMMA RowsBy ==
  ASSUME Typed, [Next]_vars
  PROVE  \/ UNCHANGED <<row, lease>>
         \/ \E t \in Task : \/ Reserve(t) \/ LeaseIp(t) \/ Bind(t)
                            \/ (DropReservation(t) \/ ReleaseAfterError(t)) /\ DeleteRow(obj[t].id)
                               /\ obj[t].id = <<t, att[t]>> /\ obj[t].id \in RowId
         \/ \E o \in Op : ReleaseBox(o) /\ obj[o].id \in RowId
         \/ \E s \in Sweep : \/ Unlease(s) \/ LeaseRelease(s)
                             \/ StaleRelease(s) /\ \E id \in todo[s] : OldLab(s, id) /\ id \in RowId /\ DeleteRow(id)
<1>1. ASSUME NEW t \in Task, ProvisionStep(t)
      PROVE  \/ UNCHANGED <<row, lease>> \/ Reserve(t) \/ LeaseIp(t) \/ Bind(t)
             \/ (DropReservation(t) \/ ReleaseAfterError(t)) /\ DeleteRow(obj[t].id)
                /\ obj[t].id = <<t, att[t]>> /\ obj[t].id \in RowId
  <2>1. obj[t] # NoVal \/ pc[t] \in Reserved => obj[t].id = <<t, att[t]>> /\ <<t, att[t]>> \in RowId
    BY DEF Typed, ProvisionsTyped, OwnObj, RowId
  <2>2. CASE DropReservation(t) \/ ReleaseAfterError(t)
    BY <2>1, <2>2 DEF DropReservation, DropRow, ReleaseAfterError, Reserved, Built
  <2> QED
    BY <1>1, <2>2 DEF ProvisionStep, FindBox, PickNumber, SaveNumber, Admit, CreateLab, CheckVmid,
         ReapBeforeClone, StartClone, WaitClone, CloneFailed, ReapFailedClone,
         Configure, BootBox, ConfirmIp, Record, Teardown, MarkError, db
<1>2. ASSUME NEW o \in Op, OpStep(o) PROVE UNCHANGED <<row, lease>> \/ (ReleaseBox(o) /\ obj[o].id \in RowId)
  <2>1. ReleaseBox(o) => obj[o].id \in RowId
    BY DEF ReleaseBox, Typed, OpsTyped
  <2> QED
    BY <1>2, <2>1 DEF OpStep, StartBox, RecordStarted, StopBox, RecordStopped, DestroyBox,
         MarkDestroyed, RecordStatus, OnlyCalls, db
<1>3. ASSUME NEW s \in Sweep, SweepStep(s)
      PROVE  \/ UNCHANGED <<row, lease>> \/ Unlease(s) \/ LeaseRelease(s)
             \/ StaleRelease(s) /\ \E id \in todo[s] : OldLab(s, id) /\ id \in RowId /\ DeleteRow(id)
  <2>1. CASE StaleRelease(s)
    <3>1. todo[s] \subseteq RowId
      BY <2>1 DEF StaleRelease, Typed, SweepsTyped
    <3> QED
      BY <2>1, <3>1 DEF StaleRelease
  <2> QED
    BY <1>3, <2>1 DEF SweepStep, ListNode, ReadReserved, SkipYoung, KillOrphan, StaleQuery, SkipRecent,
         StaleMark, LeaseQuery, SweepEnds, db
<1> QED
  BY <1>1, <1>2, <1>3 DEF Next, vars, db, CrashProvision, CrashOp, OnlyCalls, Begin, AgeLab, FinishClone, AgeVm

-----------------------------------------------------------------------------
(* Who owns a row *)

\* The row of a lab is the one its provision holds; no vmid is on two rows; what is
\* bound is bound to a row.
RowsOfObj ==
  \A id \in Rows : obj[id[1]] # NoVal /\ obj[id[1]].id = id /\ obj[id[1]].vmid = row[id].vmid
VmidsDistinct == \A id, k \in Rows : id # k => row[id].vmid # row[k].vmid
LeasesOfRows == \A i \in Ip : lease[i].vm # NoVal => lease[i].vm \in Rows

\* Before its lab exists a provision has nothing, and nobody acts on the lab.
NothingBefore ==
  /\ \A l \in Task : pc[l] \in Before => status[l] = "none" /\ obj[l] = NoVal
  /\ \A l \in Task : pc[l] = "reserve" => obj[l] = NoVal
  /\ \A o \in Op : was[o] # NoVal => pc[was[o].lab] \notin Before
  /\ \A s \in Sweep : /\ pc[s] \in {"stale", "mark"} => \A id \in todo[s] : pc[id[1]] \notin Before
                      /\ pc[s] = "mark" => pc[obj[s].id[1]] \notin Before

\* A power task works on a row of the lab it was called for.
Deprovisioning == {"deprovision", "release", "release_partial", "destroyed"}
OpsOfLab ==
  \A o \in Op :
    /\ pc[o] \notin {"idle", "done", "destroyed"} => obj[o].id[1] = was[o].lab
    /\ pc[o] \in Deprovisioning => was[o].kind = "deprovision"

\* A provision has its row object as long as it holds the reservation.
ObjReserved == \A t \in Task : pc[t] \in Reserved => obj[t] # NoVal

OwnedInv ==
  RowsOfObj /\ VmidsDistinct /\ LeasesOfRows /\ NothingBefore /\ OpsOfLab /\ ObjReserved

LEMMA OwnedInit == Init => OwnedInv
  BY Actors DEF Init, OwnedInv, RowsOfObj, VmidsDistinct, LeasesOfRows, NothingBefore, OpsOfLab, Rows, Before,
     FreeLease, Deprovisioning, ObjReserved, Reserved, Built

LEMMA RowsOfObjStep ==
  ASSUME Typed, OwnedInv, [Next]_vars
  PROVE  RowsOfObj' /\ VmidsDistinct'
<1> USE Actors DEF RowsOfObj, VmidsDistinct, Rows
<1>1. RowsOfObj /\ VmidsDistinct
  BY DEF OwnedInv
<1>2. CASE row' = row /\ \A t \in Task : obj'[t] = obj[t]
  BY <1>1, <1>2 DEF RowId
<1>3. ASSUME NEW t \in Task, Reserve(t) PROVE RowsOfObj' /\ VmidsDistinct'
  <2>1. CASE UNCHANGED <<row, obj>>
    BY <1>1, <2>1
  <2> DEFINE k == <<t, att[t]>>
  <2>2. ASSUME NEW v \in Vmid \ TakenVmids,
               row' = [row EXCEPT ![k] = [vmid |-> v, ip |-> NoVal]],
               obj' = [obj EXCEPT ![t] = [id |-> k, vmid |-> v]]
        PROVE  RowsOfObj' /\ VmidsDistinct'
    <3>1. k \in RowId /\ k[1] = t /\ obj'[t] = [id |-> k, vmid |-> v] /\ row'[k] = [vmid |-> v, ip |-> NoVal]
      BY <2>2 DEF Typed, ProvisionsTyped, ObjTyped, DbTyped, RowId
    <3>2. [id |-> k, vmid |-> v] # NoVal
      BY <3>1, NoRecordAssumption DEF ObjSet
    <3>3. ASSUME NEW id \in RowId, id # k, row'[id] # NoVal
          PROVE  id[1] # t /\ row'[id] = row[id] /\ obj'[id[1]] = obj[id[1]] /\ id[1] \in Task
      <4>1. row'[id] = row[id] /\ id[1] \in Task
        BY <2>2, <3>3 DEF Typed, DbTyped, RowId
      <4>2. id[2] = att[id[1]]
        BY <3>3, <4>1 DEF Typed, RowsOfAttempt
      <4>3. id[1] # t
        BY <3>3, <4>2 DEF RowId
      <4> QED
        BY <2>2, <4>1, <4>3 DEF Typed, ObjTyped
    <3>4. \A id \in RowId : row[id] # NoVal => row[id].vmid # v
      BY <2>2 DEF TakenVmids, RowVmids
    <3> QED
      BY <1>1, <3>1, <3>2, <3>3, <3>4
  <2> QED
    BY <1>3, <2>1, <2>2 DEF Reserve
<1>4. ASSUME NEW t \in Task, DropReservation(t) PROVE RowsOfObj' /\ VmidsDistinct'
  <2>1. obj[t].id = <<t, att[t]>> /\ <<t, att[t]>> \in RowId
    BY <1>4 DEF DropReservation, Typed, ProvisionsTyped, OwnObj, Reserved, Built, RowId
  <2>2. row' = [row EXCEPT ![<<t, att[t]>>] = NoVal] /\ obj' = [obj EXCEPT ![t] = NoVal]
    BY <1>4, <2>1 DEF DropReservation, DropRow, DeleteRow
  <2>3. ASSUME NEW id \in RowId, row'[id] # NoVal
        PROVE  row'[id] = row[id] /\ id[1] \in Task /\ obj'[id[1]] = obj[id[1]]
    <3>1. id # <<t, att[t]>> /\ row'[id] = row[id] /\ id[1] \in Task
      BY <2>1, <2>2, <2>3 DEF Typed, DbTyped, RowId
    <3>2. id[2] = att[id[1]]
      BY <2>3, <3>1 DEF Typed, RowsOfAttempt
    <3>3. id[1] # t
      BY <3>1, <3>2 DEF RowId
    <3> QED
      BY <2>2, <3>1, <3>3 DEF Typed, ObjTyped
  <2> QED
    BY <1>1, <2>3
<1>5. ASSUME NEW t \in Task, Bind(t) PROVE RowsOfObj' /\ VmidsDistinct'
  <2>1. obj' = obj /\ (row' = row \/ \E k \in Rows : row' = [row EXCEPT ![k].ip = hand[t]])
    BY <1>5 DEF Bind
  <2>2. ASSUME NEW id \in RowId, row'[id] # NoVal
        PROVE  row[id] # NoVal /\ row'[id].vmid = row[id].vmid
    BY <2>1, <2>2 DEF Typed, DbTyped, RowSet
  <2> QED
    BY <1>1, <2>1, <2>2
<1>6. ASSUME NEW k, DeleteRow(k), \A t \in Task : obj'[t] = obj[t] PROVE RowsOfObj' /\ VmidsDistinct'
  <2>1. \A id \in RowId : row'[id] # NoVal => row'[id] = row[id] /\ id[1] \in Task
    BY <1>6 DEF DeleteRow, Typed, DbTyped, RowId
  <2> QED
    BY <1>1, <1>6, <2>1
<1> QED
  BY <1>2, <1>3, <1>4, <1>5, <1>6, RowMoves

LEMMA LeasesStep ==
  ASSUME Typed, OwnedInv, [Next]_vars
  PROVE  LeasesOfRows'
<1> USE Actors DEF LeasesOfRows, Rows
<1>1. LeasesOfRows
  BY DEF OwnedInv
<1>2. CASE UNCHANGED <<row, lease>>
  BY <1>1, <1>2
<1>3. ASSUME NEW t \in Task, Reserve(t) PROVE LeasesOfRows'
  <2>1. lease' = lease /\ \A id \in RowId : row[id] # NoVal => row'[id] # NoVal
    <3>1. ASSUME NEW v \in Vmid PROVE [vmid |-> v, ip |-> NoVal] # NoVal
      BY NoRecordAssumption DEF RowSet
    <3> QED
      BY <1>3, <3>1 DEF Reserve, Typed, DbTyped
  <2> QED
    BY <1>1, <2>1
<1>4. ASSUME NEW t \in Task, LeaseIp(t) PROVE LeasesOfRows'
  <2>1. row' = row /\ \A i \in Ip : lease'[i].vm = lease[i].vm
    BY <1>4 DEF LeaseIp, FreeLeases, Typed, DbTyped, LeaseSet
  <2> QED
    BY <1>1, <2>1
<1>5. ASSUME NEW t \in Task, Bind(t) PROVE LeasesOfRows'
  <2>1. CASE UNCHANGED <<row, lease>>
    BY <1>1, <2>1
  <2> DEFINE k == obj[t].id
             i == hand[t]
  <2>2. ASSUME k \in Rows, row' = [row EXCEPT ![k].ip = i], lease' = [lease EXCEPT ![i].vm = k]
        PROVE  LeasesOfRows'
    <3>1. \A id \in RowId : row[id] # NoVal => row'[id] # NoVal
      <4>1. \A r \in RowSet : [r EXCEPT !.ip = i] \in RowSet
        BY <1>5 DEF Bind, Typed, ProvisionsTyped, Built, RowSet
      <4> QED
        BY <2>2, <4>1, NoRecordAssumption DEF Typed, DbTyped
    <3>2. \A j \in Ip : lease'[j].vm = lease[j].vm \/ lease'[j].vm = k
      BY <2>2 DEF Typed, DbTyped, LeaseSet
    <3> QED
      BY <1>1, <2>2, <3>1, <3>2
  <2> QED
    BY <1>5, <2>1, <2>2 DEF Bind
<1>6. ASSUME NEW k, DeleteRow(k) PROVE LeasesOfRows'
  BY <1>1, <1>6 DEF DeleteRow, LeasesWithout, FreeLease, Typed, DbTyped
<1>7. ASSUME NEW s \in Sweep, Unlease(s) \/ LeaseRelease(s) PROVE LeasesOfRows'
  <2>1. row' = row /\ \A i \in Ip : lease'[i] = lease[i] \/ lease'[i] = FreeLease
    BY <1>7 DEF Unlease, LeaseRelease, Typed, DbTyped
  <2> QED
    BY <1>1, <2>1 DEF FreeLease
<1> QED
  BY <1>2, <1>3, <1>4, <1>5, <1>6, <1>7, RowChanges

LEMMA NothingBeforeStep ==
  ASSUME Typed, OwnedInv, [Next]_vars
  PROVE  NothingBefore'
<1> USE Actors
<1>1. NothingBefore
  BY DEF OwnedInv
\* Nobody goes back to before the lab.
<1>2. ASSUME NEW l \in Task, pc'[l] \in Before
      PROVE  pc[l] \in Before /\ obj'[l] = obj[l] /\ status'[l] = status[l]
  <2>1. ~CrashProvision(l)
    BY <1>2, OtherMoves DEF Typed, PcTyped, Before
  <2>2. CASE ProvisionStep(l)
    BY <1>2, <2>2, Onwards
  <2>3. CASE ~ProvisionStep(l)
    <3>1. pc'[l] = pc[l] /\ obj'[l] = obj[l]
      BY <2>1, <2>3, Still DEF Typed
    <3>2. ASSUME status'[l] # status[l] PROVE FALSE
      <4>1. ~CreateLab(l) /\ ~Record(l) /\ ~MarkError(l)
        BY <2>3 DEF ProvisionStep
      <4>2. ASSUME NEW o \in Op, obj[o].id \in Rows, obj[o].id[1] = l PROVE FALSE
        BY <1>1, <1>2, <3>1, <4>2 DEF OwnedInv, RowsOfObj, NothingBefore
      <4>3. ASSUME NEW o \in Op, MarkDestroyed(o), was[o].lab = l PROVE FALSE
        <5>1. was[o] # NoVal
          BY <4>3, NoRecordAssumption DEF MarkDestroyed, Typed, OpsTyped
        <5> QED
          BY <1>1, <1>2, <3>1, <4>3, <5>1 DEF NothingBefore
      <4>4. ASSUME NEW s \in Sweep, StaleMark(s), obj[s].id[1] = l PROVE FALSE
        BY <1>1, <1>2, <3>1, <4>4 DEF NothingBefore, StaleMark
      <4> QED
        BY <3>2, <4>1, <4>2, <4>3, <4>4, StatusOf
    <3> QED
      BY <1>2, <3>1, <3>2
  <2> QED
    BY <2>2, <2>3
<1>3. \A l \in Task : pc[l] \notin Before => pc'[l] \notin Before
  BY <1>2
<1>4. ASSUME NEW l \in Task, pc'[l] \in Before PROVE status'[l] = "none" /\ obj'[l] = NoVal
  BY <1>1, <1>2, <1>4 DEF NothingBefore
<1>5. ASSUME NEW l \in Task, pc'[l] = "reserve" PROVE obj'[l] = NoVal
  <2>1. ~CrashProvision(l)
    BY <1>5, OtherMoves DEF Typed, PcTyped
  <2>2. CASE CreateLab(l)
    BY <1>1, <2>2 DEF CreateLab, NothingBefore, Before
  <2>3. CASE DropReservation(l)
    BY <2>3 DEF DropReservation, Typed, ObjTyped
  <2>4. CASE pc'[l] = pc[l] /\ obj'[l] = obj[l]
    BY <1>1, <1>5, <2>4 DEF NothingBefore
  <2> QED
    BY <1>5, <2>1, <2>2, <2>3, <2>4, Onwards, Still DEF Typed
<1>6. ASSUME NEW o \in Op, was'[o] # NoVal PROVE pc'[was'[o].lab] \notin Before
  <2>1. ASSUME NEW kind \in OpKinds, NEW l \in Task, Begin(o, kind, l) PROVE pc'[was'[o].lab] \notin Before
    <3>1. status[l] # "none"
      BY <2>1 DEF Begin
    <3>2. was'[o] = [kind |-> kind, lab |-> l, status |-> status[l], early |-> InFlight(l)]
      BY <2>1 DEF Begin, Typed, OpsTyped
    <3>3. pc[l] \notin Before
      BY <1>1, <3>1 DEF NothingBefore
    <3> QED
      BY <1>3, <3>2, <3>3
  <2>2. CASE was'[o] = was[o]
    <3>1. was[o] \in WasSet
      BY <1>6, <2>2 DEF Typed, OpsTyped
    <3>2. was[o].lab \in Task
      BY <3>1 DEF WasSet
    <3> QED
      BY <1>1, <1>3, <1>6, <2>2, <3>2 DEF NothingBefore
  <2> QED
    BY <2>1, <2>2, Calls
<1>7. ASSUME NEW s \in Sweep
      PROVE  /\ pc'[s] \in {"stale", "mark"} => \A id \in todo'[s] : pc'[id[1]] \notin Before
             /\ pc'[s] = "mark" => pc'[obj'[s].id[1]] \notin Before
  <2>1. /\ pc[s] \in {"stale", "mark"} => \A id \in todo[s] : id[1] \in Task /\ pc[id[1]] \notin Before
        /\ pc[s] = "mark" => /\ obj[s].id[1] \in Task /\ pc[obj[s].id[1]] \notin Before
    BY <1>1 DEF NothingBefore, Typed, SweepsTyped, RowId
  <2>2. CASE pc'[s] = pc[s] /\ obj'[s] = obj[s] /\ snap'[s] = snap[s] /\ todo'[s] = todo[s]
    BY <1>3, <2>1, <2>2
  <2>3. CASE StaleQuery(s)
    <3>1. todo'[s] \subseteq Rows /\ pc'[s] = "stale"
      BY <2>3 DEF StaleQuery, Goto, Typed, PcTyped, SweepsTyped
    <3>2. \A id \in Rows : id[1] \in Task /\ obj[id[1]] # NoVal
      BY DEF OwnedInv, RowsOfObj, Rows, RowId
    <3> QED
      BY <1>1, <1>3, <3>1, <3>2 DEF NothingBefore
  <2>4. CASE SkipRecent(s)
    <3>1. pc'[s] = "stale" /\ pc[s] = "stale" /\ todo'[s] \subseteq todo[s]
      BY <2>4 DEF SkipRecent, Typed, SweepsTyped
    <3> QED
      BY <1>3, <2>1, <3>1
  <2>5. CASE StaleRelease(s)
    <3>1. PICK id \in todo[s] : obj' = [obj EXCEPT ![s] = [id |-> id, vmid |-> NoVal]]
      BY <2>5 DEF StaleRelease
    <3>2. pc[s] = "stale" /\ pc'[s] = "mark" /\ obj'[s].id = id
      BY <2>5, <3>1 DEF StaleRelease, Goto, Typed, PcTyped, ObjTyped
    <3>3. todo'[s] \subseteq todo[s]
      BY <2>5 DEF StaleRelease, Typed, SweepsTyped
    <3> QED
      BY <1>3, <2>1, <3>1, <3>2, <3>3
  <2>6. CASE StaleMark(s)
    <3>1. pc[s] = "mark" /\ pc'[s] = "stale" /\ todo'[s] = todo[s]
      BY <2>6 DEF StaleMark, Goto, Typed, PcTyped, sweeps
    <3> QED
      BY <1>3, <2>1, <3>1
  <2>7. CASE pc'[s] \notin {"stale", "mark"}
    BY <2>7
  <2>8. ASSUME NEW l, Goto(s, l) PROVE pc'[s] = l
    BY <2>8 DEF Goto, Typed, PcTyped
  <2>9. ListNode(s) \/ ReadReserved(s) \/ SkipYoung(s) \/ KillOrphan(s) \/ Unlease(s)
        \/ LeaseQuery(s) \/ LeaseRelease(s) \/ SweepEnds(s) => pc'[s] \notin {"stale", "mark"}
    BY <2>8 DEF ListNode, ReadReserved, SkipYoung, KillOrphan, Unlease, LeaseQuery, LeaseRelease, SweepEnds
  <2> QED
    BY <2>2, <2>3, <2>4, <2>5, <2>6, <2>7, <2>9, Sweeping DEF SweepStep
<1> QED
  BY <1>4, <1>5, <1>6, <1>7 DEF NothingBefore

LEMMA OpsOfLabStep ==
  ASSUME Typed, OwnedInv, [Next]_vars
  PROVE  OpsOfLab'
<1> USE Actors
<1> SUFFICES ASSUME NEW o \in Op
             PROVE  /\ pc'[o] \notin {"idle", "done", "destroyed"} => obj'[o].id[1] = was'[o].lab
                    /\ pc'[o] \in Deprovisioning => was'[o].kind = "deprovision"
  BY DEF OpsOfLab
<1>1. /\ pc[o] \notin {"idle", "done", "destroyed"} => obj[o].id[1] = was[o].lab
      /\ pc[o] \in Deprovisioning => was[o].kind = "deprovision"
  BY DEF OwnedInv, OpsOfLab
<1>2. CASE pc'[o] = pc[o] /\ obj'[o] = obj[o] /\ was'[o] = was[o]
  BY <1>1, <1>2
<1>3. CASE (OpStep(o) \/ CrashOp(o)) /\ obj'[o] = obj[o] /\ was'[o] = was[o]
  <2>1. ASSUME NEW l, Goto(o, l) PROVE pc'[o] = l
    BY <2>1 DEF Goto, Typed, PcTyped
  <2>2. /\ pc'[o] \notin {"idle", "done", "destroyed"} => pc[o] \notin {"idle", "done", "destroyed"}
        /\ pc'[o] \in Deprovisioning => pc[o] \in Deprovisioning
    BY <1>3, <2>1 DEF OpStep, StartBox, RecordStarted, StopBox, RecordStopped, DestroyBox, ReleaseBox,
         MarkDestroyed, RecordStatus, CrashOp, Deprovisioning
  <2> QED
    BY <1>1, <1>3, <2>2
<1>4. ASSUME NEW kind \in OpKinds, NEW l \in Task, Begin(o, kind, l)
      PROVE  /\ pc'[o] \notin {"idle", "done", "destroyed"} => obj'[o].id[1] = was'[o].lab
             /\ pc'[o] \in Deprovisioning => was'[o].kind = "deprovision"
  <2>1. was'[o] = [kind |-> kind, lab |-> l, status |-> status[l], early |-> InFlight(l)]
    BY <1>4 DEF Begin, Typed, OpsTyped
  <2>2. CASE pc'[o] = "destroyed" /\ kind = "deprovision"
    BY <2>1, <2>2
  <2>3. ASSUME NEW id \in LabRows(l), obj' = [obj EXCEPT ![o] = [id |-> id, vmid |-> row[id].vmid]],
               pc'[o] = kind
        PROVE  obj'[o].id[1] = was'[o].lab /\ (pc'[o] \in Deprovisioning => was'[o].kind = "deprovision")
    <3>1. obj'[o].id = id /\ id[1] = l
      BY <2>3 DEF Typed, ObjTyped, LabRows
    <3> QED
      BY <2>1, <2>3, <3>1, KindAssumption DEF Deprovisioning
  <2>4. ASSUME NEW x, Goto(o, x) PROVE pc'[o] = x
    BY <2>4 DEF Goto, Typed, PcTyped
  <2> QED
    BY <1>4, <2>2, <2>3, <2>4 DEF Begin
<1> QED
  BY <1>2, <1>3, <1>4, Calls

LEMMA ObjReservedStep ==
  ASSUME Typed, OwnedInv, [Next]_vars
  PROVE  ObjReserved'
<1> USE Actors
<1> SUFFICES ASSUME NEW t \in Task, pc'[t] \in Reserved PROVE obj'[t] # NoVal
  BY DEF ObjReserved
<1>1. pc[t] \in Reserved => obj[t] # NoVal
  BY DEF OwnedInv, ObjReserved
<1>2. ASSUME NEW l, Goto(t, l) PROVE pc'[t] = l
  BY <1>2 DEF Goto, Typed, PcTyped
<1>3. CASE Reserve(t)
  <2>1. ~Goto(t, "teardown")
    BY <1>2 DEF Reserved, Built
  <2>2. PICK v \in Vmid : obj' = [obj EXCEPT ![t] = [id |-> <<t, att[t]>>, vmid |-> v]]
    BY <1>3, <2>1 DEF Reserve
  <2>3. [id |-> <<t, att[t]>>, vmid |-> v] # NoVal
    BY NoRecordAssumption DEF ObjSet, Typed, ProvisionsTyped, RowId
  <2> QED
    BY <2>2, <2>3 DEF Typed, ObjTyped
<1>4. CASE LeaseIp(t)
  BY <1>1, <1>4 DEF LeaseIp, Reserved
<1>5. CASE DropReservation(t)
  BY <1>2, <1>5 DEF DropReservation, Reserved, Built
<1>6. CASE ProvisionStep(t) /\ ~Reserve(t) /\ ~LeaseIp(t) /\ ~DropReservation(t)
  BY <1>1, <1>6, ProvisionLocals DEF Typed, PcTyped
<1>7. CrashProvision(t) => pc'[t] = "crashed"
  BY OtherMoves DEF Typed, PcTyped
<1>8. CASE pc'[t] = pc[t] /\ obj'[t] = obj[t]
  BY <1>1, <1>8
<1> QED
  BY <1>3, <1>4, <1>5, <1>6, <1>7, <1>8, Still DEF Typed, Reserved, Built

LEMMA OwnedStep == Typed /\ OwnedInv /\ [Next]_vars => OwnedInv'
<1> SUFFICES ASSUME Typed, OwnedInv, [Next]_vars PROVE OwnedInv'
  OBVIOUS
<1> QED
  BY RowsOfObjStep, LeasesStep, NothingBeforeStep, OpsOfLabStep, ObjReservedStep DEF OwnedInv

-----------------------------------------------------------------------------
(* What the properties leave out *)

LEMMA KindsGrow ==
  ASSUME Typed, [Next]_vars
  PROVE  faults.kinds \subseteq faults'.kinds
<1>1. ASSUME NEW k, Fault(k) PROVE faults.kinds \subseteq faults'.kinds
  BY <1>1 DEF Fault
<1>2. ASSUME NEW t \in Task, ProvisionStep(t) PROVE (\E k : Fault(k)) \/ faults' = faults
  BY <1>2 DEF ProvisionStep, FindBox, PickNumber, SaveNumber, Admit, CreateLab, Reserve, LeaseIp, Bind,
           CheckVmid, ReapBeforeClone, ReapOrphan, StartClone, WaitClone, CloneFailed, ReapFailedClone,
           DropReservation, Configure, BootBox, ConfirmIp, Record, Teardown, ReleaseAfterError, MarkError,
           NoFault
<1>3. ASSUME NEW o \in Op, OpStep(o) PROVE (\E k : Fault(k)) \/ faults' = faults
  BY <1>3 DEF OpStep, StartBox, RecordStarted, StopBox, RecordStopped, DestroyBox, ReleaseBox,
         MarkDestroyed, RecordStatus, NoFault
<1>4. ASSUME NEW s \in Sweep, SweepStep(s) PROVE (\E k : Fault(k)) \/ faults' = faults
  BY <1>4 DEF SweepStep, ListNode, ReadReserved, SkipYoung, KillOrphan, Unlease, StaleQuery, SkipRecent,
         StaleRelease, StaleMark, LeaseQuery, LeaseRelease, SweepEnds, NodeKept, NoFault
<1> QED
  BY <1>1, <1>2, <1>3, <1>4
     DEF Next, vars, CrashProvision, CrashOp, Begin, AgeLab, OutlivesGrace, FinishClone, AgeVm, NoFault

\* A call has been told nothing before it begins.
IdleHaveNothing == \A o \in Op : pc[o] = "idle" => was[o] = NoVal

LEMMA IdleStep == Typed /\ IdleHaveNothing /\ [Next]_vars => IdleHaveNothing'
<1> SUFFICES ASSUME Typed, IdleHaveNothing, [Next]_vars, NEW o \in Op, pc'[o] = "idle" PROVE was'[o] = NoVal
  BY DEF IdleHaveNothing
<1> USE Actors
<1>1. \A kind \in OpKinds, l \in Task : ~Begin(o, kind, l)
  BY OtherMoves, KindAssumption DEF Typed, PcTyped
<1>2. ~OpStep(o) /\ ~CrashOp(o)
  BY OpMoves, OtherMoves DEF Typed, PcTyped
<1> QED
  BY <1>1, <1>2, Calls DEF IdleHaveNothing

\* What a call has loaded it keeps.
LEMMA WasStays ==
  ASSUME Typed, IdleHaveNothing, [Next]_vars
  PROVE  \A o \in Op : was[o] # NoVal => was'[o] = was[o]
  BY Calls DEF IdleHaveNothing, Begin

\* No lab was deprovisioned during its provision, and no provision outlived the grace of
\* a sweep: what the properties about a box from its reservation to its release ask for.
Orderly == NoneHasty /\ (Sweep = {} \/ "slow" \notin faults.kinds)

LEMMA OrderlyBefore ==
  ASSUME Typed, IdleHaveNothing, [Next]_vars, Orderly'
  PROVE  Orderly
  BY WasStays, KindsGrow DEF Orderly, NoneHasty

-----------------------------------------------------------------------------
(* The reaper and the provisions at work *)

\* A lab older than the grace has no provision at work, nor has one a sweep took for
\* older.
OldAreEnded ==
  /\ \A l \in oldLab : Ended(l)
  /\ \A s \in Sweep : snap[s].oldLab \subseteq oldLab

LEMMA LabsAge ==
  ASSUME [Next]_vars
  PROVE  oldLab' = oldLab \/ \E t \in Task : AgeLab(t)
<1>1. ASSUME NEW t \in Task, ProvisionStep(t) PROVE oldLab' = oldLab
  BY <1>1 DEF ProvisionStep, FindBox, PickNumber, SaveNumber, Admit, CreateLab, Reserve, LeaseIp, Bind,
         CheckVmid, ReapBeforeClone, StartClone, WaitClone, CloneFailed, ReapFailedClone,
         DropReservation, Configure, BootBox, ConfirmIp, Record, Teardown, ReleaseAfterError, MarkError, ages
<1>2. ASSUME NEW o \in Op, OpStep(o) PROVE oldLab' = oldLab
  BY <1>2 DEF OpStep, StartBox, RecordStarted, StopBox, RecordStopped, DestroyBox, ReleaseBox,
         MarkDestroyed, RecordStatus, OnlyCalls, ages
<1>3. ASSUME NEW s \in Sweep, SweepStep(s) PROVE oldLab' = oldLab
  BY <1>3 DEF SweepStep, ListNode, ReadReserved, SkipYoung, KillOrphan, Unlease, StaleQuery, SkipRecent,
         StaleRelease, StaleMark, LeaseQuery, LeaseRelease, SweepEnds, NodeKept, ages
<1> QED
  BY <1>1, <1>2, <1>3 DEF Next, vars, ages, CrashProvision, CrashOp, OnlyCalls, Begin, FinishClone, AgeVm

\* What a sweep's snapshot says of the labs' age it read from the table.
LEMMA SnapAges ==
  ASSUME Typed, [Next]_vars, NEW s \in Sweep
  PROVE  /\ snap'[s].oldLab = snap[s].oldLab \/ snap'[s].oldLab = {} \/ (ListNode(s) /\ snap'[s].oldLab = oldLab)
         /\ pc'[s] # "idle" /\ ~ListNode(s) => pc[s] # "idle"
              /\ snap'[s].oldLab = snap[s].oldLab /\ snap'[s].live = snap[s].live
<1> USE Actors
<1>1. ASSUME NEW l, Goto(s, l) PROVE pc'[s] = l
  BY <1>1 DEF Goto, Typed, PcTyped
<1>2. CASE ListNode(s)
  BY <1>2 DEF ListNode, Typed, SweepsTyped
<1>3. CASE ReadReserved(s)
  BY <1>3 DEF ReadReserved, Typed, SweepsTyped, SnapSet
<1>4. CASE snap'[s] = NoSnap /\ pc'[s] = "idle"
  BY <1>2, <1>4 DEF NoSnap
<1>5. CASE snap'[s] = snap[s] /\ (pc'[s] = "idle" \/ pc[s] # "idle")
  BY <1>2, <1>5
<1>6. CASE KillOrphan(s)
  BY <1>1, <1>4, <1>5, <1>6 DEF KillOrphan, Typed, SweepsTyped
<1>7. CASE SweepEnds(s)
  BY <1>1, <1>4, <1>7 DEF SweepEnds, Typed, SweepsTyped
<1>8. CASE SkipYoung(s) \/ Unlease(s) \/ StaleQuery(s) \/ SkipRecent(s) \/ StaleRelease(s) \/ StaleMark(s)
           \/ LeaseQuery(s) \/ LeaseRelease(s)
  <2>1. snap' = snap /\ pc[s] # "idle"
    BY <1>8 DEF SkipYoung, Unlease, StaleQuery, SkipRecent, StaleRelease, StaleMark, LeaseQuery, LeaseRelease,
           sweeps
  <2> QED
    BY <1>5, <2>1
<1>9. CASE ~SweepStep(s)
  BY <1>2, <1>9, Sweeping DEF SweepStep
<1> QED
  BY <1>2, <1>3, <1>6, <1>7, <1>8, <1>9 DEF SweepStep

LEMMA OldAreEndedStep ==
  ASSUME Typed, OwnedInv, OldAreEnded, [Next]_vars, Orderly'
  PROVE  OldAreEnded'
<1>1. ASSUME NEW l \in oldLab' PROVE Ended(l)'
  <2>1. ASSUME Ended(l), l \in Task PROVE Ended(l)'
    BY <2>1, EndedStays DEF Ended
  <2>2. CASE l \in oldLab
    BY <2>1, <2>2 DEF OldAreEnded, Typed, AgesTyped
  <2>3. ASSUME NEW t \in Task, AgeLab(t), l = t PROVE Ended(l)
    <3>1. Sweep # {} /\ ~Fault("slow")
      BY <2>3 DEF AgeLab, Orderly, Fault
    <3>2. ~InFlight(t) /\ status[t] # "none"
      BY <2>3, <3>1 DEF AgeLab, OutlivesGrace
    <3>3. pc[t] # "queued"
      BY <3>2 DEF OwnedInv, NothingBefore, Before
    <3> QED
      BY <2>3, <3>2, <3>3 DEF InFlight, Ended
  <2> QED
    BY <2>1, <2>2, <2>3, LabsAge DEF AgeLab
<1>2. oldLab \subseteq oldLab'
  BY LabsAge DEF AgeLab
<1>3. ASSUME NEW s \in Sweep PROVE snap'[s].oldLab \subseteq oldLab'
  BY <1>2, SnapAges DEF OldAreEnded
<1> QED
  BY <1>1, <1>3 DEF OldAreEnded

LEMMA OldAreEndedInit == Init => OldAreEnded
  BY DEF Init, OldAreEnded, NoSnap

-----------------------------------------------------------------------------
(* The reaper and the addresses *)

\* An orphan is no vmid the sweep saw reserved.
OrphansUnreserved ==
  \A s \in Sweep :
    /\ pc[s] \in {"orphans", "unlease"} => todo[s] \cap snap[s].reserved = {}
    /\ pc[s] = "unlease" => obj[s].vmid \notin snap[s].reserved

\* An address a sweep is about to free is leased, on no row and in nobody's hand, from
\* the query until it is freed.
UnboundStay ==
  \A s \in Sweep : pc[s] = "leases" =>
    \A i \in todo[s] : lease[i].state = "leased" /\ lease[i].vm = NoVal /\ ~InHand(i)

AddressInv == OrphansUnreserved /\ UnboundStay

LEMMA AddressInit == Init => AddressInv
  BY Actors DEF Init, AddressInv, OrphansUnreserved, UnboundStay

LEMMA OrphansUnreservedStep ==
  ASSUME Typed, AddressInv, [Next]_vars
  PROVE  OrphansUnreserved'
<1> USE Actors
<1> SUFFICES ASSUME NEW s \in Sweep
             PROVE  /\ pc'[s] \in {"orphans", "unlease"} => todo'[s] \cap snap'[s].reserved = {}
                    /\ pc'[s] = "unlease" => obj'[s].vmid \notin snap'[s].reserved
  BY DEF OrphansUnreserved
<1>1. /\ pc[s] \in {"orphans", "unlease"} => todo[s] \cap snap[s].reserved = {}
      /\ pc[s] = "unlease" => obj[s].vmid \notin snap[s].reserved
  BY DEF AddressInv, OrphansUnreserved
<1>2. ASSUME NEW l, Goto(s, l) PROVE pc'[s] = l
  BY <1>2 DEF Goto, Typed, PcTyped
<1>3. CASE pc'[s] = pc[s] /\ obj'[s] = obj[s] /\ snap'[s] = snap[s] /\ todo'[s] = todo[s]
  BY <1>1, <1>3
<1>4. CASE ReadReserved(s)
  <2>1. pc'[s] = "orphans" /\ todo'[s] = snap[s].live \ ReservedVmids
    BY <1>2, <1>4 DEF ReadReserved, Typed, SweepsTyped
  <2>2. snap'[s].reserved = ReservedVmids
    BY <1>4 DEF ReadReserved, Typed, SweepsTyped, SnapSet
  <2> QED
    BY <2>1, <2>2
<1>5. CASE SkipYoung(s)
  <2>1. pc[s] = "orphans" /\ snap' = snap /\ pc' = pc /\ todo'[s] \subseteq todo[s]
    BY <1>5 DEF SkipYoung, Typed, SweepsTyped
  <2> QED
    BY <1>1, <2>1
<1>6. CASE KillOrphan(s)
  <2>1. pc[s] = "orphans"
    BY <1>6 DEF KillOrphan
  <2>2. ASSUME NEW v \in todo[s], obj' = [obj EXCEPT ![s] = [id |-> NoVal, vmid |-> v]],
               pc'[s] = "unlease", UNCHANGED <<snap, todo>>
        PROVE  todo'[s] \cap snap'[s].reserved = {} /\ obj'[s].vmid \notin snap'[s].reserved
    <3>1. obj'[s].vmid = v
      BY <2>2 DEF Typed, ObjTyped
    <3> QED
      BY <1>1, <2>1, <2>2, <3>1
  <2>3. CASE pc'[s] = "idle"
    BY <2>3
  <2> QED
    BY <1>2, <1>6, <2>2, <2>3 DEF KillOrphan
<1>7. CASE Unlease(s)
  <2>1. pc[s] = "unlease" /\ pc'[s] = "orphans" /\ snap' = snap /\ todo'[s] \subseteq todo[s]
    BY <1>2, <1>7 DEF Unlease, Typed, SweepsTyped
  <2> QED
    BY <1>1, <2>1
<1>8. CASE pc'[s] \notin {"orphans", "unlease"}
  BY <1>8
<1>9. ListNode(s) \/ StaleQuery(s) \/ SkipRecent(s) \/ StaleRelease(s) \/ StaleMark(s)
      \/ LeaseQuery(s) \/ LeaseRelease(s) \/ SweepEnds(s) => pc'[s] \notin {"orphans", "unlease"}
  BY <1>2 DEF ListNode, StaleQuery, SkipRecent, StaleRelease, StaleMark, LeaseQuery, LeaseRelease, SweepEnds
<1> QED
  BY <1>3, <1>4, <1>5, <1>6, <1>7, <1>8, <1>9, Sweeping DEF SweepStep

\* With one sweep at a time nothing takes up what the sweep found unbound.
LEMMA UnboundStayStep ==
  ASSUME \A s, q \in Sweep : s = q
  PROVE  Typed /\ AddressInv /\ [Next]_vars => UnboundStay'
<1> USE Actors
<1> SUFFICES ASSUME Typed, AddressInv, [Next]_vars, NEW s \in Sweep, pc'[s] = "leases"
             PROVE  \A i \in todo'[s] : lease'[i].state = "leased" /\ lease'[i].vm = NoVal /\ ~InHand(i)'
  BY DEF UnboundStay
<1>1. ASSUME NEW l, Goto(s, l) PROVE pc'[s] = l
  BY <1>1 DEF Goto, Typed, PcTyped
<1>2. CASE LeaseQuery(s)
  <2>1. todo'[s] = {i \in Ip : lease[i] = [FreeLease EXCEPT !.state = "leased"] /\ ~InHand(i)}
    BY <1>2 DEF LeaseQuery, Typed, SweepsTyped
  <2>2. UNCHANGED <<lease, hand>> /\ \A t \in Task : pc'[t] = pc[t]
    BY <1>2 DEF LeaseQuery, db, SweepLocals, Goto, Typed, PcTyped
  <2>3. [FreeLease EXCEPT !.state = "leased"].state = "leased"
        /\ [FreeLease EXCEPT !.state = "leased"].vm = NoVal
    BY DEF FreeLease
  <2> QED
    BY <2>1, <2>2, <2>3 DEF InHand
<1>3. CASE pc[s] = "leases" /\ todo'[s] \subseteq todo[s]
  <2>1. \A i \in todo[s] : i \in Ip /\ lease[i].state = "leased" /\ lease[i].vm = NoVal /\ ~InHand(i)
    BY <1>3 DEF AddressInv, UnboundStay, Typed, SweepsTyped
  <2>2. ASSUME NEW t \in Task, LeaseIp(t), NEW i \in todo[s]
        PROVE  lease'[i] = lease[i] /\ ~InHand(i)'
    <3>1. \A j \in FreeLeases : j # i
      BY <2>1, <2>2 DEF FreeLeases
    <3>2. lease'[i] = lease[i] /\ (hand' = hand \/ \E j \in Ip \ {i} : hand' = [hand EXCEPT ![t] = j])
      BY <2>1, <2>2, <3>1 DEF LeaseIp, FreeLeases, Typed, DbTyped
    <3>3. \A u \in Task \ {t} : pc'[u] = pc[u]
      BY <2>2 DEF LeaseIp, Goto, Typed, PcTyped
    <3>4. pc'[t] = "bind" => hand' # hand \/ \E j \in FreeLeases : hand'[t] = j
      BY <2>2 DEF LeaseIp, Goto, Typed, PcTyped, ProvisionsTyped
    <3>5. pc'[t] = "bind" => hand'[t] # i
      BY <3>1, <3>2, <3>4 DEF Typed, ProvisionsTyped
    <3> QED
      BY <2>1, <2>2, <3>2, <3>3, <3>5 DEF InHand, Typed, ProvisionsTyped
  <2>3. ASSUME NEW i \in todo[s], \A t \in Task : ~LeaseIp(t) PROVE ~InHand(i)'
    BY <2>1, <2>3, Binding DEF InHand
  <2>4. ASSUME NEW t \in Task, Bind(t), NEW i \in todo[s] PROVE lease'[i] = lease[i]
    BY <2>1, <2>4 DEF Bind, InHand, Typed, DbTyped, ProvisionsTyped, Built
  <2>5. ASSUME NEW k, k # NoVal, DeleteRow(k), NEW i \in todo[s] PROVE lease'[i] = lease[i]
    BY <2>1, <2>5 DEF DeleteRow, LeasesWithout
  <2>6. ASSUME NEW q \in Sweep, Unlease(q) PROVE FALSE
    BY <1>3, <2>6 DEF Unlease
  <2>7. ASSUME NEW q \in Sweep, LeaseRelease(q), NEW i \in todo'[s] PROVE lease'[i] = lease[i]
    <3>1. PICK j \in todo[q] : lease' = [lease EXCEPT ![j] = FreeLease] /\ todo' = [todo EXCEPT ![q] = todo[q] \ {j}]
      BY <2>7 DEF LeaseRelease
    <3>2. i # j
      BY <2>7, <3>1 DEF Typed, SweepsTyped
    <3> QED
      BY <3>1, <3>2 DEF Typed, DbTyped
  <2>8. \A t \in Task : LeaseIp(t) => ~Reserve(t) /\ ~Bind(t) /\ ~DropReservation(t) /\ ~ReleaseAfterError(t)
    BY DEF LeaseIp, Reserve, Bind, DropReservation, ReleaseAfterError
  <2>9. ASSUME NEW t \in Task, LeaseIp(t), NEW i \in todo'[s]
        PROVE  lease'[i].state = "leased" /\ lease'[i].vm = NoVal /\ ~InHand(i)'
    BY <1>3, <2>1, <2>2, <2>9
  <2>10. CASE \A t \in Task : ~LeaseIp(t)
    <3>1. ASSUME NEW i \in todo'[s] PROVE lease'[i] = lease[i]
      BY <1>3, <2>4, <2>5, <2>6, <2>7, <2>10, <3>1, RowsBy DEF Reserve, ReleaseBox
    <3> QED
      BY <1>3, <2>1, <2>3, <2>10, <3>1
  <2> QED
    BY <2>9, <2>10
<1>4. CASE pc'[s] = pc[s] /\ todo'[s] = todo[s]
  BY <1>3, <1>4
<1>5. LeaseRelease(s) => pc[s] = "leases" /\ todo'[s] \subseteq todo[s]
  BY DEF LeaseRelease, Typed, SweepsTyped
<1>6. ListNode(s) \/ ReadReserved(s) \/ KillOrphan(s) \/ Unlease(s) \/ StaleQuery(s) \/ StaleRelease(s)
      \/ StaleMark(s) \/ SweepEnds(s) => pc'[s] # "leases"
  BY <1>1 DEF ListNode, ReadReserved, KillOrphan, Unlease, StaleQuery, StaleRelease, StaleMark, SweepEnds
<1>7. SkipYoung(s) \/ SkipRecent(s) => pc' = pc /\ pc[s] # "leases"
  BY DEF SkipYoung, SkipRecent
<1> QED
  BY <1>2, <1>3, <1>4, <1>5, <1>6, <1>7, Sweeping DEF SweepStep

\* A sweep frees no address of a reservation it saw and leaves in place (StudentBox's
\* ReaperSparesAddresses; reaper.py:189-192, 233-246), as long as one sweep runs at a
\* time: what phase 3 found leased and unbound is nobody's until it is freed
\* (UnboundStay).  Another sweep may free it first, and then a provision may lease
\* and bind it before this one gets to it.
THEOREM SweepsSpareAddresses ==
  ASSUME \A s, q \in Sweep : s = q
  PROVE  Spec => ReaperSparesAddresses
<1>1. ASSUME Typed, AddressInv, NEW s \in Sweep, NEW id \in Rows, SweepStep(s),
             row'[id] # NoVal, row[id].vmid \in snap[s].reserved, NEW i \in Ip, lease[i].vm = id
      PROVE  lease'[i] = lease[i]
  <2>1. CASE Unlease(s)
    <3>1. obj[s].vmid \notin snap[s].reserved
      BY <1>1, <2>1 DEF Unlease, AddressInv, OrphansUnreserved
    <3>2. i \notin LeasesOfOrphan(s)
      BY <1>1, <3>1 DEF LeasesOfOrphan
    <3> QED
      BY <2>1, <3>2 DEF Unlease
  <2>2. CASE LeaseRelease(s)
    <3>1. PICK j \in todo[s] : lease' = [lease EXCEPT ![j] = FreeLease]
      BY <2>2 DEF LeaseRelease
    <3>2. lease[j].vm = NoVal
      BY <1>1, <2>2, <3>1 DEF LeaseRelease, AddressInv, UnboundStay
    <3>3. j # i
      BY <1>1, <3>2, Actors DEF Rows
    <3> QED
      BY <1>1, <3>1, <3>3 DEF Typed, DbTyped
  <2>3. CASE StaleRelease(s)
    <3>1. PICK k \in todo[s] : DeleteRow(k)
      BY <2>3 DEF StaleRelease
    <3>2. k # id
      BY <1>1, <3>1 DEF DeleteRow, Typed, DbTyped, Rows
    <3> QED
      BY <1>1, <3>1, <3>2 DEF DeleteRow, LeasesWithout
  <2> QED
    BY <1>1, <2>1, <2>2, <2>3 DEF SweepStep, ListNode, ReadReserved, SkipYoung, KillOrphan, StaleQuery, SkipRecent,
         StaleMark, LeaseQuery, SweepEnds, db
<1>2. Typed /\ AddressInv /\ [Next]_vars =>
        [\A s \in Sweep, id \in Rows :
           SweepStep(s) /\ row'[id] # NoVal /\ row[id].vmid \in snap[s].reserved =>
             \A i \in Ip : lease[i].vm = id => lease'[i] = lease[i]]_vars
  BY <1>1
<1>3. Typed /\ AddressInv /\ [Next]_vars => AddressInv'
  BY OrphansUnreservedStep, UnboundStayStep DEF AddressInv
<1> QED
  BY <1>2, <1>3, TypedInit, TypedStep, AddressInit, PTL DEF Spec, ReaperSparesAddresses

-----------------------------------------------------------------------------
(* Who owns a VM *)

\* A VM becomes somebody's own when its clone begins.
LEMMA OwnComes ==
  ASSUME Typed, [Next]_vars, NEW l \in Task, NEW v \in Vmid, OwnVm(l, v)'
  PROVE  OwnVm(l, v) \/ (StartClone(l) /\ V(l) = v)
<1> USE DEF OwnVm, Exists
<1>1. vm'[v] # NoVal /\ vm'[v].st # "conf" /\ vm'[v].by = l
  OBVIOUS
<1>2. CASE vm'[v] = vm[v]
  BY <1>1, <1>2
<1>3. CASE Altered
  <2>1. PICK w \in Vmid, y \in VmSet \cup {NoVal} :
          vm' = [vm EXCEPT ![w] = y] /\ (y # NoVal => Usable(w) /\ y.by = vm[w].by)
    BY <1>3 DEF Altered
  <2> QED
    BY <1>1, <1>2, <2>1 DEF Typed, NodeTyped, Usable
<1>4. ASSUME NEW t \in Task, StartClone(t), vm'[v] # vm[v] PROVE StartClone(l) /\ V(l) = v
  <2>1. vm' = [vm EXCEPT ![V(t)] = NewVm(t, "cloning")]
    BY <1>4 DEF StartClone
  <2>2. V(t) = v /\ vm'[v] = NewVm(t, "cloning")
    BY <1>4, <2>1 DEF Typed, NodeTyped
  <2>3. t = l
    BY <1>1, <2>2 DEF NewVm
  <2> QED
    BY <1>4, <2>2, <2>3
<1>5. ASSUME NEW t \in Task, WaitClone(t), vm'[v] # vm[v] PROVE OwnVm(l, v)
  <2>1. V(t) \in Vmid /\ vm[V(t)] # NoVal /\ vm[V(t)].st = "cloning" /\ vm[V(t)].by = t
    BY <1>5 DEF WaitClone, Typed, ClonesThere, ProvisionsTyped, OwnObj, Reserved, Built, V
  <2>2. \/ vm' = [vm EXCEPT ![V(t)].st = "stopped"]
        \/ \E left \in {vm[V(t)], NoVal, NewVm(t, "conf")} : vm' = [vm EXCEPT ![V(t)] = left]
    BY <1>5 DEF WaitClone
  <2>3. V(t) = v
    BY <1>5, <2>2 DEF Typed, NodeTyped
  <2>4. vm' = [vm EXCEPT ![V(t)].st = "stopped"]
    <3>1. ~\E left \in {NoVal, NewVm(t, "conf")} : vm' = [vm EXCEPT ![V(t)] = left]
      BY <1>1, <2>3 DEF NewVm, Typed, NodeTyped
    <3>2. vm' # [vm EXCEPT ![V(t)] = vm[V(t)]]
      BY <1>5, <2>3 DEF Typed, NodeTyped
    <3> QED
      BY <2>2, <3>1, <3>2
  <2>5. vm'[v].by = vm[v].by
    BY <2>1, <2>3, <2>4 DEF Typed, NodeTyped, VmSet
  <2> QED
    BY <1>1, <2>1, <2>3, <2>5
<1>6. ASSUME NEW w \in Vmid, FinishClone(w), vm'[v] # vm[v] PROVE OwnVm(l, v)
  <2>1. vm[v] # NoVal /\ vm[v].st = "cloning" /\ vm'[v].by = vm[v].by
    BY <1>6 DEF FinishClone, Typed, NodeTyped, VmSet
  <2> QED
    BY <1>1, <2>1
<1> QED
  BY <1>2, <1>3, <1>4, <1>5, <1>6, NodeChanges DEF Typed

\* A VM is set to an address by a provision that configures it, and by nobody else.
LEMMA AddressComes ==
  ASSUME Typed, [Next]_vars, NEW v \in Vmid, vm'[v] # NoVal, vm'[v].ip # NoVal
  PROVE  /\ vm[v] # NoVal /\ vm'[v].by = vm[v].by
         /\ \/ vm[v].ip # NoVal
            \/ \E t \in Task : Configure(t) /\ V(t) = v
<1>1. CASE vm'[v] = vm[v]
  BY <1>1
<1>2. CASE Altered
  <2>1. PICK w \in Vmid, y \in VmSet \cup {NoVal} :
          /\ vm' = [vm EXCEPT ![w] = y]
          /\ y # NoVal => /\ Usable(w) /\ y.by = vm[w].by
                          /\ y.ip = vm[w].ip \/ \E t \in Task : Configure(t) /\ V(t) = w
    BY <1>2 DEF Altered
  <2>2. CASE w # v
    BY <1>1, <2>1, <2>2 DEF Typed, NodeTyped
  <2>3. CASE w = v
    <3>1. vm'[v] = y /\ y # NoVal
      BY <2>1, <2>3 DEF Typed, NodeTyped
    <3>2. vm[v] # NoVal /\ y.by = vm[v].by /\ (y.ip = vm[v].ip \/ \E t \in Task : Configure(t) /\ V(t) = v)
      BY <2>1, <2>3, <3>1 DEF Usable, Exists
    <3> QED
      BY <3>1, <3>2
  <2> QED
    BY <2>2, <2>3
<1>3. ASSUME NEW t \in Task, StartClone(t) PROVE vm'[v] = vm[v]
  BY <1>3 DEF StartClone, NewVm, Typed, NodeTyped
<1>4. ASSUME NEW t \in Task, WaitClone(t), vm'[v] # vm[v] PROVE vm'[v].ip = vm[v].ip /\ vm'[v].by = vm[v].by /\ vm[v] # NoVal
  <2>1. V(t) \in Vmid /\ vm[V(t)] # NoVal
    BY <1>4 DEF WaitClone, Typed, ClonesThere, ProvisionsTyped, OwnObj, Reserved, Built, V
  <2> QED
    BY <1>4, <2>1 DEF WaitClone, NewVm, Typed, NodeTyped, VmSet
<1>5. ASSUME NEW w \in Vmid, FinishClone(w), vm'[v] # vm[v] PROVE vm'[v].ip = vm[v].ip /\ vm'[v].by = vm[v].by /\ vm[v] # NoVal
  BY <1>5 DEF FinishClone, Typed, NodeTyped, VmSet
<1> QED
  BY <1>1, <1>2, <1>3, <1>4, <1>5, NodeChanges DEF Typed

\* A VM set to an address is no clone under way, and is not locked.
AddressedAreUsable ==
  \A v \in Vmid : vm[v] # NoVal /\ vm[v].ip # NoVal => vm[v].st \in {"stopped", "running"}

LEMMA AddressedStep == Typed /\ AddressedAreUsable /\ [Next]_vars => AddressedAreUsable'
<1> SUFFICES ASSUME Typed, AddressedAreUsable, [Next]_vars, NEW v \in Vmid, vm'[v] # NoVal, vm'[v].ip # NoVal
             PROVE  vm'[v].st \in {"stopped", "running"}
  BY DEF AddressedAreUsable
<1>1. CASE vm'[v] = vm[v]
  BY <1>1 DEF AddressedAreUsable
<1>2. CASE Altered
  <2>1. PICK w \in Vmid, y \in VmSet \cup {NoVal} :
          vm' = [vm EXCEPT ![w] = y] /\ (y # NoVal => y.st \in {"stopped", "running"})
    BY <1>2 DEF Altered
  <2> QED
    BY <1>1, <2>1 DEF Typed, NodeTyped
<1>3. ASSUME NEW t \in Task, StartClone(t) PROVE vm'[v] = vm[v]
  BY <1>3 DEF StartClone, NewVm, Typed, NodeTyped
<1>4. ASSUME NEW t \in Task, WaitClone(t), vm'[v] # vm[v] PROVE vm'[v].st = "stopped"
  <2>1. V(t) \in Vmid /\ vm[V(t)] # NoVal
    BY <1>4 DEF WaitClone, Typed, ClonesThere, ProvisionsTyped, OwnObj, Reserved, Built, V
  <2> QED
    BY <1>4, <2>1 DEF WaitClone, NewVm, Typed, NodeTyped, VmSet
<1>5. ASSUME NEW w \in Vmid, FinishClone(w), vm'[v] # vm[v] PROVE vm'[v].st = "stopped"
  BY <1>5 DEF FinishClone, Typed, NodeTyped, VmSet
<1> QED
  BY <1>1, <1>2, <1>3, <1>4, <1>5, NodeChanges DEF Typed

\* Only an earlier incident leaves a locked VM.
LockedIsStray == \A v \in Vmid : vm[v] # NoVal /\ vm[v].st = "locked" => vm[v].by = NoVal

LEMMA LockedStep == Typed /\ LockedIsStray /\ [Next]_vars => LockedIsStray'
<1> SUFFICES ASSUME Typed, LockedIsStray, [Next]_vars, NEW v \in Vmid, vm'[v] # NoVal, vm'[v].st = "locked"
             PROVE  vm'[v].by = NoVal
  BY DEF LockedIsStray
<1>1. CASE vm'[v] = vm[v]
  BY <1>1 DEF LockedIsStray
<1>2. CASE Altered
  <2>1. PICK w \in Vmid, y \in VmSet \cup {NoVal} :
          vm' = [vm EXCEPT ![w] = y] /\ (y # NoVal => y.st \in {"stopped", "running"})
    BY <1>2 DEF Altered
  <2> QED
    BY <1>1, <2>1 DEF Typed, NodeTyped
<1>3. ASSUME NEW t \in Task, StartClone(t) PROVE vm'[v] = vm[v]
  BY <1>3 DEF StartClone, NewVm, Typed, NodeTyped
<1>4. ASSUME NEW t \in Task, WaitClone(t) PROVE vm'[v] = vm[v]
  <2>1. V(t) \in Vmid /\ vm[V(t)] # NoVal
    BY <1>4 DEF WaitClone, Typed, ClonesThere, ProvisionsTyped, OwnObj, Reserved, Built, V
  <2> QED
    BY <1>4, <2>1 DEF WaitClone, NewVm, Typed, NodeTyped, VmSet
<1>5. ASSUME NEW w \in Vmid, FinishClone(w) PROVE vm'[v] = vm[v]
  BY <1>5 DEF FinishClone, Typed, NodeTyped, VmSet
<1> QED
  BY <1>1, <1>2, <1>3, <1>4, <1>5, NodeChanges DEF Typed

-----------------------------------------------------------------------------
(* A provision keeps its reservation *)

DeprovisionsAfter ==
  \A o \in Op : was[o] # NoVal /\ was[o].kind = "deprovision" => Ended(was[o].lab)

LEMMA DeprovisionsAfterStep ==
  ASSUME Typed, OwnedInv, DeprovisionsAfter, [Next]_vars, Orderly'
  PROVE  DeprovisionsAfter'
<1> SUFFICES ASSUME NEW o \in Op, was'[o] # NoVal, was'[o].kind = "deprovision"
             PROVE  pc'[was'[o].lab] \in {"done", "crashed"}
  BY DEF DeprovisionsAfter, Ended
<1>1. ASSUME NEW kind \in OpKinds, NEW l \in Task, Begin(o, kind, l)
      PROVE  pc'[was'[o].lab] \in {"done", "crashed"}
  <2>1. was'[o] = [kind |-> kind, lab |-> l, status |-> status[l], early |-> InFlight(l)]
    BY <1>1 DEF Begin, Typed, OpsTyped
  <2>2. status[l] # "none" /\ ~InFlight(l)
    <3>1. ~was'[o].early
      BY DEF Orderly, NoneHasty
    <3> QED
      BY <1>1, <2>1, <3>1 DEF Begin
  <2>3. Ended(l)
    BY <2>2 DEF InFlight, Ended, OwnedInv, NothingBefore, Before
  <2> QED
    BY <2>1, <2>3, EndedStays DEF Ended
<1>2. CASE was'[o] = was[o]
  <2>1. PICK l \in Task : l = was[o].lab
    BY <1>2 DEF Typed, OpsTyped, WasSet
  <2>2. Ended(l)
    BY <1>2, <2>1 DEF DeprovisionsAfter
  <2> QED
    BY <1>2, <2>1, <2>2, EndedStays DEF Ended
<1> QED
  BY <1>1, <1>2, Calls

\* Who deletes a row: its lab's provision, a deprovision that holds it, a sweep that took
\* it for stale.
LEMMA WhoDeletes ==
  ASSUME Typed, [Next]_vars, NEW id \in Rows, row'[id] = NoVal
  PROVE  \/ \E t \in Task : t = id[1] /\ (DropReservation(t) \/ ReleaseAfterError(t))
         \/ \E o \in Op : ReleaseBox(o) /\ obj[o].id = id
         \/ \E s \in Sweep : StaleRelease(s) /\ id \in todo[s] /\ OldLab(s, id)
<1> USE Actors
<1>0. id \in RowId /\ row[id] # NoVal /\ id[1] \in Task
  BY DEF Rows, RowId
<1>1. row' # row /\ \A k : DeleteRow(k) => k = id
  BY <1>0 DEF DeleteRow, Typed, DbTyped
<1>2. ASSUME NEW u \in Task, Reserve(u) \/ Bind(u) PROVE FALSE
  <2>1. \/ \E k, v : row' = [row EXCEPT ![k] = [vmid |-> v, ip |-> NoVal]] /\ v \in Vmid
        \/ obj[u].id \in Rows /\ hand[u] \in Ip /\ row' = [row EXCEPT ![obj[u].id].ip = hand[u]]
    BY <1>1, <1>2 DEF Reserve, Bind, Typed, ProvisionsTyped, Built
  <2>2. \A v \in Vmid : [vmid |-> v, ip |-> NoVal] \in RowSet
    BY DEF RowSet
  <2>3. \A r \in RowSet, i \in Ip : [r EXCEPT !.ip = i] \in RowSet
    BY DEF RowSet
  <2>4. \A k \in Rows : row[k] \in RowSet
    BY DEF Rows, Typed, DbTyped
  <2> QED
    BY <1>0, <2>1, <2>2, <2>3, <2>4, NoRecordAssumption DEF Typed, DbTyped
<1>3. ASSUME NEW u \in Task, LeaseIp(u) PROVE FALSE
  BY <1>1, <1>3 DEF LeaseIp
<1>4. ASSUME NEW u \in Task, DropReservation(u) \/ ReleaseAfterError(u), DeleteRow(obj[u].id),
             obj[u].id = <<u, att[u]>>
      PROVE  \E t \in Task : t = id[1] /\ (DropReservation(t) \/ ReleaseAfterError(t))
  BY <1>1, <1>4
<1>5. ASSUME NEW o \in Op, ReleaseBox(o) PROVE obj[o].id = id
  BY <1>1, <1>5 DEF ReleaseBox
<1>6. ASSUME NEW s \in Sweep, Unlease(s) \/ LeaseRelease(s) PROVE FALSE
  BY <1>1, <1>6 DEF Unlease, LeaseRelease
<1>7. ASSUME NEW s \in Sweep, NEW k \in todo[s], OldLab(s, k), DeleteRow(k)
      PROVE  id \in todo[s] /\ OldLab(s, id)
  BY <1>1, <1>7
<1> QED
  BY <1>1, <1>2, <1>3, <1>4, <1>5, <1>6, <1>7, RowsBy

\* Who deletes the row of a lab whose provision is at work: the provision.
LEMMA RowKept ==
  ASSUME Typed, OwnedInv, OldAreEnded, DeprovisionsAfter, [Next]_vars,
         NEW t \in Task, ~Ended(t), NEW id \in Rows, id[1] = t, row'[id] = NoVal
  PROVE  DropReservation(t) \/ ReleaseAfterError(t)
<1>1. ASSUME NEW o \in Op, ReleaseBox(o), obj[o].id = id PROVE FALSE
  <2>1. pc[o] \in Deprovisioning /\ pc[o] \notin {"idle", "done", "destroyed"}
    BY <1>1 DEF ReleaseBox, Deprovisioning
  <2>2. was[o].lab = t /\ was[o].kind = "deprovision"
    BY <1>1, <2>1 DEF OwnedInv, OpsOfLab
  <2>3. was[o] # NoVal
    BY <2>1, NoRecordAssumption DEF Typed, OpsTyped
  <2> QED
    BY <2>2, <2>3 DEF DeprovisionsAfter
<1>2. ASSUME NEW s \in Sweep, OldLab(s, id) PROVE FALSE
  BY <1>2 DEF OldLab, OldAreEnded
<1> QED
  BY <1>1, <1>2, WhoDeletes

\* A provision at work has the row it holds.
HasRow == \A t \in Task : obj[t] # NoVal /\ pc[t] \notin {"fail", "done", "crashed"} => obj[t].id \in Rows

LEMMA HasRowStep ==
  Typed /\ OwnedInv /\ OldAreEnded /\ DeprovisionsAfter /\ HasRow /\ [Next]_vars => HasRow'
<1> SUFFICES ASSUME Typed, OwnedInv, OldAreEnded, DeprovisionsAfter, HasRow, [Next]_vars,
                    NEW t \in Task, obj'[t] # NoVal, pc'[t] \notin {"fail", "done", "crashed"}
             PROVE  obj'[t].id \in RowId /\ row'[obj'[t].id] # NoVal
  BY DEF HasRow, Rows
<1> USE Actors
<1>1. CASE Reserve(t)
  <2>1. CASE UNCHANGED <<row, obj>>
    BY <1>1, <2>1 DEF Reserve, OwnedInv, NothingBefore
  <2>2. ASSUME NEW v \in Vmid, row' = [row EXCEPT ![<<t, att[t]>>] = [vmid |-> v, ip |-> NoVal]],
               obj' = [obj EXCEPT ![t] = [id |-> <<t, att[t]>>, vmid |-> v]]
        PROVE  obj'[t].id \in RowId /\ row'[obj'[t].id] # NoVal
    <3>1. <<t, att[t]>> \in RowId /\ [vmid |-> v, ip |-> NoVal] # NoVal
      BY NoRecordAssumption DEF Typed, ProvisionsTyped, RowId, RowSet
    <3> QED
      BY <2>2, <3>1 DEF Typed, ObjTyped, DbTyped
  <2> QED
    BY <1>1, <2>1, <2>2 DEF Reserve
<1>2. CASE DropReservation(t)
  BY <1>2 DEF DropReservation, Typed, ObjTyped
<1>3. CASE ~Reserve(t) /\ ~DropReservation(t)
  <2>1. obj'[t] = obj[t]
    BY <1>3, ProvisionLocals, Still DEF LeaseIp, CrashProvision, Typed
  <2>2. pc[t] \notin {"fail", "done", "crashed"}
    <3>1. ~Ended(t)
      BY EndedStays DEF Ended
    <3>2. ASSUME pc[t] = "fail" PROVE FALSE
      <4>1. ~CrashProvision(t)
        BY OtherMoves DEF Typed, PcTyped
      <4>2. ProvisionStep(t) => MarkError(t)
        BY <3>2 DEF ProvisionStep, FindBox, PickNumber, SaveNumber, Admit, CreateLab, Reserve, LeaseIp, Bind,
           CheckVmid, ReapBeforeClone, StartClone, WaitClone, CloneFailed, ReapFailedClone,
           DropReservation, Configure, BootBox, ConfirmIp, Record, Teardown, ReleaseAfterError
      <4>3. MarkError(t) => pc'[t] = "done"
        BY DEF MarkError, Goto, Typed, PcTyped
      <4> QED
        BY <3>2, <4>1, <4>2, <4>3, Still DEF Typed
    <3> QED
      BY <3>1, <3>2 DEF Ended
  <2>3. obj[t].id \in Rows /\ obj[t].id[1] = t
    BY <2>1, <2>2 DEF HasRow, Typed, ProvisionsTyped, OwnObj
  <2>4. ReleaseAfterError(t) => pc'[t] \in {"fail", "done"}
    BY DEF ReleaseAfterError, Goto, Typed, PcTyped
  <2>5. row'[obj[t].id] # NoVal
    BY <1>3, <2>2, <2>3, <2>4, RowKept DEF Ended
  <2> QED
    BY <2>1, <2>3, <2>5 DEF Rows
<1> QED
  BY <1>1, <1>2, <1>3

KeptInv == OwnedInv /\ OldAreEnded /\ DeprovisionsAfter /\ HasRow

LEMMA KeptInit == Init => KeptInv
  BY Actors, OwnedInit, OldAreEndedInit DEF Init, KeptInv, DeprovisionsAfter, HasRow

LEMMA KeptStep == Typed /\ KeptInv /\ Orderly' /\ [Next]_vars => KeptInv'
<1> SUFFICES ASSUME Typed, KeptInv, Orderly', [Next]_vars PROVE KeptInv'
  OBVIOUS
<1> QED
  BY OwnedStep, OldAreEndedStep, DeprovisionsAfterStep, HasRowStep DEF KeptInv

\* A provision changes the node under the vmid of its own row only.
LEMMA ProvisionAlters ==
  ASSUME Typed, KeptInv, NEW t \in Task, ProvisionStep(t), NEW v \in Vmid, vm'[v] # vm[v]
  PROVE  obj[t] # NoVal /\ V(t) = v /\ obj[t].id \in Rows /\ obj[t].id[1] = t /\ row[obj[t].id].vmid = v
<1>1. V(t) = v /\ obj[t] # NoVal /\ pc[t] \notin {"fail", "done", "crashed"}
  <2>1. CASE ReapBeforeClone(t) \/ ReapFailedClone(t)
    <3>1. vm' = [vm EXCEPT ![V(t)] = NoVal] /\ pc[t] \in Reserved \ {"fail", "done", "crashed"}
      BY <2>1 DEF ReapBeforeClone, ReapFailedClone, ReapOrphan, Destroy, Reserved, Built
    <3>2. V(t) = v
      BY <3>1 DEF Typed, NodeTyped
    <3> QED
      BY <3>1, <3>2 DEF KeptInv, OwnedInv, ObjReserved
  <2>2. CASE WaitClone(t) \/ StartClone(t)
    <3>1. /\ pc[t] \in Reserved \ {"fail", "done", "crashed"}
          /\ \E x : vm' = [vm EXCEPT ![V(t)] = x] \/ vm' = [vm EXCEPT ![V(t)].st = x]
      BY <2>2 DEF WaitClone, StartClone, Reserved, Built
    <3>2. V(t) = v
      BY <3>1 DEF Typed, NodeTyped
    <3> QED
      BY <3>1, <3>2 DEF KeptInv, OwnedInv, ObjReserved
  <2>3. CASE Configure(t) \/ BootBox(t)
    <3>1. /\ pc[t] \in Reserved \ {"fail", "done", "crashed"}
          /\ \/ \E x : vm' = [vm EXCEPT ![V(t)].ip = x]
             \/ \E x, y : vm' = [vm EXCEPT ![V(t)].st = x, ![V(t)].guest = y]
      BY <2>3 DEF Configure, BootBox, Boot, Reserved, Built
    <3>2. V(t) = v
      BY <3>1 DEF Typed, NodeTyped
    <3> QED
      BY <3>1, <3>2 DEF KeptInv, OwnedInv, ObjReserved
  <2>4. CASE Teardown(t)
    <3>1. obj[t] # NoVal /\ pc[t] = "teardown" /\ (Destroy(V(t)) \/ PowerOff(V(t)))
      BY <2>4 DEF Teardown
    <3>2. V(t) = v
      BY <3>1 DEF Destroy, PowerOff, Typed, NodeTyped
    <3> QED
      BY <3>1, <3>2
  <2> QED
    BY <2>1, <2>2, <2>3, <2>4
       DEF ProvisionStep, FindBox, PickNumber, SaveNumber, Admit, CreateLab, Reserve, LeaseIp, Bind,
           CheckVmid, CloneFailed, DropReservation, ConfirmIp, Record, ReleaseAfterError, MarkError
<1>2. obj[t].id \in Rows /\ obj[t].id[1] = t
  BY <1>1 DEF KeptInv, HasRow, Typed, ProvisionsTyped, OwnObj
<1> QED
  BY <1>1, <1>2 DEF KeptInv, OwnedInv, RowsOfObj, V

\* Two provisions at work hold two vmids.
LEMMA OneAtAVmid ==
  ASSUME Typed, KeptInv, NEW t \in Task, NEW u \in Task, pc[t] \in Reserved, pc[u] \in Reserved, V(t) = V(u)
  PROVE  t = u
<1>1. ASSUME NEW k \in Task, pc[k] \in Reserved
      PROVE  obj[k].id \in Rows /\ obj[k].id[1] = k /\ row[obj[k].id].vmid = V(k)
  <2>1. obj[k] # NoVal /\ obj[k].id = <<k, att[k]>>
    BY <1>1 DEF KeptInv, OwnedInv, ObjReserved, Typed, ProvisionsTyped, OwnObj
  <2>2. obj[k].id \in Rows
    BY <1>1, <2>1 DEF KeptInv, HasRow, Reserved, Built
  <2> QED
    BY <2>1, <2>2 DEF KeptInv, OwnedInv, RowsOfObj, V
<1> QED
  BY <1>1 DEF KeptInv, OwnedInv, VmidsDistinct

\* From the clone on, the VM under the vmid of a provision at work is its own.
Configuring == {"configure", "boot", "confirm", "record"}
ClonesAreOwn ==
  \A t \in Task : pc[t] \in Configuring \cup {"cloning"} => vm[V(t)] = NoVal \/ vm[V(t)].by = t

LEMMA ClonesAreOwnStep == Typed /\ KeptInv /\ ClonesAreOwn /\ [Next]_vars => ClonesAreOwn'
<1> SUFFICES ASSUME Typed, KeptInv, ClonesAreOwn, [Next]_vars PROVE ClonesAreOwn'
  OBVIOUS
<1> SUFFICES ASSUME NEW t \in Task, pc'[t] \in Configuring \cup {"cloning"},
                    NEW v \in Vmid, v = obj'[t].vmid, vm'[v] # NoVal
             PROVE  vm'[v].by = t
  <2>1. \A t \in Task : pc'[t] \in Configuring \cup {"cloning"} => obj'[t].vmid \in Vmid
    BY TypedStep DEF Typed, ProvisionsTyped, OwnObj, Configuring, Reserved, Built
  <2> QED
    BY <2>1 DEF ClonesAreOwn, V
<1> USE Actors
<1>1. ASSUME NEW x, Goto(t, x) PROVE pc'[t] = x
  BY <1>1 DEF Goto, Typed, PcTyped
<1>2. obj'[t] = obj[t] /\ pc[t] \in Reserved
  <2>1. ~Reserve(t) /\ ~DropReservation(t) /\ ~CrashProvision(t) /\ ~LeaseIp(t)
    BY <1>1 DEF Reserve, DropReservation, CrashProvision, LeaseIp, Configuring
  <2>2. ProvisionStep(t) => obj'[t] = obj[t] /\ pc[t] \in Reserved
    BY <2>1, ProvisionLocals DEF Typed, PcTyped, Configuring, Reserved, Built
  <2>3. pc'[t] = pc[t] => pc[t] \in Reserved
    BY DEF Configuring, Reserved, Built
  <2> QED
    BY <2>1, <2>2, <2>3, Still DEF Typed
<1>3. v = V(t)
  BY <1>2 DEF V
<1>4. CASE StartClone(t)
  <2>1. ~Goto(t, "clone_failed")
    BY <1>1 DEF Configuring
  <2>2. vm' = [vm EXCEPT ![v] = NewVm(t, "cloning")]
    BY <1>3, <1>4, <2>1 DEF StartClone
  <2> QED
    BY <2>2 DEF NewVm, Typed, NodeTyped
<1>5. CASE ~StartClone(t)
  <2>1. pc[t] \in Configuring \cup {"cloning"}
    <3>1. ProvisionStep(t) => WaitClone(t) \/ Configure(t) \/ BootBox(t) \/ ConfirmIp(t)
      BY <1>5, Onwards DEF Configuring
    <3>2. ~CrashProvision(t)
      BY <1>1 DEF CrashProvision, Configuring
    <3> QED
      BY <3>1, <3>2, Still DEF Typed, WaitClone, Configure, BootBox, ConfirmIp, Configuring
  <2>2. vm[v] = NoVal \/ vm[v].by = t
    BY <1>3, <2>1 DEF ClonesAreOwn
  <2>3. CASE vm'[v] = vm[v]
    BY <2>2, <2>3
  <2>4. CASE Altered
    <3>1. PICK w \in Vmid, y \in VmSet \cup {NoVal} :
            vm' = [vm EXCEPT ![w] = y] /\ (y # NoVal => Usable(w) /\ y.by = vm[w].by)
      BY <2>4 DEF Altered
    <3> QED
      BY <2>2, <2>3, <3>1 DEF Typed, NodeTyped, Usable, Exists
  <2>5. ASSUME NEW u \in Task, StartClone(u) \/ WaitClone(u), vm'[v] # vm[v] PROVE vm'[v].by = t
    <3>1. pc[u] \in Reserved
      BY <2>5 DEF StartClone, WaitClone, Reserved, Built
    <3>2. V(u) = v
      BY <2>5 DEF StartClone, WaitClone, Typed, NodeTyped
    <3>3. u = t
      BY <1>2, <1>3, <3>1, <3>2, OneAtAVmid
    <3>4. (vm'[v].by = vm[v].by /\ vm[v] # NoVal) \/ vm'[v] = NoVal \/ vm'[v].by = t
      <4>1. WaitClone(t) /\ vm[v] \in VmSet /\ vm[v] # NoVal
        BY <1>3, <1>5, <2>5, <3>3 DEF WaitClone, Typed, ClonesThere, NodeTyped, V
      <4> QED
        BY <1>3, <4>1 DEF WaitClone, NewVm, Typed, NodeTyped, VmSet
    <3> QED
      BY <2>2, <3>4
  <2>6. ASSUME NEW w \in Vmid, FinishClone(w), vm'[v] # vm[v] PROVE vm'[v].by = vm[v].by /\ vm[v] # NoVal
    BY <2>6 DEF FinishClone, Typed, NodeTyped, VmSet
  <2> QED
    BY <2>2, <2>3, <2>4, <2>5, <2>6, NodeChanges DEF Typed
<1> QED
  BY <1>4, <1>5

-----------------------------------------------------------------------------
(* Nothing but a bare clone is left after an error *)

\* Nothing but calls has failed.
CallsOnly == faults.kinds \subseteq {"call"}

\* While only calls fail, a lab's own VM is bare, or it is the one under its vmid, and its
\* provision is at work on it or has ended.
Worked == {"boot", "confirm", "record", "teardown", "done"}
OwnAtWork ==
  \A t \in Task, v \in Vmid : OwnVm(t, v) =>
    vm[v].ip = NoVal \/ (obj[t] # NoVal /\ v = V(t) /\ pc[t] \in Worked)

LEMMA OwnAtWorkStep ==
  ASSUME Typed, KeptInv, ClonesAreOwn, AddressedAreUsable, OwnAtWork, [Next]_vars, CallsOnly'
  PROVE  OwnAtWork'
<1> SUFFICES ASSUME NEW t \in Task, NEW v \in Vmid, OwnVm(t, v)', vm'[v].ip # NoVal
             PROVE  obj'[t] # NoVal /\ v = obj'[t].vmid /\ pc'[t] \in Worked
  BY DEF OwnAtWork, V
<1> USE Actors
<1>0. \A k : Fault(k) => k = "call"
  BY DEF CallsOnly, Fault
<1>1. ASSUME NEW l, Goto(t, l) PROVE pc'[t] = l
  BY <1>1 DEF Goto, Typed, PcTyped
<1>2. vm'[v] # NoVal /\ vm'[v].by = t
  BY DEF OwnVm, Exists
<1>3. vm[v] # NoVal /\ vm[v].by = t
  BY <1>2, AddressComes
<1>4. ASSUME NEW u \in Task, Configure(u), V(u) = v PROVE obj'[t] # NoVal /\ v = obj'[t].vmid /\ pc'[t] \in Worked
  <2>1. pc[u] = "configure" /\ obj' = obj
    BY <1>4 DEF Configure
  <2>2. u = t
    BY <1>3, <1>4, <2>1 DEF ClonesAreOwn, Configuring
  <2>3. pc'[t] \in {"boot", "teardown"}
    BY <1>1, <1>4, <2>2 DEF Configure
  <2>4. obj[t] # NoVal
    BY <2>1, <2>2 DEF KeptInv, OwnedInv, ObjReserved, Reserved, Built
  <2> QED
    BY <1>4, <2>1, <2>2, <2>3, <2>4 DEF Worked, V
<1>5. CASE vm[v].ip # NoVal /\ ~Configure(t)
  <2>0. OwnVm(t, v) /\ Destroyable(v)
    BY <1>3, <1>5 DEF AddressedAreUsable, OwnVm, Exists, Destroyable, Present
  <2>1. obj[t] # NoVal /\ v = V(t) /\ pc[t] \in Worked
    BY <1>5, <2>0 DEF OwnAtWork
  <2>2. CASE BootBox(t) \/ ConfirmIp(t) \/ Record(t)
    <3>1. obj' = obj /\ pc'[t] \in {"confirm", "record", "done", "teardown"}
      BY <1>1, <2>2 DEF BootBox, ConfirmIp, Record
    <3> QED
      BY <2>1, <3>1 DEF Worked, V
  <2>3. CASE Teardown(t)
    <3>1. ~Fault("destroy") /\ ~Fault("misread")
      BY <1>0
    <3>2. Destroy(v)
      BY <2>0, <2>1, <2>3, <3>1 DEF Teardown, TeardownCan, OwnVm
    <3> QED
      BY <1>2, <3>2 DEF Destroy, Typed, NodeTyped
  <2>4. ~CrashProvision(t)
    BY <1>0 DEF CrashProvision
  <2>5. CASE pc'[t] = pc[t] /\ obj'[t] = obj[t]
    BY <2>1, <2>5 DEF V
  <2>6. ProvisionStep(t) => BootBox(t) \/ ConfirmIp(t) \/ Record(t) \/ Teardown(t)
    BY <2>1 DEF Worked, ProvisionStep, FindBox, PickNumber, SaveNumber, Admit, CreateLab, Reserve, LeaseIp,
       Bind, CheckVmid, ReapBeforeClone, StartClone, WaitClone, CloneFailed, ReapFailedClone,
       DropReservation, Configure, ReleaseAfterError, MarkError
  <2> QED
    BY <2>2, <2>3, <2>4, <2>5, <2>6, Still DEF Typed
<1>6. CASE vm[v].ip # NoVal /\ Configure(t)
  <2>1. obj[t] # NoVal /\ v = V(t) /\ pc[t] \in Worked
    <3>1. OwnVm(t, v)
      BY <1>3, <1>6 DEF AddressedAreUsable, OwnVm, Exists
    <3> QED
      BY <1>6, <3>1 DEF OwnAtWork
  <2> QED
    BY <1>6, <2>1 DEF Configure, Worked
<1> QED
  BY <1>2, <1>4, <1>5, <1>6, AddressComes

\* No row comes to a lab but by its provision's reservation.
LEMMA NoRowComes ==
  ASSUME Typed, [Next]_vars, NEW l \in Task, pc[l] # "reserve"
  PROVE  LabRows(l)' \subseteq LabRows(l)
<1> SUFFICES ASSUME NEW id \in RowId, id[1] = l, row[id] = NoVal, row'[id] # NoVal
             PROVE  FALSE
  BY DEF LabRows, Rows
<1> USE Actors DEF Typed, DbTyped
<1>1. ASSUME NEW t \in Task, Reserve(t) PROVE FALSE
  <2>1. pc[t] = "reserve" /\ (row' = row \/ \E x : row' = [row EXCEPT ![<<t, att[t]>>] = x])
    BY <1>1 DEF Reserve
  <2>2. id = <<t, att[t]>>
    BY <2>1
  <2> QED
    BY <2>1, <2>2
<1>2. ASSUME NEW t \in Task, Bind(t) PROVE FALSE
  BY <1>2 DEF Bind, Rows
<1>3. ASSUME NEW k, DeleteRow(k) PROVE FALSE
  BY <1>3 DEF DeleteRow
<1> QED
  BY <1>1, <1>2, <1>3, RowChanges DEF LeaseIp, Unlease, LeaseRelease

\* The row is not there any more when a failed provision marks its lab.
RowGone == \A t \in Task : pc[t] = "fail" => LabRows(t) = {}

LEMMA RowGoneStep == Typed /\ OwnedInv /\ RowGone /\ [Next]_vars => RowGone'
<1> SUFFICES ASSUME Typed, OwnedInv, RowGone, [Next]_vars, NEW t \in Task, pc'[t] = "fail"
             PROVE  LabRows(t)' = {}
  BY DEF RowGone
<1>1. ~CrashProvision(t)
  BY Actors, OtherMoves DEF Typed, PcTyped
<1>2. CASE ReleaseAfterError(t)
  <2>1. CASE obj[t] = NoVal
    <3>1. row' = row /\ LabRows(t) = {}
      BY <1>2, <2>1 DEF ReleaseAfterError, OwnedInv, RowsOfObj, LabRows
    <3> QED
      BY <3>1 DEF LabRows, Rows
  <2>2. CASE obj[t] # NoVal
    <3>1. obj[t].id = <<t, att[t]>>
      BY <2>2 DEF Typed, ProvisionsTyped, OwnObj
    <3>2. row' = [row EXCEPT ![<<t, att[t]>>] = NoVal]
      <4>1. ~Goto(t, "done")
        BY Actors DEF Goto, Typed, PcTyped
      <4> QED
        BY <1>2, <2>2, <3>1, <4>1 DEF ReleaseAfterError, DeleteRow
    <3>3. \A id \in RowId : row[id] # NoVal /\ id[1] = t => id = <<t, att[t]>>
      BY DEF Typed, RowsOfAttempt, Rows, RowId
    <3> QED
      BY <3>2, <3>3 DEF LabRows, Rows, Typed, DbTyped
  <2> QED
    BY <2>1, <2>2
<1>3. CASE pc'[t] = pc[t]
  <2>1. LabRows(t) = {} /\ pc[t] # "reserve"
    BY <1>3 DEF RowGone
  <2> QED
    BY <2>1, NoRowComes
<1> QED
  BY <1>1, <1>2, <1>3, Onwards, Still DEF Typed

\* A lab that was old when a sweep began has no VM the sweep did not list; a
\* reservation it takes for stale is the lab's only one, and its VM is gone.
VmGone(l) == obj[l] # NoVal /\ ~OwnVm(l, V(l))
StaleAreDead ==
  \A s \in Sweep :
    /\ pc[s] # "idle" => \A l \in snap[s].oldLab, v \in Vmid : OwnVm(l, v) => v \in snap[s].live
    /\ pc[s] \in {"stale", "mark"} =>
         \A id \in todo[s] : OldLab(s, id) => LabRows(id[1]) \subseteq {id} /\ VmGone(id[1])
    /\ pc[s] = "mark" =>
         \A l \in Task : l = obj[s].id[1] => Ended(l) /\ LabRows(l) = {} /\ VmGone(l)

\* An ended lab gets nothing new.
LEMMA EndedGetNothing ==
  ASSUME Typed, [Next]_vars, NEW l \in Task, Ended(l)
  PROVE  /\ Ended(l)' /\ LabRows(l)' \subseteq LabRows(l)
         /\ \A v \in Vmid : OwnVm(l, v)' => OwnVm(l, v)
         /\ VmGone(l) => VmGone(l)'
<1>1. pc'[l] = pc[l] /\ obj'[l] = obj[l] /\ ~ProvisionStep(l)
  BY EndedStays
<1>2. pc[l] # "reserve"
  BY DEF Ended
<1>3. \A v \in Vmid : OwnVm(l, v)' => OwnVm(l, v)
  BY <1>1, OwnComes DEF ProvisionStep
<1>4. ASSUME VmGone(l) PROVE VmGone(l)'
  <2>1. obj[l].vmid \in Vmid
    BY <1>4 DEF VmGone, Typed, ProvisionsTyped, OwnObj
  <2>2. PICK v \in Vmid : v = obj[l].vmid
    BY <2>1
  <2>3. ~OwnVm(l, v)'
    BY <1>3, <1>4, <2>2 DEF VmGone, V
  <2>4. obj'[l] # NoVal /\ obj'[l].vmid = v
    BY <1>1, <1>4, <2>2 DEF VmGone
  <2> QED
    BY <2>3, <2>4 DEF VmGone, V, OwnVm, Exists
<1> QED
  BY <1>1, <1>2, <1>3, <1>4, NoRowComes DEF Ended

LEMMA StaleAreDeadStep ==
  Typed /\ OwnedInv /\ OldAreEnded /\ StaleAreDead /\ [Next]_vars => StaleAreDead'
<1> SUFFICES ASSUME Typed, OwnedInv, OldAreEnded, StaleAreDead, [Next]_vars, NEW s \in Sweep
             PROVE  /\ pc'[s] # "idle" => \A l \in snap'[s].oldLab, v \in Vmid : OwnVm(l, v)' => v \in snap'[s].live
                    /\ pc'[s] \in {"stale", "mark"} =>
                         \A id \in todo'[s] : id[1] \in snap'[s].oldLab => LabRows(id[1])' \subseteq {id} /\ VmGone(id[1])'
                    /\ pc'[s] = "mark" =>
                         \A l \in Task : l = obj'[s].id[1] => Ended(l)' /\ LabRows(l)' = {} /\ VmGone(l)'
  BY DEF StaleAreDead, OldLab
<1> USE Actors
<1> DEFINE Dead(id) == LabRows(id[1]) \subseteq {id} /\ VmGone(id[1])
<1>1. ASSUME NEW l, Goto(s, l) PROVE pc'[s] = l
  BY <1>1 DEF Goto, Typed, PcTyped
<1>2. snap[s].oldLab \subseteq Task /\ \A l \in snap[s].oldLab : Ended(l)
  BY DEF OldAreEnded, Typed, SweepsTyped, SnapSet
<1>3. ASSUME pc'[s] # "idle" PROVE \A l \in snap'[s].oldLab, v \in Vmid : OwnVm(l, v)' => v \in snap'[s].live
  <2>1. CASE ListNode(s)
    <3>1. vm' = vm /\ snap'[s].live = Listed
      BY <2>1 DEF ListNode, NodeKept, Typed, SweepsTyped
    <3> QED
      BY <3>1 DEF OwnVm, Exists, Listed
  <2>2. CASE ~ListNode(s)
    <3>1. pc[s] # "idle" /\ snap'[s].oldLab = snap[s].oldLab /\ snap'[s].live = snap[s].live
      BY <1>3, <2>2, SnapAges
    <3>2. ASSUME NEW l \in snap[s].oldLab, NEW v \in Vmid, OwnVm(l, v)' PROVE v \in snap[s].live
      <4>1. OwnVm(l, v)
        BY <1>2, <3>2, EndedGetNothing
      <4> QED
        BY <3>1, <4>1 DEF StaleAreDead
    <3> QED
      BY <3>1, <3>2
  <2> QED
    BY <2>1, <2>2
\* What was dead stays dead.
<1>4. ASSUME NEW id \in RowId, id[1] \in snap[s].oldLab, Dead(id) PROVE LabRows(id[1])' \subseteq {id} /\ VmGone(id[1])'
  <2>1. PICK l \in Task : l = id[1] /\ Ended(l)
    BY <1>2, <1>4
  <2>2. LabRows(l) \subseteq {id} /\ VmGone(l)
    BY <1>4, <2>1
  <2>3. LabRows(l)' \subseteq {id} /\ VmGone(l)'
    BY <2>1, <2>2, EndedGetNothing
  <2> QED
    BY <2>1, <2>3
<1>5. ASSUME pc[s] \in {"stale", "mark"}, snap'[s] = snap[s], todo'[s] \subseteq todo[s]
      PROVE  \A id \in todo'[s] : id[1] \in snap'[s].oldLab => LabRows(id[1])' \subseteq {id} /\ VmGone(id[1])'
  <2>1. \A id \in todo[s] : id \in RowId /\ (id[1] \in snap[s].oldLab => Dead(id))
    BY <1>5 DEF StaleAreDead, OldLab, Typed, SweepsTyped
  <2> QED
    BY <1>4, <1>5, <2>1
<1>6. CASE StaleQuery(s)
  <2>1. pc[s] = "orphans" /\ pc'[s] = "stale" /\ snap' = snap
        /\ todo'[s] = {id \in Rows : row[id].vmid \notin snap[s].live}
    BY <1>1, <1>6 DEF StaleQuery, Typed, SweepsTyped
  <2>2. ASSUME NEW id \in Rows, row[id].vmid \notin snap[s].live, id[1] \in snap[s].oldLab
        PROVE  id \in RowId /\ Dead(id)
    <3>1. LabRows(id[1]) \subseteq {id}
      BY DEF LabRows, Typed, RowsOfAttempt, Rows, RowId
    <3>2. obj[id[1]] # NoVal /\ obj[id[1]].vmid = row[id].vmid /\ row[id].vmid \in Vmid
      BY DEF OwnedInv, RowsOfObj, Rows, Typed, DbTyped, RowSet
    <3>3. ~OwnVm(id[1], row[id].vmid)
      BY <2>1, <2>2, <3>2 DEF StaleAreDead
    <3> QED
      BY <3>1, <3>2, <3>3 DEF Rows, VmGone, V
  <2>3. \A id \in todo'[s] : id[1] \in snap'[s].oldLab => LabRows(id[1])' \subseteq {id} /\ VmGone(id[1])'
    BY <1>4, <2>1, <2>2
  <2> QED
    BY <1>3, <2>1, <2>3
<1>7. CASE StaleRelease(s)
  <2>1. PICK id \in todo[s] : /\ OldLab(s, id) /\ DeleteRow(id)
                             /\ obj' = [obj EXCEPT ![s] = [id |-> id, vmid |-> NoVal]]
                             /\ todo' = [todo EXCEPT ![s] = todo[s] \ {id}]
    BY <1>7 DEF StaleRelease
  <2>2. pc[s] = "stale" /\ pc'[s] = "mark" /\ snap' = snap /\ id \in RowId
    BY <1>1, <1>7, <2>1 DEF StaleRelease, Typed, SweepsTyped
  <2>3. todo'[s] \subseteq todo[s] /\ obj'[s].id = id
    BY <2>1 DEF Typed, SweepsTyped, ObjTyped
  <2>4. id[1] \in snap[s].oldLab /\ Dead(id)
    BY <2>1, <2>2 DEF OldLab, StaleAreDead
  <2>5. PICK l \in Task : l = id[1] /\ Ended(l)
    BY <1>2, <2>4
  <2>6. LabRows(l)' \subseteq {id} /\ VmGone(l)' /\ Ended(l)'
    BY <2>4, <2>5, EndedGetNothing
  <2>7. row'[id] = NoVal
    BY <2>1, <2>2 DEF DeleteRow, Typed, DbTyped
  <2>8. LabRows(l)' = {}
    BY <2>6, <2>7 DEF LabRows, Rows
  <2>9. \A k \in Task : k = obj'[s].id[1] => Ended(k)' /\ LabRows(k)' = {} /\ VmGone(k)'
    BY <2>3, <2>5, <2>6, <2>8
  <2>10. \A k \in todo'[s] : k[1] \in snap'[s].oldLab => LabRows(k[1])' \subseteq {k} /\ VmGone(k[1])'
    BY <1>5, <2>2, <2>3
  <2> QED
    BY <1>3, <2>9, <2>10
<1>8. CASE SkipRecent(s) \/ StaleMark(s)
  <2>1. pc[s] \in {"stale", "mark"} /\ pc'[s] = "stale" /\ snap' = snap /\ todo'[s] \subseteq todo[s]
    BY <1>1, <1>8 DEF SkipRecent, StaleMark, Typed, SweepsTyped, sweeps
  <2> QED
    BY <1>3, <1>5, <2>1
<1>9. CASE pc'[s] = pc[s] /\ obj'[s] = obj[s] /\ snap'[s] = snap[s] /\ todo'[s] = todo[s]
  <2>1. ASSUME pc[s] = "mark", NEW l \in Task, l = obj[s].id[1]
        PROVE  Ended(l)' /\ LabRows(l)' = {} /\ VmGone(l)'
    <3>1. Ended(l) /\ LabRows(l) = {} /\ VmGone(l)
      BY <2>1 DEF StaleAreDead
    <3> QED
      BY <3>1, EndedGetNothing
  <2>2. pc'[s] = "mark" => \A l \in Task : l = obj'[s].id[1] => Ended(l)' /\ LabRows(l)' = {} /\ VmGone(l)'
    BY <1>9, <2>1
  <2> QED
    BY <1>3, <1>5, <1>9, <2>2
<1>10. ListNode(s) \/ ReadReserved(s) \/ SkipYoung(s) \/ KillOrphan(s) \/ Unlease(s)
       \/ LeaseQuery(s) \/ LeaseRelease(s) \/ SweepEnds(s) => pc'[s] \notin {"stale", "mark"}
  BY <1>1 DEF ListNode, ReadReserved, SkipYoung, KillOrphan, Unlease, LeaseQuery, LeaseRelease, SweepEnds
<1> QED
  BY <1>3, <1>6, <1>7, <1>8, <1>9, <1>10, Sweeping DEF SweepStep

\* A provision that ended in error left nothing.
BareOnly(t) == \A v \in Vmid : OwnVm(t, v) => vm[v].ip = NoVal
NothingLeft ==
  \A t \in Task : pc[t] = "done" /\ status[t] = "error" => LabRows(t) = {} /\ BareOnly(t)

ResidueInv ==
  /\ KeptInv /\ ClonesAreOwn /\ StaleAreDead /\ AddressedAreUsable /\ OwnAtWork /\ RowGone /\ NothingLeft

LEMMA NothingLeftStep ==
  ASSUME Typed, ResidueInv, [Next]_vars, CallsOnly'
  PROVE  NothingLeft'
<1> SUFFICES ASSUME NEW t \in Task, pc'[t] = "done", status'[t] = "error"
             PROVE  LabRows(t)' = {} /\ BareOnly(t)'
  BY DEF NothingLeft
<1> USE Actors DEF ResidueInv, KeptInv
<1>1. ~Fault("database")
  BY DEF Fault, CallsOnly
<1>2. ASSUME LabRows(t) = {}, BareOnly(t), UNCHANGED <<row, vm>>
      PROVE  LabRows(t)' = {} /\ BareOnly(t)'
  BY <1>2 DEF LabRows, Rows, BareOnly, OwnVm, Exists
<1>3. CASE MarkError(t)
  <2>1. pc[t] = "fail" /\ UNCHANGED <<row, vm>>
    BY <1>3 DEF MarkError
  <2>2. BareOnly(t)
    BY <2>1 DEF OwnAtWork, Worked, BareOnly
  <2> QED
    BY <1>2, <2>1, <2>2 DEF RowGone
<1>4. ASSUME NEW s \in Sweep, StaleMark(s), obj[s].id[1] = t
      PROVE  LabRows(t)' = {} /\ BareOnly(t)'
  <2>1. LabRows(t) = {} /\ VmGone(t) /\ UNCHANGED <<row, vm>>
    BY <1>4 DEF StaleMark, StaleAreDead, NodeKept
  <2>2. BareOnly(t)
    BY <2>1 DEF OwnAtWork, VmGone, BareOnly
  <2> QED
    BY <1>2, <2>1, <2>2
<1>5. CASE status'[t] # status[t]
  BY <1>3, <1>4, <1>5, StatusOf
<1>6. CASE status[t] = "error" /\ ~MarkError(t)
  <2>1. pc[t] \notin Before
    BY <1>6 DEF OwnedInv, NothingBefore
  <2>2. ~FindBox(t) /\ ~Admit(t) /\ ~CreateLab(t)
    BY <2>1 DEF FindBox, Admit, CreateLab, Before
  <2>3. ~Record(t)
    <3>1. ASSUME NEW l, Goto(t, l) PROVE pc'[t] = l
      BY <3>1 DEF Goto, Typed, PcTyped
    <3>2. ASSUME status' = [status EXCEPT ![t] = "running"] PROVE FALSE
      BY <3>2 DEF Typed, DbTyped
    <3> QED
      BY <3>1, <3>2 DEF Record
  <2>4. ~CrashProvision(t)
    BY OtherMoves DEF Typed, PcTyped
  <2>5. ~ReleaseAfterError(t)
    <3>1. ~Goto(t, "fail")
      BY DEF Goto, Typed, PcTyped
    <3> QED
      BY <1>1, <3>1 DEF ReleaseAfterError
  <2>6. pc[t] = "done"
    BY <1>6, <2>2, <2>3, <2>4, <2>5, Onwards, Still DEF Typed
  <2>7. LabRows(t) = {} /\ BareOnly(t)
    BY <1>6, <2>6 DEF NothingLeft
  <2>8. ASSUME NEW v \in Vmid, OwnVm(t, v)', vm'[v].ip # NoVal PROVE FALSE
    <3>1. OwnVm(t, v) /\ vm[v].by = t /\ vm[v].ip = NoVal
      BY <2>6, <2>7, <2>8, EndedGetNothing DEF Ended, BareOnly, OwnVm
    <3>2. PICK u \in Task : Configure(u) /\ V(u) = v
      BY <2>8, <3>1, AddressComes DEF OwnVm, Exists
    <3>3. u = t
      BY <3>1, <3>2, Actors DEF ClonesAreOwn, Configure, Configuring, OwnVm, Exists
    <3> QED
      BY <2>6, <3>2, <3>3 DEF Configure
  <2> QED
    BY <2>6, <2>7, <2>8, EndedGetNothing DEF Ended, BareOnly
<1> QED
  BY <1>3, <1>5, <1>6

LEMMA ResidueInit == Init => ResidueInv
<1> SUFFICES ASSUME Init PROVE ResidueInv
  OBVIOUS
<1>1. AddressedAreUsable
  BY DEF Init, AddressedAreUsable, NewVm
<1>2. \A t \in Task, v \in Vmid : ~OwnVm(t, v)
  BY Actors DEF Init, OwnVm, Exists, NewVm
<1>3. RowGone /\ NothingLeft
  BY Actors DEF Init, RowGone, NothingLeft
<1>4. StaleAreDead
  BY Actors DEF Init, StaleAreDead
<1> QED
  BY <1>1, <1>2, <1>3, <1>4, KeptInit, Actors DEF Init, ResidueInv, OwnAtWork, ClonesAreOwn, Configuring

LEMMA ResidueStep == Typed /\ ResidueInv /\ Orderly' /\ CallsOnly' /\ [Next]_vars => ResidueInv'
<1> SUFFICES ASSUME Typed, ResidueInv, Orderly', CallsOnly', [Next]_vars PROVE ResidueInv'
  OBVIOUS
<1>1. OwnedInv /\ OldAreEnded
  BY DEF ResidueInv, KeptInv
<1> QED
  BY <1>1, KeptStep, ClonesAreOwnStep, StaleAreDeadStep, AddressedStep, OwnAtWorkStep, RowGoneStep, NothingLeftStep
     DEF ResidueInv

\* However many calls fail in whatever places, a provision that ended in error left no
\* row, no lease and no VM of its own that was set to an address (StudentBox's
\* NoResidueAfterError; tasks.py:913-915): for any number of provisions, power tasks and
\* sweeps, as long as nothing but calls fails and no lab is deprovisioned during its
\* provision.  A VM that a provision configured is its own (ClonesAreOwn) and stays under
\* its vmid, so the teardown finds and destroys it (OwnAtWork); a lab the reaper closed had
\* ended, and a VM under its vmid would have been on the list the sweep took after that
\* (StaleAreDead).  A clone that was not configured may stay, when the answer to its call or to
\* a poll was lost.
THEOREM NothingIsLeftAfterError == Spec => []NoResidueAfterError
<1> DEFINE J == IdleHaveNothing /\ (NoneHasty /\ CallsOnly => ResidueInv)
<1>1. ASSUME Typed, J PROVE NoResidueAfterError
  <2> SUFFICES ASSUME NoneHasty, CallsOnly, NEW t \in Task, pc[t] = "done", status[t] = "error"
               PROVE  /\ LabRows(t) = {}
                      /\ \A i \in Ip : lease[i].vm = NoVal \/ lease[i].vm[1] # t
                      /\ \A v \in Vmid : OwnVm(t, v) => vm[v].ip = NoVal
    BY DEF NoResidueAfterError, CallsOnly
  <2>1. ResidueInv
    BY <1>1
  <2>2. ASSUME LabRows(t) = {}, NEW i \in Ip, lease[i].vm # NoVal PROVE lease[i].vm[1] # t
    BY <2>1, <2>2 DEF ResidueInv, KeptInv, OwnedInv, LeasesOfRows, LabRows
  <2> QED
    BY <2>1, <2>2 DEF ResidueInv, NothingLeft, BareOnly
<1>2. Typed /\ J /\ [Next]_vars => J'
  <2> SUFFICES ASSUME Typed, J, [Next]_vars PROVE J'
    OBVIOUS
  <2>1. IdleHaveNothing'
    BY IdleStep
  <2>2. ASSUME NoneHasty', CallsOnly' PROVE ResidueInv'
    <3>1. Orderly' /\ CallsOnly
      BY <2>2, KindsGrow DEF Orderly, CallsOnly
    <3>2. NoneHasty
      BY <3>1, OrderlyBefore DEF Orderly
    <3> QED
      BY <2>2, <3>1, <3>2, ResidueStep
  <2> QED
    BY <2>1, <2>2
<1>3. Init => J
  BY ResidueInit, Actors DEF Init, IdleHaveNothing
<1> HIDE DEF J
<1> QED
  BY <1>1, <1>2, <1>3, TypedInit, TypedStep, PTL DEF Spec

-----------------------------------------------------------------------------
(* Destroyed means gone *)

\* The VM of lab l is not under its vmid; why it may be there all the same.
Absent(l) == obj[l] # NoVal => ~OwnVm(l, V(l))
Excused(l) ==
  \/ \E o \in Deprovisions(l) : was[o].status = "error"
  \/ /\ pc[l] = "crashed" \/ "database" \in faults.kinds
     /\ faults.kinds \cap {"call", "destroy", "late"} # {}
  \/ "misread" \in faults.kinds

\* A deprovision works on the lab's row object; where it has passed the destroy the VM is
\* not there, and where it has passed the release neither is the row.
DeprovisionsKnow ==
  \A o \in Op, l \in Task : was[o] # NoVal /\ was[o].kind = "deprovision" /\ was[o].lab = l =>
    /\ pc[o] \in {"deprovision", "release", "release_partial"} => obj[l] # NoVal /\ obj[o] = obj[l]
    /\ pc[o] = "release_partial" => "misread" \in faults.kinds
    /\ pc[o] \in {"release", "destroyed"} => Absent(l) \/ Excused(l)
    /\ pc[o] = "destroyed" => LabRows(l) = {}

\* A clone its provision no longer waits for was lost by a failing call or at a cap.  The
\* error path leaves a VM only where something failed; an ended lab without a row has no
\* VM, unless it ended in error.
ClonesAreKnown ==
  \A l \in Task, v \in Vmid :
    /\ OwnVm(l, v) /\ vm[v].st = "cloning" /\ pc[l] # "crashed"
    /\ ~(pc[l] = "cloning" /\ V(l) = v)
    => faults.kinds \cap {"call", "late"} # {}
DestroyedHasNoRow == \A l \in Task : status[l] = "destroyed" => LabRows(l) = {} /\ Ended(l)
TornDown ==
  \A l \in Task : pc[l] \in {"release", "fail"} =>
    Absent(l) \/ faults.kinds \cap {"call", "destroy", "late", "misread"} # {}
RowlessAreAbsent ==
  \A l \in Task : Ended(l) /\ LabRows(l) = {} => Absent(l) \/ status[l] = "error" \/ Excused(l)

GoneInv ==
  /\ KeptInv /\ StaleAreDead /\ LockedIsStray /\ RowGone
  /\ ClonesAreKnown /\ DeprovisionsKnow /\ DestroyedHasNoRow /\ TornDown /\ RowlessAreAbsent

\* What is absent from an ended lab stays absent, and an excuse stays one.
LEMMA AbsentStays ==
  ASSUME Typed, [Next]_vars, NEW l \in Task, Ended(l)
  PROVE  Absent(l) => Absent(l)'
<1>1. obj'[l] = obj[l]
  BY EndedStays
<1> QED
  BY <1>1, EndedGetNothing DEF Absent, VmGone

LEMMA ExcusedStays ==
  ASSUME Typed, IdleHaveNothing, [Next]_vars, NEW l \in Task, Ended(l)
  PROVE  Excused(l) => Excused(l)'
<1> USE Actors
<1>1. ASSUME NEW o \in Deprovisions(l), was[o].status = "error" PROVE Excused(l)'
  <2>1. o \in Op /\ was[o] # NoVal
    BY DEF Deprovisions
  <2>2. was'[o] = was[o]
    BY <2>1, Calls DEF IdleHaveNothing, Begin
  <2> QED
    BY <1>1, <2>1, <2>2 DEF Deprovisions, Excused
<1>2. pc'[l] = pc[l] /\ faults.kinds \subseteq faults'.kinds
  BY EndedStays, KindsGrow
<1> QED
  BY <1>1, <1>2 DEF Excused

LEMMA DeprovisionsKnowStep ==
  Typed /\ GoneInv /\ IdleHaveNothing /\ Orderly' /\ [Next]_vars => DeprovisionsKnow'
<1> SUFFICES ASSUME Typed, GoneInv, IdleHaveNothing, Orderly', [Next]_vars, NEW o \in Op, NEW l \in Task,
                    was'[o] # NoVal, was'[o].kind = "deprovision", was'[o].lab = l
             PROVE  /\ pc'[o] \in {"deprovision", "release", "release_partial"} =>
                         obj'[l] # NoVal /\ obj'[o] = obj'[l]
                    /\ pc'[o] = "release_partial" => "misread" \in faults'.kinds
                    /\ pc'[o] \in {"release", "destroyed"} => Absent(l)' \/ Excused(l)'
                    /\ pc'[o] = "destroyed" => LabRows(l)' = {}
  BY DEF DeprovisionsKnow
<1> USE Actors
<1>0. Ended(l)
  <2>1. CASE was'[o] = was[o]
    BY <2>1 DEF GoneInv, KeptInv, DeprovisionsAfter
  <2>2. ASSUME NEW kind \in OpKinds, NEW k \in Task, Begin(o, kind, k) PROVE Ended(l)
    <3>1. was'[o] = [kind |-> kind, lab |-> k, status |-> status[k], early |-> InFlight(k)]
      BY <2>2 DEF Begin, Typed, OpsTyped
    <3>2. ~was'[o].early
      BY DEF Orderly, NoneHasty
    <3>3. k = l /\ status[l] # "none" /\ ~InFlight(l)
      BY <2>2, <3>1, <3>2 DEF Begin
    <3> QED
      BY <3>3 DEF InFlight, Ended, GoneInv, KeptInv, OwnedInv, NothingBefore, Before
  <2> QED
    BY <2>1, <2>2, Calls
<1>1. /\ obj'[l] = obj[l] /\ LabRows(l)' \subseteq LabRows(l) /\ faults.kinds \subseteq faults'.kinds
      /\ Absent(l) \/ Excused(l) => Absent(l)' \/ Excused(l)'
  BY <1>0, EndedStays, EndedGetNothing, KindsGrow, AbsentStays, ExcusedStays
<1>2. ASSUME NEW x, Goto(o, x) PROVE pc'[o] = x
  BY <1>2 DEF Goto, Typed, PcTyped
<1>3. ASSUME NEW kind \in OpKinds, NEW k \in Task, Begin(o, kind, k)
      PROVE  /\ pc'[o] \in {"deprovision", "release", "release_partial"} =>
                  obj'[l] # NoVal /\ obj'[o] = obj'[l]
             /\ pc'[o] # "release_partial" /\ pc'[o] # "release"
             /\ pc'[o] = "destroyed" => LabRows(l)' = {} /\ (Absent(l)' \/ Excused(l)')
  <2>1. was'[o] = [kind |-> kind, lab |-> k, status |-> status[k], early |-> InFlight(k)]
    BY <1>3 DEF Begin, Typed, OpsTyped
  <2>2. k = l /\ kind = "deprovision"
    BY <2>1
  <2>3. ASSUME NEW id \in LabRows(l), obj' = [obj EXCEPT ![o] = [id |-> id, vmid |-> row[id].vmid]]
        PROVE  obj'[l] # NoVal /\ obj'[o] = obj'[l]
    <3>1. obj[l] # NoVal /\ obj[l].id = id /\ obj[l].vmid = row[id].vmid
      BY DEF GoneInv, KeptInv, OwnedInv, RowsOfObj, LabRows
    <3>2. obj[l] \in ObjSet
      BY <3>1 DEF Typed, ObjTyped
    <3>3. obj[l] = [id |-> id, vmid |-> row[id].vmid]
      BY <3>1, <3>2 DEF ObjSet
    <3>4. obj'[o] = [id |-> id, vmid |-> row[id].vmid] /\ obj'[l] = obj[l]
      BY <2>3 DEF Typed, ObjTyped
    <3> QED
      BY <3>1, <3>3, <3>4
  <2>4. ASSUME LabRows(l) = {} PROVE LabRows(l)' = {} /\ (Absent(l)' \/ Excused(l)')
    <3>1. Absent(l) \/ status[l] = "error" \/ Excused(l)
      BY <1>0, <2>4 DEF GoneInv, RowlessAreAbsent
    <3>2. ASSUME status[l] = "error" PROVE Excused(l)'
      <4>1. was'[o].status = "error" /\ was'[o].kind = "deprovision" /\ was'[o].lab = l
        BY <2>1, <2>2, <3>2
      <4> QED
        BY <4>1 DEF Excused, Deprovisions
    <3> QED
      BY <1>1, <2>4, <3>1, <3>2
  <2>5. pc'[o] = "deprovision" \/ pc'[o] = "destroyed"
    BY <1>2, <1>3, <2>2 DEF Begin
  <2>6. LabRows(l) = {} \/ \E id \in LabRows(l) : obj' = [obj EXCEPT ![o] = [id |-> id, vmid |-> row[id].vmid]]
    BY <1>3, <2>2 DEF Begin
  <2>7. pc'[o] = "destroyed" => LabRows(l) = {}
    BY <1>2, <1>3, <2>2 DEF Begin
  <2>8. pc'[o] = "deprovision" => \E id \in LabRows(l) : obj' = [obj EXCEPT ![o] = [id |-> id, vmid |-> row[id].vmid]]
    BY <1>2, <1>3, <2>2 DEF Begin
  <2> QED
    BY <2>3, <2>4, <2>5, <2>7, <2>8

<1>4. CASE was'[o] = was[o]
  <2>1. /\ pc[o] \in {"deprovision", "release", "release_partial"} => obj[l] # NoVal /\ obj[o] = obj[l]
        /\ pc[o] = "release_partial" => "misread" \in faults.kinds
        /\ pc[o] \in {"release", "destroyed"} => Absent(l) \/ Excused(l)
        /\ pc[o] = "destroyed" => LabRows(l) = {}
    BY <1>4 DEF GoneInv, DeprovisionsKnow
  <2>2. CASE pc'[o] = pc[o] /\ obj'[o] = obj[o]
    BY <1>1, <2>1, <2>2
  <2>3. CASE DestroyBox(o)
    <3>1. pc[o] = "deprovision" /\ obj' = obj /\ obj[l] # NoVal /\ Target(o) = V(l)
      BY <2>1, <2>3 DEF DestroyBox, OnlyCalls, Target, V
    <3>2. V(l) \in Vmid
      BY <3>1 DEF Typed, ProvisionsTyped, OwnObj, V
    <3>3. ASSUME Goto(o, "release"), ~Fault("misread") PROVE Absent(l)'
      <4>1. (~Exists(V(l)) /\ vm' = vm) \/ vm' = [vm EXCEPT ![V(l)] = NoVal]
        <5>1. ~Goto(o, "done")
          BY <1>2, <3>3
        <5> QED
          BY <2>3, <3>1, <3>3, <5>1 DEF DestroyBox, Kill, Destroy
      <4>2. PICK v \in Vmid : v = V(l)
        BY <3>2
      <4>3. vm'[v] = NoVal \/ (vm'[v] = vm[v] /\ ~Exists(v))
        BY <4>1, <4>2 DEF Typed, NodeTyped
      <4> QED
        BY <3>1, <4>2, <4>3 DEF Absent, V, OwnVm, Exists
    <3>4. Fault("misread") => "misread" \in faults'.kinds
      BY DEF Fault
    <3>5. "misread" \in faults'.kinds => Excused(l)'
      BY DEF Excused
    <3>6. \/ Goto(o, "release") \/ Goto(o, "done")
          \/ Goto(o, "release_partial") /\ Fault("misread")
      BY <2>3 DEF DestroyBox
    <3> QED
      BY <1>1, <1>2, <2>1, <3>1, <3>3, <3>4, <3>5, <3>6
  <2>4. CASE ReleaseBox(o)
    <3>1. pc'[o] = "destroyed" => pc[o] = "release"
      BY <1>2, <2>4 DEF ReleaseBox
    <3>2. pc'[o] = "destroyed" \/ pc'[o] = "done"
      BY <1>2, <2>4 DEF ReleaseBox
    <3>3. ASSUME pc[o] = "release" PROVE LabRows(l)' = {}
      <4>1. obj[o].id = <<l, att[l]>>
        BY <2>1, <3>3 DEF Typed, ProvisionsTyped, OwnObj
      <4>2. row' = [row EXCEPT ![<<l, att[l]>>] = NoVal]
        BY <2>4, <4>1 DEF ReleaseBox, DeleteRow
      <4>3. \A id \in RowId : row[id] # NoVal /\ id[1] = l => id = <<l, att[l]>>
        BY DEF Typed, RowsOfAttempt, Rows, RowId
      <4> QED
        BY <4>2, <4>3 DEF LabRows, Rows, Typed, DbTyped
    <3> QED
      BY <1>1, <2>1, <3>1, <3>2, <3>3
  <2>5. CASE StartBox(o) \/ RecordStarted(o) \/ StopBox(o) \/ RecordStopped(o) \/ MarkDestroyed(o) \/ CrashOp(o)
    <3>1. pc'[o] \in {"started", "stopped", "done"}
      BY <1>2, <2>5 DEF StartBox, RecordStarted, StopBox, RecordStopped, RecordStatus, MarkDestroyed, CrashOp
    <3> QED
      BY <3>1
  <2> QED
    BY <1>3, <2>2, <2>3, <2>4, <2>5, Calls DEF OpStep
<1> QED
  BY <1>3, <1>4, Calls

LEMMA ClonesAreKnownStep == Typed /\ ClonesAreKnown /\ [Next]_vars => ClonesAreKnown'
<1> SUFFICES ASSUME Typed, ClonesAreKnown, [Next]_vars, NEW l \in Task, NEW v \in Vmid,
                    OwnVm(l, v)', vm'[v].st = "cloning", pc'[l] # "crashed",
                    ~(pc'[l] = "cloning" /\ V(l)' = v)
             PROVE  faults'.kinds \cap {"call", "late"} # {}
  BY DEF ClonesAreKnown
<1> USE Actors
<1>1. faults.kinds \subseteq faults'.kinds /\ \A k : Fault(k) => k \in faults'.kinds
  BY KindsGrow DEF Fault
<1>2. ASSUME NEW x, Goto(l, x) PROVE pc'[l] = x
  BY <1>2 DEF Goto, Typed, PcTyped
<1>3. CASE StartClone(l) /\ V(l) = v
  <2>1. obj' = obj /\ pc'[l] # "cloning"
    BY <1>3 DEF StartClone, V
  <2>2. vm' # vm \/ Present(v)
    BY DEF OwnVm, Exists, Present
  <2>3. CASE ~Present(v)
    <3>1. ~Goto(l, "cloning")
      BY <1>2, <2>1
    <3>2. Fault("call")
      BY <1>3, <2>3, <3>1 DEF StartClone
    <3> QED
      BY <1>1, <3>2
  <2>4. CASE Present(v)
    <3>1. vm' = vm /\ pc[l] = "clone"
      BY <1>3, <2>4 DEF StartClone
    <3> QED
      BY <1>1, <3>1 DEF ClonesAreKnown, OwnVm, Exists
  <2> QED
    BY <2>3, <2>4
<1>4. CASE OwnVm(l, v) /\ vm[v].st = "cloning" /\ ~(StartClone(l) /\ V(l) = v)
  <2>1. pc[l] # "crashed"
    BY EndedStays DEF Ended
  <2>2. CASE pc[l] = "cloning" /\ V(l) = v
    <3>1. CASE WaitClone(l)
      <4>1. ASSUME vm' = [vm EXCEPT ![v].st = "stopped"] PROVE FALSE
        BY <1>4, <4>1 DEF OwnVm, Exists, Typed, NodeTyped, VmSet
      <4>2. Fault("call") \/ Fault("late")
        BY <2>2, <3>1, <4>1 DEF WaitClone
      <4> QED
        BY <1>1, <4>2
    <3>2. CASE CrashProvision(l)
      BY <1>2, <3>2 DEF CrashProvision
    <3>3. CASE pc'[l] = pc[l] /\ obj'[l] = obj[l]
      BY <2>2, <3>3 DEF V
    <3>4. ProvisionStep(l) => WaitClone(l)
      BY <2>2 DEF ProvisionStep, FindBox, PickNumber, SaveNumber, Admit, CreateLab, Reserve, LeaseIp, Bind,
         CheckVmid, ReapBeforeClone, StartClone, CloneFailed, ReapFailedClone,
         DropReservation, Configure, BootBox, ConfirmIp, Record, Teardown, ReleaseAfterError, MarkError
    <3> QED
      BY <3>1, <3>2, <3>3, <3>4, Still DEF Typed
  <2>3. CASE ~(pc[l] = "cloning" /\ V(l) = v)
    BY <1>1, <1>4, <2>1, <2>3 DEF ClonesAreKnown
  <2> QED
    BY <2>2, <2>3
<1>5. ASSUME OwnVm(l, v), ~(StartClone(l) /\ V(l) = v) PROVE vm[v].st = "cloning"
  <2>1. CASE vm'[v] = vm[v]
    BY <2>1
  <2>2. ASSUME Altered PROVE vm'[v] = vm[v]
    <3>1. PICK w \in Vmid, y \in VmSet \cup {NoVal} :
            vm' = [vm EXCEPT ![w] = y] /\ (y # NoVal => y.st \in {"stopped", "running"})
      BY <2>2 DEF Altered
    <3> QED
      BY <3>1 DEF Typed, NodeTyped, OwnVm, Exists
  <2>3. ASSUME NEW t \in Task, StartClone(t) PROVE vm'[v] = vm[v]
    <3>1. CASE V(t) = v
      BY <1>5, <2>3, <3>1 DEF StartClone, Present, OwnVm, Exists
    <3>2. CASE V(t) # v
      BY <2>3, <3>2 DEF StartClone, Typed, NodeTyped
    <3> QED
      BY <3>1, <3>2
  <2>4. ASSUME NEW t \in Task, WaitClone(t), vm'[v] # vm[v] PROVE vm[v].st = "cloning"
    <3>1. V(t) \in Vmid /\ vm[V(t)] # NoVal /\ vm[V(t)].st = "cloning"
      BY <2>4 DEF WaitClone, Typed, ClonesThere, ProvisionsTyped, OwnObj, Reserved, Built, V
    <3> QED
      BY <2>4, <3>1 DEF WaitClone, Typed, NodeTyped
  <2>5. ASSUME NEW w \in Vmid, FinishClone(w), vm'[v] # vm[v] PROVE vm[v].st = "cloning"
    BY <2>5 DEF FinishClone, Typed, NodeTyped
  <2> QED
    BY <2>1, <2>2, <2>3, <2>4, <2>5, NodeChanges DEF Typed
<1> QED
  BY <1>3, <1>4, <1>5, OwnComes

LEMMA TornDownStep == Typed /\ GoneInv /\ [Next]_vars => TornDown'
<1> SUFFICES ASSUME Typed, GoneInv, [Next]_vars, NEW l \in Task, pc'[l] \in {"release", "fail"}
             PROVE  Absent(l)' \/ faults'.kinds \cap {"call", "destroy", "late", "misread"} # {}
  BY DEF TornDown
<1> USE Actors
<1>1. faults.kinds \subseteq faults'.kinds /\ ~CrashProvision(l)
  BY KindsGrow, OtherMoves DEF Typed, PcTyped
<1>2. ASSUME obj[l] # NoVal PROVE V(l) \in Vmid
  BY <1>2 DEF Typed, ProvisionsTyped, OwnObj, V
<1>3. CASE Teardown(l)
  <2>1. obj' = obj
    BY <1>3 DEF Teardown
  <2>2. ASSUME obj[l] # NoVal, NEW v \in Vmid, v = V(l), OwnVm(l, v)'
        PROVE  (\E k \in {"destroy", "misread"} : Fault(k)) \/ faults.kinds \cap {"call", "late"} # {}
    <3>1. vm' # [vm EXCEPT ![v] = NoVal]
      BY <2>2 DEF OwnVm, Exists, Typed, NodeTyped
    <3>2. ASSUME vm' = vm PROVE OwnVm(l, v)
      BY <2>2, <3>2 DEF OwnVm, Exists
    <3>3. vm' = vm /\ Exists(v) /\ ~TeardownCan(v) => faults.kinds \cap {"call", "late"} # {}
      <4> SUFFICES ASSUME vm' = vm, Exists(v), ~TeardownCan(v) PROVE faults.kinds \cap {"call", "late"} # {}
        OBVIOUS
      <4>1. OwnVm(l, v) /\ vm[v].by = l /\ vm[v].st \in {"cloning", "locked"}
        BY <3>2 DEF TeardownCan, Destroyable, Present, Exists, OwnVm
      <4>2. vm[v].st = "cloning"
        BY <4>1, Actors DEF GoneInv, LockedIsStray, OwnVm, Exists
      <4>3. pc[l] = "teardown"
        BY <1>3 DEF Teardown
      <4> QED
        BY <4>1, <4>2, <4>3 DEF GoneInv, ClonesAreKnown
    <3>4. ~(vm' = vm /\ ~Exists(v))
      BY <3>2 DEF OwnVm
    <3> QED
      BY <1>3, <2>2, <3>1, <3>3, <3>4 DEF Teardown, Destroy
  <2>3. \A k : Fault(k) => k \in faults'.kinds
    BY DEF Fault
  <2>4. ASSUME obj[l] # NoVal, NEW v \in Vmid, v = V(l), ~OwnVm(l, v)' PROVE Absent(l)'
    BY <2>1, <2>4 DEF Absent, V, OwnVm, Exists
  <2>5. obj[l] = NoVal => Absent(l)'
    BY <2>1 DEF Absent
  <2> QED
    BY <1>1, <1>2, <2>2, <2>3, <2>4, <2>5
<1>4. CASE pc[l] \in {"release", "fail"} /\ obj'[l] = obj[l]
  <2>1. Absent(l) \/ faults.kinds \cap {"call", "destroy", "late", "misread"} # {}
    BY <1>4 DEF GoneInv, TornDown
  <2>2. ASSUME Absent(l), obj[l] # NoVal PROVE Absent(l)'
    <3>1. PICK v \in Vmid : v = V(l)
      BY <1>2, <2>2
    <3>2. ~OwnVm(l, v)'
      BY <1>4, <2>2, <3>1, OwnComes DEF Absent, StartClone
    <3> QED
      BY <1>4, <3>1, <3>2 DEF Absent, V, OwnVm, Exists
  <2>3. obj[l] = NoVal => Absent(l)'
    BY <1>4 DEF Absent
  <2> QED
    BY <1>1, <2>1, <2>2, <2>3
<1>5. ReleaseAfterError(l) => pc[l] = "release" /\ obj' = obj
  BY DEF ReleaseAfterError
<1> QED
  BY <1>1, <1>3, <1>4, <1>5, Onwards, Still DEF Typed

LEMMA DestroyedHasNoRowStep == Typed /\ GoneInv /\ [Next]_vars => DestroyedHasNoRow'
<1> SUFFICES ASSUME Typed, GoneInv, [Next]_vars, NEW l \in Task, status'[l] = "destroyed"
             PROVE  LabRows(l)' = {} /\ Ended(l)'
  BY DEF DestroyedHasNoRow
<1>1. LabRows(l) = {} /\ Ended(l)
  <2>1. CASE status'[l] = status[l]
    BY <2>1 DEF GoneInv, DestroyedHasNoRow
  <2>2. ASSUME NEW o \in Op, MarkDestroyed(o), was[o].lab = l PROVE LabRows(l) = {} /\ Ended(l)
    <3>1. pc[o] = "destroyed" /\ was[o] # NoVal
      BY <2>2, NoRecordAssumption DEF MarkDestroyed, Typed, OpsTyped
    <3>2. was[o].kind = "deprovision"
      BY <3>1 DEF GoneInv, KeptInv, OwnedInv, OpsOfLab, Deprovisioning
    <3> QED
      BY <2>2, <3>1, <3>2 DEF GoneInv, DeprovisionsKnow, KeptInv, DeprovisionsAfter
  <2> QED
    BY <2>1, <2>2, StatusOf
<1> QED
  BY <1>1, EndedGetNothing

LEMMA RowlessStep == Typed /\ GoneInv /\ IdleHaveNothing /\ [Next]_vars => RowlessAreAbsent'
<1> SUFFICES ASSUME Typed, GoneInv, IdleHaveNothing, [Next]_vars, NEW l \in Task, Ended(l)', LabRows(l)' = {}
             PROVE  Absent(l)' \/ status'[l] = "error" \/ Excused(l)'
  BY DEF RowlessAreAbsent
<1> USE Actors
<1>1. ASSUME Ended(l) PROVE Absent(l)' \/ status'[l] = "error" \/ Excused(l)'
  <2>1. Absent(l) \/ Excused(l) => Absent(l)' \/ Excused(l)'
    BY <1>1, AbsentStays, ExcusedStays
  <2>2. CASE LabRows(l) = {}
    <3>1. Absent(l) \/ status[l] = "error" \/ Excused(l)
      BY <1>1, <2>2 DEF GoneInv, RowlessAreAbsent
    <3>2. ASSUME status[l] = "error", status'[l] # status[l] PROVE Absent(l) \/ Excused(l)
      <4>1. ~CreateLab(l) /\ ~Record(l) /\ ~MarkError(l)
        BY <1>1 DEF Ended, CreateLab, Record, MarkError
      <4>2. \A o \in Op : obj[o].id \in Rows => obj[o].id[1] # l
        BY <2>2 DEF LabRows
      <4>3. ASSUME NEW o \in Op, MarkDestroyed(o), was[o].lab = l PROVE Absent(l) \/ Excused(l)
        <5>1. pc[o] = "destroyed" /\ was[o] # NoVal
          BY <4>3, NoRecordAssumption DEF MarkDestroyed, Typed, OpsTyped
        <5>2. was[o].kind = "deprovision"
          BY <5>1 DEF GoneInv, KeptInv, OwnedInv, OpsOfLab, Deprovisioning
        <5> QED
          BY <4>3, <5>1, <5>2 DEF GoneInv, DeprovisionsKnow
      <4>4. \A s \in Sweep : StaleMark(s) /\ obj[s].id[1] = l => status'[l] = "error"
        BY DEF StaleMark, Typed, DbTyped
      <4> QED
        BY <3>2, <4>1, <4>2, <4>3, <4>4, StatusOf
    <3> QED
      BY <2>1, <3>1, <3>2
  <2>3. ASSUME NEW id \in LabRows(l) PROVE Absent(l) \/ Excused(l)
    <3>1. id \in Rows /\ id[1] = l /\ row'[id] = NoVal
      BY <2>3 DEF LabRows, Rows
    <3>2. ~DropReservation(l) /\ ~ReleaseAfterError(l)
      BY <1>1 DEF Ended, DropReservation, ReleaseAfterError
    <3>3. ASSUME NEW o \in Op, ReleaseBox(o), obj[o].id = id PROVE Absent(l) \/ Excused(l)
      <4>1. pc[o] \in {"release", "release_partial"}
        BY <3>3 DEF ReleaseBox
      <4>2. was[o] # NoVal /\ was[o].lab = l /\ was[o].kind = "deprovision"
        BY <3>1, <3>3, <4>1, NoRecordAssumption
           DEF GoneInv, KeptInv, OwnedInv, OpsOfLab, Deprovisioning, Typed, OpsTyped
      <4> QED
        BY <4>1, <4>2 DEF GoneInv, DeprovisionsKnow, Excused
    <3>4. ASSUME NEW s \in Sweep, StaleRelease(s), id \in todo[s], OldLab(s, id) PROVE Absent(l)
      <4>1. VmGone(l)
        BY <3>1, <3>4 DEF StaleRelease, GoneInv, StaleAreDead
      <4> QED
        BY <4>1 DEF VmGone, Absent
    <3> QED
      BY <3>1, <3>2, <3>3, <3>4, WhoDeletes
  <2> QED
    BY <2>1, <2>2, <2>3
<1>2. ASSUME ~Ended(l) PROVE Absent(l)' \/ status'[l] = "error" \/ Excused(l)'
  <2>1. CASE FindBox(l) \/ Admit(l) \/ CreateLab(l)
    <3>1. obj[l] = NoVal /\ obj' = obj
      BY <2>1 DEF FindBox, Admit, CreateLab, GoneInv, KeptInv, OwnedInv, NothingBefore, Before
    <3> QED
      BY <3>1 DEF Absent
  <2>2. ASSUME Record(l), pc'[l] = "done" PROVE FALSE
    <3>1. ~Goto(l, "teardown")
      BY <2>2 DEF Goto, Typed, PcTyped
    <3>2. obj[l].id \in Rows /\ row' = row
      BY <2>2, <3>1 DEF Record, CanRecord
    <3>3. obj[l].id[1] = l
      BY <2>2 DEF Record, Typed, ProvisionsTyped, OwnObj, Reserved, Built
    <3> QED
      BY <3>2, <3>3 DEF LabRows, Rows
  <2>3. CASE MarkError(l)
    <3>1. CASE status' = [status EXCEPT ![l] = "error"]
      BY <3>1 DEF Typed, DbTyped
    <3>2. CASE Fault("database")
      <4>1. pc[l] = "fail" /\ UNCHANGED <<obj, vm>> /\ "database" \in faults'.kinds
        BY <2>3, <3>2 DEF MarkError, Fault
      <4>2. Absent(l) \/ faults'.kinds \cap {"call", "destroy", "late", "misread"} # {}
        BY <4>1, KindsGrow DEF GoneInv, TornDown
      <4> QED
        BY <4>1, <4>2 DEF Absent, V, OwnVm, Exists, Excused
    <3> QED
      BY <2>3, <3>1, <3>2 DEF MarkError
  <2>6. ASSUME ReleaseAfterError(l), pc'[l] = "done" PROVE Absent(l)'
    <3>1. ~Goto(l, "fail")
      BY <2>6 DEF Goto, Typed, PcTyped
    <3>2. pc[l] = "release" /\ UNCHANGED <<row, obj, vm>>
      BY <2>6, <3>1 DEF ReleaseAfterError
    <3>3. ASSUME obj[l] # NoVal PROVE FALSE
      <4>1. obj[l].id \in Rows /\ obj[l].id[1] = l
        BY <3>2, <3>3 DEF GoneInv, KeptInv, HasRow, Typed, ProvisionsTyped, OwnObj
      <4> QED
        BY <3>2, <4>1 DEF LabRows, Rows
    <3> QED
      BY <3>2, <3>3 DEF Absent
  <2>4. CASE CrashProvision(l)
    <3>1. UNCHANGED <<obj, row, vm>> /\ faults.kinds \subseteq faults'.kinds /\ pc'[l] = "crashed"
      BY <2>4, KindsGrow, OtherMoves DEF CrashProvision, db, Typed, PcTyped
    <3>2. ASSUME obj[l] # NoVal, OwnVm(l, V(l)) PROVE Excused(l)'
      <4>1. obj[l].id[1] = l /\ obj[l].id \notin Rows
        BY <3>1, <3>2 DEF Typed, ProvisionsTyped, OwnObj, LabRows, Rows
      <4>2. pc[l] = "fail"
        BY <1>2, <3>2, <4>1 DEF GoneInv, KeptInv, HasRow, Ended
      <4>3. faults.kinds \cap {"call", "destroy", "late", "misread"} # {}
        BY <3>2, <4>2 DEF GoneInv, TornDown, Absent
      <4> QED
        BY <3>1, <4>3 DEF Excused
    <3> QED
      BY <3>1, <3>2 DEF Absent, V, OwnVm, Exists
  <2>5. pc'[l] # pc[l] /\ pc'[l] \in {"done", "crashed"}
    BY <1>2 DEF Ended
  <2> QED
    BY <2>1, <2>2, <2>3, <2>4, <2>5, <2>6, Onwards, Still DEF Typed
<1> QED
  BY <1>1, <1>2

LEMMA GoneInit == Init => GoneInv
<1> SUFFICES ASSUME Init PROVE GoneInv
  OBVIOUS
<1>1. RowGone /\ StaleAreDead
  BY ResidueInit DEF ResidueInv
<1>2. LockedIsStray
  BY DEF Init, LockedIsStray, NewVm
<1>3. ClonesAreKnown
  <2>1. \A t \in Task, v \in Vmid : ~OwnVm(t, v)
    BY Actors DEF Init, OwnVm, Exists, NewVm
  <2> QED
    BY <2>1 DEF ClonesAreKnown
<1>4. DeprovisionsKnow /\ DestroyedHasNoRow /\ TornDown /\ RowlessAreAbsent
  BY Actors DEF Init, DeprovisionsKnow, DestroyedHasNoRow, TornDown, RowlessAreAbsent, Ended
<1> QED
  BY <1>1, <1>2, <1>3, <1>4, KeptInit DEF GoneInv

LEMMA GoneStep ==
  Typed /\ GoneInv /\ IdleHaveNothing /\ Orderly' /\ [Next]_vars => GoneInv'
<1> SUFFICES ASSUME Typed, GoneInv, IdleHaveNothing, Orderly', [Next]_vars PROVE GoneInv'
  OBVIOUS
<1>1. KeptInv' /\ DeprovisionsKnow'
  BY KeptStep, DeprovisionsKnowStep DEF GoneInv
<1>2. StaleAreDead' /\ LockedIsStray' /\ RowGone' /\ ClonesAreKnown'
  BY StaleAreDeadStep, LockedStep, RowGoneStep, ClonesAreKnownStep DEF GoneInv, KeptInv
<1> QED
  BY <1>1, <1>2, DestroyedHasNoRowStep, TornDownStep, RowlessStep DEF GoneInv

\* DESTROYED means gone (StudentBox's DestroyedMeansGone; tasks.py:1336-1339): a lab with
\* that status has no row and no VM under its vmid, for any number of deprovisions that
\* were repeated, interrupted or failed half way.  It says nothing of a lab that was
\* deprovisioned after it had ended in error; of one whose worker died, or whose error
\* path could not write, after a call, a clone or a destroy had failed; nor of any lab
\* once an error answer was read as absence, a lab was deprovisioned during its
\* provision, or a task outlived the reaper's grace.  What a deprovision knows of the VM
\* stays true because the lab's provision has ended and nobody else clones for it; one
\* that finds no row relies on who deleted it (RowlessAreAbsent).
THEOREM DestroyedIsGone == Spec => []DestroyedMeansGone
<1> DEFINE J == IdleHaveNothing /\ (Orderly => GoneInv)
<1>1. ASSUME Typed, J PROVE DestroyedMeansGone
  <2> SUFFICES ASSUME NoneHasty, faults.kinds \cap {"misread", "slow"} = {},
                      NEW l \in Task, status[l] = "destroyed", ~Excused(l)
               PROVE  LabRows(l) = {} /\ Absent(l)
    BY DEF DestroyedMeansGone, Excused, Absent
  <2>1. GoneInv
    BY <1>1 DEF Orderly
  <2>2. LabRows(l) = {} /\ Ended(l)
    BY <2>1 DEF GoneInv, DestroyedHasNoRow
  <2> QED
    BY <2>1, <2>2 DEF GoneInv, RowlessAreAbsent
<1>2. Typed /\ J /\ [Next]_vars => J'
  <2> SUFFICES ASSUME Typed, J, [Next]_vars PROVE J'
    OBVIOUS
  <2>1. IdleHaveNothing'
    BY IdleStep
  <2>2. ASSUME Orderly' PROVE GoneInv'
    BY <2>2, OrderlyBefore, GoneStep
  <2> QED
    BY <2>1, <2>2
<1>3. Init => J
  BY GoneInit, Actors DEF Init, IdleHaveNothing
<1> HIDE DEF J
<1> QED
  BY <1>1, <1>2, <1>3, TypedInit, TypedStep, PTL DEF Spec

-----------------------------------------------------------------------------
(* Boxes are whole *)

\* Where a row is kept it is as it was, but for the bind of its provision.
LEMMA RowIsKept ==
  ASSUME Typed, OwnedInv, [Next]_vars, NEW id \in Rows, row'[id] # NoVal
  PROVE  row'[id] = row[id] \/ \E t \in Task : t = id[1] /\ Bind(t)
<1> USE Actors DEF Typed, DbTyped
<1>1. id \in RowId /\ row[id] # NoVal /\ id[1] \in Task
  BY DEF Rows, RowId
<1>2. ASSUME NEW t \in Task, Reserve(t) PROVE row'[id] = row[id]
  <2>1. pc[t] = "reserve" /\ (row' = row \/ \E x : row' = [row EXCEPT ![<<t, att[t]>>] = x])
    BY <1>2 DEF Reserve
  <2>2. obj[t] = NoVal
    BY <2>1 DEF OwnedInv, NothingBefore
  <2>3. id[1] # t
    BY <2>2 DEF OwnedInv, RowsOfObj
  <2> QED
    BY <1>1, <2>1, <2>3
<1>3. ASSUME NEW t \in Task, Bind(t), id[1] # t PROVE row'[id] = row[id]
  <2>1. obj[t].id[1] = t
    BY <1>3 DEF Bind, ProvisionsTyped, OwnObj, Reserved
  <2>2. row' = row \/ row' = [row EXCEPT ![obj[t].id].ip = hand[t]]
    BY <1>3 DEF Bind
  <2> QED
    BY <1>1, <1>3, <2>1, <2>2
<1>4. ASSUME NEW k, DeleteRow(k) PROVE row'[id] = row[id]
  BY <1>1, <1>4 DEF DeleteRow
<1>5. \A t \in Task : LeaseIp(t) => row' = row
  BY DEF LeaseIp
<1>6. \A s \in Sweep : Unlease(s) \/ LeaseRelease(s) => row' = row
  BY DEF Unlease, LeaseRelease
<1> QED
  BY <1>1, <1>2, <1>3, <1>4, <1>5, <1>6, RowChanges

\* While no lab is deprovisioned twice, what a deprovision is about to destroy is still
\* reserved for its lab.
DeprovisionsHold == \A o \in Op : pc[o] = "deprovision" => obj[o].id \in Rows

LEMMA DeprovisionsHoldStep ==
  ASSUME Sweep = {}
  PROVE  Typed /\ GoneInv /\ DeprovisionsHold /\ DeprovisionedOnce' /\ [Next]_vars => DeprovisionsHold'
<1> SUFFICES ASSUME Typed, GoneInv, DeprovisionsHold, DeprovisionedOnce', [Next]_vars,
                    NEW o \in Op, pc'[o] = "deprovision"
             PROVE  obj'[o].id \in RowId /\ row'[obj'[o].id] # NoVal
  BY DEF DeprovisionsHold, Rows
<1> USE Actors
<1>1. ASSUME NEW x, Goto(o, x) PROVE pc'[o] = x
  BY <1>1 DEF Goto, Typed, PcTyped
<1>2. ASSUME NEW kind \in OpKinds, NEW l \in Task, Begin(o, kind, l)
      PROVE  obj'[o].id \in RowId /\ row'[obj'[o].id] # NoVal
  <2>1. PICK id \in LabRows(l) : obj' = [obj EXCEPT ![o] = [id |-> id, vmid |-> row[id].vmid]]
    BY <1>1, <1>2 DEF Begin
  <2>2. obj'[o].id = id /\ row' = row
    BY <1>2, <2>1 DEF Begin, db, Typed, ObjTyped
  <2> QED
    BY <2>1, <2>2 DEF LabRows, Rows
<1>3. CASE pc[o] = "deprovision" /\ obj'[o] = obj[o] /\ was'[o] = was[o]
  <2> DEFINE id == obj[o].id
  <2>1. id \in Rows
    BY <1>3 DEF DeprovisionsHold
  <2>2. was[o] # NoVal /\ was[o].kind = "deprovision" /\ was[o].lab = id[1] /\ id[1] \in Task
    BY <1>3, <2>1, NoRecordAssumption
       DEF GoneInv, KeptInv, OwnedInv, OpsOfLab, Deprovisioning, Typed, OpsTyped, Rows, RowId
  <2>3. Ended(id[1])
    BY <2>2 DEF GoneInv, KeptInv, DeprovisionsAfter
  <2>4. ASSUME row'[id] = NoVal, NEW q \in Op, ReleaseBox(q), obj[q].id = id PROVE FALSE
    <3>1. pc[q] \in {"release", "release_partial"}
      BY <2>4 DEF ReleaseBox
    <3>2. was[q] # NoVal /\ was[q].kind = "deprovision" /\ was[q].lab = id[1]
      BY <2>4, <3>1, NoRecordAssumption DEF GoneInv, KeptInv, OwnedInv, OpsOfLab, Deprovisioning, Typed, OpsTyped
    <3>3. was'[q] = was[q]
      BY <2>4 DEF ReleaseBox
    <3>4. o = q
      BY <1>3, <2>2, <3>2, <3>3 DEF DeprovisionedOnce, Deprovisions
    <3> QED
      BY <1>3, <3>1, <3>4
  <2>5. \A t \in Task : t = id[1] => ~DropReservation(t) /\ ~ReleaseAfterError(t)
    BY <2>3 DEF Ended, DropReservation, ReleaseAfterError
  <2>6. row'[id] # NoVal
    BY <2>1, <2>4, <2>5, WhoDeletes
  <2> QED
    BY <1>3, <2>1, <2>6 DEF Rows
<1>4. (OpStep(o) \/ CrashOp(o)) => FALSE
  BY <1>1 DEF OpStep, StartBox, RecordStarted, StopBox, RecordStopped, RecordStatus, DestroyBox, ReleaseBox,
         MarkDestroyed, CrashOp
<1> QED
  BY <1>2, <1>3, <1>4, Calls

\* When it is up, the VM has the address it is set to.
Seen(v) == Running(v) => vm[v].guest = vm[v].ip

\* A usable VM under the vmid of its own lab's row is nobody else's: power tasks may
\* turn it on and off, and no more, until the lab is deprovisioned.
LEMMA BoxLeftAlone ==
  ASSUME Sweep = {}, Typed, GoneInv, DeprovisionsHold, [Next]_vars,
         NEW l \in Task, NEW id \in Rows, id[1] = l, NEW v \in Vmid, v = row[id].vmid,
         OwnVm(l, v), Usable(v), Deprovisions(l) = {}, ~ProvisionStep(l)
  PROVE  OwnVm(l, v)' /\ Usable(v)' /\ vm'[v].ip = vm[v].ip /\ (Seen(v) => Seen(v)')
<1> USE Actors DEF Typed, NodeTyped
<1>1. CASE vm'[v] = vm[v]
  BY <1>1 DEF OwnVm, Usable, Exists, Seen, Running
<1>2. ASSUME NEW u \in Task, ProvisionStep(u) PROVE vm'[v] = vm[v]
  <2>1. ASSUME vm'[v] # vm[v] PROVE FALSE
    <3>1. obj[u].id \in Rows /\ obj[u].id[1] = u /\ row[obj[u].id].vmid = v
      BY <1>2, <2>1, ProvisionAlters DEF GoneInv
    <3>2. obj[u].id # id
      BY <1>2, <3>1
    <3> QED
      BY <3>1, <3>2 DEF GoneInv, KeptInv, OwnedInv, VmidsDistinct
  <2> QED
    BY <2>1
<1>3. ASSUME Boot(v) \/ PowerOff(v)
      PROVE  OwnVm(l, v)' /\ Usable(v)' /\ vm'[v].ip = vm[v].ip /\ (Seen(v) => Seen(v)')
  <2>1. vm[v] \in VmSet /\ vm[v] # NoVal
    BY DEF OwnVm, Exists
  <2>2. CASE vm' = vm
    BY <1>1, <2>2
  <2>3. CASE vm' = [vm EXCEPT ![v].st = "running", ![v].guest = vm[v].ip]
    <3> DEFINE y == [vm[v] EXCEPT !.st = "running", !.guest = vm[v].ip]
    <3>1. y \in VmSet /\ y.by = vm[v].by /\ y.st = "running" /\ y.guest = vm[v].ip /\ y.ip = vm[v].ip
      BY <2>1 DEF VmSet
    <3>2. vm'[v] = y
      BY <2>3
    <3> HIDE DEF y
    <3> QED
      BY <3>1, <3>2, NullAssumption DEF OwnVm, Usable, Exists, Seen, Running
  <2>4. CASE PowerOff(v)
    <3> DEFINE y == [vm[v] EXCEPT !.st = "stopped", !.guest = NoVal]
    <3>1. y \in VmSet /\ y.by = vm[v].by /\ y.st = "stopped" /\ y.ip = vm[v].ip
      BY <2>1 DEF VmSet
    <3>2. vm'[v] = y
      BY <2>4 DEF PowerOff
    <3> HIDE DEF y
    <3> QED
      BY <3>1, <3>2, NullAssumption DEF OwnVm, Usable, Exists, Seen, Running
  <2> QED
    BY <1>3, <2>2, <2>3, <2>4 DEF Boot
<1>4. ASSUME NEW o \in Op, OpStep(o) PROVE vm'[v] = vm[v] \/ Boot(v) \/ PowerOff(v)
  <2>1. CASE StartBox(o)
    <3>1. vm' = vm \/ Boot(Target(o))
      BY <2>1 DEF StartBox
    <3>2. Target(o) # v /\ Boot(Target(o)) => vm'[v] = vm[v]
      BY DEF Boot
    <3> QED
      BY <3>1, <3>2
  <2>2. CASE StopBox(o)
    <3>1. vm' = vm \/ PowerOff(Target(o))
      BY <2>2 DEF StopBox
    <3>2. Target(o) # v /\ PowerOff(Target(o)) => vm'[v] = vm[v]
      BY DEF PowerOff
    <3> QED
      BY <3>1, <3>2
  <2>3. CASE DestroyBox(o)
    <3>1. pc[o] = "deprovision" /\ obj[o].id \in Rows
      BY <2>3 DEF DestroyBox, DeprovisionsHold
    <3>2. was[o] # NoVal /\ was[o].kind = "deprovision" /\ was[o].lab = obj[o].id[1] /\ was[o].lab \in Task
      BY <3>1, NoRecordAssumption DEF GoneInv, KeptInv, OwnedInv, OpsOfLab, Deprovisioning, OpsTyped, WasSet
    <3>3. obj[o].id[1] # l
      BY <3>2 DEF Deprovisions
    <3>4. obj[o] = obj[was[o].lab]
      BY <3>1, <3>2 DEF GoneInv, DeprovisionsKnow
    <3>5. obj[o].vmid = row[obj[o].id].vmid
      BY <3>1, <3>2, <3>4 DEF GoneInv, KeptInv, OwnedInv, RowsOfObj
    <3>6. Target(o) # v
      BY <3>1, <3>3, <3>5 DEF Target, GoneInv, KeptInv, OwnedInv, VmidsDistinct
    <3>7. vm' = vm \/ Destroy(Target(o)) \/ PowerOff(Target(o))
      BY <2>3 DEF DestroyBox, Kill
    <3> QED
      BY <3>6, <3>7 DEF Destroy, PowerOff
  <2> QED
    BY <1>4, <2>1, <2>2, <2>3 DEF OpStep, RecordStarted, RecordStopped, RecordStatus, ReleaseBox, MarkDestroyed
<1>5. ASSUME NEW w \in Vmid, FinishClone(w) PROVE vm'[v] = vm[v]
  BY <1>5 DEF FinishClone, Usable
<1> QED
  BY <1>1, <1>2, <1>3, <1>4, <1>5 DEF Next, vars, CrashProvision, CrashOp, OnlyCalls, Begin, AgeLab, AgeVm

\* What a provision has built: the address it leased is on its row; the VM under its
\* vmid is its own, then set to that address, then seen with it.
BuiltWell ==
  \A t \in Task :
    /\ pc[t] \in Built => row[obj[t].id].ip = hand[t]
    /\ pc[t] \in Configuring => OwnVm(t, V(t)) /\ Usable(V(t))
    /\ pc[t] \in Configuring \ {"configure"} => vm[V(t)].ip = hand[t]
    /\ pc[t] = "record" => Seen(V(t))

LEMMA BuiltRowStep ==
  Typed /\ KeptInv /\ BuiltWell /\ [Next]_vars => \A t \in Task : pc'[t] \in Built => row'[obj'[t].id].ip = hand'[t]
<1> SUFFICES ASSUME Typed, KeptInv, BuiltWell, [Next]_vars, NEW t \in Task, pc'[t] \in Built
             PROVE  row'[obj'[t].id].ip = hand'[t]
  OBVIOUS
<1> USE Actors
<1>1. ASSUME NEW x, Goto(t, x) PROVE pc'[t] = x
  BY <1>1 DEF Goto, Typed, PcTyped
<1>2. CASE Bind(t)
  <2>1. obj' = obj /\ hand' = hand /\ ~Goto(t, "teardown")
    BY <1>1, <1>2 DEF Bind, Built
  <2>2. obj[t].id \in Rows /\ row' = [row EXCEPT ![obj[t].id].ip = hand[t]] /\ hand[t] \in Ip
    BY <1>2, <2>1 DEF Bind, Typed, ProvisionsTyped
  <2>3. row[obj[t].id] \in RowSet
    BY <2>2 DEF Rows, Typed, DbTyped
  <2>4. row'[obj[t].id] = [row[obj[t].id] EXCEPT !.ip = hand[t]]
    BY <2>2 DEF Rows, Typed, DbTyped
  <2> QED
    BY <2>1, <2>3, <2>4 DEF RowSet
<1>3. CASE pc[t] \in Built /\ obj'[t] = obj[t] /\ hand'[t] = hand[t] /\ ~ReleaseAfterError(t) /\ ~DropReservation(t)
           /\ ~Bind(t)
  <2>1. obj[t] # NoVal /\ obj[t].id[1] = t
    BY <1>3 DEF KeptInv, OwnedInv, ObjReserved, Reserved, Typed, ProvisionsTyped, OwnObj
  <2>2. obj[t].id \in Rows
    BY <1>3, <2>1 DEF KeptInv, HasRow, Built
  <2>3. row'[obj[t].id] # NoVal
    BY <1>3, <2>1, <2>2, RowKept DEF KeptInv, Built, Ended
  <2>4. row'[obj[t].id] = row[obj[t].id]
    BY <1>3, <2>1, <2>2, <2>3, RowIsKept DEF KeptInv
  <2> QED
    BY <1>3, <2>4 DEF BuiltWell
<1>4. ~Reserve(t) /\ ~LeaseIp(t) /\ ~DropReservation(t) /\ ~ReleaseAfterError(t) /\ ~CrashProvision(t)
  BY <1>1 DEF Reserve, LeaseIp, DropReservation, ReleaseAfterError, CrashProvision, Built
<1>5. CASE ProvisionStep(t) /\ ~Bind(t)
  <2>1. UNCHANGED <<obj, hand>> /\ pc[t] \in Built \cup {"bind"}
    BY <1>4, <1>5, ProvisionLocals DEF Typed, PcTyped
  <2>2. pc[t] # "bind"
    BY <1>5 DEF ProvisionStep, FindBox, PickNumber, SaveNumber, Admit, CreateLab, Reserve, LeaseIp,
           CheckVmid, ReapBeforeClone, StartClone, WaitClone, CloneFailed, ReapFailedClone,
           DropReservation, Configure, BootBox, ConfirmIp, Record, Teardown, ReleaseAfterError, MarkError
  <2> QED
    BY <1>3, <1>4, <1>5, <2>1, <2>2
<1>6. CASE pc'[t] = pc[t] /\ obj'[t] = obj[t] /\ hand'[t] = hand[t] /\ ~ProvisionStep(t)
  BY <1>3, <1>4, <1>6 DEF ProvisionStep
<1>7. Bind(t) => ProvisionStep(t)
  BY DEF ProvisionStep
<1> QED
  BY <1>2, <1>4, <1>5, <1>6, Still DEF Typed

LEMMA BuiltBoxStep ==
  ASSUME Sweep = {}
  PROVE  Typed /\ GoneInv /\ DeprovisionsHold /\ BuiltWell /\ [Next]_vars => BuiltWell'
<1> SUFFICES ASSUME Typed, GoneInv, DeprovisionsHold, BuiltWell, [Next]_vars PROVE BuiltWell'
  OBVIOUS
<1>0. \A t \in Task : pc'[t] \in Built => row'[obj'[t].id].ip = hand'[t]
  BY BuiltRowStep DEF GoneInv
<1> SUFFICES ASSUME NEW t \in Task, pc'[t] \in Configuring
             PROVE  /\ OwnVm(t, V(t))' /\ Usable(V(t))'
                    /\ pc'[t] # "configure" => (vm[V(t)].ip = hand[t])'
                    /\ pc'[t] = "record" => Seen(V(t))'
  BY <1>0 DEF BuiltWell, Configuring
<1> USE Actors
<1> DEFINE Good(v) == /\ OwnVm(t, v)' /\ Usable(v)'
                      /\ pc'[t] # "configure" => vm'[v].ip = hand'[t]
                      /\ pc'[t] = "record" => Seen(v)'
<1>1. ASSUME NEW x, Goto(t, x) PROVE pc'[t] = x
  BY <1>1 DEF Goto, Typed, PcTyped
<1>2. SUFFICES \A v \in Vmid : obj[t] # NoVal /\ obj'[t] = obj[t] /\ v = V(t) => Good(v)
  <2>1. ~Reserve(t) /\ ~DropReservation(t) /\ ~CrashProvision(t) /\ ~LeaseIp(t)
    BY <1>1 DEF Reserve, DropReservation, CrashProvision, LeaseIp, Configuring
  <2>2. obj'[t] = obj[t] /\ pc[t] \in Reserved
    <3>1. ProvisionStep(t) => obj'[t] = obj[t] /\ pc[t] \in Reserved
      BY <2>1, ProvisionLocals DEF Typed, PcTyped, Configuring, Reserved, Built
    <3>2. pc'[t] = pc[t] => pc[t] \in Reserved
      BY DEF Configuring, Reserved, Built
    <3> QED
      BY <2>1, <3>1, <3>2, Still DEF Typed
  <2>3. obj[t] # NoVal /\ V(t) \in Vmid
    BY <2>2 DEF GoneInv, KeptInv, OwnedInv, ObjReserved, Typed, ProvisionsTyped, OwnObj, V
  <2>4. PICK v \in Vmid : v = V(t) /\ Good(v)
    BY <1>2, <2>2, <2>3
  <2>5. obj'[t].vmid = v
    BY <2>2, <2>4 DEF V
  <2> HIDE DEF Good
  <2>6. OwnVm(t, v)' /\ Usable(v)' /\ (pc'[t] # "configure" => vm'[v].ip = hand'[t])
        /\ (pc'[t] = "record" => Seen(v)')
    BY <2>4 DEF Good
  <2> QED
    BY <2>5, <2>6 DEF V, OwnVm, Usable, Exists, Seen, Running
<1> TAKE v \in Vmid
<1> HAVE obj[t] # NoVal /\ obj'[t] = obj[t] /\ v = V(t)
<1>3. CASE WaitClone(t)
  <2>1. vm' = [vm EXCEPT ![v].st = "stopped"] /\ pc'[t] = "configure"
    BY <1>1, <1>3 DEF WaitClone, Configuring
  <2>2. vm[v] \in VmSet /\ vm[v].by = t
    BY <1>3 DEF WaitClone, Typed, ClonesThere, NodeTyped, V
  <2> DEFINE y == [vm[v] EXCEPT !.st = "stopped"]
  <2>3. y \in VmSet /\ y.by = t /\ y.st = "stopped" /\ vm'[v] = y
    BY <2>1, <2>2 DEF VmSet, Typed, NodeTyped
  <2> HIDE DEF y
  <2> QED
    BY <2>1, <2>3, NullAssumption DEF OwnVm, Usable, Exists
<1>4. ASSUME pc[t] \in Configuring
      PROVE  /\ OwnVm(t, v) /\ Usable(v) /\ vm[v] \in VmSet
             /\ pc[t] # "configure" => vm[v].ip = hand[t]
             /\ pc[t] = "record" => Seen(v)
  BY <1>4 DEF BuiltWell, Configuring, Typed, NodeTyped, OwnVm, Exists
<1>5. CASE Configure(t)
  <2>1. vm' = [vm EXCEPT ![v].ip = hand[t]] /\ pc[t] = "configure" /\ pc'[t] = "boot" /\ hand' = hand
    BY <1>1, <1>5 DEF Configure, Configuring
  <2> DEFINE y == [vm[v] EXCEPT !.ip = hand[t]]
  <2>2. hand[t] \in Ip
    BY <2>1 DEF Typed, ProvisionsTyped, Built
  <2>3. y \in VmSet /\ y.by = vm[v].by /\ y.st = vm[v].st /\ y.ip = hand[t] /\ vm'[v] = y
    BY <1>4, <2>1, <2>2 DEF VmSet, Typed, NodeTyped, Configuring
  <2> HIDE DEF y
  <2> QED
    BY <1>4, <2>1, <2>3, NullAssumption DEF OwnVm, Usable, Exists, Configuring
<1>6. CASE BootBox(t)
  <2>1. Boot(v) /\ pc[t] = "boot" /\ pc'[t] = "confirm" /\ hand' = hand
    BY <1>1, <1>6 DEF BootBox, Configuring
  <2> DEFINE y == [vm[v] EXCEPT !.st = "running", !.guest = vm[v].ip]
  <2>2. y \in VmSet /\ y.by = vm[v].by /\ y.st = "running" /\ y.ip = vm[v].ip
    BY <1>4, <2>1 DEF VmSet, Configuring
  <2>3. vm'[v] = vm[v] \/ vm'[v] = y
    BY <2>1 DEF Boot, Typed, NodeTyped
  <2> HIDE DEF y
  <2> QED
    BY <1>4, <2>1, <2>2, <2>3, NullAssumption DEF OwnVm, Usable, Exists, Configuring
<1>7. CASE ConfirmIp(t)
  <2>1. GuestHas(v, hand[t]) /\ pc[t] = "confirm" /\ pc'[t] = "record" /\ UNCHANGED <<vm, hand>>
    BY <1>1, <1>7 DEF ConfirmIp, Configuring
  <2> QED
    BY <1>4, <2>1 DEF GuestHas, OwnVm, Usable, Exists, Seen, Running, Configuring
<1>8. CASE pc'[t] = pc[t] /\ hand'[t] = hand[t] /\ ~ProvisionStep(t)
  <2>1. obj[t].id \in Rows /\ obj[t].id[1] = t /\ row[obj[t].id].vmid = v
    BY <1>8 DEF Configuring, GoneInv, KeptInv, HasRow, OwnedInv, RowsOfObj, Typed, ProvisionsTyped, OwnObj, V
  <2>2. Deprovisions(t) = {}
    BY <1>8 DEF Configuring, Deprovisions, GoneInv, KeptInv, DeprovisionsAfter, Ended
  <2>3. OwnVm(t, v)' /\ Usable(v)' /\ vm'[v].ip = vm[v].ip /\ (Seen(v) => Seen(v)')
    BY <1>4, <1>8, <2>1, <2>2, BoxLeftAlone
  <2> QED
    BY <1>4, <1>8, <2>3
<1>9. CrashProvision(t) => FALSE
  BY OtherMoves DEF Typed, PcTyped, Configuring
<1> QED
  BY <1>3, <1>5, <1>6, <1>7, <1>8, <1>9, Onwards, Still DEF Typed, Configuring

\* The box under the row of an ended lab that nobody has begun to deprovision is whole,
\* and a lab recorded as running or stopped has its row.
WholeBox(l, id) ==
  /\ row[id].ip \in Ip /\ OwnVm(l, row[id].vmid) /\ Usable(row[id].vmid)
  /\ vm[row[id].vmid].ip = row[id].ip /\ Seen(row[id].vmid)
WholeBoxes ==
  \A l \in Task : pc[l] = "done" /\ Deprovisions(l) = {} =>
    /\ \A id \in LabRows(l) : WholeBox(l, id)
    /\ status[l] \in {"running", "stopped"} => LabRows(l) # {}

LEMMA WholeBoxesStep ==
  ASSUME Sweep = {}
  PROVE  /\ Typed /\ GoneInv /\ IdleHaveNothing /\ DeprovisionsHold /\ BuiltWell /\ WholeBoxes
         /\ "database" \notin faults'.kinds /\ [Next]_vars
         => WholeBoxes'
<1> SUFFICES ASSUME Typed, GoneInv, IdleHaveNothing, DeprovisionsHold, BuiltWell, WholeBoxes,
                    "database" \notin faults'.kinds, [Next]_vars,
                    NEW l \in Task, pc'[l] = "done", Deprovisions(l)' = {}
             PROVE  /\ \A id \in LabRows(l)' : WholeBox(l, id)'
                    /\ status'[l] \in {"running", "stopped"} => LabRows(l)' # {}
  BY DEF WholeBoxes
<1> USE Actors
<1>1. Deprovisions(l) = {}
  BY WasStays DEF Deprovisions
<1>2. CASE pc[l] = "done"
  <2>1. ~ProvisionStep(l)
    BY <1>2, EndedStays DEF Ended
  <2>2. ASSUME NEW id \in LabRows(l)' PROVE WholeBox(l, id)'
    <3>1. id \in LabRows(l) /\ row'[id] # NoVal
      BY <1>2, <2>2, NoRowComes DEF LabRows, Rows
    <3>2. id \in Rows /\ id[1] = l /\ row'[id] = row[id]
      BY <2>1, <3>1, RowIsKept DEF LabRows, GoneInv, KeptInv, ProvisionStep
    <3>3. WholeBox(l, id)
      BY <1>1, <1>2, <3>1 DEF WholeBoxes
    <3>4. row[id] \in RowSet
      BY <3>2 DEF Rows, Typed, DbTyped
    <3>5. PICK v \in Vmid : v = row[id].vmid
      BY <3>4 DEF RowSet
    <3>6. OwnVm(l, v) /\ Usable(v) /\ Seen(v) /\ vm[v].ip = row[id].ip
      BY <3>3, <3>5 DEF WholeBox
    <3>7. OwnVm(l, v)' /\ Usable(v)' /\ vm'[v].ip = vm[v].ip /\ Seen(v)'
      BY <1>1, <2>1, <3>2, <3>5, <3>6, BoxLeftAlone
    <3>8. row'[id].vmid = v /\ row'[id].ip \in Ip /\ vm'[v].ip = row'[id].ip
      BY <3>2, <3>3, <3>5, <3>6, <3>7 DEF WholeBox
    <3> QED
      BY <3>7, <3>8 DEF WholeBox, OwnVm, Usable, Exists, Seen, Running
  <2>3. ASSUME status'[l] \in {"running", "stopped"} PROVE LabRows(l)' # {}
    <3>1. ASSUME NEW o \in Op, RecordStarted(o) \/ RecordStopped(o), obj[o].id \in Rows, obj[o].id[1] = l
          PROVE  LabRows(l)' # {}
      <4>1. row' = row
        BY <3>1 DEF RecordStarted, RecordStopped, RecordStatus
      <4> QED
        BY <3>1, <4>1 DEF LabRows, Rows
    <3>2. CASE status'[l] # status[l]
      BY <1>2, <2>3, <3>1, <3>2, StatusOf DEF CreateLab, Record
    <3>3. CASE status'[l] = status[l]
      <4>1. PICK id \in LabRows(l) : TRUE
        BY <1>1, <1>2, <2>3, <3>3 DEF WholeBoxes
      <4>2. id \in Rows /\ id[1] = l
        BY DEF LabRows
      <4>3. ASSUME NEW o \in Op, ReleaseBox(o), obj[o].id = id PROVE FALSE
        <5>1. pc[o] \in {"release", "release_partial"}
          BY <4>3 DEF ReleaseBox
        <5>2. was[o] # NoVal /\ was[o].kind = "deprovision" /\ was[o].lab = l
          BY <4>2, <4>3, <5>1, NoRecordAssumption
             DEF GoneInv, KeptInv, OwnedInv, OpsOfLab, Deprovisioning, Typed, OpsTyped
        <5> QED
          BY <1>1, <5>2 DEF Deprovisions
      <4>4. ~DropReservation(l) /\ ~ReleaseAfterError(l)
        BY <1>2 DEF DropReservation, ReleaseAfterError
      <4>5. row'[id] # NoVal
        BY <4>2, <4>3, <4>4, WhoDeletes
      <4> QED
        BY <4>2, <4>5 DEF LabRows, Rows
    <3> QED
      BY <3>2, <3>3
  <2> QED
    BY <2>2, <2>3
<1>3. CASE FindBox(l) \/ Admit(l) \/ CreateLab(l)
  <2>1. obj[l] = NoVal /\ status[l] = "none" /\ row' = row
    BY <1>3 DEF FindBox, Admit, CreateLab, GoneInv, KeptInv, OwnedInv, NothingBefore, Before, db
  <2>2. LabRows(l) = {}
    BY <2>1 DEF LabRows, GoneInv, KeptInv, OwnedInv, RowsOfObj
  <2>3. ~Goto(l, "reserve") /\ ~Fault("database")
    BY DEF Goto, Typed, PcTyped, Fault
  <2>4. status' = status
    BY <1>3, <2>3 DEF FindBox, Admit, CreateLab, db
  <2> QED
    BY <2>1, <2>2, <2>4 DEF LabRows, Rows
<1>4. CASE Record(l)
  <2>1. ~Goto(l, "teardown")
    BY DEF Goto, Typed, PcTyped
  <2>2. pc[l] = "record" /\ obj[l].id \in Rows /\ UNCHANGED <<row, vm>>
    BY <1>4, <2>1 DEF Record, CanRecord
  <2>3. /\ OwnVm(l, V(l)) /\ Usable(V(l)) /\ vm[V(l)].ip = hand[l] /\ Seen(V(l))
        /\ row[obj[l].id].ip = hand[l] /\ hand[l] \in Ip /\ obj[l].id[1] = l
    BY <2>2 DEF BuiltWell, Configuring, Built, Reserved, Typed, ProvisionsTyped, OwnObj
  <2>4. ASSUME NEW id \in LabRows(l) PROVE WholeBox(l, id)
    <3>1. id = obj[l].id /\ row[id].vmid = V(l)
      BY DEF GoneInv, KeptInv, OwnedInv, RowsOfObj, LabRows, V
    <3> QED
      BY <2>3, <3>1 DEF WholeBox
  <2>5. LabRows(l) # {} /\ LabRows(l)' = LabRows(l)
    BY <2>2, <2>3 DEF LabRows, Rows
  <2> QED
    BY <2>2, <2>4, <2>5 DEF WholeBox, OwnVm, Usable, Exists, Seen, Running
<1>5. CASE MarkError(l)
  <2>1. ~Fault("database")
    BY DEF Fault
  <2>2. LabRows(l) = {} /\ row' = row /\ status'[l] = "error"
    BY <1>5, <2>1 DEF MarkError, GoneInv, RowGone, Typed, DbTyped
  <2> QED
    BY <2>2 DEF LabRows, Rows
<1>6. ~CrashProvision(l)
  BY OtherMoves DEF Typed, PcTyped
<1>7. ~ReleaseAfterError(l)
  <2>1. ~Goto(l, "fail") /\ ~Fault("database")
    BY DEF Goto, Typed, PcTyped, Fault
  <2> QED
    BY <2>1 DEF ReleaseAfterError
<1> QED
  BY <1>2, <1>3, <1>4, <1>5, <1>6, <1>7, Onwards, Still DEF Typed

\* A lab that is deprovisioned twice stays so.
LEMMA OnceBefore ==
  ASSUME Typed, IdleHaveNothing, [Next]_vars, DeprovisionedOnce'
  PROVE  DeprovisionedOnce
<1>1. \A l \in Task : Deprovisions(l) \subseteq Deprovisions(l)'
  BY WasStays DEF Deprovisions
<1> QED
  BY <1>1 DEF DeprovisionedOnce

BoxesHold == DeprovisionsHold /\ BuiltWell /\ WholeBoxes
Whole == Orderly /\ DeprovisionedOnce /\ "database" \notin faults.kinds

\* A box recorded as running or stopped is whole once its provision has ended
\* (StudentBox's BoxesAreWhole; tasks.py:1138-1143): row, address, lease, VM and guest
\* agree, for any number of provisions and power tasks in any order, starts and stops
\* during the provision among them.  Without sweeps: one frees the address of whoever took
\* over the vmid it listed.  It says nothing once a lab was deprovisioned twice or during
\* its provision, or the error path of a provision could not write.  Nobody but the
\* lab's own provision, and then its own deprovision, touches a VM under a vmid that is
\* still reserved for the lab (BoxLeftAlone), and a deprovision holds that reservation up
\* to its last step as long as no second call releases it under its feet (DeprovisionsHold).
THEOREM BoxesStayWhole == ASSUME Sweep = {} PROVE Spec => []BoxesAreWhole
<1> DEFINE J == ReservationInv /\ IdleHaveNothing /\ (Orderly => GoneInv) /\ (Whole => BoxesHold)
<1>1. ASSUME Typed, J PROVE BoxesAreWhole
  <2> SUFFICES ASSUME DeprovisionedOnce, NoneHasty, "database" \notin faults.kinds,
                      NEW l \in Task, pc[l] = "done", Deprovisions(l) = {},
                      status[l] \in {"running", "stopped"}
               PROVE  \E id \in LabRows(l) :
                        /\ row[id].ip # NoVal
                        /\ lease[row[id].ip] = [state |-> "leased", vm |-> id]
                        /\ OwnVm(l, row[id].vmid)
                        /\ vm[row[id].vmid].ip = row[id].ip
                        /\ Running(row[id].vmid) => vm[row[id].vmid].guest = row[id].ip
    BY DEF BoxesAreWhole
  <2>1. WholeBoxes
    BY <1>1 DEF Whole, BoxesHold, Orderly
  <2>2. PICK id \in LabRows(l) : WholeBox(l, id)
    BY <2>1 DEF WholeBoxes
  <2>3. row[id].ip # NoVal /\ id \in Rows
    BY <2>2, Actors DEF WholeBox, LabRows
  <2>4. lease[row[id].ip] = [state |-> "leased", vm |-> id]
    BY <1>1, <2>3 DEF ReservationInv, RowsDistinct
  <2> QED
    BY <2>2, <2>3, <2>4 DEF WholeBox, Seen
<1>2. Typed /\ J /\ [Next]_vars => J'
  <2> SUFFICES ASSUME Typed, J, [Next]_vars PROVE J'
    OBVIOUS
  <2>1. ReservationInv' /\ IdleHaveNothing'
    BY ReservationStep, IdleStep
  <2>2. ASSUME Orderly' PROVE Orderly /\ GoneInv /\ GoneInv'
    BY <2>2, OrderlyBefore, GoneStep
  <2>3. ASSUME Whole' PROVE BoxesHold'
    <3>1. Orderly' /\ DeprovisionedOnce' /\ "database" \notin faults'.kinds
      BY <2>3 DEF Whole
    <3>2. Orderly /\ GoneInv /\ DeprovisionedOnce /\ "database" \notin faults.kinds
      BY <2>2, <3>1, OnceBefore, KindsGrow
    <3>3. DeprovisionsHold /\ BuiltWell /\ WholeBoxes
      BY <3>2 DEF Whole, BoxesHold
    <3> QED
      BY <3>1, <3>2, <3>3, DeprovisionsHoldStep, BuiltBoxStep, WholeBoxesStep DEF BoxesHold
  <2> QED
    BY <2>1, <2>2, <2>3
<1>3. Init => J
  <2> SUFFICES ASSUME Init PROVE J
    OBVIOUS
  <2>1. BoxesHold /\ IdleHaveNothing
    BY Actors DEF Init, BoxesHold, DeprovisionsHold, BuiltWell, Built, Configuring, WholeBoxes, IdleHaveNothing
  <2> QED
    BY <2>1, GoneInit, ReservationInit
<1> HIDE DEF J
<1> QED
  BY <1>1, <1>2, <1>3, TypedInit, TypedStep, PTL DEF Spec

-----------------------------------------------------------------------------
(* A box on record has its row *)

\* Somebody has deleted the row of lab l and is about to write the lab's status.
Closing(l) ==
  \/ \E s \in Sweep : pc[s] = "mark" /\ obj[s].id[1] = l
  \/ \E o \in Op : pc[o] = "destroyed" /\ was[o].lab = l
RowOrClosing ==
  \A l \in Task : pc[l] = "done" /\ status[l] \in {"running", "stopped"} => LabRows(l) # {} \/ Closing(l)
PartialIsMisread == \A o \in Op : pc[o] = "release_partial" => "misread" \in faults.kinds
Recorded == faults.kinds \cap {"crash", "database", "misread"} = {}

LEMMA PartialStep == Typed /\ PartialIsMisread /\ [Next]_vars => PartialIsMisread'
<1> SUFFICES ASSUME Typed, PartialIsMisread, [Next]_vars, NEW o \in Op, pc'[o] = "release_partial"
             PROVE  "misread" \in faults'.kinds
  BY DEF PartialIsMisread
<1> USE Actors
<1>1. ASSUME NEW x, Goto(o, x) PROVE pc'[o] = x
  BY <1>1 DEF Goto, Typed, PcTyped
<1>2. CASE pc[o] = "release_partial"
  BY <1>2, KindsGrow DEF PartialIsMisread
<1>3. CASE DestroyBox(o)
  <2>1. Fault("misread")
    BY <1>1, <1>3 DEF DestroyBox
  <2> QED
    BY <2>1 DEF Fault
<1>4. ASSUME NEW kind \in OpKinds, NEW l \in Task, Begin(o, kind, l) PROVE FALSE
  BY <1>1, <1>4, KindAssumption DEF Begin
<1>5. OpStep(o) \/ CrashOp(o) => DestroyBox(o)
  BY <1>1 DEF OpStep, StartBox, RecordStarted, StopBox, RecordStopped, RecordStatus, ReleaseBox,
         MarkDestroyed, CrashOp
<1> QED
  BY <1>2, <1>3, <1>4, <1>5, Calls

\* Who has yet to write the status does so, and deleting the row of an ended lab makes
\* somebody owe it.
LEMMA ClosingStays ==
  ASSUME Typed, [Next]_vars, Recorded', NEW l \in Task, Closing(l), status'[l] \in {"running", "stopped"}
  PROVE  Closing(l)'
<1> USE Actors DEF Typed, DbTyped
<1>1. ASSUME NEW s \in Sweep, pc[s] = "mark", obj[s].id[1] = l PROVE Closing(l)'
  <2>1. ~StaleMark(s)
    BY <1>1 DEF StaleMark
  <2>2. SweepStep(s) => StaleMark(s)
    BY <1>1 DEF SweepStep, ListNode, ReadReserved, SkipYoung, KillOrphan, Unlease, StaleQuery, SkipRecent,
         StaleRelease, LeaseQuery, LeaseRelease, SweepEnds
  <2> QED
    BY <1>1, <2>1, <2>2, Sweeping DEF Closing
<1>2. ASSUME NEW o \in Op, pc[o] = "destroyed", was[o].lab = l PROVE Closing(l)'
  <2>1. ~MarkDestroyed(o)
    BY <1>2 DEF MarkDestroyed
  <2>2. ~CrashOp(o)
    BY DEF CrashOp, Fault, Recorded
  <2>3. OpStep(o) => MarkDestroyed(o)
    BY <1>2 DEF OpStep, StartBox, RecordStarted, StopBox, RecordStopped, DestroyBox, ReleaseBox
  <2>4. \A kind \in OpKinds, k \in Task : ~Begin(o, kind, k)
    BY <1>2 DEF Begin
  <2> QED
    BY <1>2, <2>1, <2>2, <2>3, <2>4, Calls DEF Closing
<1> QED
  BY <1>1, <1>2 DEF Closing

LEMMA RowGoesClosing ==
  ASSUME Typed, OwnedInv, PartialIsMisread, [Next]_vars, Recorded',
         NEW l \in Task, pc[l] = "done", NEW id \in LabRows(l), row'[id] = NoVal
  PROVE  Closing(l)'
<1> USE Actors DEF Typed
<1>1. id \in Rows /\ id \in RowId /\ row[id] # NoVal /\ id[1] = l
  BY DEF LabRows, Rows
<1>2. ~DropReservation(l) /\ ~ReleaseAfterError(l)
  BY DEF DropReservation, ReleaseAfterError
<1>3. ASSUME NEW o \in Op, ReleaseBox(o), obj[o].id = id PROVE Closing(l)'
  <2>1. pc[o] # "release_partial"
    BY KindsGrow DEF PartialIsMisread, Recorded
  <2>2. pc[o] = "release" /\ pc'[o] = "destroyed" /\ was' = was
    BY <1>3, <2>1 DEF ReleaseBox, Goto, PcTyped
  <2>3. was[o].lab = l
    BY <1>1, <1>3, <2>2 DEF OwnedInv, OpsOfLab
  <2> QED
    BY <2>2, <2>3 DEF Closing
<1>4. ASSUME NEW s \in Sweep, StaleRelease(s) PROVE Closing(l)'
  <2>1. PICK k \in todo[s] : DeleteRow(k) /\ obj' = [obj EXCEPT ![s] = [id |-> k, vmid |-> NoVal]]
    BY <1>4 DEF StaleRelease
  <2>2. k = id
    BY <1>1, <2>1 DEF DeleteRow, DbTyped
  <2>3. obj'[s].id = id /\ pc'[s] = "mark"
    BY <1>4, <2>1, <2>2 DEF StaleRelease, Goto, PcTyped, ObjTyped
  <2> QED
    BY <1>1, <2>3 DEF Closing
<1> QED
  BY <1>1, <1>2, <1>3, <1>4, WhoDeletes

LEMMA RowOrClosingStep ==
  ASSUME Typed, OwnedInv, PartialIsMisread, RowOrClosing, [Next]_vars, Recorded'
  PROVE  RowOrClosing'
<1> SUFFICES ASSUME NEW l \in Task, pc'[l] = "done", status'[l] \in {"running", "stopped"}
             PROVE  LabRows(l)' # {} \/ Closing(l)'
  BY DEF RowOrClosing, Closing
<1> USE Actors
<1>0. ~Fault("database")
  BY DEF Fault, Recorded
<1>1. CASE pc[l] = "done"
  <2>1. CASE status'[l] = status[l]
    <3>1. CASE Closing(l)
      BY <3>1, ClosingStays
    <3>2. ASSUME NEW id \in LabRows(l) PROVE LabRows(l)' # {} \/ Closing(l)'
      BY <1>1, RowGoesClosing DEF LabRows, Rows
    <3> QED
      BY <1>1, <2>1, <3>1, <3>2 DEF RowOrClosing
  <2>2. ASSUME NEW o \in Op, RecordStarted(o) \/ RecordStopped(o), obj[o].id \in Rows, obj[o].id[1] = l
        PROVE  LabRows(l)' # {}
    <3>1. row' = row
      BY <2>2 DEF RecordStarted, RecordStopped, RecordStatus
    <3> QED
      BY <2>2, <3>1 DEF LabRows, Rows
  <2>3. ~CreateLab(l) /\ ~Record(l)
    BY <1>1 DEF CreateLab, Record
  <2> QED
    BY <2>1, <2>2, <2>3, StatusOf
<1>2. CASE FindBox(l) \/ Admit(l) \/ CreateLab(l)
  <2>1. status[l] = "none"
    BY <1>2 DEF FindBox, Admit, CreateLab, OwnedInv, NothingBefore, Before
  <2>2. ~Goto(l, "reserve")
    BY DEF Goto, Typed, PcTyped
  <2> QED
    BY <1>0, <1>2, <2>1, <2>2 DEF FindBox, Admit, CreateLab, db
<1>3. CASE Record(l)
  <2>1. ~Goto(l, "teardown")
    BY DEF Goto, Typed, PcTyped
  <2>2. pc[l] = "record" /\ obj[l].id \in Rows /\ row' = row
    BY <1>3, <2>1 DEF Record, CanRecord
  <2>3. obj[l].id[1] = l
    BY <2>2 DEF Typed, ProvisionsTyped, OwnObj, Reserved, Built
  <2> QED
    BY <2>2, <2>3 DEF LabRows, Rows
<1>4. ~MarkError(l)
  BY <1>0 DEF MarkError, Typed, DbTyped
<1>5. ~ReleaseAfterError(l)
  <2>1. ~Goto(l, "fail")
    BY DEF Goto, Typed, PcTyped
  <2> QED
    BY <1>0, <2>1 DEF ReleaseAfterError
<1>6. ~CrashProvision(l)
  BY OtherMoves DEF Typed, PcTyped
<1> QED
  BY <1>1, <1>2, <1>3, <1>4, <1>5, <1>6, Onwards, Still DEF Typed

\* A box on record keeps its reservation (StudentBox's RunningHasRow; tasks.py:1130-1143,
\* 1239-1243, reaper.py:215-224), for any number of provisions, power tasks and sweeps:
\* deprovisions during a provision and provisions that outlive the reaper's grace are
\* among the runs, a dead worker, a failed write outside of the try and a misread answer
\* are not.  A provision, a start and a stop write their status only while the row is
\* there, and whoever else deletes the row owes the lab another status (Closing).
THEOREM BoxesOnRecordHaveRows == Spec => []RunningHasRow
<1> DEFINE J == OwnedInv /\ PartialIsMisread /\ (Recorded => RowOrClosing)
<1>1. J => RunningHasRow
  BY DEF RunningHasRow, RowOrClosing, Closing, Recorded
<1>2. Typed /\ J /\ [Next]_vars => J'
  <2> SUFFICES ASSUME Typed, J, [Next]_vars PROVE J'
    OBVIOUS
  <2>1. ASSUME Recorded' PROVE Recorded
    BY <2>1, KindsGrow DEF Recorded
  <2> QED
    BY <2>1, OwnedStep, PartialStep, RowOrClosingStep
<1>3. Init => J
  BY OwnedInit, Actors DEF Init, PartialIsMisread, RowOrClosing
<1> HIDE DEF J
<1> QED
  BY <1>1, <1>2, <1>3, TypedInit, TypedStep, PTL DEF Spec

-----------------------------------------------------------------------------
(* The boxes use the pool of SlotPool *)

\* What is bound to a row is the address on it, and a row whose provision is about to
\* lease or bind an address has none.
BoundBack == \A i \in Ip : lease[i].vm # NoVal => lease[i].vm \in Rows /\ row[lease[i].vm].ip = i
Unaddressed == \A t \in Task : pc[t] \in {"lease", "bind"} /\ obj[t].id \in Rows => row[obj[t].id].ip = NoVal
BindInv == OwnedInv /\ ReservationInv /\ BoundBack /\ Unaddressed

\* What a reservation and a bind write.
LEMMA ReserveWrites ==
  ASSUME Typed, OwnedInv, NEW t \in Task, Reserve(t)
  PROVE  \/ row' = row /\ pc'[t] = "teardown"
         \/ \E id \in RowId, v \in Vmid \ TakenVmids :
              /\ row[id] = NoVal /\ obj'[t].id = id
              /\ row' = [row EXCEPT ![id] = [vmid |-> v, ip |-> NoVal]]
<1> USE DEF Typed, DbTyped
<1>1. ASSUME NEW l, Goto(t, l) PROVE pc'[t] = l
  BY <1>1, Actors DEF Goto, PcTyped
<1>2. <<t, att[t]>> \in RowId
  BY DEF ProvisionsTyped, RowId
<1>3. row[<<t, att[t]>>] = NoVal
  BY <1>2 DEF Reserve, OwnedInv, NothingBefore, RowsOfObj, Rows
<1>4. ASSUME NEW v \in Vmid, obj' = [obj EXCEPT ![t] = [id |-> <<t, att[t]>>, vmid |-> v]]
      PROVE  obj'[t].id = <<t, att[t]>>
  BY <1>4, Actors DEF ObjTyped
<1> QED
  BY <1>1, <1>2, <1>3, <1>4 DEF Reserve

LEMMA BindWrites ==
  ASSUME Typed, BindInv, NEW t \in Task, Bind(t)
  PROVE  \/ UNCHANGED <<row, lease>>
         \/ \E id \in Rows, i \in Ip :
              /\ id = obj[t].id /\ i = hand[t] /\ row[id].ip = NoVal
              /\ lease[i] = [state |-> "leased", vm |-> NoVal]
              /\ row' = [row EXCEPT ![id].ip = i] /\ lease' = [lease EXCEPT ![i].vm = id]
<1>1. pc[t] = "bind" /\ hand[t] \in Ip
  BY DEF Bind, Typed, ProvisionsTyped
<1>2. lease[hand[t]] = [state |-> "leased", vm |-> NoVal]
  BY <1>1 DEF BindInv, ReservationInv, BindersAlone
<1>3. obj[t].id \in Rows => row[obj[t].id].ip = NoVal
  BY <1>1 DEF BindInv, Unaddressed
<1> QED
  BY <1>1, <1>2, <1>3 DEF Bind

LEMMA BoundBackStep ==
  ASSUME Sweep = {}
  PROVE  Typed /\ BindInv /\ [Next]_vars => BoundBack'
<1> SUFFICES ASSUME Typed, BindInv, [Next]_vars PROVE BoundBack'
  OBVIOUS
<1> USE DEF Typed, DbTyped
<1>1. \A i \in Ip : lease[i].vm # NoVal =>
        lease[i].vm \in RowId /\ row[lease[i].vm] # NoVal /\ row[lease[i].vm].ip = i
  BY DEF BindInv, BoundBack, Rows
<1>2. SUFFICES ASSUME NEW i \in Ip, lease'[i].vm # NoVal
               PROVE  lease'[i].vm \in RowId /\ row'[lease'[i].vm] # NoVal /\ row'[lease'[i].vm].ip = i
  BY DEF BoundBack, Rows
<1>3. ASSUME NEW t \in Task, Reserve(t)
      PROVE  lease'[i].vm \in RowId /\ row'[lease'[i].vm] # NoVal /\ row'[lease'[i].vm].ip = i
  <2>1. lease' = lease
    BY <1>3 DEF Reserve
  <2>2. \A k \in RowId : row[k] # NoVal => row'[k] = row[k]
    BY <1>3, ReserveWrites DEF BindInv
  <2> QED
    BY <1>1, <1>2, <2>1, <2>2
<1>4. ASSUME NEW t \in Task, LeaseIp(t)
      PROVE  lease'[i].vm \in RowId /\ row'[lease'[i].vm] # NoVal /\ row'[lease'[i].vm].ip = i
  <2>1. row' = row /\ lease'[i].vm = lease[i].vm
    BY <1>4 DEF LeaseIp, FreeLeases, LeaseSet
  <2> QED
    BY <1>1, <1>2, <2>1
<1>5. ASSUME NEW t \in Task, Bind(t)
      PROVE  lease'[i].vm \in RowId /\ row'[lease'[i].vm] # NoVal /\ row'[lease'[i].vm].ip = i
  <2>1. CASE UNCHANGED <<row, lease>>
    BY <1>1, <1>2, <2>1
  <2>2. CASE ~UNCHANGED <<row, lease>>
    <3>1. PICK id \in Rows, j \in Ip :
            /\ row[id].ip = NoVal
            /\ row' = [row EXCEPT ![id].ip = j] /\ lease' = [lease EXCEPT ![j].vm = id]
      BY <1>5, <2>2, BindWrites
    <3>2. id \in RowId /\ row[id] \in RowSet
      BY DEF Rows
    <3>3. row'[id] \in RowSet /\ row'[id].ip = j /\ \A k \in RowId \ {id} : row'[k] = row[k]
      BY <3>1, <3>2 DEF RowSet
    <3>4. row'[id] # NoVal
      BY <3>3, NoRecordAssumption
    <3>5. CASE i = j
      <4>1. lease'[i].vm = id
        BY <3>1, <3>5 DEF LeaseSet
      <4> QED
        BY <3>2, <3>3, <3>4, <3>5, <4>1
    <3>6. CASE i # j
      <4>1. lease'[i] = lease[i]
        BY <3>1, <3>6
      <4>2. lease[i].vm # id
        BY <1>1, <1>2, <3>1, <4>1, Actors
      <4> QED
        BY <1>1, <1>2, <3>3, <4>1, <4>2
    <3> QED
      BY <3>5, <3>6
  <2> QED
    BY <2>1, <2>2
<1>6. ASSUME NEW id \in RowId, DeleteRow(id)
      PROVE  lease'[i].vm \in RowId /\ row'[lease'[i].vm] # NoVal /\ row'[lease'[i].vm].ip = i
  <2>1. row' = [row EXCEPT ![id] = NoVal] /\ lease'[i] = IF lease[i].vm = id THEN FreeLease ELSE lease[i]
    BY <1>6 DEF DeleteRow, LeasesWithout
  <2>2. lease'[i] = lease[i] /\ lease[i].vm # id
    BY <1>2, <2>1 DEF FreeLease
  <2> QED
    BY <1>1, <1>2, <2>1, <2>2
<1>7. CASE UNCHANGED <<row, lease>>
  BY <1>1, <1>2, <1>7
<1> QED
  BY <1>3, <1>4, <1>5, <1>6, <1>7, RowSteps

LEMMA UnaddressedStep ==
  ASSUME Sweep = {}
  PROVE  Typed /\ BindInv /\ [Next]_vars => Unaddressed'
<1> SUFFICES ASSUME Typed, BindInv, [Next]_vars, NEW t \in Task, pc'[t] \in {"lease", "bind"},
                    obj'[t].id \in RowId, row'[obj'[t].id] # NoVal
             PROVE  row'[obj'[t].id].ip = NoVal
  BY DEF Unaddressed, Rows
<1> USE DEF Typed, DbTyped
<1>1. CASE Reserve(t)
  <2>1. pc'[t] # "teardown"
    OBVIOUS
  <2> QED
    BY <1>1, <2>1, ReserveWrites DEF BindInv
<1>2. CASE ~Reserve(t)
  <2>1. pc[t] \in {"lease", "bind"} /\ ~Bind(t)
    <3>1. pc'[t] = "bind" => LeaseIp(t) \/ (pc[t] = "bind" /\ ~Bind(t))
      BY Binding
    <3>2. LeaseIp(t) => pc[t] = "lease" /\ ~Bind(t)
      BY DEF LeaseIp, Bind
    <3>3. ASSUME pc'[t] = "lease" PROVE pc[t] = "lease" /\ ~Bind(t)
      <4>1. ~ProvisionStep(t)
        BY <1>2, <3>3, Onwards
      <4>2. ~CrashProvision(t)
        BY <3>3, Actors DEF CrashProvision, Goto, PcTyped
      <4> QED
        BY <3>3, <4>1, <4>2, Still DEF Bind
    <3> QED
      BY <3>1, <3>2, <3>3
  <2>2. obj'[t] = obj[t]
    <3>1. ASSUME ProvisionStep(t) PROVE obj'[t] = obj[t]
      BY <1>2, <2>1, <3>1, ProvisionLocals DEF LeaseIp, DropReservation
    <3>2. CrashProvision(t) => obj'[t] = obj[t]
      BY DEF CrashProvision
    <3> QED
      BY <3>1, <3>2, Still
  <2> DEFINE id == obj[t].id
  <2>3. id \in RowId
    BY <2>2
  <2>4. row'[id] = row[id] \/ row[id] = NoVal
    <3>1. ASSUME NEW u \in Task, Reserve(u) PROVE row'[id] = row[id] \/ row[id] = NoVal
      BY <2>3, <3>1, ReserveWrites DEF BindInv
    <3>2. ASSUME NEW u \in Task, Bind(u) PROVE row'[id] = row[id] \/ row[id] = NoVal
      <4>1. u # t
        BY <2>1, <3>2
      <4>2. obj[u].id[1] = u /\ obj[t].id[1] = t
        BY <2>1, <3>2 DEF Bind, ProvisionsTyped, OwnObj, Reserved
      <4> QED
        BY <2>3, <3>2, <4>1, <4>2, BindWrites
    <3>3. ASSUME NEW k \in RowId, DeleteRow(k) PROVE row'[id] = row[id] \/ row[id] = NoVal
      BY <2>2, <2>3, <3>3 DEF DeleteRow
    <3> QED
      BY <3>1, <3>2, <3>3, RowSteps DEF LeaseIp
  <2>5. CASE row'[id] = row[id]
    BY <2>1, <2>2, <2>3, <2>5 DEF BindInv, Unaddressed, Rows
  <2>6. CASE row[id] = NoVal
    <3>1. id[1] = t /\ pc[t] # "reserve"
      BY <2>1 DEF ProvisionsTyped, OwnObj, Reserved
    <3>2. LabRows(t)' \subseteq LabRows(t)
      BY <3>1, NoRowComes
    <3> QED
      BY <2>2, <2>3, <2>6, <3>1, <3>2 DEF LabRows, Rows
  <2> QED
    BY <2>4, <2>5, <2>6
<1> QED
  BY <1>1, <1>2

LEMMA BindInit == Init => BindInv
<1>1. Init => BoundBack /\ Unaddressed
  BY Actors DEF Init, BoundBack, Unaddressed, FreeLease
<1> QED
  BY <1>1, OwnedInit, ReservationInit DEF BindInv

LEMMA BindStep ==
  ASSUME Sweep = {}
  PROVE  Typed /\ BindInv /\ [Next]_vars => BindInv'
<1>1. Typed /\ ReservationInv /\ [Next]_vars => ReservationInv'
  BY ReservationStep
<1>2. Typed /\ BindInv /\ [Next]_vars => BoundBack'
  BY BoundBackStep
<1>3. Typed /\ BindInv /\ [Next]_vars => Unaddressed'
  BY UnaddressedStep
<1> QED
  BY <1>1, <1>2, <1>3, OwnedStep DEF BindInv

\* Every step of the boxes is a step of the pool or leaves it alone.
LEMMA BoxPoolStep ==
  ASSUME Sweep = {}
  PROVE  Typed /\ BindInv /\ [Next]_vars => [Pool!Next]_(Pool!vars)
<1> SUFFICES ASSUME Typed, BindInv, [Next]_vars
             PROVE  Pool!Next \/ UNCHANGED <<Slots, Addresses, LeasedIps>>
  BY DEF Pool!vars
<1> USE DEF Typed, DbTyped
<1>1. /\ UNCHANGED row => UNCHANGED <<Slots, Addresses>>
      /\ UNCHANGED lease => UNCHANGED LeasedIps
  BY DEF Slots, Addresses, LeasedIps
<1>b. ASSUME NEW id \in RowId, NEW i \in Ip, row[id] # NoVal, row[id].ip = i
      PROVE  lease[i].vm = id
  <2>1. id \in Rows /\ row[id].ip # NoVal
    BY <1>b, Actors DEF Rows
  <2>2. RowsDistinct
    BY DEF BindInv, ReservationInv
  <2>3. lease[row[id].ip] = [state |-> "leased", vm |-> id]
    BY <2>1, <2>2 DEF RowsDistinct
  <2> QED
    BY <1>b, <2>3
<1>2. ASSUME NEW t \in Task, Reserve(t)
      PROVE  Pool!Next \/ UNCHANGED <<Slots, Addresses, LeasedIps>>
  <2>1. UNCHANGED LeasedIps
    BY <1>1, <1>2 DEF Reserve
  <2>2. CASE row' = row
    BY <1>1, <2>1, <2>2
  <2>3. CASE row' # row
    <3>1. PICK id \in RowId, v \in Vmid \ TakenVmids :
            row[id] = NoVal /\ row' = [row EXCEPT ![id] = [vmid |-> v, ip |-> NoVal]]
      BY <1>2, <2>3, ReserveWrites DEF BindInv
    <3>2. row'[id] # NoVal
      <4>1. [vmid |-> v, ip |-> NoVal] \in RowSet
        BY DEF RowSet
      <4> QED
        BY <3>1, <4>1, NoRecordAssumption
    <3>3. row'[id].vmid = v /\ row'[id].ip = NoVal /\ \A k \in RowId \ {id} : row'[k] = row[k]
      BY <3>1
    <3>4. Slots[id] = NoVal /\ Slots' = [Slots EXCEPT ![id] = v]
      BY <3>1, <3>2, <3>3 DEF Slots
    <3>5. UNCHANGED Addresses
      BY <3>1, <3>2, <3>3 DEF Addresses
    <3>6. \A k \in RowId : Slots[k] # v
      BY Actors DEF Slots, TakenVmids, RowVmids, Rows
    <3>7. Pool!Reserve(id)
      BY <2>1, <3>4, <3>5, <3>6 DEF Pool!Reserve
    <3> QED
      BY <3>7 DEF Pool!Next
  <2> QED
    BY <2>2, <2>3
<1>3. ASSUME NEW t \in Task, LeaseIp(t)
      PROVE  Pool!Next \/ UNCHANGED <<Slots, Addresses, LeasedIps>>
  <2>1. UNCHANGED <<Slots, Addresses>>
    BY <1>1, <1>3 DEF LeaseIp
  <2>2. CASE UNCHANGED lease
    BY <1>1, <2>1, <2>2
  <2>3. CASE ~UNCHANGED lease
    <3>1. PICK i \in FreeLeases : lease' = [lease EXCEPT ![i].state = "leased"]
      BY <1>3, <2>3 DEF LeaseIp
    <3>2. i \in Ip \ LeasedIps /\ LeasedIps' = LeasedIps \cup {i}
      BY <3>1 DEF FreeLeases, LeasedIps, LeaseSet
    <3>3. Pool!TakeOut
      BY <2>1, <3>2 DEF Pool!TakeOut
    <3> QED
      BY <3>3 DEF Pool!Next
  <2> QED
    BY <2>2, <2>3
<1>4. ASSUME NEW t \in Task, Bind(t)
      PROVE  Pool!Next \/ UNCHANGED <<Slots, Addresses, LeasedIps>>
  <2>1. CASE UNCHANGED <<row, lease>>
    BY <1>1, <2>1
  <2>2. CASE ~UNCHANGED <<row, lease>>
    <3>1. PICK id \in Rows, i \in Ip :
            /\ row[id].ip = NoVal /\ lease[i] = [state |-> "leased", vm |-> NoVal]
            /\ row' = [row EXCEPT ![id].ip = i] /\ lease' = [lease EXCEPT ![i].vm = id]
      BY <1>4, <2>2, BindWrites
    <3>2. id \in RowId /\ row[id] # NoVal /\ row[id] \in RowSet
      BY DEF Rows
    <3>3. /\ row'[id] \in RowSet /\ row'[id].ip = i /\ row'[id].vmid = row[id].vmid
          /\ \A k \in RowId \ {id} : row'[k] = row[k]
      BY <3>1, <3>2 DEF RowSet
    <3>4. row'[id] # NoVal
      BY <3>3, NoRecordAssumption
    <3>5. UNCHANGED Slots
      BY <3>2, <3>3, <3>4 DEF Slots
    <3>6. Addresses[id] = NoVal /\ Addresses' = [Addresses EXCEPT ![id] = i]
      BY <3>1, <3>2, <3>3, <3>4 DEF Addresses
    <3>7. UNCHANGED LeasedIps /\ i \in LeasedIps
      BY <3>1 DEF LeasedIps, LeaseSet
    <3>8. \A k \in RowId : Addresses[k] # i
      <4>1. ASSUME NEW k \in RowId, row[k] # NoVal, row[k].ip = i PROVE FALSE
        <5>1. lease[i].vm = k
          BY <1>b, <4>1
        <5> QED
          BY <3>1, <5>1, Actors
      <4> QED
        BY <4>1, Actors DEF Addresses
    <3>9. Slots[id] # NoVal
      BY <3>2, Actors DEF Slots, RowSet
    <3>10. i \in LeasedIps \ Pool!Assigned
      BY <3>7, <3>8 DEF Pool!Assigned
    <3>11. Pool!Assign(id)
      BY <3>2, <3>5, <3>6, <3>7, <3>9, <3>10 DEF Pool!Assign
    <3> QED
      BY <3>2, <3>11 DEF Pool!Next
  <2> QED
    BY <2>1, <2>2
<1>5. ASSUME NEW id \in RowId, DeleteRow(id)
      PROVE  Pool!Next \/ UNCHANGED <<Slots, Addresses, LeasedIps>>
  <2>1. row'[id] = NoVal /\ \A k \in RowId \ {id} : row'[k] = row[k]
    BY <1>5 DEF DeleteRow
  <2>2. Slots' = [Slots EXCEPT ![id] = NoVal]
    BY <2>1 DEF Slots
  <2>3. Addresses' = [Addresses EXCEPT ![id] = NoVal]
    BY <2>1 DEF Addresses
  <2>4. \A i \in Ip : lease[i].vm = id <=> Addresses[id] = i
    <3>1. ASSUME NEW i \in Ip, lease[i].vm = id PROVE Addresses[id] = i
      BY <3>1, Actors DEF BindInv, BoundBack, Rows, Addresses
    <3>2. ASSUME NEW i \in Ip, Addresses[id] = i PROVE lease[i].vm = id
      <4>1. row[id] # NoVal /\ row[id].ip = i
        BY <3>2, Actors DEF Addresses
      <4> QED
        BY <1>b, <4>1
    <3> QED
      BY <3>1, <3>2
  <2>5. \A i \in Ip : lease'[i] = IF lease[i].vm = id THEN FreeLease ELSE lease[i]
    BY <1>5 DEF DeleteRow, LeasesWithout
  <2>6. LeasedIps' = LeasedIps \ {Addresses[id]}
    BY <2>4, <2>5 DEF LeasedIps, FreeLease
  <2>7. Pool!GiveBack(id)
    BY <2>2, <2>3, <2>6 DEF Pool!GiveBack
  <2> QED
    BY <2>7 DEF Pool!Next
<1>6. CASE UNCHANGED <<row, lease>>
  BY <1>1, <1>6
<1> QED
  BY <1>2, <1>3, <1>4, <1>5, <1>6, RowSteps

\* While no sweep runs, the tables of the boxes are used as the atomic pool of the
\* allocator is (StudentBox's BoxesUsePool), whatever provisions, retries, power tasks
\* and faults there are: what Allocation promises its caller, its callers keep.
THEOREM BoxesImplementPool == ASSUME Sweep = {} PROVE Spec => BoxesUsePool
<1>1. Init => Pool!Init
  BY DEF Init, Pool!Init, Slots, Addresses, LeasedIps, FreeLease
<1>2. Typed /\ BindInv /\ [Next]_vars => BindInv'
  BY BindStep
<1>3. Typed /\ BindInv /\ [Next]_vars => [Pool!Next]_(Pool!vars)
  BY BoxPoolStep
<1> QED
  BY <1>1, <1>2, <1>3, TypedInit, TypedStep, BindInit, PTL DEF Spec, BoxesUsePool, Pool!Spec
=============================================================================
