------------------------- MODULE StudentBox_proofs --------------------------
(***************************************************************************)
(* Proofs about StudentBox, for any number of students, provisions, power  *)
(* tasks and sweeps, any VMIDs and addresses, any strays and any faults.   *)
(*                                                                         *)
(* Typed says, beside the types, what a task holds at each statement, and  *)
(* that a row in the table is of its provision's current attempt: what     *)
(* makes "the" row of a lab a definite one.                                *)
(***************************************************************************)
EXTENDS StudentBox, FiniteSetTheorems, TLAPS

DbTyped ==
  /\ status \in [Task -> StatusSet]
  /\ row \in [RowId -> RowSet \cup {NoVal}]
  /\ lease \in [Ip -> LeaseSet]
NumbersTyped ==
  /\ index \in [Student -> Nat \cup {NoVal}]
  /\ pick \in [Task -> Nat \cup {NoVal}]
NodeTyped == vm \in [Vmid -> VmSet \cup {NoVal}]
AgesTyped == oldVm \subseteq Vmid /\ oldLab \subseteq Task
FaultsTyped == faults \in [n : 0 .. MaxFaults, kinds : SUBSET FaultKinds]

PcTyped ==
  /\ pc \in [Proc -> ProvisionLabels \cup OpLabels \cup SweepLabels]
  /\ \A t \in Task : pc[t] \in ProvisionLabels
  /\ \A o \in Op : pc[o] \in OpLabels
  /\ \A s \in Sweep : pc[s] \in SweepLabels

\* Where a provision has a row object, and where it has an address.
Built == {"heal", "reap", "clone", "cloning", "clone_failed", "reap_failed", "drop",
          "configure", "boot", "confirm", "record"}
Reserved == Built \cup {"lease", "bind"}

\* The row object is of the current attempt.
OwnObj(t) == obj[t].id = <<t, att[t]>> /\ obj[t].vmid \in Vmid

ProvisionsTyped ==
  /\ att \in [Task -> 1 .. Attempts]
  /\ hand \in [Task -> Ip \cup {NoVal}]
  /\ \A t \in Task : obj[t] # NoVal => OwnObj(t)
  /\ \A t \in Task : pc[t] \in Reserved => OwnObj(t)
  /\ \A t \in Task : pc[t] \in Built \cup {"bind"} => hand[t] \in Ip

\* Only the current attempt of a provision has a row.
RowsOfAttempt == \A id \in Rows : id[2] = att[id[1]]

OpsTyped ==
  /\ was \in [Op -> WasSet \cup {NoVal}]
  /\ \A o \in Op : pc[o] \notin {"idle", "done"} => was[o] \in WasSet
  /\ \A o \in Op : pc[o] \notin {"idle", "done", "destroyed"} =>
       obj[o].id \in RowId /\ obj[o].vmid \in Vmid

SnapSet ==
  [live : SUBSET Vmid, reserved : SUBSET Vmid, oldRunning : SUBSET Vmid, oldLab : SUBSET Task]
SweepsTyped ==
  /\ snap \in [Sweep -> SnapSet]
  /\ todo \in [Sweep -> SUBSET (Vmid \cup RowId \cup Ip)]
  /\ \A s \in Sweep :
       /\ pc[s] \in {"orphans", "unlease"} => todo[s] \subseteq Vmid
       /\ pc[s] \in {"stale", "mark"} => todo[s] \subseteq RowId
       /\ pc[s] = "leases" => todo[s] \subseteq Ip
       /\ pc[s] = "unlease" => obj[s].vmid \in Vmid
       /\ pc[s] = "mark" => obj[s].id \in RowId

ObjTyped == obj \in [Proc -> ObjSet \cup {NoVal}]

\* A VM that a provision waits for is there and is its clone under way, which
\* nobody else can change or destroy.
ClonesThere ==
  \A t \in Task : pc[t] = "cloning" =>
    LET v == obj[t].vmid IN vm[v] # NoVal /\ vm[v].st = "cloning" /\ vm[v].by = t

Typed ==
  /\ DbTyped /\ NumbersTyped /\ NodeTyped /\ AgesTyped /\ FaultsTyped /\ PcTyped
  /\ ObjTyped /\ ProvisionsTyped /\ RowsOfAttempt /\ OpsTyped /\ SweepsTyped /\ ClonesThere

LEMMA TypedIsTypeOK == Typed => TypeOK
<1> SUFFICES ASSUME Typed PROVE TypeOK
  OBVIOUS
<1>1. ASSUME NEW l \in Task PROVE Cardinality(LabRows(l)) =< 1
  <2>1. LabRows(l) \subseteq {<<l, att[l]>>}
    BY <1>1 DEF Typed, RowsOfAttempt, LabRows, Rows, RowId
  <2>2. IsFiniteSet({<<l, att[l]>>}) /\ Cardinality({<<l, att[l]>>}) = 1
    BY FS_Singleton
  <2> QED
    BY <2>1, <2>2, FS_Subset
<1>2. ASSUME NEW p \in Proc
      PROVE  pc[p] \in IF p \in Task THEN ProvisionLabels
                       ELSE IF p \in Op THEN OpLabels ELSE SweepLabels
  BY ActorAssumption DEF Typed, PcTyped, Proc
<1>3. ASSUME NEW s \in Sweep
      PROVE  /\ snap[s].live \cup snap[s].reserved \cup snap[s].oldRunning \subseteq Vmid
             /\ todo[s] \subseteq Vmid \cup RowId \cup Ip
  BY DEF Typed, SweepsTyped, SnapSet
<1> QED
  BY <1>1, <1>2, <1>3
     DEF Typed, TypeOK, DbTyped, NumbersTyped, NodeTyped, AgesTyped, FaultsTyped, ObjTyped,
         ProvisionsTyped, OpsTyped

-----------------------------------------------------------------------------
(* What a step can do *)

LEMMA Actors ==
  /\ Task \subseteq Proc /\ Op \subseteq Proc /\ Sweep \subseteq Proc
  /\ \A t \in Task : t \notin Op /\ t \notin Sweep
  /\ \A o \in Op : o \notin Task /\ o \notin Sweep
  /\ \A s \in Sweep : s \notin Task /\ s \notin Op
  /\ NoVal \notin Nat /\ NoVal \notin Task /\ NoVal \notin Vmid /\ NoVal \notin Ip /\ NoVal \notin RowId
  BY ActorAssumption, NullAssumption DEF Proc, RowId

\* Who takes a step goes to a label of its own kind, and nobody else moves.
LEMMA ProvisionMoves ==
  ASSUME NEW t \in Task, ProvisionStep(t)
  PROVE  \E l \in ProvisionLabels : pc' = [pc EXCEPT ![t] = l]
<1>1. \E l \in {"number", "save_number", "admit", "create", "reserve", "lease", "bind", "heal", "reap", "clone",
                "cloning", "clone_failed", "reap_failed", "drop", "configure", "boot",
                "confirm", "record", "teardown", "release", "fail", "done"} : Goto(t, l)
  <2>1. CASE FindBox(t) \/ PickNumber(t) \/ SaveNumber(t) \/ Admit(t) \/ CreateLab(t)
    BY <2>1 DEF FindBox, PickNumber, SaveNumber, Admit, CreateLab
  <2>2. CASE Reserve(t) \/ LeaseIp(t) \/ Bind(t) \/ CheckVmid(t)
    BY <2>2 DEF Reserve, LeaseIp, Bind, CheckVmid
  <2>3. CASE ReapBeforeClone(t) \/ ReapFailedClone(t)
    BY <2>3 DEF ReapBeforeClone, ReapFailedClone, ReapOrphan
  <2>4. CASE StartClone(t) \/ WaitClone(t) \/ CloneFailed(t) \/ DropReservation(t)
    BY <2>4 DEF StartClone, WaitClone, CloneFailed, DropReservation
  <2>5. CASE Configure(t) \/ BootBox(t) \/ ConfirmIp(t) \/ Record(t)
    BY <2>5 DEF Configure, BootBox, ConfirmIp, Record
  <2>6. CASE Teardown(t) \/ ReleaseAfterError(t) \/ MarkError(t)
    BY <2>6 DEF Teardown, ReleaseAfterError, MarkError
  <2> QED
    BY <2>1, <2>2, <2>3, <2>4, <2>5, <2>6 DEF ProvisionStep
<1> QED
  BY <1>1 DEF Goto, ProvisionLabels

LEMMA OpMoves ==
  ASSUME NEW o \in Op, OpStep(o)
  PROVE  \E l \in OpLabels \ {"idle"} : pc' = [pc EXCEPT ![o] = l]
<1>1. \E l \in {"started", "stopped", "release", "release_partial", "destroyed", "done"} : Goto(o, l)
  BY DEF OpStep, StartBox, RecordStarted, StopBox, RecordStopped, DestroyBox, ReleaseBox,
         MarkDestroyed, RecordStatus
<1> QED
  BY <1>1 DEF Goto, OpLabels

LEMMA SweepMoves ==
  ASSUME NEW s \in Sweep, SweepStep(s)
  PROVE  pc' = pc \/ \E l \in SweepLabels : pc' = [pc EXCEPT ![s] = l]
<1>1. pc' = pc \/ \E l \in {"idle", "reserved", "orphans", "unlease", "stale", "mark", "leases"} : Goto(s, l)
  BY DEF SweepStep, ListNode, ReadReserved, SkipYoung, KillOrphan, Unlease, StaleQuery, SkipRecent,
         StaleRelease, StaleMark, LeaseQuery, LeaseRelease, SweepEnds
<1> QED
  BY <1>1 DEF Goto, SweepLabels

\* The steps that are nobody's next statement.
LEMMA OtherMoves ==
  /\ \A t \in Task : CrashProvision(t) => pc' = [pc EXCEPT ![t] = "crashed"]
  /\ \A o \in Op : CrashOp(o) => pc' = [pc EXCEPT ![o] = "done"]
  /\ \A o \in Op, kind \in OpKinds, l \in Task :
       Begin(o, kind, l) => \E b \in {kind, "destroyed"} : pc' = [pc EXCEPT ![o] = b]
  /\ \A t \in Task : AgeLab(t) => pc' = pc
  /\ \A v \in Vmid : FinishClone(v) \/ AgeVm(v) => pc' = pc
  BY DEF CrashProvision, CrashOp, Begin, AgeLab, FinishClone, AgeVm, Goto

LEMMA PcStep == PcTyped /\ [Next]_vars => PcTyped'
<1> SUFFICES ASSUME PcTyped, [Next]_vars PROVE PcTyped'
  OBVIOUS
<1> USE Actors
<1>1. CASE pc' = pc
  BY <1>1 DEF PcTyped
<1>2. ASSUME NEW t \in Task, NEW l \in ProvisionLabels, pc' = [pc EXCEPT ![t] = l] PROVE PcTyped'
  BY <1>2 DEF PcTyped
<1>3. ASSUME NEW o \in Op, NEW l \in OpLabels, pc' = [pc EXCEPT ![o] = l] PROVE PcTyped'
  BY <1>3 DEF PcTyped
<1>4. ASSUME NEW s \in Sweep, NEW l \in SweepLabels, pc' = [pc EXCEPT ![s] = l] PROVE PcTyped'
  BY <1>4 DEF PcTyped
<1>5. OpKinds \cup {"destroyed", "done"} \subseteq OpLabels /\ "crashed" \in ProvisionLabels
  BY KindAssumption DEF OpLabels, ProvisionLabels
<1>6. ASSUME NEW t \in Task, ProvisionStep(t) \/ CrashProvision(t) \/ AgeLab(t) PROVE PcTyped'
  BY <1>1, <1>2, <1>5, <1>6, ProvisionMoves, OtherMoves
<1>7. ASSUME NEW o \in Op, OpStep(o) \/ CrashOp(o) \/ \E kind \in OpKinds, l \in Task : Begin(o, kind, l)
      PROVE  PcTyped'
  BY <1>3, <1>5, <1>7, OpMoves, OtherMoves
<1>8. ASSUME NEW s \in Sweep, SweepStep(s) PROVE PcTyped'
  BY <1>1, <1>4, <1>8, SweepMoves
<1> QED
  BY <1>1, <1>6, <1>7, <1>8, OtherMoves DEF Next, vars

\* How the rows and leases change: as one of the allocator's operations does, or as
\* the reaper does.
LEMMA RowChanges ==
  ASSUME [Next]_vars
  PROVE  \/ UNCHANGED <<row, lease>>
         \/ \E t \in Task : Reserve(t) \/ LeaseIp(t) \/ Bind(t)
         \/ \E id : DeleteRow(id)
         \/ \E s \in Sweep : Unlease(s) \/ LeaseRelease(s)
<1>1. ASSUME NEW t \in Task, ProvisionStep(t)
      PROVE  \/ UNCHANGED <<row, lease>> \/ Reserve(t) \/ LeaseIp(t) \/ Bind(t) \/ \E id : DeleteRow(id)
  BY <1>1 DEF ProvisionStep, FindBox, PickNumber, SaveNumber, Admit, CreateLab, CheckVmid,
         ReapBeforeClone, StartClone, WaitClone, CloneFailed, ReapFailedClone, DropReservation, DropRow,
         Configure, BootBox, ConfirmIp, Record, Teardown, ReleaseAfterError, MarkError, db
<1>2. ASSUME NEW o \in Op, OpStep(o) PROVE UNCHANGED <<row, lease>> \/ \E id : DeleteRow(id)
  BY <1>2 DEF OpStep, StartBox, RecordStarted, StopBox, RecordStopped, DestroyBox, ReleaseBox,
         MarkDestroyed, RecordStatus, OnlyCalls, db
<1>3. ASSUME NEW s \in Sweep, SweepStep(s)
      PROVE  UNCHANGED <<row, lease>> \/ (\E id : DeleteRow(id)) \/ Unlease(s) \/ LeaseRelease(s)
  BY <1>3 DEF SweepStep, ListNode, ReadReserved, SkipYoung, KillOrphan, StaleQuery, SkipRecent,
         StaleRelease, StaleMark, LeaseQuery, SweepEnds, db
<1> QED
  BY <1>1, <1>2, <1>3 DEF Next, vars, db, CrashProvision, CrashOp, OnlyCalls, Begin, AgeLab, FinishClone, AgeVm

\* Who owns what is written to LabInstance.status: an active status is written under
\* the constraint.
LEMMA StatusChanges ==
  ASSUME DbTyped, PcTyped, ProvisionsTyped, OpsTyped, SweepsTyped, [Next]_vars
  PROVE  \/ status' = status
         \/ \E l \in Task, st \in StatusSet :
              /\ status' = [status EXCEPT ![l] = st]
              /\ st \in Active => UniqueBox(l)
<1> DEFINE Written == \E l \in Task, st \in StatusSet :
              /\ status' = [status EXCEPT ![l] = st]
              /\ st \in Active => UniqueBox(l)
<1> USE DEF StatusSet, Active
<1>1. ASSUME NEW t \in Task, ProvisionStep(t) PROVE status' = status \/ Written
  <2>1. CASE CreateLab(t)
    BY <2>1 DEF CreateLab
  <2>2. CASE Record(t)
    <3>1. obj[t].id[1] = t
      BY <2>2 DEF Record, ProvisionsTyped, Reserved, Built, OwnObj
    <3> QED
      BY <2>2, <3>1 DEF Record, CanRecord
  <2>3. CASE MarkError(t)
    BY <2>3 DEF MarkError
  <2> QED
    BY <1>1, <2>1, <2>2, <2>3
       DEF ProvisionStep, FindBox, PickNumber, SaveNumber, Admit, Reserve, LeaseIp, Bind, CheckVmid,
           ReapBeforeClone, StartClone, WaitClone, CloneFailed, ReapFailedClone, DropReservation,
           Configure, BootBox, ConfirmIp, Teardown, ReleaseAfterError, db
<1>2. ASSUME NEW o \in Op, OpStep(o) PROVE status' = status \/ Written
  <2>1. ASSUME NEW st \in {"running", "stopped"}, RecordStatus(o, st) PROVE status' = status \/ Written
    <3>1. CanRecord(obj[o].id) => obj[o].id[1] \in Task /\ UniqueBox(obj[o].id[1])
      BY DEF CanRecord, Rows, RowId
    <3> QED
      BY <2>1, <3>1 DEF RecordStatus
  <2>2. CASE MarkDestroyed(o)
    <3>1. was[o].lab \in Task
      BY <2>2 DEF MarkDestroyed, OpsTyped, WasSet
    <3> QED
      BY <2>2, <3>1 DEF MarkDestroyed
  <2> QED
    BY <1>2, <2>1, <2>2
       DEF OpStep, StartBox, RecordStarted, StopBox, RecordStopped, DestroyBox, ReleaseBox, OnlyCalls, db
<1>3. ASSUME NEW s \in Sweep, SweepStep(s) PROVE status' = status \/ Written
  <2>1. CASE StaleMark(s)
    <3>1. obj[s].id[1] \in Task
      BY <2>1 DEF StaleMark, SweepsTyped, RowId
    <3> QED
      BY <2>1, <3>1 DEF StaleMark
  <2> QED
    BY <1>3, <2>1 DEF SweepStep, ListNode, ReadReserved, SkipYoung, KillOrphan, Unlease, StaleQuery,
         SkipRecent, StaleRelease, LeaseQuery, LeaseRelease, SweepEnds, db
<1> QED
  BY <1>1, <1>2, <1>3 DEF Next, vars, db, CrashProvision, CrashOp, OnlyCalls, Begin, AgeLab, FinishClone, AgeVm

\* The locals of a provision change when it reserves, leases or drops; else it only
\* goes on, and what it holds where it goes it has.
LEMMA ProvisionLocals ==
  ASSUME NEW t \in Task, ProvisionStep(t)
  PROVE  \/ Reserve(t) \/ LeaseIp(t) \/ DropReservation(t)
         \/ /\ UNCHANGED <<obj, hand, att>>
            /\ \E l : /\ pc' = [pc EXCEPT ![t] = l]
                      /\ l \in Reserved => pc[t] \in Reserved
                      /\ l \in Built \cup {"bind"} => pc[t] \in Built \cup {"bind"}
<1>1. CASE FindBox(t) \/ PickNumber(t) \/ SaveNumber(t) \/ Admit(t) \/ CreateLab(t)
  BY <1>1 DEF FindBox, PickNumber, SaveNumber, Admit, CreateLab, Goto, Reserved, Built
<1>2. CASE Bind(t) \/ CheckVmid(t)
  BY <1>2 DEF Bind, CheckVmid, Goto, Reserved, Built
<1>3. CASE ReapBeforeClone(t) \/ ReapFailedClone(t)
  BY <1>3 DEF ReapBeforeClone, ReapFailedClone, ReapOrphan, Goto, Reserved, Built
<1>4. CASE StartClone(t) \/ WaitClone(t) \/ CloneFailed(t)
  BY <1>4 DEF StartClone, WaitClone, CloneFailed, Goto, Reserved, Built
<1>5. CASE Configure(t) \/ BootBox(t) \/ ConfirmIp(t) \/ Record(t)
  BY <1>5 DEF Configure, BootBox, ConfirmIp, Record, Goto, Reserved, Built
<1>6. CASE Teardown(t) \/ ReleaseAfterError(t) \/ MarkError(t)
  BY <1>6 DEF Teardown, ReleaseAfterError, MarkError, Goto, Reserved, Built
<1> QED
  BY <1>1, <1>2, <1>3, <1>4, <1>5, <1>6 DEF ProvisionStep

\* Power tasks and sweeps change no provision's locals.
LEMMA OthersLocalsKept ==
  ASSUME ObjTyped, PcTyped, [Next]_vars,
         ~\E t \in Task : ProvisionStep(t) \/ CrashProvision(t)
  PROVE  /\ UNCHANGED <<hand, att>>
         /\ \A t \in Task : obj'[t] = obj[t] /\ pc'[t] = pc[t]
<1> USE Actors
<1>1. UNCHANGED <<hand, att>>
  BY DEF Next, vars, OpStep, StartBox, RecordStarted, StopBox, RecordStopped, DestroyBox, ReleaseBox,
         MarkDestroyed, RecordStatus, OnlyCalls, OthersLocals, CrashOp, Begin, SweepStep, ListNode,
         ReadReserved, SkipYoung, KillOrphan, Unlease, StaleQuery, SkipRecent, StaleRelease, StaleMark,
         LeaseQuery, LeaseRelease, SweepEnds, SweepLocals, AgeLab, FinishClone, AgeVm
<1>2. \/ obj' = obj
      \/ \E p \in Op \cup Sweep : \E x : obj' = [obj EXCEPT ![p] = x]
  BY DEF Next, vars, OpStep, StartBox, RecordStarted, StopBox, RecordStopped, DestroyBox, ReleaseBox,
         MarkDestroyed, RecordStatus, OnlyCalls, CrashOp, Begin, SweepStep, ListNode,
         ReadReserved, SkipYoung, KillOrphan, Unlease, StaleQuery, SkipRecent, StaleRelease, StaleMark,
         LeaseQuery, LeaseRelease, SweepEnds, AgeLab, FinishClone, AgeVm
<1>3. pc' = pc \/ \E p \in Op \cup Sweep : \E x : pc' = [pc EXCEPT ![p] = x]
  BY OpMoves, SweepMoves, OtherMoves DEF Next, vars
<1> QED
  BY <1>1, <1>2, <1>3 DEF ObjTyped, PcTyped

\* DeleteRow, which frees what is bound to the row (allocation.py:225-233).
LEMMA DeleteRowTyped ==
  ASSUME DbTyped, NEW id, DeleteRow(id)
  PROVE  row' \in [RowId -> RowSet \cup {NoVal}] /\ lease' \in [Ip -> LeaseSet]
  BY DEF DeleteRow, LeasesWithout, FreeLease, DbTyped, LeaseSet

LEMMA DbStep ==
  DbTyped /\ PcTyped /\ ProvisionsTyped /\ OpsTyped /\ SweepsTyped /\ [Next]_vars => DbTyped'
<1> SUFFICES ASSUME DbTyped, PcTyped, ProvisionsTyped, OpsTyped, SweepsTyped, [Next]_vars
             PROVE  DbTyped'
  OBVIOUS
<1>1. status' \in [Task -> StatusSet]
  BY StatusChanges DEF DbTyped
<1>2. ASSUME NEW t \in Task, Reserve(t) PROVE row' \in [RowId -> RowSet \cup {NoVal}] /\ lease' = lease
  <2>1. ASSUME NEW v \in Vmid PROVE [vmid |-> v, ip |-> NoVal] \in RowSet
    BY DEF RowSet
  <2> QED
    BY <1>2, <2>1 DEF Reserve, DbTyped
<1>3. ASSUME NEW t \in Task, LeaseIp(t) PROVE row' = row /\ lease' \in [Ip -> LeaseSet]
  <2>1. ASSUME NEW i \in Ip PROVE [lease[i] EXCEPT !.state = "leased"] \in LeaseSet
    BY DEF DbTyped, LeaseSet
  <2> QED
    BY <1>3, <2>1 DEF LeaseIp, FreeLeases, DbTyped
<1>4. ASSUME NEW t \in Task, Bind(t)
      PROVE  row' \in [RowId -> RowSet \cup {NoVal}] /\ lease' \in [Ip -> LeaseSet]
  <2>1. hand[t] \in Ip
    BY <1>4 DEF Bind, ProvisionsTyped, Built
  <2>2. obj[t].id \in Rows => [row[obj[t].id] EXCEPT !.ip = hand[t]] \in RowSet
    BY <2>1 DEF DbTyped, RowSet, Rows
  <2>3. obj[t].id \in Rows => [lease[hand[t]] EXCEPT !.vm = obj[t].id] \in LeaseSet
    BY <2>1 DEF DbTyped, LeaseSet, Rows
  <2> QED
    BY <1>4, <2>1, <2>2, <2>3 DEF Bind, DbTyped
<1>5. ASSUME NEW s \in Sweep, Unlease(s) \/ LeaseRelease(s)
      PROVE  row' = row /\ lease' \in [Ip -> LeaseSet]
  <2>1. FreeLease \in LeaseSet
    BY DEF FreeLease, LeaseSet
  <2> QED
    BY <1>5, <2>1 DEF Unlease, LeaseRelease, DbTyped
<1> QED
  BY <1>1, <1>2, <1>3, <1>4, <1>5, RowChanges, DeleteRowTyped DEF DbTyped

LEMMA FaultStep == FaultsTyped /\ [Next]_vars => FaultsTyped'
<1> SUFFICES ASSUME FaultsTyped, [Next]_vars PROVE FaultsTyped'
  OBVIOUS
<1>1. ASSUME NEW k, Fault(k) PROVE FaultsTyped'
  BY <1>1, SizeAssumption DEF Fault, FaultsTyped
<1>2. CASE UNCHANGED faults
  BY <1>2 DEF FaultsTyped
<1>3. ASSUME NEW t \in Task, ProvisionStep(t) PROVE (\E k : Fault(k)) \/ UNCHANGED faults
  BY <1>3 DEF ProvisionStep, FindBox, PickNumber, SaveNumber, Admit, CreateLab, Reserve, LeaseIp, Bind,
           CheckVmid, ReapBeforeClone, ReapOrphan, StartClone, WaitClone, CloneFailed, ReapFailedClone,
           DropReservation, Configure, BootBox, ConfirmIp, Record, Teardown, ReleaseAfterError, MarkError,
           NoFault
<1>4. ASSUME NEW o \in Op, OpStep(o) PROVE (\E k : Fault(k)) \/ UNCHANGED faults
  BY <1>4 DEF OpStep, StartBox, RecordStarted, StopBox, RecordStopped, DestroyBox, ReleaseBox,
         MarkDestroyed, RecordStatus, NoFault
<1>5. ASSUME NEW s \in Sweep, SweepStep(s) PROVE (\E k : Fault(k)) \/ UNCHANGED faults
  BY <1>5 DEF SweepStep, ListNode, ReadReserved, SkipYoung, KillOrphan, Unlease, StaleQuery, SkipRecent,
         StaleRelease, StaleMark, LeaseQuery, LeaseRelease, SweepEnds, NodeKept, NoFault
<1>6. ASSUME NEW t \in Task, AgeLab(t) PROVE (\E k : Fault(k)) \/ UNCHANGED faults
  BY <1>6 DEF AgeLab, OutlivesGrace, NoFault
<1>7. ASSUME NEW v \in Vmid, AgeVm(v) PROVE (\E k : Fault(k)) \/ UNCHANGED faults
  BY <1>7 DEF AgeVm, OutlivesGrace, NoFault
<1> QED
  BY <1>1, <1>2, <1>3, <1>4, <1>5, <1>6, <1>7
     DEF Next, vars, CrashProvision, CrashOp, Begin, FinishClone

\* How the numbers change: somebody picks one, or saves the one it picked.
LEMMA NumberChanges ==
  ASSUME [Next]_vars
  PROVE  \/ UNCHANGED numbers
         \/ \E t \in Task : PickNumber(t) \/ SaveNumber(t)
<1>1. ASSUME NEW t \in Task, ProvisionStep(t) PROVE UNCHANGED numbers \/ PickNumber(t) \/ SaveNumber(t)
  BY <1>1 DEF ProvisionStep, FindBox, Admit, CreateLab, Reserve, LeaseIp, Bind,
           CheckVmid, ReapBeforeClone, StartClone, WaitClone, CloneFailed, ReapFailedClone,
           DropReservation, Configure, BootBox, ConfirmIp, Record, Teardown, ReleaseAfterError, MarkError
<1>2. ASSUME NEW o \in Op, OpStep(o) PROVE UNCHANGED numbers
  BY <1>2 DEF OpStep, StartBox, RecordStarted, StopBox, RecordStopped, DestroyBox, ReleaseBox,
         MarkDestroyed, RecordStatus, OnlyCalls, OthersLocals
<1>3. ASSUME NEW s \in Sweep, SweepStep(s) PROVE UNCHANGED numbers
  BY <1>3 DEF SweepStep, ListNode, ReadReserved, SkipYoung, KillOrphan, Unlease, StaleQuery, SkipRecent,
         StaleRelease, StaleMark, LeaseQuery, LeaseRelease, SweepEnds, SweepLocals
<1> QED
  BY <1>1, <1>2, <1>3 DEF Next, vars, numbers, CrashProvision, CrashOp, OnlyCalls, OthersLocals, Begin,
         AgeLab, FinishClone, AgeVm, SweepLocals

LEMMA AgesStep == AgesTyped /\ [Next]_vars => AgesTyped'
<1> SUFFICES ASSUME AgesTyped, [Next]_vars PROVE AgesTyped'
  OBVIOUS
<1> USE DEF AgesTyped, ages
<1>1. ASSUME NEW t \in Task, ProvisionStep(t) PROVE AgesTyped'
  BY <1>1 DEF ProvisionStep, FindBox, PickNumber, SaveNumber, Admit, CreateLab, Reserve, LeaseIp, Bind,
           CheckVmid, ReapBeforeClone, StartClone, WaitClone, CloneFailed, ReapFailedClone,
           DropReservation, Configure, BootBox, ConfirmIp, Record, Teardown, ReleaseAfterError, MarkError
<1>2. ASSUME NEW o \in Op, OpStep(o) PROVE AgesTyped'
  BY <1>2 DEF OpStep, StartBox, RecordStarted, StopBox, RecordStopped, DestroyBox, ReleaseBox,
         MarkDestroyed, RecordStatus, OnlyCalls
<1>3. ASSUME NEW s \in Sweep, SweepStep(s) PROVE AgesTyped'
  BY <1>3 DEF SweepStep, ListNode, ReadReserved, SkipYoung, KillOrphan, Unlease, StaleQuery, SkipRecent,
         StaleRelease, StaleMark, LeaseQuery, LeaseRelease, SweepEnds, NodeKept
<1> QED
  BY <1>1, <1>2, <1>3 DEF Next, vars, CrashProvision, CrashOp, OnlyCalls, Begin,
         AgeLab, FinishClone, AgeVm

\* What a provision picks is a number that is not negative.
LEMMA PicksAreNumbers ==
  ASSUME NumbersTyped, NEW t \in Task, PickNumber(t)
  PROVE  index' = index /\ pick' \in [Task -> Nat \cup {NoVal}]
<1>1. \/ pick' = pick
      \/ \E i \in 1 .. Cardinality(Student) + 1 : pick' = [pick EXCEPT ![t] = i]
  BY DEF PickNumber
<1>2. 1 .. Cardinality(Student) + 1 \subseteq Nat
  OBVIOUS
<1> QED
  BY <1>1, <1>2 DEF PickNumber, NumbersTyped

LEMMA NumbersStep ==
  NumbersTyped /\ PcTyped /\ [Next]_vars => NumbersTyped'
<1> SUFFICES ASSUME NumbersTyped, PcTyped, [Next]_vars PROVE NumbersTyped'
  OBVIOUS
<1>1. ASSUME NEW t \in Task, PickNumber(t) PROVE NumbersTyped'
  BY <1>1, PicksAreNumbers DEF NumbersTyped
<1>2. ASSUME NEW t \in Task, SaveNumber(t) PROVE NumbersTyped'
  BY <1>2, StudentAssumption DEF SaveNumber, NumbersTyped, Me
<1>3. CASE UNCHANGED numbers
  BY <1>3 DEF numbers, NumbersTyped
<1> QED
  BY <1>1, <1>2, <1>3, NumberChanges

LEMMA ProvisionsStep ==
  ObjTyped /\ DbTyped /\ PcTyped /\ ProvisionsTyped /\ [Next]_vars => ProvisionsTyped'
<1> SUFFICES ASSUME ObjTyped, DbTyped, PcTyped, ProvisionsTyped, [Next]_vars PROVE ProvisionsTyped'
  OBVIOUS
<1> USE Actors
<1>1. ASSUME NEW t \in Task, UNCHANGED <<obj, hand, att>>, NEW l, pc' = [pc EXCEPT ![t] = l],
             l \in Reserved => pc[t] \in Reserved,
             l \in Built \cup {"bind"} => pc[t] \in Built \cup {"bind"}
      PROVE  ProvisionsTyped'
  BY <1>1 DEF ProvisionsTyped, PcTyped, OwnObj
<1>2. ASSUME NEW t \in Task, Reserve(t) PROVE ProvisionsTyped'
  <2>1. UNCHANGED <<hand, att>>
    BY <1>2 DEF Reserve
  <2>2. ASSUME obj' = obj, pc' = [pc EXCEPT ![t] = "teardown"] PROVE ProvisionsTyped'
    BY <2>1, <2>2 DEF ProvisionsTyped, PcTyped, OwnObj, Reserved, Built
  <2>3. ASSUME NEW v \in Vmid, obj' = [obj EXCEPT ![t] = [id |-> <<t, att[t]>>, vmid |-> v]],
               pc' = [pc EXCEPT ![t] = "lease"]
        PROVE  ProvisionsTyped'
    BY <2>1, <2>3 DEF ProvisionsTyped, PcTyped, ObjTyped, OwnObj, Built
  <2> QED
    BY <1>2, <2>2, <2>3 DEF Reserve, Goto
<1>3. ASSUME NEW t \in Task, LeaseIp(t) PROVE ProvisionsTyped'
  <2>1. UNCHANGED <<obj, att>> /\ pc[t] = "lease"
    BY <1>3 DEF LeaseIp
  <2>2. \/ hand' = hand /\ pc' = [pc EXCEPT ![t] = "teardown"]
        \/ \E i \in Ip : hand' = [hand EXCEPT ![t] = i] /\ pc' = [pc EXCEPT ![t] = "bind"]
    BY <1>3 DEF LeaseIp, Goto, FreeLeases
  <2> QED
    BY <2>1, <2>2 DEF ProvisionsTyped, PcTyped, OwnObj, Reserved, Built
<1>4. ASSUME NEW t \in Task, DropReservation(t) PROVE ProvisionsTyped'
  <2>1. /\ obj' = [obj EXCEPT ![t] = NoVal] /\ hand' = [hand EXCEPT ![t] = NoVal]
        /\ att' = att \/ (att[t] < Attempts /\ att' = [att EXCEPT ![t] = att[t] + 1])
        /\ \E l \in {"reserve", "teardown"} : pc' = [pc EXCEPT ![t] = l]
    BY <1>4 DEF DropReservation, Goto
  <2>2. att' \in [Task -> 1 .. Attempts] /\ \A u \in Task \ {t} : att'[u] = att[u]
    BY <2>1, SizeAssumption DEF ProvisionsTyped
  <2> QED
    BY <2>1, <2>2 DEF ProvisionsTyped, PcTyped, ObjTyped, OwnObj, Reserved, Built
<1>5. ASSUME NEW t \in Task, CrashProvision(t) PROVE ProvisionsTyped'
  BY <1>1, <1>5 DEF CrashProvision, Goto, Reserved, Built
<1>6. CASE ~\E t \in Task : ProvisionStep(t) \/ CrashProvision(t)
  BY <1>6, OthersLocalsKept DEF ProvisionsTyped, OwnObj
<1> QED
  BY <1>1, <1>2, <1>3, <1>4, <1>5, <1>6, ProvisionLocals

\* A deleted row was the last of a lab whose attempt is about to change.
LEMMA RowsStep ==
  DbTyped /\ ObjTyped /\ PcTyped /\ ProvisionsTyped /\ RowsOfAttempt /\ [Next]_vars => RowsOfAttempt'
<1> SUFFICES ASSUME DbTyped, ObjTyped, PcTyped, ProvisionsTyped, RowsOfAttempt, [Next]_vars
             PROVE  RowsOfAttempt'
  OBVIOUS
<1> USE DEF RowsOfAttempt, Rows
<1>1. ASSUME NEW t \in Task, Reserve(t) PROVE RowsOfAttempt'
  <2>1. att' = att /\ (row' = row \/ \E x : row' = [row EXCEPT ![<<t, att[t]>>] = x])
    BY <1>1 DEF Reserve
  <2>2. ASSUME NEW id \in RowId, row'[id] # NoVal PROVE id[2] = att[id[1]]
    <3>1. CASE id = <<t, att[t]>>
      BY <3>1
    <3>2. CASE id # <<t, att[t]>>
      BY <2>1, <2>2, <3>2 DEF DbTyped
    <3> QED
      BY <3>1, <3>2
  <2> QED
    BY <2>1, <2>2
<1>2. ASSUME NEW t \in Task, LeaseIp(t) \/ Bind(t) PROVE RowsOfAttempt'
  BY <1>2 DEF LeaseIp, Bind, DbTyped
<1>3. ASSUME NEW t \in Task, DropReservation(t) PROVE RowsOfAttempt'
  <2>1. obj[t].id = <<t, att[t]>>
    BY <1>3 DEF DropReservation, ProvisionsTyped, OwnObj, Reserved, Built
  <2>2. row' = [row EXCEPT ![<<t, att[t]>>] = NoVal]
    BY <1>3, <2>1 DEF DropReservation, DropRow, DeleteRow
  <2>3. ASSUME NEW id \in RowId, row'[id] # NoVal PROVE id[1] # t /\ id[2] = att[id[1]]
    BY <2>2, <2>3 DEF RowId, DbTyped
  <2>4. \A u \in Task \ {t} : att'[u] = att[u]
    BY <1>3 DEF DropReservation, ProvisionsTyped
  <2> QED
    BY <2>3, <2>4 DEF RowId
<1>4. CASE att' = att
  <2>1. ASSUME NEW id, DeleteRow(id) PROVE RowsOfAttempt'
    BY <1>4, <2>1 DEF DeleteRow, DbTyped
  <2>2. CASE row' = row
    BY <1>4, <2>2
  <2> QED
    BY <1>1, <1>2, <2>1, <2>2, RowChanges DEF Unlease, LeaseRelease
<1>5. ASSUME NEW t \in Task, ProvisionStep(t) \/ CrashProvision(t)
      PROVE  Reserve(t) \/ LeaseIp(t) \/ DropReservation(t) \/ att' = att
  BY <1>5, ProvisionLocals DEF CrashProvision
<1> QED
  BY <1>1, <1>2, <1>3, <1>4, <1>5, OthersLocalsKept

LEMMA ObjStep ==
  DbTyped /\ ObjTyped /\ PcTyped /\ SweepsTyped /\ ProvisionsTyped /\ [Next]_vars => ObjTyped'
<1> SUFFICES ASSUME DbTyped, ObjTyped, PcTyped, SweepsTyped, ProvisionsTyped, [Next]_vars PROVE ObjTyped'
  OBVIOUS
<1> USE Actors DEF ObjTyped
<1>1. ASSUME NEW p \in Proc, NEW x \in ObjSet \cup {NoVal}, obj' = [obj EXCEPT ![p] = x] PROVE ObjTyped'
  BY <1>1
<1>2. ASSUME NEW id \in RowId \cup {NoVal}, NEW v \in Vmid \cup {NoVal}
      PROVE  [id |-> id, vmid |-> v] \in ObjSet
  BY DEF ObjSet
<1>3. ASSUME NEW t \in Task, ProvisionStep(t) PROVE ObjTyped'
  <2>1. CASE Reserve(t)
    <3>1. <<t, att[t]>> \in RowId
      BY DEF ProvisionsTyped, RowId
    <3> QED
      BY <1>1, <1>2, <2>1, <3>1 DEF Reserve
  <2>2. CASE DropReservation(t)
    BY <1>1, <2>2 DEF DropReservation
  <2>3. CASE obj' = obj
    BY <2>3
  <2> QED
    BY <1>3, <2>1, <2>2, <2>3, ProvisionLocals DEF LeaseIp
<1>4. ASSUME NEW o \in Op, OpStep(o) \/ CrashOp(o) PROVE obj' = obj
  BY <1>4 DEF OpStep, StartBox, RecordStarted, StopBox, RecordStopped, DestroyBox, ReleaseBox,
         MarkDestroyed, RecordStatus, OnlyCalls, CrashOp
<1>5. ASSUME NEW o \in Op, NEW kind \in OpKinds, NEW l \in Task, Begin(o, kind, l) PROVE ObjTyped'
  <2>1. ASSUME NEW id \in LabRows(l) PROVE id \in RowId /\ row[id].vmid \in Vmid
    BY DEF LabRows, Rows, DbTyped, RowSet
  <2> QED
    BY <1>1, <1>2, <1>5, <2>1 DEF Begin
<1>6. ASSUME NEW s \in Sweep, SweepStep(s) PROVE ObjTyped'
  <2>1. CASE KillOrphan(s)
    <3>1. pc[s] = "orphans" => todo[s] \subseteq Vmid
      BY DEF SweepsTyped
    <3> QED
      BY <1>1, <1>2, <2>1, <3>1 DEF KillOrphan
  <2>2. CASE StaleRelease(s)
    <3>1. pc[s] = "stale" => todo[s] \subseteq RowId
      BY DEF SweepsTyped
    <3> QED
      BY <1>1, <1>2, <2>2, <3>1 DEF StaleRelease
  <2>3. CASE Unlease(s) \/ StaleMark(s)
    BY <1>1, <2>3 DEF Unlease, StaleMark
  <2>4. CASE obj' = obj
    BY <2>4
  <2> QED
    BY <1>6, <2>1, <2>2, <2>3, <2>4 DEF SweepStep, ListNode, ReadReserved, SkipYoung, StaleQuery,
         SkipRecent, LeaseQuery, LeaseRelease, SweepEnds
<1> QED
  BY <1>3, <1>4, <1>5, <1>6 DEF Next, vars, CrashProvision, AgeLab, FinishClone, AgeVm

\* A power task: what it has loaded stays as it is until it ends.
LEMMA OpsStep ==
  DbTyped /\ ObjTyped /\ PcTyped /\ OpsTyped /\ [Next]_vars => OpsTyped'
<1> SUFFICES ASSUME DbTyped, ObjTyped, PcTyped, OpsTyped, [Next]_vars PROVE OpsTyped'
  OBVIOUS
<1> USE Actors
<1>1. ASSUME NEW o \in Op, OpStep(o) \/ CrashOp(o) PROVE OpsTyped'
  <2>1. UNCHANGED <<was, obj>>
    BY <1>1 DEF OpStep, StartBox, RecordStarted, StopBox, RecordStopped, DestroyBox, ReleaseBox,
         MarkDestroyed, RecordStatus, OnlyCalls, CrashOp
  <2>2. \E l : /\ pc' = [pc EXCEPT ![o] = l] /\ pc[o] \notin {"idle", "done"}
               /\ l \notin {"destroyed", "done"} => pc[o] # "destroyed"
    BY <1>1 DEF OpStep, StartBox, RecordStarted, StopBox, RecordStopped, DestroyBox, ReleaseBox,
         MarkDestroyed, RecordStatus, CrashOp, Goto
  <2> QED
    BY <2>1, <2>2 DEF OpsTyped, PcTyped
<1>2. ASSUME NEW o \in Op, NEW kind \in OpKinds, NEW l \in Task, Begin(o, kind, l) PROVE OpsTyped'
  <2>1. [kind |-> kind, lab |-> l, status |-> status[l], early |-> InFlight(l)] \in WasSet
    <3>1. InFlight(l) \in BOOLEAN
      BY DEF InFlight
    <3> QED
      BY <3>1 DEF WasSet, DbTyped
  <2>2. ASSUME NEW id \in LabRows(l) PROVE id \in RowId /\ row[id].vmid \in Vmid
    BY DEF LabRows, Rows, DbTyped, RowSet
  <2>3. was' = [was EXCEPT ![o] =
           [kind |-> kind, lab |-> l, status |-> status[l], early |-> InFlight(l)]]
    BY <1>2 DEF Begin
  <2>4. \/ \E id \in RowId, v \in Vmid : /\ obj' = [obj EXCEPT ![o] = [id |-> id, vmid |-> v]]
                                         /\ pc' = [pc EXCEPT ![o] = kind]
        \/ obj' = obj /\ pc' = [pc EXCEPT ![o] = "destroyed"]
    BY <1>2, <2>2 DEF Begin, Goto
  <2>5. was' \in [Op -> WasSet \cup {NoVal}] /\ was'[o] \in WasSet /\ \A q \in Op \ {o} : was'[q] = was[q]
    BY <2>1, <2>3 DEF OpsTyped
  <2>6. \A q \in Op \ {o} : obj'[q] = obj[q] /\ pc'[q] = pc[q]
    BY <2>4 DEF ObjTyped, PcTyped
  <2>7. pc'[o] \notin {"idle", "done", "destroyed"} => obj'[o].id \in RowId /\ obj'[o].vmid \in Vmid
    BY <2>4 DEF ObjTyped, PcTyped
  <2> QED
    BY <2>5, <2>6, <2>7 DEF OpsTyped
<1>3. ASSUME NEW t \in Task, ProvisionStep(t) \/ CrashProvision(t)
      PROVE  /\ \E l : pc' = [pc EXCEPT ![t] = l]
             /\ obj' = obj \/ \E x : obj' = [obj EXCEPT ![t] = x]
             /\ was' = was
  <2>1. was' = was
    BY <1>3 DEF ProvisionStep, FindBox, PickNumber, SaveNumber, Admit, CreateLab, Reserve, LeaseIp, Bind,
           CheckVmid, ReapBeforeClone, StartClone, WaitClone, CloneFailed, ReapFailedClone,
           DropReservation, Configure, BootBox, ConfirmIp, Record, Teardown, ReleaseAfterError, MarkError,
           CrashProvision
  <2>2. obj' = obj \/ \E x : obj' = [obj EXCEPT ![t] = x]
    BY <1>3, ProvisionLocals DEF CrashProvision, Reserve, LeaseIp, DropReservation
  <2> QED
    BY <1>3, <2>1, <2>2, ProvisionMoves, OtherMoves
<1>4. ASSUME NEW s \in Sweep, SweepStep(s)
      PROVE  /\ pc' = pc \/ \E l : pc' = [pc EXCEPT ![s] = l]
             /\ obj' = obj \/ \E x : obj' = [obj EXCEPT ![s] = x]
             /\ was' = was
  <2>1. obj' = obj \/ \E x : obj' = [obj EXCEPT ![s] = x]
    BY <1>4 DEF SweepStep, ListNode, ReadReserved, SkipYoung, KillOrphan, Unlease, StaleQuery, SkipRecent,
         StaleRelease, StaleMark, LeaseQuery, LeaseRelease, SweepEnds
  <2>2. was' = was
    BY <1>4 DEF SweepStep, ListNode, ReadReserved, SkipYoung, KillOrphan, Unlease, StaleQuery, SkipRecent,
         StaleRelease, StaleMark, LeaseQuery, LeaseRelease, SweepEnds, SweepLocals
  <2> QED
    BY <1>4, <2>1, <2>2, SweepMoves
<1>5. CASE UNCHANGED <<obj, pc, was>>
  BY <1>5 DEF OpsTyped
<1> QED
  BY <1>1, <1>2, <1>3, <1>4, <1>5
     DEF Next, vars, AgeLab, FinishClone, AgeVm, SweepLocals, OpsTyped, PcTyped, ObjTyped

\* What a sweep works from and has yet to process, by its phase.
SweepHolds(s) ==
  /\ pc[s] \in {"orphans", "unlease"} => todo[s] \subseteq Vmid
  /\ pc[s] \in {"stale", "mark"} => todo[s] \subseteq RowId
  /\ pc[s] = "leases" => todo[s] \subseteq Ip
  /\ pc[s] = "unlease" => obj[s].vmid \in Vmid
  /\ pc[s] = "mark" => obj[s].id \in RowId

LEMMA SweepGoesOn ==
  ASSUME DbTyped, ObjTyped, PcTyped, AgesTyped, SweepsTyped, NEW s \in Sweep, SweepStep(s)
  PROVE  /\ snap' = snap \/ \E x \in SnapSet : snap' = [snap EXCEPT ![s] = x]
         /\ todo' = todo \/ \E x \in SUBSET (Vmid \cup RowId \cup Ip) : todo' = [todo EXCEPT ![s] = x]
         /\ obj' = obj \/ \E x : obj' = [obj EXCEPT ![s] = x]
         /\ SweepHolds(s)'
<1> USE Actors DEF SweepHolds
<1>1. SweepHolds(s) /\ todo[s] \subseteq Vmid \cup RowId \cup Ip /\ snap[s] \in SnapSet
  BY DEF SweepsTyped
<1>2. CASE ListNode(s) \/ ReadReserved(s)
  <2>1. NoSnap \in SnapSet
    BY DEF NoSnap, SnapSet
  <2>2. [live |-> Listed, reserved |-> {}, oldRunning |-> {v \in oldVm : Running(v)},
         oldLab |-> oldLab] \in SnapSet
    BY DEF SnapSet, Listed, AgesTyped
  <2>3. RowVmids \subseteq Vmid
    BY DEF RowVmids, Rows, DbTyped, RowSet
  <2>4. [snap[s] EXCEPT !.reserved = RowVmids] \in SnapSet
    BY <1>1, <2>3 DEF SnapSet
  <2>5. snap[s].live \ RowVmids \subseteq Vmid
    BY <1>1 DEF SnapSet
  <2>6. CASE ListNode(s)
    BY <1>1, <2>2, <2>6 DEF ListNode, Goto, PcTyped
  <2>7. CASE ReadReserved(s)
    <3>1. /\ snap' = [snap EXCEPT ![s] = [snap[s] EXCEPT !.reserved = RowVmids]]
          /\ todo' = [todo EXCEPT ![s] = snap[s].live \ RowVmids]
          /\ obj' = obj /\ pc' = [pc EXCEPT ![s] = "orphans"]
      BY <2>7 DEF ReadReserved, ReservedVmids, Goto, SweepsTyped
    <3>2. SweepHolds(s)'
      BY <2>5, <3>1 DEF PcTyped, SweepsTyped
    <3> QED
      BY <2>4, <2>5, <3>1, <3>2
  <2> QED
    BY <1>2, <2>6, <2>7
<1>3. CASE SkipYoung(s) \/ SkipRecent(s) \/ LeaseRelease(s)
  <2>1. \E x : todo' = [todo EXCEPT ![s] = todo[s] \ {x}]
    BY <1>3 DEF SkipYoung, SkipRecent, LeaseRelease
  <2>2. UNCHANGED <<snap, obj, pc>>
    BY <1>3 DEF SkipYoung, SkipRecent, LeaseRelease
  <2> QED
    BY <1>1, <2>1, <2>2 DEF SweepsTyped
<1>4. CASE KillOrphan(s)
  <2>1. todo[s] \subseteq Vmid
    BY <1>1, <1>4 DEF KillOrphan
  <2>2. ASSUME NEW v \in Vmid, obj' = [obj EXCEPT ![s] = [id |-> NoVal, vmid |-> v]],
               Goto(s, "unlease"), UNCHANGED <<snap, todo>>
        PROVE  SweepHolds(s)'
    BY <2>1, <2>2 DEF Goto, PcTyped, ObjTyped
  <2>3. ASSUME Goto(s, "idle"), snap' = [snap EXCEPT ![s] = NoSnap], todo' = [todo EXCEPT ![s] = {}],
               obj' = obj
        PROVE  SweepHolds(s)' /\ NoSnap \in SnapSet
    BY <2>3 DEF Goto, PcTyped, NoSnap, SnapSet
  <2> QED
    BY <1>4, <2>1, <2>2, <2>3 DEF KillOrphan
<1>5. CASE Unlease(s)
  <2>1. todo' = [todo EXCEPT ![s] = todo[s] \ {obj[s].vmid}] /\ snap' = snap
        /\ obj' = [obj EXCEPT ![s] = NoVal] /\ pc' = [pc EXCEPT ![s] = "orphans"]
    BY <1>5 DEF Unlease, Goto
  <2> QED
    BY <1>1, <1>5, <2>1 DEF Unlease, PcTyped, SweepsTyped
<1>6. CASE StaleQuery(s) \/ LeaseQuery(s)
  <2>1. \/ \E x \in SUBSET RowId : todo' = [todo EXCEPT ![s] = x] /\ pc' = [pc EXCEPT ![s] = "stale"]
        \/ \E x \in SUBSET Ip : todo' = [todo EXCEPT ![s] = x] /\ pc' = [pc EXCEPT ![s] = "leases"]
    BY <1>6 DEF StaleQuery, LeaseQuery, Goto, Rows
  <2>2. UNCHANGED <<snap, obj>>
    BY <1>6 DEF StaleQuery, LeaseQuery
  <2> QED
    BY <2>1, <2>2 DEF PcTyped, SweepsTyped
<1>7. CASE StaleRelease(s)
  <2>1. PICK id \in todo[s] : /\ obj' = [obj EXCEPT ![s] = [id |-> id, vmid |-> NoVal]]
                             /\ todo' = [todo EXCEPT ![s] = todo[s] \ {id}]
    BY <1>7 DEF StaleRelease
  <2>2. todo[s] \subseteq RowId /\ snap' = snap /\ pc' = [pc EXCEPT ![s] = "mark"]
    BY <1>1, <1>7 DEF StaleRelease, Goto
  <2>3. obj'[s].id \in RowId /\ todo'[s] \subseteq RowId /\ pc'[s] = "mark"
    BY <2>1, <2>2 DEF PcTyped, SweepsTyped, ObjTyped
  <2>4. todo[s] \ {id} \in SUBSET (Vmid \cup RowId \cup Ip)
    BY <2>2
  <2> QED
    BY <2>1, <2>2, <2>3, <2>4
<1>8. CASE StaleMark(s)
  <2>1. obj' = [obj EXCEPT ![s] = NoVal] /\ pc' = [pc EXCEPT ![s] = "stale"] /\ UNCHANGED <<snap, todo>>
    BY <1>8 DEF StaleMark, Goto, sweeps
  <2> QED
    BY <1>1, <1>8, <2>1 DEF StaleMark, PcTyped
<1>9. CASE SweepEnds(s)
  <2>1. NoSnap \in SnapSet
    BY DEF NoSnap, SnapSet
  <2> QED
    BY <1>9, <2>1 DEF SweepEnds, Goto, PcTyped
<1> QED
  BY <1>2, <1>3, <1>4, <1>5, <1>6, <1>7, <1>8, <1>9 DEF SweepStep

LEMMA SweepsStep ==
  DbTyped /\ ObjTyped /\ PcTyped /\ AgesTyped /\ SweepsTyped /\ [Next]_vars => SweepsTyped'
<1> SUFFICES ASSUME DbTyped, ObjTyped, PcTyped, AgesTyped, SweepsTyped, [Next]_vars PROVE SweepsTyped'
  OBVIOUS
<1> USE Actors
<1>1. ASSUME NEW s \in Sweep, SweepStep(s) PROVE SweepsTyped'
  <2>1. snap' \in [Sweep -> SnapSet] /\ todo' \in [Sweep -> SUBSET (Vmid \cup RowId \cup Ip)]
    BY <1>1, SweepGoesOn DEF SweepsTyped
  <2>2. ASSUME NEW q \in Sweep \ {s} PROVE SweepHolds(q)'
    <3>1. SweepHolds(q)
      BY DEF SweepsTyped, SweepHolds
    <3>2. pc'[q] = pc[q]
      BY <1>1, SweepMoves DEF PcTyped
    <3>3. obj'[q] = obj[q] /\ todo'[q] = todo[q]
      BY <1>1, SweepGoesOn DEF ObjTyped, SweepsTyped
    <3> QED
      BY <3>1, <3>2, <3>3 DEF SweepHolds
  <2>3. SweepHolds(s)'
    BY <1>1, SweepGoesOn
  <2> QED
    BY <2>1, <2>2, <2>3 DEF SweepsTyped, SweepHolds
<1>2. ASSUME UNCHANGED sweeps, \A s \in Sweep : obj'[s] = obj[s] /\ pc'[s] = pc[s] PROVE SweepsTyped'
  BY <1>2 DEF SweepsTyped, sweeps
<1>3. ASSUME NEW t \in Task, ProvisionStep(t) \/ CrashProvision(t)
      PROVE  /\ \E l : pc' = [pc EXCEPT ![t] = l]
             /\ obj' = obj \/ \E x : obj' = [obj EXCEPT ![t] = x]
             /\ UNCHANGED sweeps
  <2>1. UNCHANGED sweeps
    BY <1>3 DEF ProvisionStep, FindBox, PickNumber, SaveNumber, Admit, CreateLab, Reserve, LeaseIp, Bind,
           CheckVmid, ReapBeforeClone, StartClone, WaitClone, CloneFailed, ReapFailedClone,
           DropReservation, Configure, BootBox, ConfirmIp, Record, Teardown, ReleaseAfterError, MarkError,
           CrashProvision
  <2>2. obj' = obj \/ \E x : obj' = [obj EXCEPT ![t] = x]
    BY <1>3, ProvisionLocals DEF CrashProvision, Reserve, LeaseIp, DropReservation
  <2> QED
    BY <1>3, <2>1, <2>2, ProvisionMoves, OtherMoves
<1>4. ASSUME NEW o \in Op, OpStep(o) \/ CrashOp(o) \/ \E kind \in OpKinds, l \in Task : Begin(o, kind, l)
      PROVE  /\ \E l : pc' = [pc EXCEPT ![o] = l]
             /\ obj' = obj \/ \E x : obj' = [obj EXCEPT ![o] = x]
             /\ UNCHANGED sweeps
  <2>1. UNCHANGED sweeps
    BY <1>4 DEF OpStep, StartBox, RecordStarted, StopBox, RecordStopped, DestroyBox, ReleaseBox,
         MarkDestroyed, RecordStatus, OnlyCalls, OthersLocals, CrashOp, Begin
  <2>2. obj' = obj \/ \E x : obj' = [obj EXCEPT ![o] = x]
    BY <1>4 DEF OpStep, StartBox, RecordStarted, StopBox, RecordStopped, DestroyBox, ReleaseBox,
         MarkDestroyed, RecordStatus, OnlyCalls, CrashOp, Begin
  <2> QED
    BY <1>4, <2>1, <2>2, OpMoves, OtherMoves
<1>5. ASSUME NEW p \in Task \cup Op, \E l : pc' = [pc EXCEPT ![p] = l],
             obj' = obj \/ \E x : obj' = [obj EXCEPT ![p] = x], UNCHANGED sweeps
      PROVE  SweepsTyped'
  <2>1. \A s \in Sweep : obj'[s] = obj[s] /\ pc'[s] = pc[s]
    BY <1>5 DEF PcTyped, ObjTyped
  <2> QED
    BY <1>2, <1>5, <2>1
<1>6. CASE UNCHANGED <<sweeps, obj, pc>>
  BY <1>2, <1>6
<1>7. ASSUME NEW t \in Task, ProvisionStep(t) \/ CrashProvision(t) PROVE SweepsTyped'
  BY <1>3, <1>5, <1>7
<1>8. ASSUME NEW o \in Op, OpStep(o) \/ CrashOp(o) \/ \E kind \in OpKinds, l \in Task : Begin(o, kind, l)
      PROVE  SweepsTyped'
  BY <1>4, <1>5, <1>8
<1> QED
  BY <1>1, <1>6, <1>7, <1>8 DEF Next, vars, sweeps, AgeLab, FinishClone, AgeVm

-----------------------------------------------------------------------------
(* The node *)

\* A change of one VM that is there and is no clone under way: it is gone, or it was
\* usable, stays so and is still its cloner's; only the provision that configures it sets
\* its address.
Altered == \E v \in Vmid, y \in VmSet \cup {NoVal} :
             /\ vm' = [vm EXCEPT ![v] = y] /\ vm[v] # NoVal /\ vm[v].st # "cloning"
             /\ y # NoVal => Usable(v) /\ y.by = vm[v].by /\ y.st \in {"stopped", "running"}
             /\ y # NoVal => y.ip = vm[v].ip \/ \E t \in Task : Configure(t) /\ V(t) = v

LEMMA Alterations ==
  ASSUME NodeTyped, NEW v \in Vmid
  PROVE  /\ Destroyable(v) /\ Destroy(v) => Altered
         /\ Running(v) /\ PowerOff(v) => Altered
         /\ Usable(v) /\ Boot(v) => vm' = vm \/ Altered
         /\ \A i \in Ip, t \in Task :
              Usable(v) /\ vm' = [vm EXCEPT ![v].ip = i] /\ Configure(t) /\ V(t) = v => Altered
<1>1. vm[v] # NoVal => vm[v] \in VmSet
  BY DEF NodeTyped
<1>2. ASSUME Destroyable(v), Destroy(v) PROVE Altered
  BY <1>2 DEF Destroyable, Present, Destroy, Altered
<1>3. ASSUME Running(v), PowerOff(v) PROVE Altered
  <2> DEFINE y == [vm[v] EXCEPT !.st = "stopped", !.guest = NoVal]
  <2>1. y \in VmSet /\ y.by = vm[v].by /\ y.ip = vm[v].ip /\ y.st = "stopped"
    BY <1>1, <1>3 DEF Running, Exists, VmSet
  <2>2. vm' = [vm EXCEPT ![v] = y]
    BY <1>3 DEF PowerOff, NodeTyped
  <2> HIDE DEF y
  <2> QED
    BY <1>3, <2>1, <2>2, NullAssumption DEF Running, Usable, Exists, Altered
<1>4. ASSUME Usable(v), Boot(v) PROVE vm' = vm \/ Altered
  <2> DEFINE y == [vm[v] EXCEPT !.st = "running", !.guest = vm[v].ip]
  <2>1. y \in VmSet /\ y.by = vm[v].by /\ y.ip = vm[v].ip /\ y.st = "running"
    BY <1>1, <1>4 DEF Usable, Exists, VmSet
  <2>2. vm' = vm \/ vm' = [vm EXCEPT ![v] = y]
    BY <1>4 DEF Boot, NodeTyped
  <2> HIDE DEF y
  <2> QED
    BY <1>4, <2>1, <2>2, NullAssumption DEF Running, Usable, Exists, Altered
<1>5. ASSUME NEW i \in Ip, NEW t \in Task, Usable(v), vm' = [vm EXCEPT ![v].ip = i], Configure(t), V(t) = v
      PROVE  Altered
  <2> DEFINE y == [vm[v] EXCEPT !.ip = i]
  <2>1. y \in VmSet /\ y.by = vm[v].by /\ y.st = vm[v].st
    BY <1>1, <1>5 DEF Usable, Exists, VmSet
  <2>2. vm' = [vm EXCEPT ![v] = y]
    BY <1>5 DEF NodeTyped
  <2> HIDE DEF y
  <2> QED
    BY <1>5, <2>1, <2>2, NullAssumption DEF Running, Usable, Exists, Altered
<1> QED
  BY <1>2, <1>3, <1>4, <1>5

\* How a step may change the node: it begins, ends or fails a clone, or alters a VM
\* that nobody clones.
LEMMA NodeChanges ==
  ASSUME NodeTyped, ProvisionsTyped, OpsTyped, SweepsTyped, [Next]_vars
  PROVE  \/ vm' = vm \/ Altered
         \/ \E t \in Task : StartClone(t) \/ WaitClone(t)
         \/ \E v \in Vmid : FinishClone(v)
<1>1. ASSUME NEW t \in Task, ProvisionStep(t)
      PROVE  vm' = vm \/ Altered \/ StartClone(t) \/ WaitClone(t)
  <2>1. pc[t] \in Reserved \/ obj[t] # NoVal => obj[t].vmid \in Vmid
    BY DEF ProvisionsTyped, OwnObj
  <2>2. CASE ReapBeforeClone(t) \/ ReapFailedClone(t)
    <3>1. vm' = vm \/ (Destroyable(V(t)) /\ Destroy(V(t)))
      BY <2>2 DEF ReapBeforeClone, ReapFailedClone, ReapOrphan, Reapable
    <3>2. V(t) \in Vmid
      BY <2>1, <2>2 DEF ReapBeforeClone, ReapFailedClone, Reserved, Built, V
    <3> QED
      BY <3>1, <3>2, Alterations
  <2>3. CASE Configure(t)
    <3>1. V(t) \in Vmid /\ hand[t] \in Ip
      BY <2>1, <2>3 DEF Configure, Reserved, Built, V, ProvisionsTyped
    <3>2. vm' = vm \/ (Usable(V(t)) /\ vm' = [vm EXCEPT ![V(t)].ip = hand[t]])
      BY <2>3 DEF Configure
    <3> QED
      BY <2>3, <3>1, <3>2, Alterations
  <2>4. CASE BootBox(t)
    <3>1. V(t) \in Vmid
      BY <2>1, <2>4 DEF BootBox, Reserved, Built, V
    <3>2. vm' = vm \/ (Usable(V(t)) /\ Boot(V(t)))
      BY <2>4 DEF BootBox
    <3> QED
      BY <3>1, <3>2, Alterations
  <2>5. CASE Teardown(t)
    <3>1. vm' = vm \/ (obj[t] # NoVal /\ ((Destroyable(V(t)) /\ Destroy(V(t))) \/ (Running(V(t)) /\ PowerOff(V(t)))))
      BY <2>5 DEF Teardown, TeardownCan
    <3> QED
      BY <2>1, <3>1, Alterations DEF V
  <2> QED
    BY <1>1, <2>2, <2>3, <2>4, <2>5
       DEF ProvisionStep, FindBox, PickNumber, SaveNumber, Admit, CreateLab, Reserve, LeaseIp, Bind,
           CheckVmid, CloneFailed, DropReservation, ConfirmIp, Record, ReleaseAfterError, MarkError
<1>2. ASSUME NEW o \in Op, OpStep(o) PROVE vm' = vm \/ Altered
  <2>1. pc[o] \notin {"idle", "done", "destroyed"} => Target(o) \in Vmid
    BY DEF OpsTyped, Target
  <2>2. CASE StartBox(o)
    <3>1. vm' = vm \/ (Usable(Target(o)) /\ Boot(Target(o)))
      BY <2>2 DEF StartBox
    <3> QED
      BY <2>1, <2>2, <3>1, Alterations DEF StartBox
  <2>3. CASE StopBox(o)
    <3>1. vm' = vm \/ (Running(Target(o)) /\ PowerOff(Target(o)))
      BY <2>3 DEF StopBox
    <3> QED
      BY <2>1, <2>3, <3>1, Alterations DEF StopBox
  <2>4. CASE DestroyBox(o)
    <3>1. vm' = vm \/ (Destroyable(Target(o)) /\ Destroy(Target(o)))
                   \/ (Running(Target(o)) /\ PowerOff(Target(o)))
      BY <2>4 DEF DestroyBox, Kill
    <3> QED
      BY <2>1, <2>4, <3>1, Alterations DEF DestroyBox
  <2> QED
    BY <1>2, <2>2, <2>3, <2>4
       DEF OpStep, RecordStarted, RecordStopped, RecordStatus, ReleaseBox, MarkDestroyed
<1>3. ASSUME NEW s \in Sweep, SweepStep(s) PROVE vm' = vm \/ Altered
  <2>1. CASE KillOrphan(s)
    <3>1. vm' = vm \/ \E v \in todo[s] : Destroyable(v) /\ Destroy(v)
      BY <2>1 DEF KillOrphan
    <3>2. todo[s] \subseteq Vmid
      BY <2>1 DEF KillOrphan, SweepsTyped
    <3> QED
      BY <3>1, <3>2, Alterations
  <2> QED
    BY <1>3, <2>1 DEF SweepStep, ListNode, ReadReserved, SkipYoung, Unlease, StaleQuery, SkipRecent,
         StaleRelease, StaleMark, LeaseQuery, LeaseRelease, SweepEnds, NodeKept
<1> QED
  BY <1>1, <1>2, <1>3 DEF Next, vars, CrashProvision, CrashOp, OnlyCalls, Begin, AgeLab, AgeVm

LEMMA NodeStep ==
  NodeTyped /\ ClonesThere /\ PcTyped /\ ObjTyped /\ ProvisionsTyped /\ OpsTyped /\ SweepsTyped
  /\ [Next]_vars => NodeTyped'
<1> SUFFICES ASSUME NodeTyped, ClonesThere, PcTyped, ObjTyped, ProvisionsTyped, OpsTyped, SweepsTyped,
                    [Next]_vars
             PROVE  NodeTyped'
  OBVIOUS
<1>1. CASE vm' = vm \/ Altered
  BY <1>1 DEF Altered, NodeTyped
<1>2. ASSUME NEW t \in Task, StartClone(t) PROVE NodeTyped'
  <2>1. NewVm(t, "cloning") \in VmSet
    BY DEF NewVm, VmSet
  <2> QED
    BY <1>2, <2>1 DEF StartClone, NodeTyped
<1>3. ASSUME NEW v \in Vmid, vm[v] # NoVal PROVE [vm[v] EXCEPT !.st = "stopped"] \in VmSet
  BY <1>3 DEF NodeTyped, VmSet
<1>4. ASSUME NEW t \in Task, WaitClone(t) PROVE NodeTyped'
  <2>1. V(t) \in Vmid /\ vm[V(t)] # NoVal
    BY <1>4 DEF WaitClone, ClonesThere, ProvisionsTyped, OwnObj, Reserved, Built, V
  <2>2. NewVm(t, "conf") \in VmSet
    BY DEF NewVm, VmSet
  <2> QED
    BY <1>3, <1>4, <2>1, <2>2 DEF WaitClone, NodeTyped
<1>5. ASSUME NEW v \in Vmid, FinishClone(v) PROVE NodeTyped'
  BY <1>3, <1>5 DEF FinishClone, NodeTyped
<1> QED
  BY <1>1, <1>2, <1>4, <1>5, NodeChanges

\* A provision that takes no step stays where it is with what it has.
LEMMA Still ==
  ASSUME ObjTyped, PcTyped, ProvisionsTyped, [Next]_vars, NEW u \in Task
  PROVE  \/ ProvisionStep(u) \/ CrashProvision(u)
         \/ pc'[u] = pc[u] /\ obj'[u] = obj[u] /\ hand'[u] = hand[u]
<1> USE Actors
<1>1. ASSUME NEW t \in Task, ProvisionStep(t), t # u
      PROVE  pc'[u] = pc[u] /\ obj'[u] = obj[u] /\ hand'[u] = hand[u]
  <2>1. obj' = obj \/ \E x : obj' = [obj EXCEPT ![t] = x]
    BY <1>1, ProvisionLocals DEF Reserve, LeaseIp, DropReservation
  <2>2. hand' = hand \/ \E x : hand' = [hand EXCEPT ![t] = x]
    BY <1>1, ProvisionLocals DEF Reserve, LeaseIp, DropReservation
  <2> QED
    BY <1>1, <2>1, <2>2, ProvisionMoves DEF PcTyped, ObjTyped, ProvisionsTyped
<1>2. ASSUME NEW t \in Task, CrashProvision(t), t # u
      PROVE  pc'[u] = pc[u] /\ obj'[u] = obj[u] /\ hand'[u] = hand[u]
  BY <1>2 DEF CrashProvision, Goto, PcTyped
<1> QED
  BY <1>1, <1>2, OthersLocalsKept

\* The one way to some of the statements.
LEMMA Arrivals ==
  ASSUME PcTyped, NEW u \in Task, ProvisionStep(u)
  PROVE  /\ pc'[u] = "cloning" => StartClone(u)
         /\ pc'[u] = "bind" => LeaseIp(u)
         /\ pc'[u] = "save_number" => PickNumber(u)
<1> USE Actors
<1>1. ASSUME NEW l, Goto(u, l) PROVE pc'[u] = l
  BY <1>1 DEF Goto, PcTyped
<1>2. CASE FindBox(u) \/ SaveNumber(u) \/ Admit(u) \/ CreateLab(u)
  BY <1>1, <1>2 DEF FindBox, SaveNumber, Admit, CreateLab
<1>3. CASE PickNumber(u) \/ LeaseIp(u) \/ StartClone(u)
  BY <1>1, <1>3 DEF PickNumber, LeaseIp, StartClone
<1>4. CASE Reserve(u) \/ Bind(u) \/ CheckVmid(u)
  BY <1>1, <1>4 DEF Reserve, Bind, CheckVmid
<1>5. CASE ReapBeforeClone(u) \/ ReapFailedClone(u)
  BY <1>1, <1>5 DEF ReapBeforeClone, ReapFailedClone, ReapOrphan
<1>6. CASE WaitClone(u) \/ CloneFailed(u) \/ DropReservation(u)
  BY <1>1, <1>6 DEF WaitClone, CloneFailed, DropReservation
<1>7. CASE Configure(u) \/ BootBox(u) \/ ConfirmIp(u) \/ Record(u)
  BY <1>1, <1>7 DEF Configure, BootBox, ConfirmIp, Record
<1>8. CASE Teardown(u) \/ ReleaseAfterError(u) \/ MarkError(u)
  BY <1>1, <1>8 DEF Teardown, ReleaseAfterError, MarkError
<1> QED
  BY <1>2, <1>3, <1>4, <1>5, <1>6, <1>7, <1>8 DEF ProvisionStep

\* Who waits for a clone began it in this step or waited before.
LEMMA Waiting ==
  ASSUME ObjTyped, PcTyped, ProvisionsTyped, [Next]_vars, NEW u \in Task, pc'[u] = "cloning"
  PROVE  \/ StartClone(u)
         \/ pc[u] = "cloning" /\ obj'[u] = obj[u] /\ ~WaitClone(u)
<1>1. CrashProvision(u) => pc'[u] = "crashed"
  BY Actors DEF CrashProvision, Goto, PcTyped
<1> QED
  BY <1>1, Still, Arrivals DEF ProvisionStep

LEMMA ClonesStep ==
  NodeTyped /\ ClonesThere /\ PcTyped /\ ObjTyped /\ ProvisionsTyped /\ OpsTyped /\ SweepsTyped
  /\ [Next]_vars => ClonesThere'
<1> SUFFICES ASSUME NodeTyped, ClonesThere, PcTyped, ObjTyped, ProvisionsTyped, OpsTyped, SweepsTyped,
                    [Next]_vars,
                    NEW u \in Task, pc'[u] = "cloning"
             PROVE  LET v == obj'[u].vmid IN vm'[v] # NoVal /\ vm'[v].st = "cloning" /\ vm'[v].by = u
  BY DEF ClonesThere
<1>1. CASE StartClone(u)
  <2>1. V(u) \in Vmid /\ obj' = obj
    BY <1>1 DEF StartClone, ProvisionsTyped, OwnObj, Reserved, Built, V
  <2>2. vm' = [vm EXCEPT ![V(u)] = NewVm(u, "cloning")]
    BY <1>1 DEF StartClone, Goto, PcTyped, Actors
  <2>3. NewVm(u, "cloning") # NoVal
    BY NullAssumption DEF NewVm, VmSet
  <2> QED
    BY <2>1, <2>2, <2>3 DEF NodeTyped, NewVm, V
<1>2. CASE pc[u] = "cloning" /\ obj'[u] = obj[u] /\ ~WaitClone(u)
  <2> DEFINE v == obj[u].vmid
  <2>1. v \in Vmid /\ vm[v] # NoVal /\ vm[v].st = "cloning" /\ vm[v].by = u
    BY <1>2 DEF ClonesThere, ProvisionsTyped, OwnObj, Reserved, Built
  <2> SUFFICES vm'[v] = vm[v]
    BY <1>2, <2>1
  <2>2. CASE vm' = vm \/ Altered
    BY <2>1, <2>2 DEF Altered, NodeTyped
  <2>3. ASSUME NEW t \in Task, StartClone(t) PROVE vm'[v] = vm[v]
    <3>1. V(t) # v \/ vm' = vm
      BY <2>1, <2>3 DEF StartClone, Present
    <3> QED
      BY <2>1, <2>3, <3>1 DEF StartClone, NodeTyped
  <2>4. ASSUME NEW t \in Task, WaitClone(t) PROVE vm'[v] = vm[v]
    <3>1. V(t) # v
      BY <1>2, <2>1, <2>4 DEF WaitClone, ClonesThere, V
    <3> QED
      BY <2>1, <2>4, <3>1 DEF WaitClone, NodeTyped
  <2>5. ASSUME NEW w \in Vmid, FinishClone(w) PROVE vm'[v] = vm[v]
    <3>1. w # v
      BY <1>2, <2>5 DEF FinishClone, V
    <3> QED
      BY <2>1, <2>5, <3>1 DEF FinishClone, NodeTyped
  <2> QED
    BY <2>2, <2>3, <2>4, <2>5, NodeChanges
<1> QED
  BY <1>1, <1>2, Waiting

-----------------------------------------------------------------------------
(* Type correctness *)

LEMMA TypedInit == Init => Typed
<1> SUFFICES ASSUME Init PROVE Typed
  OBVIOUS
<1> USE Actors DEF Init
<1>1. DbTyped /\ RowsOfAttempt
  BY DEF DbTyped, RowsOfAttempt, Rows, StatusSet, LeaseSet, FreeLease
<1>2. NodeTyped
  <2>1. ASSUME NEW st \in StrayKinds PROVE NewVm(NoVal, st) \in VmSet
    BY KindAssumption DEF NewVm, VmSet
  <2> QED
    BY <2>1 DEF NodeTyped
<1>3. NumbersTyped /\ AgesTyped /\ FaultsTyped
  BY SizeAssumption DEF NumbersTyped, AgesTyped, FaultsTyped
<1>4. PcTyped /\ ObjTyped /\ ClonesThere
  BY DEF PcTyped, ObjTyped, ClonesThere, ProvisionLabels, OpLabels, SweepLabels
<1>5. ProvisionsTyped
  BY SizeAssumption DEF ProvisionsTyped, Reserved, Built
<1>6. OpsTyped
  BY DEF OpsTyped
<1>7. SweepsTyped
  <2>1. NoSnap \in SnapSet
    BY DEF NoSnap, SnapSet
  <2> QED
    BY <2>1 DEF SweepsTyped
<1> QED
  BY <1>1, <1>2, <1>3, <1>4, <1>5, <1>6, <1>7 DEF Typed

LEMMA TypedStep == Typed /\ [Next]_vars => Typed'
  BY DbStep, NumbersStep, NodeStep, AgesStep, FaultStep, PcStep, ObjStep, ProvisionsStep, RowsStep,
     OpsStep, SweepsStep, ClonesStep DEF Typed

\* Every variable keeps its type and a lab never has two rows (StudentBox's TypeOK):
\* "the" row of a lab, which start, stop and deprovision take (tasks.py:1219-1225,
\* 1354), is a definite one.
THEOREM BoxTypeCorrect == Spec => []TypeOK
<1>1. Spec => []Typed
  BY TypedInit, TypedStep, PTL DEF Spec
<1> QED
  BY <1>1, TypedIsTypeOK, PTL

-----------------------------------------------------------------------------
(* One box, one number *)

LEMMA BoxStep == Typed /\ OneBoxPerStudent /\ [Next]_vars => OneBoxPerStudent'
<1> SUFFICES ASSUME Typed, OneBoxPerStudent, [Next]_vars PROVE OneBoxPerStudent'
  OBVIOUS
<1> USE DEF OneBoxPerStudent
<1>1. CASE status' = status
  BY <1>1
<1>2. ASSUME NEW l \in Task, NEW st \in StatusSet, status' = [status EXCEPT ![l] = st],
             st \in Active => UniqueBox(l)
      PROVE  OneBoxPerStudent'
  BY <1>2 DEF Typed, DbTyped, UniqueBox
<1> QED
  BY <1>1, <1>2, StatusChanges DEF Typed

\* However provisions, starts, stops, deprovisions and sweeps overlap and fail, a student
\* never has two active boxes (StudentBox's OneBoxPerStudent; models.py:79-92).  An active
\* status is written in three places, each under the constraint; in the recording of a
\* provision it is the provision's own lab (OwnObj).
THEOREM OneBoxAtATime == Spec => []OneBoxPerStudent
<1>1. Init => OneBoxPerStudent
  BY DEF Init, OneBoxPerStudent, Active
<1> QED
  BY <1>1, TypedInit, TypedStep, BoxStep, PTL DEF Spec

\* Of one student's calls one at most is about to save a number, and the student has
\* none: the lock of the row.
SavingAlone ==
  \A t \in Task : pc[t] = "save_number" =>
    index[Me(t)] = NoVal /\ ~RowLocked(t)

NumberInv == NumbersDistinct /\ SavingAlone

LEMMA NumberStep == Typed /\ NumberInv /\ [Next]_vars => NumberInv'
<1> SUFFICES ASSUME Typed, NumberInv, [Next]_vars PROVE NumberInv'
  OBVIOUS
<1> USE StudentAssumption DEF NumberInv, Me
<1>1. ASSUME NEW t \in Task, pc'[t] = "save_number" PROVE PickNumber(t) \/ pc[t] = "save_number"
  <2>1. CrashProvision(t) => pc'[t] = "crashed"
    BY Actors DEF CrashProvision, Goto, Typed, PcTyped
  <2> QED
    BY <1>1, <2>1, Still, Arrivals DEF Typed
<1>2. ASSUME NEW t \in Task, PickNumber(t) PROVE NumberInv'
  <2>1. index' = index
    BY <1>2 DEF PickNumber
  <2>2. \A u \in Task \ {t} : pc'[u] = pc[u]
    BY <1>2, Actors DEF PickNumber, Goto, Typed, PcTyped
  <2>3. pc'[t] = "save_number" => index[StudentOf[t]] = NoVal
    BY <1>2, Actors DEF PickNumber, Numbered, Goto, Typed, PcTyped
  <2>4. ~RowLocked(t)
    BY <1>2 DEF PickNumber
  <2> QED
    BY <2>1, <2>2, <2>3, <2>4 DEF NumbersDistinct, SavingAlone, RowLocked
<1>3. ASSUME NEW t \in Task, SaveNumber(t) PROVE NumberInv'
  <2>1. \A u \in Task \ {t} : pc'[u] = pc[u]
    BY <1>3, Actors DEF SaveNumber, Goto, Typed, PcTyped
  <2>2. pc[t] = "save_number" /\ pc'[t] # "save_number"
    BY <1>3, Actors DEF SaveNumber, Goto, Typed, PcTyped
  <2>3. index' = index \/ (UniqueNumber(pick[t]) /\ index' = [index EXCEPT ![StudentOf[t]] = pick[t]])
    BY <1>3 DEF SaveNumber
  <2>4. NumbersDistinct'
    BY <2>3 DEF NumbersDistinct, UniqueNumber, Typed, NumbersTyped
  <2>5. SavingAlone'
    BY <2>1, <2>2, <2>3 DEF SavingAlone, RowLocked, Typed, NumbersTyped
  <2> QED
    BY <2>4, <2>5
<1>4. CASE index' = index /\ \A t \in Task : ~PickNumber(t)
  BY <1>1, <1>4 DEF NumbersDistinct, SavingAlone, RowLocked
<1> QED
  BY <1>2, <1>3, <1>4, NumberChanges DEF numbers

LEMMA NumberInit == Init => NumberInv
  BY Actors DEF Init, NumberInv, NumbersDistinct, SavingAlone

\* Two students never have one number (StudentBox's NumbersDistinct; the UNIQUE column of
\* allocation.py:66-91), for any number of students and of calls at once.
THEOREM NumbersAreDistinct == Spec => []NumbersDistinct
<1>1. NumberInv => NumbersDistinct
  BY DEF NumberInv
<1> QED
  BY <1>1, TypedInit, TypedStep, NumberInit, NumberStep, PTL DEF Spec

\* A number is not changed once given (StudentBox's NumbersStable): who saves one holds
\* the lock of the row under which it was seen to be empty (SavingAlone).
THEOREM NumbersAreStable == Spec => NumbersStable
<1>1. ASSUME Typed, NumberInv, Next
      PROVE  \A s \in Student : index[s] # NoVal => index'[s] = index[s]
  <2>1. ASSUME NEW t \in Task, SaveNumber(t)
        PROVE  \A s \in Student : index[s] # NoVal => index'[s] = index[s]
    <3>1. index[StudentOf[t]] = NoVal
      BY <1>1, <2>1 DEF SaveNumber, NumberInv, SavingAlone, Me
    <3>2. index' = index \/ index' = [index EXCEPT ![StudentOf[t]] = pick[t]]
      BY <2>1 DEF SaveNumber, Me
    <3> QED
      BY <1>1, <3>1, <3>2 DEF Typed, NumbersTyped
  <2>2. ASSUME NEW t \in Task, PickNumber(t) PROVE index' = index
    BY <2>2 DEF PickNumber
  <2> QED
    BY <1>1, <2>1, <2>2, NumberChanges DEF numbers
<1>2. Typed /\ NumberInv /\ [Next]_vars
      => [\A s \in Student : index[s] # NoVal => index'[s] = index[s]]_vars
  BY <1>1
<1> QED
  BY <1>2, TypedInit, TypedStep, NumberInit, NumberStep, PTL DEF Spec, NumbersStable

-----------------------------------------------------------------------------
(* Reservations are distinct, with no sweep *)

\* Who drops a row drops one it has loaded or made.
LEMMA RowSteps ==
  ASSUME Typed, [Next]_vars
  PROVE  \/ UNCHANGED <<row, lease>>
         \/ \E t \in Task : Reserve(t) \/ LeaseIp(t) \/ Bind(t)
         \/ \E id \in RowId : DeleteRow(id)
         \/ Sweep # {}
<1>1. ASSUME NEW t \in Task, ProvisionStep(t)
      PROVE  \/ UNCHANGED <<row, lease>> \/ Reserve(t) \/ LeaseIp(t) \/ Bind(t)
             \/ \E id \in RowId : DeleteRow(id)
  <2> <<t, att[t]>> \in RowId
    BY DEF Typed, ProvisionsTyped, RowId
  <2>1. obj[t] # NoVal \/ pc[t] \in Reserved => obj[t].id \in RowId
    BY DEF Typed, ProvisionsTyped, OwnObj
  <2>2. CASE DropReservation(t) \/ ReleaseAfterError(t)
    BY <2>1, <2>2 DEF DropReservation, DropRow, ReleaseAfterError, Reserved, Built
  <2> QED
    BY <1>1, <2>2 DEF ProvisionStep, FindBox, PickNumber, SaveNumber, Admit, CreateLab, CheckVmid,
         ReapBeforeClone, StartClone, WaitClone, CloneFailed, ReapFailedClone,
         Configure, BootBox, ConfirmIp, Record, Teardown, MarkError, db
<1>2. ASSUME NEW o \in Op, OpStep(o) PROVE UNCHANGED <<row, lease>> \/ \E id \in RowId : DeleteRow(id)
  <2>1. ReleaseBox(o) => obj[o].id \in RowId
    BY DEF ReleaseBox, Typed, OpsTyped
  <2> QED
    BY <1>2, <2>1 DEF OpStep, StartBox, RecordStarted, StopBox, RecordStopped, DestroyBox, ReleaseBox,
         MarkDestroyed, RecordStatus, OnlyCalls, db
<1> QED
  BY <1>1, <1>2 DEF Next, vars, db, CrashProvision, CrashOp, OnlyCalls, Begin, AgeLab, FinishClone, AgeVm

FreeIsUnbound == \A i \in Ip : lease[i].state = "free" => lease[i].vm = NoVal

\* The address a provision is about to bind is leased, on no row and in no other hand.
BindersAlone ==
  \A t \in Task : pc[t] = "bind" =>
    /\ lease[hand[t]] = [state |-> "leased", vm |-> NoVal]
    /\ \A u \in Task : u # t /\ pc[u] = "bind" => hand[u] # hand[t]

ReservationInv == RowsDistinct /\ FreeIsUnbound /\ BindersAlone

\* Who is about to bind leased in this step, or was about to before and did not bind.
LEMMA Binding ==
  ASSUME Typed, [Next]_vars, NEW u \in Task, pc'[u] = "bind"
  PROVE  LeaseIp(u) \/ (pc[u] = "bind" /\ hand'[u] = hand[u] /\ ~Bind(u))
<1>1. CrashProvision(u) => pc'[u] = "crashed"
  BY Actors DEF CrashProvision, Goto, Typed, PcTyped
<1>2. Bind(u) => pc[u] = "bind" /\ ~LeaseIp(u)
  BY DEF Bind, LeaseIp
<1> QED
  BY <1>1, <1>2, Still, Arrivals DEF Typed, ProvisionStep

LEMMA ReservationInit == Init => ReservationInv
  BY Actors DEF Init, ReservationInv, RowsDistinct, Rows, FreeIsUnbound, BindersAlone, FreeLease

LEMMA ReservationStep ==
  ASSUME Sweep = {}
  PROVE  Typed /\ ReservationInv /\ [Next]_vars => ReservationInv'
<1> SUFFICES ASSUME Typed, ReservationInv, [Next]_vars PROVE ReservationInv'
  OBVIOUS
<1> USE Actors
<1>1. \A u \in Task : pc[u] = "bind" => hand[u] \in Ip
  BY DEF Typed, ProvisionsTyped
<1>a. ASSUME NEW id \in RowId, row[id] # NoVal
      PROVE  /\ row[id].ip \in Ip \cup {NoVal}
             /\ row[id].ip # NoVal => lease[row[id].ip].state = "leased" /\ lease[row[id].ip].vm = id
  <2>1. row[id] \in RowSet
    BY <1>a DEF Typed, DbTyped
  <2>2. id \in Rows
    BY <1>a DEF Rows
  <2>3. row[id].ip # NoVal => lease[row[id].ip] = [state |-> "leased", vm |-> id]
    BY <2>2 DEF ReservationInv, RowsDistinct
  <2> QED
    BY <2>1, <2>3 DEF RowSet
<1>b. \A id, k \in RowId : row[id] # NoVal /\ row[k] # NoVal /\ id # k =>
        row[id].vmid # row[k].vmid /\ (row[id].ip # NoVal => row[id].ip # row[k].ip)
  BY DEF ReservationInv, RowsDistinct, Rows
<1>c. ASSUME \A i \in Ip : lease'[i] \in LeaseSet,
             \A id \in RowId : row'[id] # NoVal =>
               /\ row'[id].ip \in Ip \cup {NoVal}
               /\ row'[id].ip # NoVal => lease'[row'[id].ip].state = "leased" /\ lease'[row'[id].ip].vm = id,
             \A id, k \in RowId : row'[id] # NoVal /\ row'[k] # NoVal /\ id # k =>
               row'[id].vmid # row'[k].vmid
      PROVE  RowsDistinct'
  <2>1. \A y \in LeaseSet : y = [state |-> y.state, vm |-> y.vm]
    BY DEF LeaseSet
  <2>2. ASSUME NEW id \in RowId, row'[id] # NoVal, row'[id].ip # NoVal
        PROVE  lease'[row'[id].ip] = [state |-> "leased", vm |-> id]
    <3>1. lease'[row'[id].ip] \in LeaseSet
      BY <1>c, <2>2
    <3> QED
      BY <1>c, <2>1, <2>2, <3>1
  <2>3. ASSUME NEW id \in RowId, NEW k \in RowId, row'[id] # NoVal, row'[k] # NoVal, id # k
        PROVE  /\ row'[id].vmid # row'[k].vmid
               /\ row'[id].ip # NoVal => row'[id].ip # row'[k].ip
    BY <1>c, <2>3
  <2> QED
    BY <2>2, <2>3 DEF RowsDistinct, Rows
<1>d. \A i \in Ip : lease'[i] \in LeaseSet
  BY DbStep DEF Typed, DbTyped
<1>2. CASE UNCHANGED <<row, lease>> /\ \A t \in Task : ~LeaseIp(t)
  <2>1. BindersAlone'
    BY <1>2, Binding DEF ReservationInv, BindersAlone
  <2> QED
    BY <1>2, <2>1 DEF ReservationInv, RowsDistinct, Rows, FreeIsUnbound
<1>3. ASSUME NEW t \in Task, Reserve(t) PROVE ReservationInv'
  <2>1. lease' = lease
    BY <1>3 DEF Reserve
  <2>2. \A u \in Task : pc'[u] = "bind" => ~LeaseIp(u)
    BY <1>3 DEF Reserve, Goto, Typed, PcTyped, LeaseIp
  <2>3. BindersAlone'
    BY <2>1, <2>2, Binding DEF ReservationInv, BindersAlone
  <2>4. RowsDistinct'
    <3>1. CASE row' = row
      BY <2>1, <3>1 DEF ReservationInv, RowsDistinct, Rows
    <3>2. ASSUME NEW v \in Vmid \ TakenVmids, row' = [row EXCEPT ![<<t, att[t]>>] = [vmid |-> v, ip |-> NoVal]]
          PROVE  RowsDistinct'
      <4>1. <<t, att[t]>> \in RowId /\ row'[<<t, att[t]>>] = [vmid |-> v, ip |-> NoVal]
        BY <3>2 DEF Typed, ProvisionsTyped, DbTyped, RowId
      <4>2. \A id \in RowId : id # <<t, att[t]>> => row'[id] = row[id]
        BY <3>2 DEF Typed, DbTyped
      <4>3. \A id \in Rows : row[id].vmid # v
        BY DEF TakenVmids, RowVmids
      <4> QED
        BY <1>a, <1>b, <1>c, <1>d, <2>1, <4>1, <4>2, <4>3 DEF Rows
    <3> QED
      BY <1>3, <3>1, <3>2 DEF Reserve
  <2> QED
    BY <2>1, <2>3, <2>4 DEF ReservationInv, FreeIsUnbound
<1>4. ASSUME NEW t \in Task, LeaseIp(t) PROVE ReservationInv'
  <2>1. row' = row /\ pc[t] = "lease" /\ \A u \in Task \ {t} : pc'[u] = pc[u]
    BY <1>4 DEF LeaseIp, Goto, Typed, PcTyped
  <2>2. CASE UNCHANGED <<lease, hand>> /\ pc'[t] # "bind"
    BY <2>1, <2>2 DEF ReservationInv, RowsDistinct, Rows, FreeIsUnbound, BindersAlone
  <2>3. ASSUME NEW i \in FreeLeases, lease' = [lease EXCEPT ![i].state = "leased"],
               hand' = [hand EXCEPT ![t] = i]
        PROVE  ReservationInv'
    <3>1. i \in Ip /\ lease[i].state = "free" /\ lease[i].vm = NoVal
      BY DEF FreeLeases, ReservationInv, FreeIsUnbound
    <3>2. lease'[i] = [state |-> "leased", vm |-> NoVal] /\ \A j \in Ip \ {i} : lease'[j] = lease[j]
      BY <2>3, <3>1 DEF Typed, DbTyped, LeaseSet
    <3>3. hand'[t] = i /\ \A u \in Task \ {t} : hand'[u] = hand[u]
      BY <2>3 DEF Typed, ProvisionsTyped
    <3>4. \A u \in Task : pc[u] = "bind" => hand[u] # i
      BY <3>1 DEF ReservationInv, BindersAlone
    <3>5. \A id \in RowId : row[id] # NoVal => row[id].ip # i
      BY <1>a, <3>1
    <3>6. BindersAlone'
      BY <1>1, <2>1, <3>2, <3>3, <3>4 DEF ReservationInv, BindersAlone
    <3>7. RowsDistinct'
      BY <1>a, <1>b, <1>c, <1>d, <2>1, <3>2, <3>5
    <3>8. FreeIsUnbound'
      BY <3>2 DEF ReservationInv, FreeIsUnbound
    <3> QED
      BY <3>6, <3>7, <3>8 DEF ReservationInv
  <2>4. UNCHANGED <<lease, hand>> /\ Goto(t, "teardown") => pc'[t] # "bind"
    BY DEF Goto, Typed, PcTyped
  <2> QED
    BY <1>4, <2>2, <2>3, <2>4 DEF LeaseIp
<1>5. ASSUME NEW t \in Task, Bind(t) PROVE ReservationInv'
  <2>1. pc[t] = "bind" /\ pc'[t] # "bind" /\ hand' = hand /\ \A u \in Task \ {t} : pc'[u] = pc[u]
    BY <1>5 DEF Bind, Goto, Typed, PcTyped
  <2>2. CASE UNCHANGED <<row, lease>>
    BY <2>1, <2>2 DEF ReservationInv, RowsDistinct, Rows, FreeIsUnbound, BindersAlone
  <2> DEFINE id == obj[t].id
             i == hand[t]
  <2>3. ASSUME id \in Rows, row' = [row EXCEPT ![id].ip = i], lease' = [lease EXCEPT ![i].vm = id]
        PROVE  ReservationInv'
    <3>1. i \in Ip /\ id \in RowId /\ lease[i] = [state |-> "leased", vm |-> NoVal]
      BY <1>1, <2>1, <2>3 DEF Rows, ReservationInv, BindersAlone
    <3>2. lease'[i] = [state |-> "leased", vm |-> id] /\ \A j \in Ip \ {i} : lease'[j] = lease[j]
      BY <2>3, <3>1 DEF Typed, DbTyped
    <3>3. row'[id] = [vmid |-> row[id].vmid, ip |-> i] /\ \A k \in RowId \ {id} : row'[k] = row[k]
      BY <2>3, <3>1 DEF Typed, DbTyped, RowSet, Rows
    <3>4. \A k \in RowId : row[k] # NoVal => row[k].ip # i
      BY <1>a, <3>1
    <3>5. row[id] # NoVal
      BY <2>3 DEF Rows
    <3>6. RowsDistinct'
      BY <1>a, <1>b, <1>c, <1>d, <3>1, <3>2, <3>3, <3>4, <3>5
    <3>7. BindersAlone'
      BY <1>1, <2>1, <3>2 DEF ReservationInv, BindersAlone
    <3>8. FreeIsUnbound'
      BY <3>2 DEF ReservationInv, FreeIsUnbound
    <3> QED
      BY <3>6, <3>7, <3>8 DEF ReservationInv
  <2> QED
    BY <1>5, <2>2, <2>3 DEF Bind
<1>6. ASSUME NEW id \in RowId, DeleteRow(id), \A t \in Task : ~LeaseIp(t) PROVE ReservationInv'
  <2>1. row' = [row EXCEPT ![id] = NoVal]
        /\ \A i \in Ip : lease'[i] = IF lease[i].vm = id THEN FreeLease ELSE lease[i]
    BY <1>6 DEF DeleteRow, LeasesWithout
  <2>2. row'[id] = NoVal /\ \A k \in RowId \ {id} : row'[k] = row[k]
    BY <2>1 DEF Typed, DbTyped
  <2>3. RowsDistinct'
    BY <1>a, <1>b, <1>c, <1>d, <2>1, <2>2
  <2>4. BindersAlone'
    BY <1>1, <1>6, <2>1, Binding DEF ReservationInv, BindersAlone
  <2>5. FreeIsUnbound'
    BY <2>1 DEF ReservationInv, FreeIsUnbound, FreeLease
  <2> QED
    BY <2>3, <2>4, <2>5 DEF ReservationInv
<1> QED
  BY <1>2, <1>3, <1>4, <1>5, <1>6, RowSteps

\* While no sweep runs, no VMID and no address is on two rows and an address on a row is
\* bound to that row (StudentBox's RowsDistinct), whatever provisions, deprovisions and
\* faults there are.  With a sweep this is false: phase 1 frees the leases of whatever
\* row has the vmid of the orphan it destroyed (reaper.py:190-192).
THEOREM RowsAreDistinct == ASSUME Sweep = {} PROVE Spec => []RowsDistinct
<1>1. ReservationInv => RowsDistinct
  BY DEF ReservationInv
<1>2. Typed /\ ReservationInv /\ [Next]_vars => ReservationInv'
  BY ReservationStep
<1> QED
  BY <1>1, <1>2, TypedInit, TypedStep, ReservationInit, PTL DEF Spec

=============================================================================
