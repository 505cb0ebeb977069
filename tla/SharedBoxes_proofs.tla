------------------------- MODULE SharedBoxes_proofs -------------------------
(***************************************************************************)
(* What becomes of the boxes of shared labs: the proofs that a lab         *)
(* recorded as running has its box, that failed provisions leave bare      *)
(* clones at most, that an error path spares the others and that the cap   *)
(* is honoured.                                                            *)
(*                                                                         *)
(* They share one account of what a step of a call changes (CallEdge,      *)
(* CallTouches), and one invariant of its life (LifeInv).                  *)
(***************************************************************************)
EXTENDS SharedNode_proofs, FiniteSetTheorems

-----------------------------------------------------------------------------
(* What a step changes *)

\* All that is not x's is left alone.
OnlyMoves(x) ==
  /\ \A y \in Proc \ {x} : pc'[y] = pc[y] /\ hand'[y] = hand[y]
  /\ \A y \in (Call \cup Op) \ {x} : mine'[y] = mine[y]
  /\ \A y \in Owner \ {x} : row'[y] = row[y]
  /\ UNCHANGED <<boxes, for, todo, partial, hasty>>

Goes(c, from, to) == pc[c] = from /\ pc'[c] = to
KeepsRow(c) == row'[c] = row[c] /\ mine'[c] = mine[c]
Keeps(c) == KeepsRow(c) /\ hand'[c] = hand[c]
Met(k) == k \in faults'.kinds

\* The row a call writes, by its parts: reserved, bound to its address, running.
IsRow(x, vmid, ip, running) ==
  row'[x] # NoVal /\ row'[x].vmid = vmid /\ row'[x].ip = ip /\ (row'[x].running <=> running)

\* The labels whose failure, and whose success, leaves the records alone.
Forward(c) ==
  \/ Goes(c, "clone", "cloning") \/ Goes(c, "cloning", "cloned") \/ Goes(c, "cloned", "boot")
  \/ Goes(c, "boot", "confirm") \/ Goes(c, "confirm", "record")
Trying == {"reserve", "lease", "clone", "cloning", "cloned", "boot", "confirm"}

\* A call's step along its life, and what it does to the call's row and lab.
CallEdge(c) ==
  \/ /\ Goes(c, "asked", "queued") \/ (Goes(c, "asked", "crashed") /\ Met("crash"))
     /\ Keeps(c) /\ status'[for[c]] = "pending"
  \/ /\ Goes(c, "queued", "done") /\ Keeps(c) /\ status' = status
     /\ RunningRows(for[c]) # {} \/ Met("unreachable") \/ Met("database")
  \/ /\ Goes(c, "queued", "done") /\ Keeps(c) /\ status'[for[c]] = "error"
     /\ RunningRows(for[c]) = {}
  \/ /\ Goes(c, "queued", "reserve") /\ Keeps(c) /\ status' = status
     /\ RunningRows(for[c]) = {} /\ CapacityOk(for[c])
  \/ /\ Goes(c, "reserve", "lease") /\ hand'[c] = hand[c] /\ status' = status
     /\ \E v \in FreeVmids : IsRow(c, v, NoVal, FALSE) /\ mine'[c] = v
  \/ Goes(c, "lease", "bind") /\ KeepsRow(c) /\ status' = status
  \/ /\ Goes(c, "bind", "clone") /\ c \in Rows /\ status' = status
     /\ IsRow(c, row[c].vmid, hand[c], row[c].running) /\ mine'[c] = mine[c] /\ hand'[c] = hand[c]
  \/ Goes(c, "bind", "teardown") /\ c \notin Rows /\ Keeps(c) /\ status' = status
  \/ Forward(c) /\ Keeps(c) /\ status' = status
  \/ pc[c] \in Trying /\ pc'[c] = "teardown" /\ Keeps(c) /\ status' = status
  \/ /\ Goes(c, "record", "done") \/ (Goes(c, "record", "teardown") /\ Met("call"))
     /\ c \in Rows /\ IsRow(c, row[c].vmid, row[c].ip, TRUE)
     /\ mine'[c] = mine[c] /\ hand'[c] = hand[c] /\ status'[for[c]] = "running"
  \/ Goes(c, "record", "teardown") /\ c \notin Rows /\ Keeps(c) /\ status' = status
  \/ Goes(c, "teardown", "release") /\ Keeps(c) /\ status' = status
  \/ /\ Goes(c, "release", "fail") /\ row'[c] = NoVal /\ status' = status
     /\ mine'[c] = mine[c] /\ hand'[c] = hand[c]
  \/ Goes(c, "fail", "done") /\ Keeps(c) /\ status'[for[c]] = "error"
  \/ /\ Goes(c, "release", "done") \/ Goes(c, "fail", "done")
     /\ Keeps(c) /\ status' = status /\ Met("database")
  \/ /\ pc[c] \notin {"idle", "asked", "queued", "done", "crashed"} /\ pc'[c] = "crashed"
     /\ Keeps(c) /\ status' = status /\ Met("crash")

CallMoves(c) == CallStep(c) \/ Crash(c)

\* A call moves nobody else and no other lab.
LEMMA CallFrame ==
  ASSUME Typed, NEW c \in Call, CallMoves(c)
  PROVE  OnlyMoves(c) /\ \A l \in Lab : l # for[c] => status'[l] = status[l]
<1> USE Actors
<1>a. DbTyped /\ PcTyped /\ ForTyped /\ HandsTyped
  BY DEF Typed
<1>1. UNCHANGED <<boxes, for, todo, partial, hasty>>
  BY DEF CallMoves, CallStep, Accept, Admit, Reserve, LeaseIp, Bind, StartClone, WaitClone, Configure,
         BootBox, ConfirmIp, Record, ErrorPath, Release, Fail, Crash, db, locals
<1>2. pc' = pc \/ \E l : pc' = [pc EXCEPT ![c] = l]
  <2>1. CASE Accept(c) \/ Admit(c) \/ Reserve(c) \/ LeaseIp(c) \/ Bind(c) \/ Crash(c)
    BY <2>1 DEF Accept, Admit, Reserve, LeaseIp, NothingToLease, Bind, Crash, Goto
  <2>2. CASE ~(Accept(c) \/ Admit(c) \/ Reserve(c) \/ LeaseIp(c) \/ Bind(c) \/ Crash(c))
    BY <2>2 DEF CallMoves, CallStep, StartClone, WaitClone, Configure,
         BootBox, ConfirmIp, Record, ErrorPath, Release, Fail, Goto
  <2> QED
    BY <2>1, <2>2
<1>3. hand' = hand \/ \E i : hand' = [hand EXCEPT ![c] = i]
  BY DEF CallMoves, CallStep, Accept, Admit, Reserve, LeaseIp, Bind, StartClone, WaitClone, Configure,
         BootBox, ConfirmIp, Record, ErrorPath, Release, Fail, Crash, locals
<1>4. mine' = mine \/ \E v : mine' = [mine EXCEPT ![c] = v]
  BY DEF CallMoves, CallStep, Accept, Admit, Reserve, LeaseIp, Bind, StartClone, WaitClone, Configure,
         BootBox, ConfirmIp, Record, ErrorPath, Release, Fail, Crash, locals
<1>5. row' = row \/ \E r : row' = [row EXCEPT ![c] = r]
  <2>1. CASE Reserve(c) \/ Bind(c)
    BY <2>1 DEF Reserve, Bind
  <2>2. CASE Record(c) \/ Release(c)
    BY <2>2 DEF Record, Release, ReleaseReservation, DeleteRow
  <2>3. CASE ~(Reserve(c) \/ Bind(c) \/ Record(c) \/ Release(c))
    BY <2>3 DEF CallMoves, CallStep, Accept, Admit, LeaseIp, StartClone, WaitClone, Configure,
         BootBox, ConfirmIp, ErrorPath, Fail, Crash, db
  <2> QED
    BY <2>1, <2>2, <2>3
<1>6. status' = status \/ \E st : status' = [status EXCEPT ![for[c]] = st]
  BY DEF CallMoves, CallStep, Accept, Admit, Reserve, LeaseIp, Bind, StartClone, WaitClone, Configure,
         BootBox, ConfirmIp, Record, ErrorPath, Release, Fail, RecordError, SetStatus, Crash, db
<1>7. \A y \in Proc \ {c} : pc'[y] = pc[y] /\ hand'[y] = hand[y]
  BY <1>a, <1>2, <1>3 DEF PcTyped, HandsTyped
<1>8. \A y \in (Call \cup Op) \ {c} : mine'[y] = mine[y]
  BY <1>a, <1>4 DEF HandsTyped
<1>9. \A y \in Owner \ {c} : row'[y] = row[y]
  BY <1>a, <1>5 DEF DbTyped
<1>10. \A l \in Lab : l # for[c] => status'[l] = status[l]
  BY <1>a, <1>6 DEF DbTyped
<1> QED
  BY <1>1, <1>7, <1>8, <1>9, <1>10 DEF OnlyMoves

LEMMA CallGoes ==
  ASSUME Typed, NEW c \in Call, CallMoves(c)
  PROVE  CallEdge(c) /\ for[c] \in Lab /\ pc[c] # "idle" /\ pc'[c] \notin {"idle", "asked"}
<1> USE Actors
<1>a. DbTyped /\ PcTyped /\ ForTyped /\ HandsTyped
  BY DEF Typed
<1>b. \A l : Goto(c, l) => pc'[c] = l
  BY <1>a DEF Goto, PcTyped
<1>c. UNCHANGED <<row, mine>> => KeepsRow(c)
  BY DEF KeepsRow
<1>d. UNCHANGED <<row, mine, hand>> => Keeps(c)
  BY DEF KeepsRow, Keeps
<1>e. \A k : Fault(k) => Met(k)
  BY DEF Fault, Met
<1>f. pc[c] # "idle" /\ for[c] \in Lab
  <2>1. pc[c] # "idle"
    BY DEF CallMoves, CallStep, Accept, Admit, Reserve, LeaseIp, Bind, StartClone, WaitClone, Configure,
              BootBox, ConfirmIp, Record, ErrorPath, Release, Fail, Crash
  <2> QED
    BY <1>a, <2>1 DEF ForTyped
<1>g. \A st : SetStatus(for[c], st) => status'[for[c]] = st
  BY <1>a, <1>f DEF SetStatus, DbTyped
<1>h. c \in Rows => row[c] \in Row
  BY <1>a DEF Rows, DbTyped
<1>i. NoVal \notin Row
  OBVIOUS
<1>1. CASE Accept(c)
  <2>1. status'[for[c]] = "pending" /\ Keeps(c) /\ pc[c] = "asked"
    BY <1>1, <1>d, <1>g DEF Accept, locals, SetStatus
  <2>2. pc'[c] = "queued" \/ (pc'[c] = "crashed" /\ Met("crash"))
    BY <1>1, <1>b, <1>e DEF Accept
  <2> QED
    BY <2>1, <2>2, <1>f DEF CallEdge, Goes
<1>2. CASE Admit(c)
  <2>1. pc[c] = "queued" /\ Keeps(c)
    BY <1>2, <1>d DEF Admit, locals
  <2>2. \/ RunningRows(for[c]) # {} /\ pc'[c] = "done" /\ status' = status
        \/ RunningRows(for[c]) = {} /\ pc'[c] = "done" /\ status'[for[c]] = "error"
        \/ RunningRows(for[c]) = {} /\ CapacityOk(for[c]) /\ pc'[c] = "reserve" /\ status' = status
        \/ pc'[c] = "done" /\ status' = status /\ (Met("unreachable") \/ Met("database"))
    BY <1>2, <1>b, <1>e, <1>g DEF Admit, IsProvisioned
  <2> QED
    BY <2>1, <2>2, <1>f DEF CallEdge, Goes
<1>3. CASE Reserve(c)
  <2>1. pc[c] = "reserve" /\ status' = status /\ hand'[c] = hand[c]
    BY <1>3 DEF Reserve
  <2>2. CASE Goto(c, "teardown") /\ UNCHANGED <<row, mine>>
    BY <2>1, <2>2, <1>b, <1>c, <1>f DEF CallEdge, Goes, Keeps, Trying
  <2>3. ASSUME NEW v \in FreeVmids, Goto(c, "lease"), mine' = [mine EXCEPT ![c] = v],
               row' = [row EXCEPT ![c] = [vmid |-> v, ip |-> NoVal, running |-> FALSE]]
        PROVE  CallEdge(c) /\ pc'[c] = "lease"
    <3>0. row'[c] = [vmid |-> v, ip |-> NoVal, running |-> FALSE]
      BY <2>3, <1>a DEF DbTyped
    <3>1. IsRow(c, v, NoVal, FALSE)
      <4>1. [vmid |-> v, ip |-> NoVal, running |-> FALSE] \in Row
        BY DEF Row, FreeVmids
      <4> QED
        <5>1. row'[c] # NoVal
          BY <3>0, <4>1, <1>i
        <5>2. row'[c].vmid = v /\ row'[c].ip = NoVal
          BY <3>0
        <5>3. row'[c].running = FALSE
          BY <3>0
        <5> QED
          BY <5>1, <5>2, <5>3 DEF IsRow
    <3>2. mine'[c] = v
      BY <2>3, <1>a DEF HandsTyped
    <3> QED
      BY <2>1, <2>3, <3>1, <3>2, <1>b DEF CallEdge, Goes
  <2> QED
    BY <1>3, <1>b, <1>f, <2>2, <2>3 DEF Reserve
<1>4. CASE LeaseIp(c)
  <2>1. pc[c] = "lease" /\ status' = status /\ KeepsRow(c)
    BY <1>4, <1>c DEF LeaseIp
  <2>2. pc'[c] = "bind" \/ (pc'[c] = "teardown" /\ hand'[c] = hand[c])
    BY <1>4, <1>b DEF LeaseIp, NothingToLease
  <2> QED
    BY <2>1, <2>2, <1>f DEF CallEdge, Goes, Keeps, Trying
<1>5. CASE Bind(c)
  <2>1. pc[c] = "bind" /\ status' = status /\ mine'[c] = mine[c] /\ hand'[c] = hand[c]
    BY <1>5 DEF Bind, locals
  <2>2. CASE c \in Rows /\ row' = [row EXCEPT ![c].ip = hand[c]] /\ Goto(c, "clone")
    <3>0. row'[c] = [row[c] EXCEPT !.ip = hand[c]]
      BY <2>2, <1>a DEF DbTyped
    <3>1. IsRow(c, row[c].vmid, hand[c], row[c].running)
      <4>1. hand[c] \in Ip
        BY <1>a, <2>1 DEF HandsTyped, Holding
      <4>2. row'[c] \in Row /\ row'[c].ip = hand[c] /\ row'[c].vmid = row[c].vmid
            /\ (row'[c].running <=> row[c].running)
        BY <2>2, <3>0, <4>1, <1>h DEF Row
      <4> QED
        BY <4>2, <1>i DEF IsRow
    <3> QED
      BY <2>1, <2>2, <3>1, <1>b, <1>f DEF CallEdge, Goes
  <2>3. CASE c \notin Rows /\ Goto(c, "teardown") /\ UNCHANGED row
    BY <2>1, <2>3, <1>b, <1>f DEF CallEdge, Goes, Keeps, KeepsRow
  <2> QED
    BY <1>5, <2>2, <2>3 DEF Bind
<1>6. CASE \/ Configure(c) \/ BootBox(c) \/ ConfirmIp(c)
           \/ StartClone(c, mine[c], "teardown") \/ WaitClone(c, mine[c], "teardown")
  <2>1. Keeps(c) /\ status' = status
    BY <1>6, <1>d DEF Configure, BootBox, ConfirmIp, StartClone, WaitClone, db, locals
  <2>2. Forward(c) \/ (pc[c] \in Trying /\ pc'[c] = "teardown")
    <3>1. CASE Configure(c) \/ BootBox(c) \/ ConfirmIp(c)
      BY <3>1, <1>b DEF Configure, BootBox, ConfirmIp, Forward, Goes, Trying
    <3>2. CASE StartClone(c, mine[c], "teardown") \/ WaitClone(c, mine[c], "teardown")
      BY <3>2, <1>b DEF StartClone, WaitClone, Forward, Goes, Trying
    <3> QED
      BY <1>6, <3>1, <3>2
  <2>3. pc'[c] \notin {"idle", "asked"}
    BY <2>2 DEF Forward, Goes
  <2> QED
    BY <2>1, <2>2, <2>3, <1>f DEF CallEdge
<1>7. CASE Record(c)
  <2>1. pc[c] = "record" /\ mine'[c] = mine[c] /\ hand'[c] = hand[c]
    BY <1>7 DEF Record, locals
  <2>2. CASE /\ c \in Rows /\ row' = [row EXCEPT ![c].running = TRUE] /\ SetStatus(for[c], "running")
             /\ (Goto(c, "done") /\ NoFault) \/ (Goto(c, "teardown") /\ Fault("call"))
    <3>0. row'[c] = [row[c] EXCEPT !.running = TRUE] /\ status'[for[c]] = "running"
      BY <2>2, <1>a, <1>g DEF DbTyped
    <3>1. IsRow(c, row[c].vmid, row[c].ip, TRUE)
      <4>1. row'[c].ip = row[c].ip /\ row'[c].vmid = row[c].vmid
        BY <2>2, <3>0, <1>h DEF Row
      <4>2. row'[c].running = TRUE
        BY <2>2, <3>0, <1>h DEF Row
      <4>3. row[c] \in Row => [row[c] EXCEPT !.running = TRUE] \in Row
        BY DEF Row
      <4>4. row'[c] # NoVal
        BY <2>2, <3>0, <4>3, <1>h, <1>i
      <4> QED
        BY <4>1, <4>2, <4>4 DEF IsRow
    <3>2. pc'[c] = "done" \/ (pc'[c] = "teardown" /\ Met("call"))
      BY <2>2, <1>b, <1>e
    <3> QED
      BY <2>1, <2>2, <3>0, <3>1, <3>2, <1>f DEF CallEdge, Goes
  <2>3. CASE c \notin Rows /\ Goto(c, "teardown") /\ UNCHANGED <<row, status>>
    BY <2>1, <2>3, <1>b, <1>f DEF CallEdge, Goes, Keeps, KeepsRow
  <2> QED
    BY <1>7, <2>2, <2>3 DEF Record
<1>8. CASE ErrorPath(c)
  BY <1>8, <1>b, <1>d, <1>f DEF ErrorPath, db, locals, CallEdge, Goes
<1>9. CASE Release(c)
  <2>1. pc[c] = "release" /\ status' = status /\ mine'[c] = mine[c] /\ hand'[c] = hand[c]
    BY <1>9 DEF Release, locals
  <2>2. CASE ReleaseReservation(c) /\ Goto(c, "fail")
    <3>1. row'[c] = NoVal
      BY <2>2, <1>a DEF ReleaseReservation, DeleteRow, DbTyped
    <3> QED
      BY <2>1, <2>2, <3>1, <1>b, <1>f DEF CallEdge, Goes
  <2>3. CASE Fault("database") /\ Goto(c, "done") /\ row' = row
    BY <2>1, <2>3, <1>b, <1>e, <1>f DEF CallEdge, Goes, Keeps, KeepsRow
  <2> QED
    BY <1>9, <2>2, <2>3 DEF Release
<1>10. CASE Fail(c)
  <2>1. Goes(c, "fail", "done") /\ Keeps(c)
    BY <1>10, <1>b, <1>d DEF Fail, locals, Goes
  <2>2. status'[for[c]] = "error" \/ (status' = status /\ Met("database"))
    BY <1>10, <1>e, <1>g DEF Fail, RecordError
  <2> QED
    BY <2>1, <2>2, <1>f DEF CallEdge, Goes
<1>11. CASE Crash(c)
  BY <1>11, <1>b, <1>d, <1>e, <1>f DEF Crash, db, locals, CallEdge
<1> QED
  BY <1>1, <1>2, <1>3, <1>4, <1>5, <1>6, <1>7, <1>8, <1>9, <1>10, <1>11 DEF CallMoves, CallStep

\* The VM a step leaves under v.
IsVm(v, by, st, ip) == vm'[v] # NoVal /\ vm'[v].by = by /\ vm'[v].st = st /\ vm'[v].ip = ip

\* What a call's step does to the VM under the vmid it reserved, by its way.
ChangesVm(c, v) ==
  \/ /\ Goes(c, "clone", "cloning") \/ (Goes(c, "clone", "teardown") /\ Met("call"))
     /\ vm[v] = NoVal /\ IsVm(v, c, "cloning", NoVal)
  \/ Goes(c, "cloning", "cloned") /\ IsVm(v, c, "stopped", vm[v].ip)
  \/ Goes(c, "cloning", "teardown") /\ (vm'[v] = NoVal \/ IsVm(v, c, "conf", NoVal))
  \/ Goes(c, "cloned", "boot") /\ Usable(v) /\ IsVm(v, vm[v].by, vm[v].st, hand[c])
  \/ /\ Goes(c, "boot", "confirm") \/ Goes(c, "boot", "teardown")
     /\ Usable(v) /\ IsVm(v, vm[v].by, "running", vm[v].ip)
  \/ Goes(c, "teardown", "release") /\ Usable(v) /\ vm'[v] = NoVal

LeavesVms(c) ==
  /\ vm' = vm
  /\ ~(Goes(c, "clone", "cloning") \/ Goes(c, "cloning", "cloned"))
  /\ ~(Goes(c, "cloned", "boot") \/ Goes(c, "boot", "confirm"))
  /\ Goes(c, "confirm", "record") => Running(mine[c])
  /\ Goes(c, "cloning", "teardown") => Met("late") \/ Met("call")
  /\ Goes(c, "teardown", "release") =>
       mine[c] = NoVal \/ ~Usable(mine[c]) \/ Met("cleanup") \/ Met("misread")

CallTouches(c) ==
  \/ LeavesVms(c)
  \/ /\ mine[c] \in Vmid /\ ChangesVm(c, mine[c])
     /\ \A w \in Vmid \ {mine[c]} : vm'[w] = vm[w]

LEMMA CallOnVms ==
  ASSUME Typed, NodeInv, NEW c \in Call, CallMoves(c)
  PROVE  CallTouches(c)
<1> USE Actors
<1>a. VmTyped /\ PcTyped /\ HandsTyped
  BY DEF Typed
<1>b. \A l : Goto(c, l) => pc'[c] = l
  BY <1>a DEF Goto, PcTyped
<1>c. pc[c] \in Holding => mine[c] \in Vmid /\ hand[c] \in Ip
  BY <1>a DEF HandsTyped, Holding
<1>d. \A k : Fault(k) => Met(k)
  BY DEF Fault, Met
<1>e. ASSUME NEW v \in Vmid, NEW y, vm' = [vm EXCEPT ![v] = y]
      PROVE  vm'[v] = y /\ \A w \in Vmid \ {v} : vm'[w] = vm[w]
  BY <1>a, <1>e DEF VmTyped
<1>f. \A v \in Vmid : vm[v] # NoVal => vm[v] \in Vm
  BY <1>a DEF VmTyped
<1>g. ASSUME NEW v \in Vmid, vm[v] # NoVal, NEW st \in {"stopped", "running"},
             vm' = [vm EXCEPT ![v].st = st]
      PROVE  IsVm(v, vm[v].by, st, vm[v].ip) /\ \A w \in Vmid \ {v} : vm'[w] = vm[w]
  <2>1. vm' = [vm EXCEPT ![v] = [vm[v] EXCEPT !.st = st]]
    BY <1>g
  <2>2. vm'[v] = [vm[v] EXCEPT !.st = st] /\ \A w \in Vmid \ {v} : vm'[w] = vm[w]
    BY <1>e, <2>1
  <2>3. [vm[v] EXCEPT !.st = st] \in Vm /\ [vm[v] EXCEPT !.st = st].by = vm[v].by
        /\ [vm[v] EXCEPT !.st = st].st = st /\ [vm[v] EXCEPT !.st = st].ip = vm[v].ip
    BY <1>f, <1>g DEF Vm
  <2> QED
    BY <2>2, <2>3 DEF IsVm
<1>1. CASE StartClone(c, mine[c], "teardown")
  <2>1. pc[c] = "clone" /\ mine[c] \in Vmid
    BY <1>1, <1>c DEF StartClone, Holding
  <2>2. CASE /\ vm' = [vm EXCEPT ![mine[c]] = NewVm(c, "cloning")] /\ vm[mine[c]] = NoVal
             /\ Goto(c, "cloning") \/ (Goto(c, "teardown") /\ Fault("call"))
    <3>1. NewVm(c, "cloning") # NoVal /\ NewVm(c, "cloning").by = c
          /\ NewVm(c, "cloning").st = "cloning" /\ NewVm(c, "cloning").ip = NoVal
      <4>1. NewVm(c, "cloning") \in Vm
        BY DEF NewVm, Vm
      <4> QED
        BY <4>1 DEF NewVm
    <3> QED
      BY <2>1, <2>2, <3>1, <1>b, <1>d, <1>e DEF CallTouches, ChangesVm, IsVm, Goes
  <2>3. CASE vm' = vm /\ Goto(c, "teardown")
    BY <2>1, <2>3, <1>b DEF CallTouches, LeavesVms, Goes
  <2> QED
    BY <1>1, <2>2, <2>3 DEF StartClone
<1>2. CASE WaitClone(c, mine[c], "teardown")
  <2>1. pc[c] = "cloning" /\ mine[c] \in Vmid
    BY <1>2, <1>c DEF WaitClone, Holding
  <2>0. vm[mine[c]] # NoVal /\ vm[mine[c]].by = c
    BY <2>1 DEF NodeInv, ClonesThere, CloneThere, VmidOf
  <2>2. CASE vm' = [vm EXCEPT ![mine[c]].st = "stopped"] /\ Goto(c, "cloned")
    BY <2>0, <2>1, <2>2, <1>b, <1>g DEF CallTouches, ChangesVm, Goes
  <2>3. ASSUME NEW left \in {NoVal, NewVm(c, "conf")}, vm' = [vm EXCEPT ![mine[c]] = left],
               Goto(c, "teardown")
        PROVE  CallTouches(c)
    <3>1. NewVm(c, "conf") # NoVal /\ NewVm(c, "conf").by = c
          /\ NewVm(c, "conf").st = "conf" /\ NewVm(c, "conf").ip = NoVal
      <4>1. NewVm(c, "conf") \in Vm
        BY DEF NewVm, Vm
      <4> QED
        BY <4>1 DEF NewVm
    <3> QED
      BY <2>1, <2>3, <3>1, <1>b, <1>e DEF CallTouches, ChangesVm, IsVm, Goes
  <2>4. CASE vm' = vm /\ Goto(c, "teardown") /\ (Fault("late") \/ Fault("call"))
    BY <2>1, <2>4, <1>b, <1>d DEF CallTouches, LeavesVms, Goes
  <2>5. CASE vm' = [vm EXCEPT ![mine[c]] = vm[mine[c]]] /\ Goto(c, "teardown") /\ Fault("call")
    <3>1. vm' = vm
      BY <2>1, <2>5, <1>a DEF VmTyped
    <3> QED
      BY <2>4, <2>5, <3>1
  <2> QED
    BY <1>2, <2>2, <2>3, <2>4, <2>5 DEF WaitClone
<1>3. CASE Configure(c)
  <2>1. pc[c] = "cloned" /\ mine[c] \in Vmid /\ hand[c] \in Ip
    BY <1>3, <1>c DEF Configure, Holding
  <2>2. CASE Usable(mine[c]) /\ vm' = [vm EXCEPT ![mine[c]].ip = hand[c]] /\ Goto(c, "boot")
    <3>1. vm[mine[c]] \in Vm
      BY <2>1, <2>2, <1>f DEF Usable, Exists
    <3>2. vm'[mine[c]] = [vm[mine[c]] EXCEPT !.ip = hand[c]]
          /\ \A w \in Vmid \ {mine[c]} : vm'[w] = vm[w]
      BY <2>1, <2>2, <1>a DEF VmTyped
    <3>3. [vm[mine[c]] EXCEPT !.ip = hand[c]] \in Vm
          /\ [vm[mine[c]] EXCEPT !.ip = hand[c]].by = vm[mine[c]].by
          /\ [vm[mine[c]] EXCEPT !.ip = hand[c]].st = vm[mine[c]].st
          /\ [vm[mine[c]] EXCEPT !.ip = hand[c]].ip = hand[c]
      BY <2>1, <3>1 DEF Vm
    <3>4. IsVm(mine[c], vm[mine[c]].by, vm[mine[c]].st, hand[c])
      BY <3>2, <3>3 DEF IsVm
    <3> QED
      BY <2>1, <2>2, <3>2, <3>4, <1>b DEF CallTouches, ChangesVm, Goes
  <2>3. CASE vm' = vm /\ Goto(c, "teardown")
    BY <2>1, <2>3, <1>b DEF CallTouches, LeavesVms, Goes
  <2> QED
    BY <1>3, <2>2, <2>3 DEF Configure
<1>4. CASE BootBox(c)
  <2>1. pc[c] = "boot" /\ mine[c] \in Vmid
    BY <1>4, <1>c DEF BootBox, Holding
  <2>2. CASE Usable(mine[c]) /\ Boot(mine[c]) /\ (Goto(c, "confirm") \/ Goto(c, "teardown"))
    BY <2>1, <2>2, <1>b, <1>g DEF CallTouches, ChangesVm, Goes, Boot, Usable, Exists
  <2>3. CASE vm' = vm /\ Goto(c, "teardown")
    BY <2>1, <2>3, <1>b DEF CallTouches, LeavesVms, Goes
  <2> QED
    BY <1>4, <2>2, <2>3 DEF BootBox
<1>5. CASE ErrorPath(c)
  <2>1. pc[c] = "teardown" /\ pc'[c] = "release" /\ mine[c] \in Vmid \cup {NoVal}
    BY <1>5, <1>a, <1>b DEF ErrorPath, HandsTyped
  <2>2. CASE mine[c] = NoVal /\ vm' = vm
    BY <2>1, <2>2 DEF CallTouches, LeavesVms, Goes
  <2>3. CASE mine[c] # NoVal /\ Usable(mine[c]) /\ Destroy(mine[c])
    BY <2>1, <2>3, <1>e DEF CallTouches, ChangesVm, Goes, Destroy
  <2>4. CASE vm' = vm /\ (~Usable(mine[c]) \/ Fault("cleanup") \/ Fault("misread"))
    BY <2>1, <2>4, <1>d DEF CallTouches, LeavesVms, Goes
  <2> QED
    BY <1>5, <2>2, <2>3, <2>4 DEF ErrorPath, TearDown
<1>6. CASE ConfirmIp(c)
  BY <1>6, <1>b DEF ConfirmIp, CallTouches, LeavesVms, Goes
<1>7. CASE Accept(c) \/ Admit(c) \/ Reserve(c) \/ LeaseIp(c) \/ Bind(c)
  BY <1>7, <1>b DEF Accept, Admit, Reserve, LeaseIp, NothingToLease, Bind, CallTouches, LeavesVms, Goes
<1>8. CASE Record(c) \/ Release(c) \/ Fail(c)
  BY <1>8, <1>b DEF Record, Release, Fail, CallTouches, LeavesVms, Goes
<1>9. CASE Crash(c)
  BY <1>9, <1>b, <1>d DEF Crash, CallTouches, LeavesVms, Goes
<1> QED
  BY <1>1, <1>2, <1>3, <1>4, <1>5, <1>6, <1>7, <1>8, <1>9 DEF CallMoves, CallStep

ProbeMoves(p) == ProbeStep(p) \/ Crash(p)

\* A probe has its own records, and one VM.
LEMMA ProbeFrame ==
  ASSUME Typed, NodeInv, NEW p \in Probe, ProbeMoves(p)
  PROVE  /\ OnlyMoves(p) /\ status' = status /\ pc'[p] # "idle"
         /\ \A w \in Vmid \ {ProbeVmid} : vm'[w] = vm[w]
<1> USE Actors, ProbeVmidInRange
<1>a. DbTyped /\ PcTyped /\ HandsTyped /\ VmTyped
  BY DEF Typed
<1>0. UNCHANGED <<boxes, for, todo, partial, hasty, mine, status>>
  <2>1. CASE BeginProbe(p) \/ ReadBack(p) \/ ProbeClone(p) \/ ProbeWait(p) \/ RecordProbe(p)
    BY <2>1 DEF BeginProbe, ReadBack, ProbeClone, StartClone, ProbeWait, WaitClone, RecordProbe, db, locals
  <2>2. CASE PowerOn(p) \/ PowerOff(p) \/ ProbeDestroy(p) \/ ProbeClean(p) \/ Crash(p)
    BY <2>2 DEF PowerOn, PowerOff, ProbeDestroy, ProbeClean, Crash, db, locals
  <2> QED
    BY <2>1, <2>2 DEF ProbeMoves, ProbeStep
<1>1. /\ \E l \in ProbeLabels \ {"idle"} : pc' = [pc EXCEPT ![p] = l]
      /\ hand' = hand \/ \E i : hand' = [hand EXCEPT ![p] = i]
  <2>1. CASE BeginProbe(p) \/ ReadBack(p) \/ ProbeClone(p) \/ ProbeWait(p) \/ RecordProbe(p)
    BY <2>1 DEF BeginProbe, ReadBack, ProbeClone, StartClone, ProbeWait, WaitClone, RecordProbe,
                ProbeLabels, Goto, locals
  <2>2. CASE PowerOn(p) \/ PowerOff(p) \/ ProbeDestroy(p) \/ ProbeClean(p) \/ Crash(p)
    BY <2>2 DEF PowerOn, PowerOff, ProbeDestroy, ProbeClean, Crash, ProbeLabels, Goto, locals
  <2> QED
    BY <2>1, <2>2 DEF ProbeMoves, ProbeStep
<1>2. row' = row \/ \E r : row' = [row EXCEPT ![p] = r]
  <2>1. CASE RecordProbe(p) \/ ProbeClean(p)
    BY <2>1 DEF RecordProbe, ProbeClean
  <2>2. CASE BeginProbe(p) \/ ReadBack(p) \/ ProbeClone(p) \/ ProbeWait(p)
    BY <2>2 DEF BeginProbe, ReadBack, ProbeClone, StartClone, ProbeWait, WaitClone, db
  <2>3. CASE PowerOn(p) \/ PowerOff(p) \/ ProbeDestroy(p) \/ Crash(p)
    BY <2>3 DEF PowerOn, PowerOff, ProbeDestroy, Crash, db
  <2> QED
    BY <2>1, <2>2, <2>3 DEF ProbeMoves, ProbeStep
<1>3. vm' = vm \/ \E y : vm' = [vm EXCEPT ![ProbeVmid] = y]
  <2>1. CASE BeginProbe(p) \/ ReadBack(p) \/ RecordProbe(p) \/ ProbeClean(p) \/ Crash(p)
    BY <2>1 DEF BeginProbe, ReadBack, RecordProbe, ProbeClean, Crash
  <2>2. CASE ProbeClone(p)
    BY <2>2 DEF ProbeClone, StartClone
  <2>3. CASE ProbeWait(p)
    <3>1. \/ vm' = vm \/ vm' = [vm EXCEPT ![ProbeVmid].st = "stopped"]
          \/ \E left : vm' = [vm EXCEPT ![ProbeVmid] = left]
      BY <2>3 DEF ProbeWait, WaitClone
    <3>2. CASE vm' = [vm EXCEPT ![ProbeVmid].st = "stopped"]
      BY <3>2
    <3> QED
      BY <3>1, <3>2
  <2>4. CASE PowerOn(p) \/ PowerOff(p)
    BY <2>4 DEF PowerOn, PowerOff, Boot
  <2>5. CASE ProbeDestroy(p)
    BY <2>5 DEF ProbeDestroy, DestroyProbe, TearDown, Destroy
  <2> QED
    BY <2>1, <2>2, <2>3, <2>4, <2>5 DEF ProbeMoves, ProbeStep
<1>4. \A y \in Proc \ {p} : pc'[y] = pc[y] /\ hand'[y] = hand[y]
  BY <1>a, <1>1 DEF PcTyped, HandsTyped
<1>5. \A y \in Owner \ {p} : row'[y] = row[y]
  BY <1>a, <1>2 DEF DbTyped
<1>6. \A w \in Vmid \ {ProbeVmid} : vm'[w] = vm[w]
  BY <1>a, <1>3 DEF VmTyped
<1>7. pc'[p] # "idle"
  BY <1>a, <1>1 DEF PcTyped
<1> QED
  BY <1>0, <1>4, <1>5, <1>6, <1>7 DEF OnlyMoves

\* A deprovision's step: it destroys the VM of a row it loaded, gives that row up, or
\* deletes it if it can; at last it records what it did.
OpEdge(o) ==
  \/ \E x \in todo[o] :
       /\ Goes(o, "next", "drop") /\ hand'[o] = x /\ todo'[o] = todo[o]
       /\ row' = row /\ lease' = lease /\ status' = status
       /\ \/ vm' = vm /\ (~Exists(mine[o][x]) \/ Met("misread"))
          \/ /\ Usable(mine[o][x])
             /\ \A w \in Vmid : vm'[w] = IF w = mine[o][x] THEN NoVal ELSE vm[w]
  \/ /\ Goes(o, "next", "next") /\ \E x \in todo[o] : todo'[o] = todo[o] \ {x}
     /\ row' = row /\ lease' = lease /\ status' = status /\ vm' = vm /\ hand' = hand
  \/ /\ Goes(o, "drop", "next") /\ todo'[o] = todo[o] \ {hand[o]}
     /\ hand[o] \in Call /\ status' = status /\ vm' = vm /\ hand' = hand
     /\ \/ /\ DeleteRow(hand[o]) /\ row'[hand[o]] = NoVal
           /\ \A y \in Owner \ {hand[o]} : row'[y] = row[y]
        \/ row' = row /\ lease' = lease
  \/ /\ Goes(o, "next", "done") /\ todo' = todo
     /\ row' = row /\ lease' = lease /\ vm' = vm /\ hand' = hand
     /\ status'[for[o]] \in {status[for[o]], "destroyed"}
     /\ \A l \in Lab \ {for[o]} : status'[l] = status[l]

LEMMA OpGoes ==
  ASSUME Typed, NodeInv, NEW o \in Op, OpStep(o)
  PROVE  /\ OpEdge(o) /\ for[o] \in Lab
         /\ \A y \in Proc \ {o} : pc'[y] = pc[y] /\ hand'[y] = hand[y]
         /\ \A q \in Op \ {o} : todo'[q] = todo[q]
         /\ UNCHANGED <<boxes, for, mine, hasty>>
<1> USE Actors
<1>a. DbTyped /\ PcTyped /\ ForTyped /\ OpsTyped /\ HandsTyped /\ VmTyped
  BY DEF Typed
<1>0. UNCHANGED <<boxes, for, mine, hasty>> /\ for[o] \in Lab
  BY <1>a DEF OpStep, DestroyNext, DropNext, RecordDestroyed, db, locals, ForTyped
<1>1. CASE DestroyNext(o)
  <2>1. UNCHANGED <<row, lease, status>> /\ pc[o] = "next"
    BY <1>1 DEF DestroyNext, db
  <2>2. PICK x \in todo[o] :
          \/ /\ \/ Usable(mine[o][x]) /\ vm' = [vm EXCEPT ![mine[o][x]] = NoVal]
                \/ vm' = vm /\ (~Exists(mine[o][x]) \/ Met("misread"))
             /\ Goto(o, "drop") /\ hand' = [hand EXCEPT ![o] = x] /\ todo' = todo
          \/ /\ todo' = [todo EXCEPT ![o] = todo[o] \ {x}] /\ UNCHANGED <<vm, pc, hand>>
    BY <1>1 DEF DestroyNext, Destroy, Fault, Met
  <2>3. CASE todo' = [todo EXCEPT ![o] = todo[o] \ {x}] /\ UNCHANGED <<vm, pc, hand>>
    <3>1. todo'[o] = todo[o] \ {x} /\ \A q \in Op \ {o} : todo'[q] = todo[q]
      BY <1>a, <2>3 DEF OpsTyped
    <3> QED
      BY <1>0, <2>1, <2>3, <3>1 DEF OpEdge, Goes
  <2>4. CASE /\ \/ Usable(mine[o][x]) /\ vm' = [vm EXCEPT ![mine[o][x]] = NoVal]
                \/ vm' = vm /\ (~Exists(mine[o][x]) \/ Met("misread"))
             /\ Goto(o, "drop") /\ hand' = [hand EXCEPT ![o] = x] /\ todo' = todo
    <3>1. hand'[o] = x /\ \A y \in Proc \ {o} : hand'[y] = hand[y]
      BY <1>a, <2>4 DEF HandsTyped
    <3>2. pc'[o] = "drop" /\ \A y \in Proc \ {o} : pc'[y] = pc[y]
      BY <1>a, <2>4 DEF Goto, PcTyped
    <3>3. ASSUME vm' = [vm EXCEPT ![mine[o][x]] = NoVal]
          PROVE  \A w \in Vmid : vm'[w] = IF w = mine[o][x] THEN NoVal ELSE vm[w]
      BY <1>a, <3>3 DEF VmTyped
    <3> QED
      BY <1>0, <2>1, <2>4, <3>1, <3>2, <3>3 DEF OpEdge, Goes
  <2> QED
    BY <2>2, <2>3, <2>4
<1>2. CASE DropNext(o)
  <2>1. /\ pc[o] = "drop" /\ hand[o] \in Call
        /\ DeleteRow(hand[o]) \/ UNCHANGED <<row, lease>>
        /\ todo' = [todo EXCEPT ![o] = todo[o] \ {hand[o]}] /\ pc' = [pc EXCEPT ![o] = "next"]
        /\ UNCHANGED <<status, vm, hand>>
    BY <1>2, <1>a DEF DropNext, OpsTyped, Goto
  <2>2. todo'[o] = todo[o] \ {hand[o]} /\ \A q \in Op \ {o} : todo'[q] = todo[q]
    BY <1>a, <2>1 DEF OpsTyped
  <2>3. pc'[o] = "next" /\ \A y \in Proc \ {o} : pc'[y] = pc[y]
    BY <1>a, <2>1 DEF PcTyped
  <2>4. \/ /\ DeleteRow(hand[o]) /\ row'[hand[o]] = NoVal
           /\ \A y \in Owner \ {hand[o]} : row'[y] = row[y]
        \/ row' = row /\ lease' = lease
    BY <1>a, <2>1 DEF DeleteRow, DbTyped
  <2> QED
    BY <1>0, <2>1, <2>2, <2>3, <2>4 DEF OpEdge, Goes
<1>3. CASE RecordDestroyed(o)
  <2>1. /\ pc[o] = "next" /\ pc' = [pc EXCEPT ![o] = "done"]
        /\ UNCHANGED <<row, lease, vm, hand, todo>>
        /\ status' = status \/ status' = [status EXCEPT ![for[o]] = "destroyed"]
    BY <1>3 DEF RecordDestroyed, Goto, SetStatus, locals
  <2>2. pc'[o] = "done" /\ \A y \in Proc \ {o} : pc'[y] = pc[y]
    BY <1>a, <2>1 DEF PcTyped
  <2>3. /\ status'[for[o]] \in {status[for[o]], "destroyed"}
        /\ \A l \in Lab \ {for[o]} : status'[l] = status[l]
    BY <1>0, <1>a, <2>1 DEF DbTyped
  <2> QED
    BY <1>0, <2>1, <2>2, <2>3 DEF OpEdge, Goes
<1> QED
  BY <1>1, <1>2, <1>3 DEF OpStep

\* Nothing is forgotten of what went wrong, nor of labs deprovisioned too early.
LEMMA Grows ==
  ASSUME [Next]_vars
  PROVE  faults.kinds \subseteq faults'.kinds /\ hasty \subseteq hasty'
<1>a. ASSUME NEW k, Fault(k) PROVE faults'.kinds = faults.kinds \cup {k}
  BY <1>a DEF Fault
<1>1. ASSUME NEW c \in Call, CallStep(c)
      PROVE  ((\E k : Fault(k)) \/ UNCHANGED faults) /\ hasty' = hasty
  <2>1. (\E k : Fault(k)) \/ UNCHANGED faults
    BY <1>1 DEF CallStep, Accept, Admit, Reserve, LeaseIp, Bind, StartClone, WaitClone, Configure,
              BootBox, ConfirmIp, Record, ErrorPath, TearDown, Release, Fail, NoFault
  <2>2. hasty' = hasty
    BY <1>1 DEF CallStep, Accept, Admit, Reserve, LeaseIp, Bind, StartClone, WaitClone, Configure,
              BootBox, ConfirmIp, Record, ErrorPath, TearDown, Release, Fail, locals
  <2> QED
    BY <2>1, <2>2
<1>2. ASSUME NEW p \in Probe, ProbeStep(p)
      PROVE  ((\E k : Fault(k)) \/ UNCHANGED faults) /\ hasty' = hasty
  <2>1. (\E k : Fault(k)) \/ UNCHANGED faults
    BY <1>2 DEF ProbeStep, BeginProbe, ProbeClone, StartClone, ProbeWait, WaitClone, ReadBack,
              RecordProbe, PowerOn, PowerOff, ProbeDestroy, DestroyProbe, TearDown, ProbeClean, NoFault
  <2>2. hasty' = hasty
    BY <1>2 DEF ProbeStep, BeginProbe, ProbeClone, StartClone, ProbeWait, WaitClone, ReadBack,
              RecordProbe, PowerOn, PowerOff, ProbeDestroy, DestroyProbe, TearDown, ProbeClean, locals
  <2> QED
    BY <2>1, <2>2
<1>3. ASSUME NEW o \in Op, OpStep(o)
      PROVE  ((\E k : Fault(k)) \/ UNCHANGED faults) /\ hasty' = hasty
  BY <1>3 DEF OpStep, DestroyNext, DropNext, RecordDestroyed, NoFault, locals
<1>4. ASSUME NEW o \in Op, NEW l \in Lab, Deprovision(o, l)
      PROVE  hasty \subseteq hasty' /\ UNCHANGED faults
  BY <1>4 DEF Deprovision
<1>5. ((\E k : Fault(k)) \/ UNCHANGED faults) /\ hasty \subseteq hasty'
  BY <1>1, <1>2, <1>3, <1>4 DEF Next, vars, Ask, Retry, Crash, FinishClone, locals
<1> QED
  BY <1>a, <1>5

-----------------------------------------------------------------------------
(* The life of a call and its row *)

Reserved == {"lease", "bind", "clone", "cloning", "cloned", "boot", "confirm", "record"}
Over(c) == pc[c] \in {"done", "crashed"}

\* At most one call works on a lab at a time (Ask and Retry see to that).
OneWorking ==
  \A c, d \in Call : c # d /\ for[c] = for[d] /\ Working(c) => ~Working(d)
IdleOps == \A o \in Op : pc[o] = "idle" => for[o] = NoVal /\ todo[o] = {}

\* A deprovision handles rows of calls that are over, under the vmids they reserved.
OpsAreLate ==
  \A o \in Op :
    /\ \A x \in todo[o] : Over(x) /\ for[x] = for[o] /\ mine[o][x] = mine[x]
    /\ pc[o] = "drop" => hand[o] \in todo[o]

\* When a call has a row, for which vmid, and when the row may be marked as running:
\* beside calls that are done, only on the error path after the failed audit entry.
RowOf(c) ==
  /\ pc[c] \in {"idle", "asked", "queued", "reserve"} => mine[c] = NoVal /\ c \notin Rows
  /\ pc[c] \in Reserved => c \in Rows
  /\ pc[c] \in {"teardown", "release"} /\ mine[c] # NoVal => c \in Rows
  /\ pc[c] = "fail" => c \notin Rows
  /\ c \in Rows => row[c].vmid = mine[c]
  /\ c \in Rows /\ row[c].running /\ Working(c) =>
       pc[c] \in {"teardown", "release"} /\ "call" \in faults.kinds
  /\ c \in Rows /\ row[c].running /\ pc[c] = "crashed" => "call" \in faults.kinds
RowsOfCalls == \A c \in Call : RowOf(c)

LifeInv ==
  /\ OneWorking /\ IdleOps
  /\ hasty = {} => OpsAreLate /\ RowsOfCalls

\* A call that does not move keeps its life.
LEMMA RowOfKept ==
  ASSUME [Next]_vars, NEW c \in Call, RowOf(c),
         pc'[c] = pc[c], mine'[c] = mine[c], row'[c] = row[c]
  PROVE  RowOf(c)'
<1>1. faults.kinds \subseteq faults'.kinds
  BY Grows
<1> QED
  BY <1>1 DEF RowOf, Rows, Working

LEMMA RowOfMoves ==
  ASSUME Typed, [Next]_vars, NEW c \in Call, CallMoves(c), RowOf(c)
  PROVE  RowOf(c)'
<1> USE Actors
<1>1. faults.kinds \subseteq faults'.kinds
  BY Grows
<1>2. CallEdge(c)
  BY CallGoes
<1>3. mine[c] \in Vmid \cup {NoVal} /\ \A v \in FreeVmids : v \in Vmid /\ v # NoVal
  BY DEF Typed, HandsTyped, FreeVmids
<1>4. CASE Keeps(c)
  <2>1. row'[c] = row[c] /\ mine'[c] = mine[c]
    BY <1>4 DEF Keeps, KeepsRow
  <2>2. CASE \/ Goes(c, "asked", "queued") \/ Goes(c, "asked", "crashed")
             \/ Goes(c, "queued", "done") \/ Goes(c, "queued", "reserve")
    BY <2>1, <2>2 DEF RowOf, Rows, Working, Goes, Reserved
  <2>3. CASE Forward(c) \/ (pc[c] \in Trying /\ pc'[c] = "teardown")
    BY <2>1, <2>3 DEF RowOf, Rows, Working, Forward, Trying, Goes, Reserved
  <2>4. CASE \/ Goes(c, "bind", "teardown") /\ c \notin Rows
             \/ Goes(c, "record", "teardown") /\ c \notin Rows
             \/ Goes(c, "teardown", "release")
             \/ Goes(c, "release", "done") \/ Goes(c, "fail", "done")
    BY <1>1, <2>1, <2>4 DEF RowOf, Rows, Working, Goes, Reserved
  <2>5. CASE /\ pc[c] \notin {"idle", "asked", "queued", "done", "crashed"} /\ pc'[c] = "crashed"
             /\ Met("crash")
    BY <1>1, <2>1, <2>5 DEF RowOf, Rows, Working, Reserved, Met
  <2>6. CASE Goes(c, "reserve", "lease") /\ \E v \in FreeVmids : mine'[c] = v
    BY <1>3, <2>1, <2>6 DEF RowOf, Goes
  <2>7. CASE Goes(c, "lease", "bind")
    BY <2>1, <2>7 DEF RowOf, Rows, Working, Goes, Reserved
  <2>8. CASE Goes(c, "bind", "clone")
    BY <2>1, <2>8 DEF RowOf, Rows, Working, Goes, Reserved
  <2>9. CASE c \in Rows /\ IsRow(c, row[c].vmid, row[c].ip, TRUE)
             /\ (Goes(c, "record", "done") \/ (Goes(c, "record", "teardown") /\ Met("call")))
    BY <2>1, <2>9 DEF RowOf, Rows, Working, Goes, Reserved, Met, IsRow
  <2>10. CASE Goes(c, "release", "fail") /\ row'[c] = NoVal
    BY <2>1, <2>10 DEF RowOf, Rows, Working, Goes, Reserved
  <2> QED
    BY <1>2, <2>2, <2>3, <2>4, <2>5, <2>6, <2>7, <2>8, <2>9, <2>10 DEF CallEdge
<1>5. CASE Goes(c, "reserve", "lease") /\ \E v \in FreeVmids : IsRow(c, v, NoVal, FALSE) /\ mine'[c] = v
  BY <1>3, <1>5 DEF RowOf, Rows, Working, Goes, Reserved, IsRow
<1>6. CASE Goes(c, "lease", "bind") /\ KeepsRow(c)
  BY <1>6 DEF RowOf, Rows, Working, Goes, Reserved, KeepsRow
<1>7. CASE /\ Goes(c, "bind", "clone") /\ c \in Rows /\ mine'[c] = mine[c]
           /\ IsRow(c, row[c].vmid, hand[c], row[c].running)
  BY <1>7 DEF RowOf, Rows, Working, Goes, Reserved, IsRow
<1>8. CASE /\ Goes(c, "record", "done") \/ (Goes(c, "record", "teardown") /\ Met("call"))
           /\ c \in Rows /\ IsRow(c, row[c].vmid, row[c].ip, TRUE) /\ mine'[c] = mine[c]
  BY <1>8 DEF RowOf, Rows, Working, Goes, Reserved, IsRow, Met
<1>9. CASE Goes(c, "release", "fail") /\ row'[c] = NoVal /\ mine'[c] = mine[c]
  BY <1>9 DEF RowOf, Rows, Working, Goes, Reserved
<1> QED
  BY <1>2, <1>4, <1>5, <1>6, <1>7, <1>8, <1>9 DEF CallEdge

LEMMA LifeStep ==
  ASSUME Typed, NodeInv, ClosedInv, LifeInv, [Next]_vars
  PROVE  LifeInv'
<1> USE Actors
<1>a. DbTyped /\ PcTyped /\ ForTyped /\ OpsTyped /\ HandsTyped
  BY DEF Typed
<1>b. hasty' = {} => hasty = {}
  BY Grows
<1>c. \A x \in Call : x \in Owner /\ x \in Proc
  OBVIOUS
<1>d. \A o \in Op : \A x \in todo[o] : x \in Call
  BY <1>a DEF OpsTyped
<1>1. ASSUME NEW c \in Call, CallMoves(c) PROVE LifeInv'
  <2>1. OnlyMoves(c) /\ CallEdge(c) /\ pc[c] # "idle"
    BY <1>1, CallFrame, CallGoes
  <2>2. pc[c] \notin {"done", "crashed"}
    BY <2>1 DEF CallEdge, Goes, Forward, Trying
  <2>3. OneWorking'
    BY <2>1, <2>2 DEF OnlyMoves, LifeInv, OneWorking, Working
  <2>4. IdleOps'
    BY <2>1 DEF OnlyMoves, LifeInv, IdleOps, Proc
  <2>5. hasty = {} => OpsAreLate'
    <3> SUFFICES ASSUME hasty = {}, NEW o \in Op
                 PROVE  /\ \A x \in todo[o] : Over(x)' /\ for[x] = for[o] /\ mine'[o][x] = mine'[x]
                        /\ pc'[o] = "drop" => hand'[o] \in todo[o]
      BY <2>1 DEF OpsAreLate, OnlyMoves
    <3>1. pc'[o] = pc[o] /\ hand'[o] = hand[o] /\ mine'[o] = mine[o]
      BY <2>1 DEF OnlyMoves
    <3>2. ASSUME NEW x \in todo[o] PROVE x # c /\ pc'[x] = pc[x] /\ mine'[x] = mine[x] /\ Over(x)
                                         /\ for[x] = for[o] /\ mine[o][x] = mine[x]
      <4>1. Over(x) /\ x \in Call /\ for[x] = for[o] /\ mine[o][x] = mine[x]
        BY <1>d DEF LifeInv, OpsAreLate
      <4>2. x # c
        BY <2>2, <4>1 DEF Over
      <4> QED
        BY <2>1, <4>1, <4>2 DEF OnlyMoves
    <3>3. pc[o] = "drop" => hand[o] \in todo[o]
      BY DEF LifeInv, OpsAreLate
    <3> QED
      BY <3>1, <3>2, <3>3 DEF Over
  <2>6. hasty = {} => RowsOfCalls'
    <3> SUFFICES ASSUME hasty = {}, NEW d \in Call PROVE RowOf(d)'
      BY DEF RowsOfCalls
    <3>1. CASE d = c
      BY <1>1, <3>1, RowOfMoves DEF LifeInv, RowsOfCalls
    <3>2. CASE d # c
      BY <2>1, <3>2, RowOfKept DEF LifeInv, RowsOfCalls, OnlyMoves
    <3> QED
      BY <3>1, <3>2
  <2> QED
    BY <1>b, <2>3, <2>4, <2>5, <2>6 DEF LifeInv
<1>2. ASSUME NEW c \in Call, NEW l \in Lab, Ask(c, l) \/ Retry(c, l) PROVE LifeInv'
  <2>1. /\ pc[c] = "idle" /\ for' = [for EXCEPT ![c] = l]
        /\ \A k \in CallsOf(l) : ~Working(k)
        /\ \E k \in {"asked", "queued"} : pc' = [pc EXCEPT ![c] = k]
        /\ UNCHANGED <<row, mine, hand, todo, hasty>>
    BY <1>2 DEF Ask, Retry, Goto, db
  <2>2. /\ for'[c] = l /\ \A y \in Call \cup Op : y # c => for'[y] = for[y]
        /\ pc'[c] \in {"asked", "queued"} /\ \A y \in Proc : y # c => pc'[y] = pc[y]
    BY <1>a, <2>1 DEF ForTyped, PcTyped
  <2>3. OneWorking'
    BY <2>1, <2>2 DEF LifeInv, OneWorking, Working, CallsOf
  <2>4. IdleOps'
    BY <2>1, <2>2 DEF LifeInv, IdleOps, Proc
  <2>5. hasty = {} => OpsAreLate'
    <3> SUFFICES ASSUME hasty = {}, NEW o \in Op
                 PROVE  /\ \A x \in todo[o] : Over(x)' /\ for'[x] = for[o] /\ mine[o][x] = mine[x]
                        /\ pc[o] = "drop" => hand[o] \in todo[o]
      BY <2>1, <2>2 DEF OpsAreLate
    <3>1. ASSUME NEW x \in todo[o] PROVE x # c /\ x \in Call /\ Over(x) /\ for[x] = for[o] /\ mine[o][x] = mine[x]
      BY <1>d, <2>1 DEF LifeInv, OpsAreLate, Over
    <3>2. pc[o] = "drop" => hand[o] \in todo[o]
      BY DEF LifeInv, OpsAreLate
    <3> QED
      BY <2>2, <3>1, <3>2 DEF Over
  <2>6. hasty = {} => RowsOfCalls'
    <3> SUFFICES ASSUME hasty = {}, NEW d \in Call PROVE RowOf(d)'
      BY DEF RowsOfCalls
    <3>1. CASE d = c
      BY <2>1, <2>2, <3>1 DEF LifeInv, RowsOfCalls, RowOf, Rows, Reserved, Working
    <3>2. CASE d # c
      BY <2>1, <2>2, <3>2, RowOfKept DEF LifeInv, RowsOfCalls
    <3> QED
      BY <3>1, <3>2
  <2> QED
    BY <1>b, <2>3, <2>4, <2>5, <2>6 DEF LifeInv
<1>3. ASSUME NEW p \in Probe, ProbeMoves(p) PROVE LifeInv'
  <2>1. OnlyMoves(p)
    BY <1>3, ProbeFrame
  <2>2. /\ \A y \in Call : pc'[y] = pc[y] /\ mine'[y] = mine[y] /\ row'[y] = row[y]
        /\ \A o \in Op : pc'[o] = pc[o] /\ hand'[o] = hand[o] /\ mine'[o] = mine[o]
        /\ for' = for /\ todo' = todo
    BY <2>1 DEF OnlyMoves
  <2>3. OneWorking' /\ IdleOps'
    BY <2>2 DEF LifeInv, OneWorking, IdleOps, Working
  <2>4. hasty = {} => OpsAreLate'
    BY <1>d, <2>2 DEF LifeInv, OpsAreLate, Over
  <2>5. hasty = {} => RowsOfCalls'
    BY <2>2, RowOfKept DEF LifeInv, RowsOfCalls
  <2> QED
    BY <1>b, <2>3, <2>4, <2>5 DEF LifeInv
<1>4. ASSUME NEW o \in Op, OpStep(o) PROVE LifeInv'
  <2>1. /\ OpEdge(o) /\ for[o] \in Lab /\ pc[o] # "idle"
        /\ \A y \in Proc \ {o} : pc'[y] = pc[y] /\ hand'[y] = hand[y]
        /\ \A q \in Op \ {o} : todo'[q] = todo[q]
        /\ UNCHANGED <<for, mine>>
    <3>1. pc[o] # "idle"
      BY <1>4 DEF OpStep, DestroyNext, DropNext, RecordDestroyed
    <3> QED
      BY <1>4, <3>1, OpGoes
  <2>2. \A y \in Call : pc'[y] = pc[y]
    BY <2>1
  <2>3. pc'[o] # "idle" /\ todo'[o] \subseteq todo[o]
    BY <2>1 DEF OpEdge, Goes
  <2>4. OneWorking' /\ IdleOps'
    BY <2>1, <2>2, <2>3 DEF LifeInv, OneWorking, IdleOps, Working
  <2>5. hasty = {} => OpsAreLate'
    <3> SUFFICES ASSUME hasty = {}, NEW q \in Op
                 PROVE  /\ \A x \in todo'[q] : Over(x)' /\ for[x] = for[q] /\ mine[q][x] = mine[x]
                        /\ pc'[q] = "drop" => hand'[q] \in todo'[q]
      BY <2>1 DEF OpsAreLate
    <3>1. todo'[q] \subseteq todo[q]
      BY <2>1, <2>3
    <3>2. \A x \in todo[q] : Over(x) /\ for[x] = for[q] /\ mine[q][x] = mine[x] /\ x \in Call
      BY <1>d DEF LifeInv, OpsAreLate
    <3>3. pc'[q] = "drop" => hand'[q] \in todo'[q]
      <4>1. CASE q = o
        BY <2>1, <4>1 DEF OpEdge, Goes
      <4>2. CASE q # o
        BY <2>1, <4>2 DEF LifeInv, OpsAreLate
      <4> QED
        BY <4>1, <4>2
    <3> QED
      BY <2>2, <3>1, <3>2, <3>3 DEF Over
  <2>6. hasty = {} => RowsOfCalls'
    <3> SUFFICES ASSUME hasty = {}, NEW d \in Call PROVE RowOf(d)'
      BY DEF RowsOfCalls
    <3>1. RowOf(d)
      BY DEF LifeInv, RowsOfCalls
    <3>2. CASE row'[d] = row[d]
      BY <2>1, <2>2, <3>1, <3>2, RowOfKept
    <3>3. CASE row'[d] # row[d]
      <4>1. pc[o] = "drop" /\ d = hand[o] /\ row'[d] = NoVal
        BY <2>1, <3>3 DEF OpEdge, Goes
      <4>2. Over(d)
        BY <1>d, <4>1 DEF LifeInv, OpsAreLate
      <4> QED
        BY <2>1, <2>2, <3>1, <4>1, <4>2 DEF RowOf, Over, Rows, Reserved
    <3> QED
      BY <3>2, <3>3
  <2> QED
    BY <1>b, <2>4, <2>5, <2>6 DEF LifeInv
<1>5. ASSUME NEW o \in Op, NEW l \in Lab, Deprovision(o, l) PROVE LifeInv'
  <2>1. /\ pc[o] = "idle" /\ for' = [for EXCEPT ![o] = l] /\ todo' = [todo EXCEPT ![o] = RowsOf(l)]
        /\ mine' = [mine EXCEPT ![o] = [x \in RowsOf(l) |-> row[x].vmid]]
        /\ pc' = [pc EXCEPT ![o] = "next"] /\ UNCHANGED <<row, hand>>
        /\ hasty' = {} => \A c \in CallsOf(l) : ~Working(c)
    BY <1>5 DEF Deprovision, Goto, db
  <2>2. /\ for'[o] = l /\ \A y \in Call \cup Op : y # o => for'[y] = for[y]
        /\ pc'[o] = "next" /\ \A y \in Proc : y # o => pc'[y] = pc[y]
        /\ todo'[o] = RowsOf(l) /\ \A q \in Op : q # o => todo'[q] = todo[q]
    BY <1>a, <2>1 DEF ForTyped, PcTyped, OpsTyped
  <2>3. /\ mine'[o] = [x \in RowsOf(l) |-> row[x].vmid]
        /\ \A y \in Call \cup Op : y # o => mine'[y] = mine[y]
    BY <1>a, <2>1 DEF HandsTyped
  <2>4. \A y \in Call : for'[y] = for[y] /\ pc'[y] = pc[y] /\ mine'[y] = mine[y]
    BY <2>2, <2>3
  <2>5. OneWorking' /\ IdleOps'
    BY <2>2, <2>4 DEF LifeInv, OneWorking, IdleOps, Working
  <2>6. hasty' = {} => OpsAreLate'
    <3> SUFFICES ASSUME hasty' = {}, NEW q \in Op
                 PROVE  /\ \A x \in todo'[q] : Over(x)' /\ for'[x] = for'[q] /\ mine'[q][x] = mine'[x]
                        /\ pc'[q] = "drop" => hand[q] \in todo'[q]
      BY <2>1 DEF OpsAreLate
    <3>1. CASE q # o
      <4>1. \A x \in todo[q] : Over(x) /\ for[x] = for[q] /\ mine[q][x] = mine[x] /\ x \in Call
        BY <1>b, <1>d DEF LifeInv, OpsAreLate
      <4>2. pc[q] = "drop" => hand[q] \in todo[q]
        BY <1>b DEF LifeInv, OpsAreLate
      <4> QED
        BY <2>2, <2>3, <2>4, <3>1, <4>1, <4>2 DEF Over
    <3>2. CASE q = o
      <4>1. ASSUME NEW x \in RowsOf(l) PROVE Over(x) /\ for[x] = l /\ row[x].vmid = mine[x] /\ x \in Call
        <5>1. x \in Call /\ x \in Rows /\ for[x] = l /\ ~Working(x)
          BY <2>1 DEF RowsOf, CallsOf
        <5>2. pc[x] # "idle" /\ row[x].vmid = mine[x]
          BY <1>b, <5>1 DEF LifeInv, RowsOfCalls, RowOf
        <5> QED
          BY <5>1, <5>2 DEF Working, Over
      <4> QED
        BY <2>2, <2>3, <2>4, <3>2, <4>1 DEF Over
    <3> QED
      BY <3>1, <3>2
  <2>7. hasty = {} => RowsOfCalls'
    BY <2>1, <2>4, RowOfKept DEF LifeInv, RowsOfCalls
  <2> QED
    BY <1>b, <2>5, <2>6, <2>7 DEF LifeInv
<1>6. CASE UNCHANGED <<row, for, pc, mine, hand, todo, hasty>>
  <2>1. OneWorking' /\ IdleOps'
    BY <1>6 DEF LifeInv, OneWorking, IdleOps, Working
  <2>2. hasty = {} => OpsAreLate'
    BY <1>6 DEF LifeInv, OpsAreLate, Over
  <2>3. hasty = {} => RowsOfCalls'
    BY <1>6, RowOfKept DEF LifeInv, RowsOfCalls
  <2> QED
    BY <1>b, <2>1, <2>2, <2>3 DEF LifeInv
<1> QED
  BY <1>1, <1>2, <1>3, <1>4, <1>5, <1>6
     DEF Next, vars, db, locals, FinishClone, CallMoves, ProbeMoves

\* What every theorem of this module starts from.
LEMMA AlwaysLives == Spec => [](Typed /\ NodeInv /\ ResInv /\ ClosedInv /\ LifeInv)
<1>1. Init => ResInv /\ ClosedInv /\ LifeInv
  <2> SUFFICES ASSUME Init PROVE ResInv /\ ClosedInv /\ LifeInv
    OBVIOUS
  <2> USE Actors
  <2>1. ResInv
    BY DEF Init, ResInv, VmidsApart, LeasesMatch, FreeIsUnbound, BindersAlone, ProbesOwn,
         ProbesEmpty, Rows, FreeLease, Owner
  <2>2. ClosedInv
    BY DEF Init, ClosedInv, OnlyAsker, NoneIsAsked, RunningWas, IdleIsEmpty, OpsAfter,
         EndedMeansClosed, Rows, Owner, Proc
  <2>3. OneWorking /\ IdleOps
    BY DEF Init, OneWorking, IdleOps, Working, Proc
  <2>4. OpsAreLate
    BY DEF Init, OpsAreLate, Proc
  <2>5. RowsOfCalls
    BY DEF Init, RowsOfCalls, RowOf, Rows, Working, Reserved, Proc, Owner
  <2> QED
    BY <2>1, <2>2, <2>3, <2>4, <2>5 DEF LifeInv
<1> QED
  BY <1>1, AlwaysTyped, ReservesStep, ClosesStep, LifeStep, PTL DEF Spec

-----------------------------------------------------------------------------
(* Teardowns *)

\* The error path of a provision destroys no VM whose vmid another lab or a probe has
\* on record, as long as no lab is deprovisioned during its own provision: until it is
\* released, the row that reserves the vmid is its own (tasks.py:647-682).
THEOREM TeardownsSpareOthers == Spec => TeardownSparesOthers
<1>1. ASSUME Typed, NodeInv, ResInv, LifeInv, hasty = {}, NEW c \in Call, CallStep(c),
             NEW v \in Vmid, Exists(v), vm'[v] = NoVal, NEW x \in Rows, row[x].vmid = v
      PROVE  x = c
  <2>1. CallTouches(c)
    BY <1>1, CallOnVms DEF CallMoves
  <2>2. vm[v] # NoVal
    BY <1>1 DEF Exists
  <2>3. v = mine[c] /\ (Goes(c, "cloning", "teardown") \/ Goes(c, "teardown", "release"))
    BY <1>1, <2>1, <2>2 DEF CallTouches, LeavesVms, ChangesVm, IsVm
  <2>4. c \in Rows /\ row[c].vmid = v
    <3>1. RowOf(c) /\ mine[c] # NoVal
      BY <1>1, <2>3, Actors DEF LifeInv, RowsOfCalls
    <3> QED
      BY <2>3, <3>1 DEF RowOf, Goes, Reserved
  <2> QED
    BY <1>1, <2>4 DEF ResInv, VmidsApart
<1>2. Typed /\ NodeInv /\ ResInv /\ LifeInv =>
        (hasty = {} => \A c \in Call : CallStep(c) =>
           \A v \in Vmid : Exists(v) /\ vm'[v] = NoVal =>
             \A x \in Rows : row[x].vmid = v => x = c)
  BY <1>1
<1> QED
  BY <1>2, AlwaysLives, PTL DEF TeardownSparesOthers

-----------------------------------------------------------------------------
(* Rows that are recorded as running *)

Serving == Reserved \cup {"reserve"}
Failing == {"teardown", "release", "fail"}

OneRunning == \A l \in Lab : \A x, y \in RunningRows(l) : x = y

\* A call is admitted only if its lab has no running row, and then it works alone.
Alone == \A c \in Call : pc[c] \in Serving \cup Failing => RunningRows(for[c]) \subseteq {c}

\* An error path may have been left half-way: a call failed, and a write.
Unwritten == {"call", "database"} \subseteq faults.kinds

\* Whose worker did not die in an error path, nor gave it up.
Survived(l) ==
  ~Unwritten /\ ("call" \in faults.kinds => \A c \in CallsOf(l) : pc[c] # "crashed")

\* A lab recorded as running has a running row, until its call has released it and is
\* about to record the error.
RunningHasRow ==
  \A l \in Lab :
    status[l] = "running" /\ Survived(l) /\ (\A o \in Op : for[o] # l) =>
      RunningRows(l) # {} \/ (\E c \in CallsOf(l) : pc[c] = "fail" /\ "call" \in faults.kinds)

RunsInv == hasty = {} => OneRunning /\ Alone /\ RunningHasRow

\* A step that changes no status, marks no row as running and moves no call.
LEMMA RunsKept ==
  ASSUME Typed, RunsInv, hasty = {}, [Next]_vars,
         \A l \in Lab : \A x \in Call :
           x \in RunningRows(l)' <=> x \in RunningRows(l) /\ x \in Rows',
         \A l \in Lab : (\E o \in Op : for'[o] = l) \/
            (RunningRows(l)' = RunningRows(l) /\ status'[l] = status[l] /\ \A o \in Op : for[o] # l),
         \A c \in Call : pc'[c] \in Serving \cup Failing \cup {"crashed"} =>
                           pc'[c] = pc[c] /\ for'[c] = for[c] /\ for[c] \in Lab,
         \A c \in Call : pc[c] \in {"fail", "crashed"} => pc'[c] = pc[c] /\ for'[c] = for[c]
  PROVE  OneRunning' /\ Alone' /\ RunningHasRow'
<1>a. \A l \in Lab : \A x \in RunningRows(l)' : x \in Call /\ x \in RunningRows(l)
  BY DEF RunningRows, RowsOf, CallsOf
<1>b. faults.kinds \subseteq faults'.kinds
  BY Grows
<1>1. OneRunning'
  BY <1>a DEF RunsInv, OneRunning
<1>2. Alone'
  <2> SUFFICES ASSUME NEW c \in Call, pc'[c] \in Serving \cup Failing, NEW l \in Lab, for'[c] = l
               PROVE  RunningRows(l)' \subseteq {c}
    BY DEF Alone
  <2>1. RunningRows(l) \subseteq {c}
    BY DEF RunsInv, Alone
  <2> QED
    BY <1>a, <2>1
<1>3. RunningHasRow'
  <2> SUFFICES ASSUME NEW l \in Lab, status'[l] = "running", Survived(l)', \A o \in Op : for'[o] # l
               PROVE  \/ RunningRows(l)' # {}
                      \/ \E c \in CallsOf(l)' : pc'[c] = "fail" /\ "call" \in faults'.kinds
    BY DEF RunningHasRow
  <2>1. RunningRows(l)' = RunningRows(l) /\ status[l] = "running" /\ \A o \in Op : for[o] # l
    OBVIOUS
  <2>2. Survived(l)
    BY <1>b DEF Survived, Unwritten, CallsOf
  <2>3. CASE RunningRows(l) # {}
    BY <2>1, <2>3
  <2>4. ASSUME NEW c \in CallsOf(l), pc[c] = "fail", "call" \in faults.kinds
        PROVE  c \in CallsOf(l)' /\ pc'[c] = "fail" /\ "call" \in faults'.kinds
    BY <1>b, <2>4 DEF CallsOf
  <2> QED
    BY <2>1, <2>2, <2>3, <2>4 DEF RunsInv, RunningHasRow
<1> QED
  BY <1>1, <1>2, <1>3

LEMMA SameSet ==
  ASSUME NEW S, NEW A, NEW B, A \subseteq S, B \subseteq S, \A x \in S : x \in A <=> x \in B
  PROVE  A = B
  OBVIOUS

LEMMA CallRuns ==
  ASSUME Typed, NodeInv, ClosedInv, LifeInv, RunsInv, hasty = {}, [Next]_vars,
         NEW c \in Call, CallMoves(c)
  PROVE  OneRunning' /\ Alone' /\ RunningHasRow'
<1> USE Actors
<1>1. /\ OnlyMoves(c) /\ \A l \in Lab : l # for[c] => status'[l] = status[l]
      /\ CallEdge(c) /\ for[c] \in Lab /\ for' = for
  BY CallFrame, CallGoes DEF OnlyMoves
<1>2. \A d \in Call : d # c => pc'[d] = pc[d] /\ row'[d] = row[d]
  BY <1>1 DEF OnlyMoves
<1>3. RowOf(c)
  BY DEF LifeInv, RowsOfCalls
<1>4. \A l \in Lab : \A x \in Call : x # c => (x \in RunningRows(l)' <=> x \in RunningRows(l))
  BY <1>1, <1>2 DEF RunningRows, RowsOf, CallsOf, Rows
<1>5. \A l \in Lab : l # for[c] => RunningRows(l)' = RunningRows(l)
  <2>1. ASSUME NEW l \in Lab, l # for[c] PROVE c \notin RunningRows(l)' /\ c \notin RunningRows(l)
    BY <1>1, <2>1 DEF RunningRows, RowsOf, CallsOf
  <2>2. ASSUME NEW l \in Lab, l # for[c] PROVE RunningRows(l)' = RunningRows(l)
    <3>1. RunningRows(l) \subseteq Call /\ RunningRows(l)' \subseteq Call
      BY DEF RunningRows, RowsOf, CallsOf
    <3>2. \A x \in Call : x \in RunningRows(l)' <=> x \in RunningRows(l)
      BY <1>4, <2>1, <2>2
    <3> QED
      BY <3>1, <3>2, SameSet
  <2> QED
    BY <2>2
<1>6. pc[c] \in Serving \cup Failing => RunningRows(for[c]) \subseteq {c}
  BY DEF RunsInv, Alone
<1>7. Working(c)
  BY <1>1 DEF CallEdge, Working, Goes, Forward, Trying
<1>8. \A d \in Call : d # c /\ for[d] = for[c] => ~Working(d)
  BY <1>1, <1>7 DEF LifeInv, OneWorking
<1>9. pc'[c] \in Serving \cup Failing => RunningRows(for[c]) \subseteq {c}
  <2>1. pc'[c] \in Serving \cup Failing => pc[c] \in Serving \cup Failing \/ RunningRows(for[c]) = {}
    BY <1>1 DEF CallEdge, Goes, Forward, Trying, Serving, Failing, Reserved
  <2> QED
    BY <1>6, <2>1
<1>10. \A l \in Lab : RunningRows(l)' \subseteq Call /\ RunningRows(l) \subseteq Call
  BY DEF RunningRows, RowsOf, CallsOf
<1>11. OneRunning'
  <2> SUFFICES ASSUME NEW l \in Lab, NEW x \in RunningRows(l)', NEW y \in RunningRows(l)'
               PROVE  x = y
    BY DEF OneRunning
  <2>0. x \in Call /\ y \in Call
    BY DEF RunningRows, RowsOf, CallsOf
  <2>1. CASE l # for[c]
    BY <1>5, <2>1 DEF RunsInv, OneRunning
  <2>2. CASE l = for[c] /\ pc[c] \in Serving \cup Failing
    BY <1>1, <1>4, <1>6, <2>0, <2>2
  <2>3. CASE l = for[c] /\ pc[c] \notin Serving \cup Failing
    <3>1. row'[c] = row[c]
      BY <1>1, <2>3 DEF CallEdge, Goes, Forward, Trying, Serving, Failing, Reserved, Keeps, KeepsRow
    <3>2. c \in RunningRows(l)' <=> c \in RunningRows(l)
      BY <1>1, <3>1 DEF RunningRows, RowsOf, CallsOf, Rows
    <3> QED
      BY <1>4, <2>0, <3>2 DEF RunsInv, OneRunning
  <2> QED
    BY <2>1, <2>2, <2>3
<1>12. Alone'
  <2>0. \A d \in Call : pc'[d] \in Serving \cup Failing => for[d] \in Lab
    BY <1>1, <1>2 DEF Typed, ForTyped, Serving, Failing, Reserved
  <2> SUFFICES ASSUME NEW d \in Call, pc'[d] \in Serving \cup Failing, NEW l \in Lab, for[d] = l
               PROVE  RunningRows(l)' \subseteq {d}
    BY <1>1, <2>0 DEF Alone
  <2>1. CASE d = c
    BY <1>1, <1>4, <1>9, <1>10, <2>1
  <2>2. CASE d # c
    <3>1. pc[d] \in Serving \cup Failing /\ for[d] \in Lab
      BY <1>2, <2>2 DEF Typed, ForTyped, Serving, Failing, Reserved
    <3>2. for[d] # for[c]
      BY <1>8, <2>2, <3>1 DEF Working, Serving, Failing, Reserved
    <3>3. RunningRows(l) \subseteq {d}
      BY <3>1 DEF RunsInv, Alone
    <3> QED
      BY <1>5, <3>2, <3>3
  <2> QED
    BY <2>1, <2>2
<1>13. RunningHasRow'
  <2> SUFFICES ASSUME NEW l \in Lab, status'[l] = "running", Survived(l)', \A o \in Op : for[o] # l
               PROVE  \/ RunningRows(l)' # {}
                      \/ \E d \in CallsOf(l) : pc'[d] = "fail" /\ "call" \in faults'.kinds
    BY <1>1 DEF RunningHasRow, CallsOf
  <2>a. faults.kinds \subseteq faults'.kinds
    BY Grows
  <2>b. \A d \in CallsOf(l) : pc[d] = "crashed" => d # c /\ pc'[d] = "crashed"
    BY <1>2, <1>7 DEF CallsOf, Working
  <2>c. Survived(l)
    BY <1>1, <2>a, <2>b DEF Survived, Unwritten, CallsOf
  <2>1. CASE l # for[c]
    <3>1. \A d \in CallsOf(l) : pc'[d] = pc[d]
      BY <1>2, <2>1 DEF CallsOf
    <3>2. status[l] = "running"
      BY <1>1, <2>1
    <3> QED
      BY <1>5, <2>a, <2>c, <2>1, <3>1, <3>2 DEF RunsInv, RunningHasRow
  <2>2. CASE l = for[c] /\ pc[c] = "record" /\ c \in Rows /\ IsRow(c, row[c].vmid, row[c].ip, TRUE)
    BY <1>1, <2>2 DEF IsRow, RunningRows, RowsOf, CallsOf, Rows
  <2>3. CASE l = for[c] /\ status'[l] = status[l]
             /\ (row'[c] = row[c] \/ (c \in Rows /\ IsRow(c, row[c].vmid, hand[c], row[c].running)))
    <3>1. RunningRows(l)' = RunningRows(l)
      <4>1. c \in RunningRows(l)' <=> c \in RunningRows(l)
        BY <1>1, <2>3 DEF RunningRows, RowsOf, CallsOf, Rows, IsRow
      <4>2. \A x \in Call : x \in RunningRows(l)' <=> x \in RunningRows(l)
        BY <1>4, <4>1
      <4> QED
        BY <1>10, <4>2, SameSet
    <3>2. ASSUME NEW d \in CallsOf(l), pc[d] = "fail", "call" \in faults.kinds PROVE FALSE
      <4>1. d = c
        BY <1>8, <2>3, <3>2 DEF CallsOf, Working
      <4>2. pc'[c] = "crashed" \/ Met("database")
        BY <1>1, <2>3, <3>2, <4>1 DEF CallEdge, Goes, Forward, Trying
      <4> QED
        BY <1>1, <2>a, <2>3, <3>2, <4>2 DEF Survived, Unwritten, CallsOf, Met
    <3> QED
      BY <2>c, <2>3, <3>1, <3>2 DEF RunsInv, RunningHasRow
  <2>4. CASE l = for[c] /\ Goes(c, "reserve", "lease") /\ status' = status
    <3>1. c \notin Rows
      BY <1>3, <2>4 DEF RowOf, Goes
    <3>2. RunningRows(l) # {} => RunningRows(l)' # {}
      BY <1>4, <1>10, <2>4, <3>1 DEF RunningRows, RowsOf
    <3>3. \A d \in CallsOf(l) : pc[d] # "fail"
      BY <1>8, <2>4 DEF CallsOf, Working, Goes
    <3> QED
      BY <2>c, <2>4, <3>2, <3>3 DEF RunsInv, RunningHasRow
  <2>5. CASE l = for[c] /\ Goes(c, "release", "fail") /\ status' = status
    <3>1. \A d \in CallsOf(l) : pc[d] # "fail"
      BY <1>8, <2>5 DEF CallsOf, Working, Goes
    <3>2. PICK x \in RunningRows(l) : TRUE
      BY <2>c, <2>5, <3>1 DEF RunsInv, RunningHasRow
    <3>3. CASE x = c
      <4>1. "call" \in faults.kinds
        BY <1>3, <1>7, <3>2, <3>3 DEF RowOf, RunningRows, RowsOf
      <4> QED
        BY <1>1, <2>a, <2>5, <4>1 DEF Goes, CallsOf
    <3>4. CASE x # c
      BY <1>4, <1>10, <2>5, <3>2, <3>4
    <3> QED
      BY <3>3, <3>4
  <2>6. \/ l # for[c]
        \/ pc[c] = "record" /\ c \in Rows /\ IsRow(c, row[c].vmid, row[c].ip, TRUE)
        \/ /\ status'[l] = status[l]
           /\ (row'[c] = row[c] \/ (c \in Rows /\ IsRow(c, row[c].vmid, hand[c], row[c].running)))
        \/ Goes(c, "reserve", "lease") /\ status' = status
        \/ Goes(c, "release", "fail") /\ status' = status
    BY <1>1 DEF CallEdge, Keeps, KeepsRow, Goes
  <2> QED
    BY <2>1, <2>2, <2>3, <2>4, <2>5, <2>6
<1> QED
  BY <1>11, <1>12, <1>13

LEMMA RunsStep ==
  ASSUME Typed, NodeInv, ClosedInv, LifeInv, RunsInv, [Next]_vars
  PROVE  RunsInv'
<1> USE Actors
<1> SUFFICES ASSUME hasty = {}, hasty' = {} PROVE OneRunning' /\ Alone' /\ RunningHasRow'
  BY Grows DEF RunsInv
<1>a. PcTyped /\ ForTyped /\ OpsTyped
  BY DEF Typed
<1>b. \A c \in Call : pc[c] # "idle" => for[c] \in Lab
  BY <1>a DEF ForTyped
<1>c. \A l \in Lab : RunningRows(l)' \subseteq Call /\ RunningRows(l) \subseteq Call
  BY DEF RunningRows, RowsOf, CallsOf
<1>d. ASSUME \A c \in Call : for'[c] = for[c] /\ pc'[c] = pc[c] /\ row'[c] = row[c],
             \A l \in Lab : (\E o \in Op : for'[o] = l) \/
               (status'[l] = status[l] /\ \A o \in Op : for[o] # l)
      PROVE  OneRunning' /\ Alone' /\ RunningHasRow'
  <2>1. ASSUME NEW l \in Lab PROVE \A x \in Call : x \in RunningRows(l)' <=> x \in RunningRows(l)
    BY <1>d DEF RunningRows, RowsOf, CallsOf, Rows
  <2>2. ASSUME NEW l \in Lab PROVE RunningRows(l)' = RunningRows(l)
    BY <1>c, <2>1, SameSet
  <2>3. \A l \in Lab : \A x \in RunningRows(l) : x \in Rows'
    BY <1>d DEF RunningRows, RowsOf, CallsOf, Rows
  <2>4. \A c \in Call : pc'[c] \in Serving \cup Failing \cup {"crashed"} =>
                           pc'[c] = pc[c] /\ for'[c] = for[c] /\ for[c] \in Lab
    BY <1>b, <1>d DEF Serving, Failing, Reserved
  <2> QED
    BY <1>d, <2>1, <2>2, <2>3, <2>4, RunsKept
<1>1. ASSUME NEW c \in Call, NEW l \in Lab, Ask(c, l) \/ Retry(c, l)
      PROVE  OneRunning' /\ Alone' /\ RunningHasRow'
  <2>1. /\ pc[c] = "idle" /\ for' = [for EXCEPT ![c] = l]
        /\ \E k \in {"asked", "queued"} : pc' = [pc EXCEPT ![c] = k]
        /\ UNCHANGED <<row, status>>
    BY <1>1 DEF Ask, Retry, Goto, db
  <2>2. /\ \A y \in Call \cup Op : y # c => for'[y] = for[y]
        /\ pc'[c] \in {"asked", "queued"} /\ \A y \in Proc : y # c => pc'[y] = pc[y]
    BY <1>a, <2>1 DEF ForTyped, PcTyped
  <2>3. c \notin Rows
    BY <2>1 DEF ClosedInv, IdleIsEmpty
  <2>4. ASSUME NEW k \in Lab PROVE \A x \in Call : x \in RunningRows(k)' <=> x \in RunningRows(k)
    BY <2>1, <2>2, <2>3 DEF RunningRows, RowsOf, CallsOf, Rows
  <2>5. ASSUME NEW k \in Lab PROVE RunningRows(k)' = RunningRows(k)
    BY <1>c, <2>4, SameSet
  <2>6. \A k \in Lab : \A x \in RunningRows(k) : x \in Rows'
    BY <2>1 DEF RunningRows, RowsOf, CallsOf, Rows
  <2>7. \A d \in Call : pc'[d] \in Serving \cup Failing \cup {"crashed"} =>
                           pc'[d] = pc[d] /\ for'[d] = for[d] /\ for[d] \in Lab
    BY <1>b, <2>2 DEF Serving, Failing, Reserved
  <2>8. \A d \in Call : pc[d] \in {"fail", "crashed"} => pc'[d] = pc[d] /\ for'[d] = for[d]
    BY <2>1, <2>2
  <2>9. \A o \in Op : for'[o] = for[o]
    BY <2>2
  <2> QED
    BY <2>1, <2>4, <2>5, <2>6, <2>7, <2>8, <2>9, RunsKept
<1>2. ASSUME NEW p \in Probe, ProbeMoves(p) PROVE OneRunning' /\ Alone' /\ RunningHasRow'
  <2>1. OnlyMoves(p) /\ status' = status
    BY <1>2, ProbeFrame
  <2> QED
    BY <1>d, <2>1 DEF OnlyMoves
<1>3. ASSUME NEW o \in Op, OpStep(o) PROVE OneRunning' /\ Alone' /\ RunningHasRow'
  <2>1. /\ OpEdge(o) /\ for[o] \in Lab /\ for' = for
        /\ \A y \in Proc \ {o} : pc'[y] = pc[y]
    BY <1>3, OpGoes
  <2>2. \A l \in Lab : l # for[o] => status'[l] = status[l]
    BY <2>1 DEF OpEdge
  <2>3. \A c \in Call : pc'[c] = pc[c]
    BY <2>1
  <2>4. CASE row' = row
    BY <1>d, <2>1, <2>2, <2>3, <2>4
  <2>5. CASE row' # row
    <3>1. /\ pc[o] = "drop" /\ hand[o] \in Call /\ row'[hand[o]] = NoVal
          /\ \A y \in Owner \ {hand[o]} : row'[y] = row[y]
      BY <2>1, <2>5 DEF OpEdge, Goes
    <3>2. for[hand[o]] = for[o]
      BY <3>1 DEF LifeInv, OpsAreLate
    <3>3. ASSUME NEW l \in Lab
          PROVE  \A x \in Call : x \in RunningRows(l)' <=> x \in RunningRows(l) /\ x \in Rows'
      BY <2>1, <3>1 DEF RunningRows, RowsOf, CallsOf, Rows
    <3>4. ASSUME NEW l \in Lab, l # for[o] PROVE RunningRows(l)' = RunningRows(l)
      <4>1. \A x \in Call : x \in RunningRows(l)' <=> x \in RunningRows(l)
        BY <2>1, <3>1, <3>2, <3>4 DEF RunningRows, RowsOf, CallsOf, Rows
      <4>2. RunningRows(l)' \subseteq Call /\ RunningRows(l) \subseteq Call
        BY <1>c
      <4> QED
        BY <4>1, <4>2, SameSet
    <3>5. \A l \in Lab : (\E q \in Op : for'[q] = l) \/
            (RunningRows(l)' = RunningRows(l) /\ status'[l] = status[l] /\ \A q \in Op : for[q] # l)
      BY <2>1, <2>2, <3>4
    <3>6. \A d \in Call : pc'[d] \in Serving \cup Failing \cup {"crashed"} =>
                           pc'[d] = pc[d] /\ for'[d] = for[d] /\ for[d] \in Lab
      BY <1>b, <2>1, <2>3 DEF Serving, Failing, Reserved
    <3> QED
      BY <2>1, <2>3, <3>3, <3>5, <3>6, RunsKept
  <2> QED
    BY <2>4, <2>5
<1>4. ASSUME NEW o \in Op, NEW l \in Lab, Deprovision(o, l)
      PROVE  OneRunning' /\ Alone' /\ RunningHasRow'
  <2>1. /\ for' = [for EXCEPT ![o] = l] /\ pc' = [pc EXCEPT ![o] = "next"]
        /\ UNCHANGED <<row, status>> /\ pc[o] = "idle"
    BY <1>4 DEF Deprovision, Goto, db
  <2>2. for'[o] = l /\ \A y \in Call \cup Op : y # o => for'[y] = for[y]
    BY <1>a, <2>1 DEF ForTyped
  <2>3. \A y \in Proc : y # o => pc'[y] = pc[y]
    BY <1>a, <2>1 DEF PcTyped
  <2>4. for[o] = NoVal
    BY <2>1 DEF LifeInv, IdleOps
  <2> QED
    BY <1>d, <2>1, <2>2, <2>3, <2>4
<1>5. CASE UNCHANGED <<row, for, pc, status>>
  BY <1>5, <1>d
<1> QED
  BY <1>1, <1>2, <1>3, <1>4, <1>5, CallRuns
     DEF Next, vars, db, locals, FinishClone, CallMoves, ProbeMoves

-----------------------------------------------------------------------------
(* The box of a call *)

\* The address on a call's row is the one it leased.
IpOf(c) ==
  /\ pc[c] \in {"lease", "bind"} => row[c].ip = NoVal
  /\ pc[c] \in Reserved \ {"lease", "bind"} => row[c].ip = hand[c]

\* How far the VM of a call has come, up to the box of a call that is done.
Whole(c) ==
  c \in Rows /\ ProbeFree(mine[c]) =>
    /\ pc[c] \in {"cloned", "boot", "confirm", "record"} =>
         Usable(mine[c]) /\ vm[mine[c]].by = c
    /\ pc[c] \in {"boot", "confirm", "record"} => vm[mine[c]].ip = hand[c]
    /\ pc[c] \in {"confirm", "record"} => vm[mine[c]].st = "running"
    /\ pc[c] = "done" /\ row[c].running /\ ~Unwritten /\ (\A o \in Op : for[o] # for[c]) =>
         /\ Usable(mine[c]) /\ vm[mine[c]].by = c
         /\ vm[mine[c]].st = "running" /\ vm[mine[c]].ip = row[c].ip

\* Nobody but the deprovision that loaded a row deletes it, if no lab has another.
TodoRows == \A o \in Op : todo[o] \subseteq Rows

WholeInv ==
  hasty = {} =>
    /\ \A c \in Call : IpOf(c)
    /\ DeprovisionedOnce => TodoRows /\ \A c \in Call : Whole(c)

LEMMA OnceWas ==
  ASSUME Typed, LifeInv, [Next]_vars, DeprovisionedOnce'
  PROVE  DeprovisionedOnce
<1> USE Actors
<1>a. ForTyped
  BY DEF Typed
<1>1. \A o \in Op : for'[o] = for[o] \/ for[o] = NoVal
  <2>1. ASSUME NEW c \in Call, NEW l \in Lab, Ask(c, l) \/ Retry(c, l)
        PROVE  \A o \in Op : for'[o] = for[o]
    <3>1. for' = [for EXCEPT ![c] = l]
      BY <2>1 DEF Ask, Retry
    <3> QED
      BY <1>a, <3>1 DEF ForTyped
  <2>2. ASSUME NEW o \in Op, NEW l \in Lab, Deprovision(o, l)
        PROVE  \A q \in Op : for'[q] = for[q] \/ for[q] = NoVal
    <3>1. for' = [for EXCEPT ![o] = l] /\ for[o] = NoVal
      BY <2>2 DEF Deprovision, LifeInv, IdleOps
    <3> QED
      BY <1>a, <3>1 DEF ForTyped
  <2>3. ASSUME NEW c \in Call, CallStep(c) PROVE for' = for
    BY <2>3, CallFrame DEF CallMoves, OnlyMoves
  <2>4. ASSUME NEW p \in Probe, ProbeStep(p) PROVE for' = for
    BY <2>4 DEF ProbeStep, BeginProbe, ProbeClone, StartClone, ProbeWait, WaitClone, ReadBack,
              RecordProbe, PowerOn, PowerOff, ProbeDestroy, ProbeClean, locals
  <2>5. ASSUME NEW o \in Op, OpStep(o) PROVE for' = for
    BY <2>5 DEF OpStep, DestroyNext, DropNext, RecordDestroyed, locals
  <2> QED
    BY <2>1, <2>2, <2>3, <2>4, <2>5 DEF Next, vars, locals, Crash, FinishClone
<1> QED
  BY <1>1 DEF DeprovisionedOnce

\* The row and the box of a call that others do not touch.
LEMMA WholeKept ==
  ASSUME [Next]_vars, NEW c \in Call, IpOf(c), Whole(c), pc'[c] = pc[c], mine'[c] = mine[c],
         hand'[c] = hand[c], for'[c] = for[c], row'[c] = row[c],
         \A o \in Op : for'[o] = for[o] \/ for[o] = NoVal, for[c] # NoVal \/ pc[c] = "idle",
         ProbeFree(mine[c])' => ProbeFree(mine[c]),
         ProbeFree(mine[c])' /\ c \in Rows =>
            \/ vm'[mine[c]] = vm[mine[c]]
            \/ pc[c] = "crashed" \/ (pc[c] = "done" /\ \E o \in Op : for[o] = for[c] /\ for'[o] = for[o])
            \/ vm[mine[c]] # NoVal /\ vm[mine[c]].st = "cloning"
  PROVE  IpOf(c)' /\ Whole(c)'
<1>1. IpOf(c)'
  BY DEF IpOf
<1>a. Unwritten => Unwritten'
  BY Grows DEF Unwritten
<1>2. ASSUME c \in Rows, ProbeFree(mine[c])' PROVE Whole(c)'
  <2>1. ProbeFree(mine[c])
    BY <1>2
  <2>2. CASE vm'[mine[c]] = vm[mine[c]]
    BY <1>a, <1>2, <2>1, <2>2 DEF Whole, Usable, Exists
  <2>3. CASE pc[c] = "crashed" \/ (pc[c] = "done" /\ \E o \in Op : for[o] = for[c] /\ for'[o] = for[o])
    BY <1>2, <2>1, <2>3 DEF Whole
  <2>4. CASE vm[mine[c]] # NoVal /\ vm[mine[c]].st = "cloning"
    BY <1>a, <1>2, <2>1, <2>4 DEF Whole, Usable
  <2> QED
    BY <1>2, <2>2, <2>3, <2>4
<1>3. Whole(c)' \/ (c \in Rows /\ ProbeFree(mine[c])')
  <2>1. c \in Rows' <=> c \in Rows
    BY DEF Rows
  <2> QED
    BY <2>1 DEF Whole
<1> QED
  BY <1>1, <1>2, <1>3

LEMMA CallIps ==
  ASSUME Typed, LifeInv, hasty = {}, NEW c \in Call, CallMoves(c), IpOf(c)
  PROVE  IpOf(c)'
<1>1. CallEdge(c)
  BY CallGoes
<1>2. CASE Keeps(c)
  BY <1>1, <1>2 DEF CallEdge, Goes, Forward, Keeps, KeepsRow, IpOf, Reserved, IsRow
<1>3. CASE ~Keeps(c)
  BY <1>1, <1>3 DEF CallEdge, Goes, Keeps, KeepsRow, IpOf, Reserved, IsRow
<1> QED
  BY <1>2, <1>3

LEMMA CallBuilds ==
  ASSUME Typed, NodeInv, LifeInv, hasty = {}, [Next]_vars,
         NEW c \in Call, CallMoves(c), IpOf(c), Whole(c)
  PROVE  Whole(c)'
<1> USE Actors
<1>1. CallEdge(c) /\ CallTouches(c) /\ OnlyMoves(c)
  BY CallGoes, CallFrame, CallOnVms
<1>2. RowOf(c)
  BY DEF LifeInv, RowsOfCalls
<1>3. SUFFICES ASSUME c \in Rows', ProbeFree(mine[c])'
               PROVE  Whole(c)'
  BY DEF Whole
<1>6. faults.kinds \subseteq faults'.kinds
  BY Grows
<1>4. CASE pc'[c] \notin {"cloned", "boot", "confirm", "record", "done"}
  BY <1>4 DEF Whole
<1>5. CASE pc'[c] \in {"cloned", "boot", "confirm", "record", "done"}
  <2>0. CASE Goes(c, "release", "done")
    <3>1. Met("database") /\ row'[c] = row[c]
      BY <1>1, <2>0 DEF CallEdge, Goes, Forward, Keeps, KeepsRow
    <3>2. row[c].running => Unwritten'
      BY <1>2, <1>3, <1>6, <2>0, <3>1 DEF RowOf, Goes, Working, Unwritten, Met, Rows
    <3> QED
      BY <2>0, <3>1, <3>2 DEF Whole, Goes
  <2>1. ASSUME ~Goes(c, "release", "done")
        PROVE  pc[c] \in Reserved \cup {"queued", "fail"} /\ mine'[c] = mine[c] /\ hand'[c] = hand[c]
    BY <1>1, <1>5, <2>1 DEF CallEdge, Goes, Forward, Keeps, KeepsRow, Reserved
  <2> SUFFICES ASSUME ~Goes(c, "release", "done") PROVE Whole(c)'
    BY <2>0
  <2>2. pc[c] \in Reserved /\ c \in Rows
    <3>1. pc[c] \in {"queued", "fail"} => Keeps(c) /\ c \notin Rows
      BY <1>1, <1>2, <1>5 DEF RowOf, CallEdge, Goes, Forward, Trying
    <3> QED
      BY <1>2, <1>3, <2>1, <3>1 DEF RowOf, Rows, Keeps, KeepsRow
  <2>3. ProbeFree(mine[c])
    BY <1>1, <1>3, <2>1 DEF ProbeFree, OnlyMoves
  <2>4. CASE Goes(c, "cloning", "cloned")
    BY <1>1, <2>1, <2>4 DEF CallTouches, LeavesVms, ChangesVm, Goes, IsVm, Whole, Usable, Exists
  <2>5. CASE Goes(c, "cloned", "boot")
    BY <1>1, <2>1, <2>2, <2>3, <2>5
       DEF CallTouches, LeavesVms, ChangesVm, Goes, IsVm, Whole, Usable, Exists
  <2>6. CASE Goes(c, "boot", "confirm")
    BY <1>1, <2>1, <2>2, <2>3, <2>6
       DEF CallTouches, LeavesVms, ChangesVm, Goes, IsVm, Whole, Usable, Exists
  <2>7. CASE Goes(c, "confirm", "record")
    <3>1. vm' = vm
      BY <1>1, <2>7 DEF CallTouches, LeavesVms, ChangesVm, Goes
    <3> QED
      BY <2>1, <2>2, <2>3, <2>7, <3>1 DEF Goes, Whole, Usable, Exists
  <2>8. CASE Goes(c, "record", "done")
    <3>1. vm'[mine[c]] = vm[mine[c]]
      BY <1>1, <2>8 DEF CallTouches, LeavesVms, ChangesVm, Goes
    <3>2. row'[c].ip = row[c].ip /\ row[c].ip = hand[c]
      BY <1>1, <2>2, <2>8 DEF CallEdge, Goes, Forward, Trying, IsRow, IpOf, Reserved
    <3> QED
      BY <2>1, <2>2, <2>3, <2>8, <3>1, <3>2 DEF Goes, Whole, Usable, Exists
  <2>9. \/ Goes(c, "cloning", "cloned") \/ Goes(c, "cloned", "boot") \/ Goes(c, "boot", "confirm")
        \/ Goes(c, "confirm", "record") \/ Goes(c, "record", "done")
    BY <1>1, <1>5, <2>2 DEF CallEdge, Goes, Forward, Reserved
  <2> QED
    BY <2>4, <2>5, <2>6, <2>7, <2>8, <2>9
<1> QED
  BY <1>4, <1>5

\* The VM of a row is out of reach of the calls and probes that do not own the row.
LEMMA OthersSpare ==
  ASSUME Typed, NodeInv, ResInv, LifeInv, hasty = {}, [Next]_vars,
         NEW c \in Call, c \in Rows,
         \/ \E d \in Call \ {c} : CallMoves(d)
         \/ ProbeFree(mine[c])' /\ mine'[c] = mine[c] /\ \E p \in Probe : ProbeMoves(p)
  PROVE  vm'[mine[c]] = vm[mine[c]]
<1> USE Actors
<1>1. row[c].vmid = mine[c] /\ mine[c] \in Vmid
  <2>1. row[c] \in Row
    BY DEF Typed, DbTyped, Rows
  <2> QED
    BY <2>1 DEF LifeInv, RowsOfCalls, RowOf, Row
<1>2. ASSUME NEW d \in Call \ {c}, CallMoves(d) PROVE vm'[mine[c]] = vm[mine[c]]
  <2>1. CallTouches(d) /\ RowOf(d)
    BY <1>2, CallOnVms DEF LifeInv, RowsOfCalls
  <2>2. CASE LeavesVms(d)
    BY <2>2 DEF LeavesVms
  <2>3. CASE mine[d] \in Vmid /\ ChangesVm(d, mine[d]) /\ \A w \in Vmid \ {mine[d]} : vm'[w] = vm[w]
    <3>1. d \in Rows /\ row[d].vmid = mine[d]
      BY <2>1, <2>3 DEF ChangesVm, Goes, RowOf, Reserved
    <3>2. mine[d] # mine[c]
      BY <1>1, <3>1 DEF ResInv, VmidsApart
    <3> QED
      BY <1>1, <2>3, <3>2
  <2> QED
    BY <2>1, <2>2, <2>3 DEF CallTouches
<1>3. ASSUME NEW p \in Probe, ProbeMoves(p), ProbeFree(mine[c])', mine'[c] = mine[c]
      PROVE  vm'[mine[c]] = vm[mine[c]]
  <2>1. pc'[p] # "idle" /\ \A w \in Vmid \ {ProbeVmid} : vm'[w] = vm[w]
    BY <1>3, ProbeFrame
  <2>2. mine[c] # ProbeVmid
    BY <1>3, <2>1 DEF ProbeFree
  <2> QED
    BY <1>1, <2>1, <2>2
<1> QED
  BY <1>2, <1>3

LEMMA WholeStep ==
  ASSUME Typed, NodeInv, ResInv, ClosedInv, LifeInv, WholeInv, [Next]_vars
  PROVE  WholeInv'
<1> USE Actors
<1> SUFFICES ASSUME hasty = {}, hasty' = {}
             PROVE  /\ \A c \in Call : IpOf(c)'
                    /\ DeprovisionedOnce' => TodoRows' /\ \A c \in Call : Whole(c)'
  BY Grows DEF WholeInv
<1>a. DbTyped /\ PcTyped /\ ForTyped /\ OpsTyped /\ HandsTyped
  BY DEF Typed
<1>b. \A c \in Call : IpOf(c) /\ RowOf(c)
  BY DEF WholeInv, LifeInv, RowsOfCalls
<1>c. DeprovisionedOnce' => DeprovisionedOnce /\ TodoRows /\ \A c \in Call : Whole(c)
  BY OnceWas DEF WholeInv
<1>d. \A c \in Call : for[c] # NoVal \/ pc[c] = "idle"
  BY <1>a DEF ForTyped
<1>e. \A o \in Op : \A x \in todo[o] : x \in Call /\ Over(x) /\ for[x] = for[o] /\ mine[o][x] = mine[x]
  BY <1>a DEF OpsTyped, LifeInv, OpsAreLate
<1>f. ASSUME NEW c \in Call, pc'[c] = pc[c], mine'[c] = mine[c],
             hand'[c] = hand[c], for'[c] = for[c], row'[c] = row[c],
             \A o \in Op : for'[o] = for[o] \/ for[o] = NoVal,
             ProbeFree(mine[c])' => ProbeFree(mine[c]),
             ProbeFree(mine[c])' /\ c \in Rows =>
                \/ vm'[mine[c]] = vm[mine[c]]
                \/ pc[c] = "crashed"
                \/ (DeprovisionedOnce' /\ pc[c] = "done" /\ \E o \in Op : for[o] = for[c] /\ for'[o] = for[o])
                \/ vm[mine[c]] # NoVal /\ vm[mine[c]].st = "cloning"
                \/ ~DeprovisionedOnce'
      PROVE  IpOf(c)' /\ (DeprovisionedOnce' => Whole(c)')
  <2>1. CASE DeprovisionedOnce'
    BY <1>b, <1>c, <1>d, <1>f, <2>1, WholeKept
  <2>2. CASE ~DeprovisionedOnce'
    BY <1>b, <1>f, <2>2 DEF IpOf
  <2> QED
    BY <2>1, <2>2
<1>1. ASSUME NEW c \in Call, CallMoves(c)
      PROVE  /\ \A d \in Call : IpOf(d)'
             /\ DeprovisionedOnce' => TodoRows' /\ \A d \in Call : Whole(d)'
  <2>1. OnlyMoves(c) /\ for' = for /\ todo' = todo /\ CallEdge(c)
    BY <1>1, CallFrame, CallGoes DEF OnlyMoves
  <2>2. IpOf(c)'
    BY <1>1, <1>b, CallIps
  <2>3. DeprovisionedOnce' => Whole(c)'
    BY <1>1, <1>b, <1>c, CallBuilds
  <2>4. ASSUME NEW d \in Call, d # c PROVE IpOf(d)' /\ (DeprovisionedOnce' => Whole(d)')
    <3>1. /\ pc'[d] = pc[d] /\ mine'[d] = mine[d] /\ hand'[d] = hand[d] /\ row'[d] = row[d]
          /\ \A p \in Probe : pc'[p] = pc[p]
      BY <2>1, <2>4 DEF OnlyMoves
    <3>2. ProbeFree(mine[d])' => ProbeFree(mine[d])
      BY <3>1 DEF ProbeFree
    <3>3. d \in Rows => vm'[mine[d]] = vm[mine[d]]
      BY <1>1, <2>4, OthersSpare
    <3> QED
      BY <1>f, <2>1, <3>1, <3>2, <3>3
  <2>5. DeprovisionedOnce' => TodoRows'
    <3>1. pc[c] \notin {"done", "crashed"}
      BY <2>1 DEF CallEdge, Goes, Forward, Trying
    <3>2. \A o \in Op : \A x \in todo[o] : x \in Call /\ x # c
      BY <1>e, <3>1 DEF Over
    <3>3. \A x \in Call : x # c => row'[x] = row[x]
      BY <2>1 DEF OnlyMoves
    <3> QED
      BY <1>c, <2>1, <3>2, <3>3 DEF TodoRows, Rows
  <2> QED
    BY <2>2, <2>3, <2>4, <2>5
<1>2. ASSUME NEW c \in Call, NEW l \in Lab, Ask(c, l) \/ Retry(c, l)
      PROVE  /\ \A d \in Call : IpOf(d)'
             /\ DeprovisionedOnce' => TodoRows' /\ \A d \in Call : Whole(d)'
  <2>1. /\ pc[c] = "idle" /\ for' = [for EXCEPT ![c] = l]
        /\ \E k \in {"asked", "queued"} : pc' = [pc EXCEPT ![c] = k]
        /\ UNCHANGED <<row, mine, hand, todo, vm>>
    BY <1>2 DEF Ask, Retry, Goto, db
  <2>2. /\ \A y \in Call \cup Op : y # c => for'[y] = for[y]
        /\ pc'[c] \in {"asked", "queued"} /\ \A y \in Proc : y # c => pc'[y] = pc[y]
    BY <1>a, <2>1 DEF ForTyped, PcTyped
  <2>3. \A p \in Probe : pc'[p] = pc[p]
    BY <2>2
  <2>4. IpOf(c)' /\ Whole(c)'
    BY <2>2 DEF IpOf, Whole, Reserved
  <2>5. ASSUME NEW d \in Call, d # c PROVE IpOf(d)' /\ (DeprovisionedOnce' => Whole(d)')
    <3>1. ProbeFree(mine[d])' => ProbeFree(mine[d])
      BY <2>1, <2>3 DEF ProbeFree
    <3>2. pc'[d] = pc[d] /\ for'[d] = for[d] /\ \A o \in Op : for'[o] = for[o]
      BY <2>2, <2>5
    <3> QED
      BY <1>f, <2>1, <3>1, <3>2
  <2>6. DeprovisionedOnce' => TodoRows'
    BY <1>c, <2>1 DEF TodoRows, Rows
  <2> QED
    BY <2>4, <2>5, <2>6
<1>3. ASSUME NEW p \in Probe, ProbeMoves(p)
      PROVE  /\ \A d \in Call : IpOf(d)'
             /\ DeprovisionedOnce' => TodoRows' /\ \A d \in Call : Whole(d)'
  <2>1. OnlyMoves(p) /\ for' = for /\ todo' = todo /\ pc'[p] # "idle"
    BY <1>3, ProbeFrame DEF OnlyMoves
  <2>2. ASSUME NEW d \in Call PROVE IpOf(d)' /\ (DeprovisionedOnce' => Whole(d)')
    <3>1. /\ pc'[d] = pc[d] /\ mine'[d] = mine[d] /\ hand'[d] = hand[d] /\ row'[d] = row[d]
          /\ \A q \in Probe : q # p => pc'[q] = pc[q]
      BY <2>1 DEF OnlyMoves
    <3>2. ProbeFree(mine[d])' => ProbeFree(mine[d])
      BY <2>1, <3>1 DEF ProbeFree
    <3>3. d \in Rows /\ ProbeFree(mine[d])' => vm'[mine[d]] = vm[mine[d]]
      BY <1>3, <3>1, OthersSpare
    <3> QED
      BY <1>f, <2>1, <3>1, <3>2, <3>3
  <2>3. DeprovisionedOnce' => TodoRows'
    <3>1. \A o \in Op : \A x \in todo[o] : x \in Call
      BY <1>e
    <3> QED
      BY <1>c, <2>1, <3>1 DEF TodoRows, Rows, OnlyMoves
  <2> QED
    BY <2>2, <2>3
<1>4. ASSUME NEW o \in Op, OpStep(o)
      PROVE  /\ \A d \in Call : IpOf(d)'
             /\ DeprovisionedOnce' => TodoRows' /\ \A d \in Call : Whole(d)'
  <2>1. /\ OpEdge(o) /\ for[o] \in Lab /\ for' = for /\ mine' = mine
        /\ \A y \in Proc \ {o} : pc'[y] = pc[y] /\ hand'[y] = hand[y]
        /\ \A q \in Op \ {o} : todo'[q] = todo[q]
    BY <1>4, OpGoes
  <2>2. ASSUME NEW d \in Call PROVE IpOf(d)' /\ (DeprovisionedOnce' => Whole(d)')
    <3>1. pc'[d] = pc[d] /\ hand'[d] = hand[d] /\ \A p \in Probe : pc'[p] = pc[p]
      BY <2>1
    <3>2. ProbeFree(mine[d])' => ProbeFree(mine[d])
      BY <2>1, <3>1 DEF ProbeFree
    <3>3. CASE row'[d] # row[d]
      <4>1. pc[o] = "drop" /\ d = hand[o] /\ row'[d] = NoVal
        BY <2>1, <3>3 DEF OpEdge, Goes
      <4>2. Over(d)
        BY <1>e, <4>1 DEF LifeInv, OpsAreLate
      <4> QED
        BY <3>1, <4>1, <4>2 DEF IpOf, Whole, Over, Reserved, Rows
    <3>4. CASE row'[d] = row[d]
      <4>1. ASSUME DeprovisionedOnce', d \in Rows, vm'[mine[d]] # vm[mine[d]]
            PROVE  pc[d] = "crashed" \/ (pc[d] = "done" /\ for[o] = for[d])
        <5>1. PICK x \in todo[o] : \A w \in Vmid : vm'[w] = IF w = mine[o][x] THEN NoVal ELSE vm[w]
          BY <2>1, <4>1 DEF OpEdge
        <5>2. row[d].vmid = mine[d] /\ row[d] \in Row
          BY <1>a, <1>b, <4>1 DEF RowOf, DbTyped, Rows
        <5>3. mine[d] = mine[x] /\ x \in Call /\ Over(x) /\ for[x] = for[o]
          BY <1>e, <4>1, <5>1, <5>2 DEF Row
        <5>4. x \in Rows /\ row[x].vmid = mine[x]
          BY <1>b, <1>c, <4>1, <5>3 DEF TodoRows, RowOf
        <5>5. x = d
          BY <4>1, <5>2, <5>3, <5>4 DEF ResInv, VmidsApart
        <5> QED
          BY <5>3, <5>5 DEF Over
      <4> QED
        BY <1>f, <2>1, <3>1, <3>2, <3>4, <4>1
    <3> QED
      BY <3>3, <3>4
  <2>3. ASSUME DeprovisionedOnce' PROVE TodoRows'
    <3> SUFFICES ASSUME NEW q \in Op, NEW x \in todo'[q] PROVE x \in Rows'
      BY DEF TodoRows
    <3>1. x \in todo[q]
      BY <2>1 DEF OpEdge
    <3>2. x \in Rows /\ x \in Owner /\ for[x] = for[q]
      BY <1>c, <1>e, <2>3, <3>1 DEF TodoRows
    <3>3. CASE row'[x] = row[x]
      BY <3>2, <3>3 DEF Rows
    <3>4. CASE row'[x] # row[x]
      <4>1. pc[o] = "drop" /\ x = hand[o] /\ todo'[o] = todo[o] \ {hand[o]}
        BY <2>1, <3>2, <3>4 DEF OpEdge, Goes
      <4>2. for[hand[o]] = for[o]
        BY <1>e, <4>1 DEF LifeInv, OpsAreLate
      <4>3. q = o
        BY <1>c, <2>1, <2>3, <3>2, <4>1, <4>2 DEF DeprovisionedOnce
      <4> QED
        BY <4>1, <4>3
    <3> QED
      BY <3>3, <3>4
  <2> QED
    BY <2>2, <2>3
<1>5. ASSUME NEW o \in Op, NEW l \in Lab, Deprovision(o, l)
      PROVE  /\ \A d \in Call : IpOf(d)'
             /\ DeprovisionedOnce' => TodoRows' /\ \A d \in Call : Whole(d)'
  <2>1. /\ pc[o] = "idle" /\ for' = [for EXCEPT ![o] = l] /\ todo' = [todo EXCEPT ![o] = RowsOf(l)]
        /\ mine' = [mine EXCEPT ![o] = [x \in RowsOf(l) |-> row[x].vmid]]
        /\ pc' = [pc EXCEPT ![o] = "next"] /\ UNCHANGED <<row, hand, vm>>
    BY <1>5 DEF Deprovision, Goto, db
  <2>2. /\ \A y \in Call \cup Op : y # o => for'[y] = for[y]
        /\ \A y \in Proc : y # o => pc'[y] = pc[y]
        /\ todo'[o] = RowsOf(l) /\ \A q \in Op : q # o => todo'[q] = todo[q]
    BY <1>a, <2>1 DEF ForTyped, PcTyped, OpsTyped
  <2>3. \A y \in Call : mine'[y] = mine[y]
    BY <1>a, <2>1 DEF HandsTyped
  <2>4. for[o] = NoVal
    BY <2>1 DEF LifeInv, IdleOps
  <2>5. ASSUME NEW d \in Call PROVE IpOf(d)' /\ (DeprovisionedOnce' => Whole(d)')
    <3>1. /\ pc'[d] = pc[d] /\ for'[d] = for[d] /\ mine'[d] = mine[d] /\ \A p \in Probe : pc'[p] = pc[p]
          /\ \A q \in Op : for'[q] = for[q] \/ for[q] = NoVal
      BY <2>2, <2>3, <2>4
    <3>2. ProbeFree(mine[d])' => ProbeFree(mine[d])
      BY <3>1 DEF ProbeFree
    <3> QED
      BY <1>f, <2>1, <3>1, <3>2
  <2>6. DeprovisionedOnce' => TodoRows'
    BY <1>c, <2>1, <2>2 DEF TodoRows, Rows, RowsOf
  <2> QED
    BY <2>5, <2>6
<1>6. ASSUME NEW v \in Vmid, FinishClone(v)
      PROVE  /\ \A d \in Call : IpOf(d)'
             /\ DeprovisionedOnce' => TodoRows' /\ \A d \in Call : Whole(d)'
  <2>1. /\ vm[v] # NoVal /\ vm[v].st = "cloning" /\ UNCHANGED <<row, pc, for, mine, hand, todo>>
        /\ vm' = [vm EXCEPT ![v] = [vm[v] EXCEPT !.st = "stopped"]]
    BY <1>6 DEF FinishClone, db, locals
  <2>2. \A w \in Vmid : w # v => vm'[w] = vm[w]
    BY <2>1 DEF Typed, VmTyped
  <2>3. ASSUME NEW d \in Call PROVE IpOf(d)' /\ (DeprovisionedOnce' => Whole(d)')
    <3>1. ProbeFree(mine[d])' => ProbeFree(mine[d])
      BY <2>1 DEF ProbeFree
    <3>2. d \in Rows => mine[d] \in Vmid
      BY <1>a, <1>b DEF RowOf, Rows, DbTyped, Row
    <3> QED
      BY <1>f, <2>1, <2>2, <3>1, <3>2
  <2>4. DeprovisionedOnce' => TodoRows'
    BY <1>c, <2>1 DEF TodoRows, Rows
  <2> QED
    BY <2>3, <2>4
<1>7. CASE UNCHANGED vars
  <2>1. UNCHANGED <<row, pc, for, mine, hand, todo, vm>>
    BY <1>7 DEF vars
  <2>2. ASSUME NEW d \in Call PROVE IpOf(d)' /\ (DeprovisionedOnce' => Whole(d)')
    <3>1. ProbeFree(mine[d])' => ProbeFree(mine[d])
      BY <2>1 DEF ProbeFree
    <3> QED
      BY <1>f, <2>1, <3>1
  <2>3. DeprovisionedOnce' => TodoRows'
    BY <1>c, <2>1 DEF TodoRows, Rows
  <2> QED
    BY <2>2, <2>3
<1> QED
  BY <1>1, <1>2, <1>3, <1>4, <1>5, <1>6, <1>7 DEF Next, CallMoves, ProbeMoves

\* What the theorems about running labs and about residue start from.
LEMMA AlwaysWhole ==
  Spec => [](Typed /\ NodeInv /\ ResInv /\ ClosedInv /\ LifeInv /\ RunsInv /\ WholeInv)
<1> DEFINE IInv == Typed /\ NodeInv /\ ResInv /\ ClosedInv /\ LifeInv
<1>1. Init => RunsInv /\ WholeInv
  <2> SUFFICES ASSUME Init PROVE RunsInv /\ WholeInv
    OBVIOUS
  <2> USE Actors
  <2>1. Rows = {} /\ \A l \in Lab : RunningRows(l) = {}
    BY DEF Init, Rows, RunningRows, RowsOf, Owner
  <2>2. RunsInv
    <3>1. OneRunning
      BY <2>1 DEF OneRunning
    <3>2. Alone
      <4>1. \A c \in Call : pc[c] = "idle"
        BY DEF Init, Proc, Owner
      <4> QED
        BY <4>1 DEF Alone, Serving, Failing, Reserved
    <3>3. RunningHasRow
      <4>1. \A l \in Lab : status[l] = "none"
        BY DEF Init
      <4> QED
        BY <4>1 DEF RunningHasRow
    <3> QED
      BY <3>1, <3>2, <3>3 DEF RunsInv
  <2>3. WholeInv
    BY <2>1 DEF Init, WholeInv, IpOf, Whole, TodoRows, Reserved
  <2> QED
    BY <2>2, <2>3
<1>2. IInv /\ RunsInv /\ WholeInv /\ [Next]_vars => RunsInv' /\ WholeInv'
  BY RunsStep, WholeStep
<1> QED
  BY <1>1, <1>2, AlwaysLives, PTL DEF Spec

\* A lab that is recorded as running has, once its calls are over and until it is
\* deprovisioned, exactly one running row, with its address and its own VM set to that
\* address, retries included (tasks.py:505-512, 624-630).  Excepted are, as in the property,
\* labs deprovisioned twice or during a provision, error paths cut short, and ProbeVmid
\* beside a probe.
THEOREM SharedBoxesStayWhole == Spec => []SharedBoxesAreWhole
<1>1. Typed /\ NodeInv /\ ClosedInv /\ LifeInv /\ RunsInv /\ WholeInv => SharedBoxesAreWhole
  <2> SUFFICES ASSUME Typed, NodeInv, ClosedInv, LifeInv, RunsInv, WholeInv, hasty = {}, DeprovisionedOnce,
                      NEW l \in Lab, status[l] = "running", \A c \in CallsOf(l) : ~Working(c),
                      \A o \in Op : for[o] # l, Survived(l)
               PROVE  \E x \in RunningRows(l) :
                        /\ RunningRows(l) = {x}
                        /\ ProbeFree(row[x].vmid) =>
                             vm[row[x].vmid] = [by |-> x, st |-> "running", ip |-> row[x].ip]
    BY DEF SharedBoxesAreWhole, Survived, Unwritten
  <2>1. PICK x \in RunningRows(l) : TRUE
    BY DEF RunsInv, RunningHasRow, Working
  <2>2. RunningRows(l) = {x}
    BY <2>1 DEF RunsInv, OneRunning
  <2>3. x \in Call /\ x \in Rows /\ for[x] = l /\ row[x].running /\ ~Working(x)
    BY <2>1 DEF RunningRows, RowsOf, CallsOf
  <2>4. RowOf(x) /\ Whole(x)
    BY <2>3 DEF LifeInv, RowsOfCalls, WholeInv
  <2>5. pc[x] = "done"
    BY <2>3, <2>4 DEF RowOf, Working, Survived, CallsOf
  <2>6. row[x].vmid = mine[x] /\ mine[x] \in Vmid
    <3>1. row[x] \in Row
      BY <2>3, Actors DEF Typed, DbTyped, Rows
    <3> QED
      BY <2>3, <2>4, <3>1 DEF RowOf, Row
  <2>7. ASSUME ProbeFree(mine[x])
        PROVE  vm[mine[x]] = [by |-> x, st |-> "running", ip |-> row[x].ip]
    <3>1. /\ vm[mine[x]] # NoVal /\ vm[mine[x]].by = x
          /\ vm[mine[x]].st = "running" /\ vm[mine[x]].ip = row[x].ip
      BY <2>3, <2>4, <2>5, <2>7 DEF Whole, Survived, Usable, Exists
    <3>2. vm[mine[x]] \in Vm
      BY <2>6, <3>1 DEF Typed, VmTyped
    <3> QED
      BY <3>1, <3>2 DEF Vm
  <2> QED
    BY <2>2, <2>6, <2>7
<1> QED
  BY <1>1, AlwaysWhole, PTL

-----------------------------------------------------------------------------
(* The cap *)

\* A lab that counts against the cap, or is about to: it runs, or one of its calls was
\* admitted and is not over.
Holds(l) == status[l] = "running" \/ \E c \in CallsOf(l) : pc[c] \in Serving \cup Failing
Holders == {l \in Lab : Holds(l)}

OneCallEach == \A c, d \in Call : for[c] = for[d] /\ for[c] # NoVal => c = d

\* While an admitted call works, its lab is in a status the capacity test counts.
Counted ==
  \A c \in Call : Working(c) /\ pc[c] # "asked" => status[for[c]] \in {"pending", "running"}
OpsAreAlone == \A o \in Op : for[o] # NoVal => \A c \in CallsOf(for[o]) : Over(c)
LabsHaveCalls == \A l \in Lab : status[l] # "none" => CallsOf(l) # {}

CapInv ==
  /\ LabsHaveCalls
  /\ hasty = {} /\ OneCallEach =>
       OpsAreAlone /\ Counted /\ boxes + Cardinality(Holders) =< Cap

LEMMA LabsAreCounted ==
  ASSUME NEW A \in SUBSET Lab, NEW B \in SUBSET Lab
  PROVE  /\ Cardinality(A) \in Nat /\ Cardinality(B) \in Nat
         /\ A \subseteq B => Cardinality(A) =< Cardinality(B)
         /\ \A l \in Lab : A \subseteq B \cup {l} => Cardinality(A) =< Cardinality(B) + 1
<1>1. IsFiniteSet(A) /\ IsFiniteSet(B)
  BY SharedFinite, FS_Subset
<1>2. Cardinality(A) \in Nat /\ Cardinality(B) \in Nat
  BY <1>1, FS_CardinalityType
<1>3. A \subseteq B => Cardinality(A) =< Cardinality(B)
  BY <1>1, FS_Subset
<1>4. ASSUME NEW l \in Lab, A \subseteq B \cup {l} PROVE Cardinality(A) =< Cardinality(B) + 1
  <2>1. IsFiniteSet(B \cup {l}) /\ Cardinality(B \cup {l}) =< Cardinality(B) + 1
    <3>1. /\ IsFiniteSet(B \cup {l})
          /\ Cardinality(B \cup {l}) = IF l \in B THEN Cardinality(B) ELSE Cardinality(B) + 1
      BY <1>1, FS_AddElement
    <3> QED
      BY <1>2, <3>1
  <2>2. Cardinality(A) =< Cardinality(B \cup {l}) /\ Cardinality(B \cup {l}) \in Nat
    BY <1>4, <2>1, FS_Subset, FS_CardinalityType
  <2> QED
    BY <1>2, <2>1, <2>2
<1> QED
  BY <1>2, <1>3, <1>4

\* A step after which no lab counts that did not.
LEMMA FewerHold ==
  ASSUME DbTyped, boxes' = boxes, boxes + Cardinality(Holders) =< Cap,
         \A l \in Lab : Holds(l)' => Holds(l)
  PROVE  boxes' + Cardinality(Holders') =< Cap
<1>1. Holders' \subseteq Holders /\ Holders \subseteq Lab /\ Holders' \subseteq Lab
  BY DEF Holders
<1>2. Cardinality(Holders') \in Nat /\ Cardinality(Holders) \in Nat
      /\ Cardinality(Holders') =< Cardinality(Holders)
  BY <1>1, LabsAreCounted
<1>3. boxes \in Nat /\ Cap \in Nat
  BY SharedSizes DEF DbTyped
<1> QED
  BY <1>2, <1>3

\* The call that is admitted adds its lab to those the capacity test counted.
LEMMA OneMoreHolds ==
  ASSUME DbTyped, boxes' = boxes, NEW l \in Lab, ActiveCount(l) < Cap,
         \A k \in Lab \ {l} : Holds(k)' => status[k] \in {"pending", "running"}
  PROVE  boxes' + Cardinality(Holders') =< Cap
<1> DEFINE Others == {k \in Lab \ {l} : status[k] \in {"pending", "running"}}
<1>1. Holders' \subseteq Others \cup {l} /\ Others \subseteq Lab /\ Holders' \subseteq Lab
  BY DEF Holders
<1>2. boxes + Cardinality(Others) < Cap
  BY DEF ActiveCount
<1> HIDE DEF Others
<1>3. Cardinality(Holders') \in Nat /\ Cardinality(Others) \in Nat
      /\ Cardinality(Holders') =< Cardinality(Others) + 1
  BY <1>1, LabsAreCounted
<1>4. boxes \in Nat /\ Cap \in Nat
  BY SharedSizes DEF DbTyped
<1> QED
  BY <1>2, <1>3, <1>4

LEMMA CallCounts ==
  ASSUME Typed, ClosedInv, NEW c \in Call, CallMoves(c), OpsAreAlone, Counted, OneCallEach,
         boxes + Cardinality(Holders) =< Cap
  PROVE  OpsAreAlone' /\ Counted' /\ boxes' + Cardinality(Holders') =< Cap
<1> USE Actors
<1>1. /\ OnlyMoves(c) /\ \A l \in Lab : l # for[c] => status'[l] = status[l]
      /\ CallEdge(c) /\ for[c] \in Lab /\ for' = for /\ boxes' = boxes
      /\ pc'[c] \notin {"idle", "asked"}
  BY CallFrame, CallGoes DEF OnlyMoves
<1>2. \A d \in Call : d # c => pc'[d] = pc[d]
  BY <1>1 DEF OnlyMoves
<1>3. \A l \in Lab : CallsOf(l)' = CallsOf(l)
  BY <1>1 DEF CallsOf
<1>4. pc[c] \notin {"idle", "done", "crashed"}
  BY <1>1 DEF CallEdge, Goes, Forward, Trying
<1>5. \A d \in Call : d # c => for[d] # for[c]
  BY <1>1 DEF OneCallEach
<1>6. OpsAreAlone'
  <2> SUFFICES ASSUME NEW o \in Op, for[o] # NoVal, NEW d \in CallsOf(for[o]) PROVE Over(d)'
    BY <1>1 DEF OpsAreAlone, CallsOf
  <2>1. d \in Call /\ Over(d)
    BY DEF OpsAreAlone, CallsOf
  <2>2. d # c
    BY <1>4, <2>1 DEF Over
  <2> QED
    BY <1>2, <2>1, <2>2 DEF Over
<1>7. Counted'
  <2> SUFFICES ASSUME NEW d \in Call, pc'[d] \notin {"idle", "done", "crashed", "asked"}
               PROVE  status'[for[d]] \in {"pending", "running"}
    BY <1>1 DEF Counted, Working
  <2>1. CASE d = c
    BY <1>1, <2>1 DEF Counted, Working, CallEdge, Goes, Forward, Trying
  <2>2. CASE d # c
    <3>1. pc[d] \notin {"idle", "done", "crashed", "asked"}
      BY <1>2, <2>2
    <3>2. for[d] \in Lab /\ for[d] # for[c]
      BY <1>5, <2>2, <3>1 DEF Typed, ForTyped
    <3> QED
      BY <1>1, <3>1, <3>2 DEF Counted, Working
  <2> QED
    BY <2>1, <2>2
<1>8. \A l \in Lab \ {for[c]} : Holds(l)' => Holds(l)
  BY <1>1, <1>2 DEF Holds, CallsOf
<1>9. boxes' + Cardinality(Holders') =< Cap
  <2>1. CASE Goes(c, "queued", "reserve") /\ CapacityOk(for[c])
    <3>1. ActiveCount(for[c]) < Cap
      BY <2>1 DEF CapacityOk, Precheck
    <3>2. \A l \in Lab : Holds(l) => status[l] \in {"pending", "running"}
      BY DEF Holds, CallsOf, Counted, Working, Serving, Failing, Reserved
    <3> QED
      BY <1>1, <1>8, <3>1, <3>2, OneMoreHolds DEF Typed
  <2>2. CASE ~(Goes(c, "queued", "reserve") /\ CapacityOk(for[c]))
    <3>1. Holds(for[c])' => Holds(for[c])
      <4> SUFFICES ASSUME NEW l \in Lab, l = for[c], Holds(l)' PROVE Holds(l)
        BY <1>1
      <4>1. status'[l] = "running" => status[l] = "running" \/ pc[c] = "record"
        BY <1>1 DEF CallEdge, Goes
      <4>2. pc'[c] \in Serving \cup Failing => pc[c] \in Serving \cup Failing
        BY <1>1, <2>2 DEF CallEdge, Goes, Forward, Trying, Serving, Failing, Reserved
      <4>3. \A d \in CallsOf(l) : d = c
        BY <1>5 DEF CallsOf
      <4> QED
        BY <1>3, <4>1, <4>2, <4>3 DEF Holds, CallsOf, Serving, Reserved
    <3> QED
      BY <1>1, <1>8, <3>1, FewerHold DEF Typed
  <2> QED
    BY <2>1, <2>2
<1> QED
  BY <1>6, <1>7, <1>9

\* A step that moves no call into or out of its work and makes no lab run.
LEMMA CapKept ==
  ASSUME Typed, boxes' = boxes, OpsAreAlone, Counted, boxes + Cardinality(Holders) =< Cap,
         \A d \in Call : for'[d] = for[d] /\ pc'[d] = pc[d],
         \A o \in Op : for'[o] = for[o],
         \A l \in Lab : status'[l] = status[l] \/ (status'[l] # "running" /\ \A d \in CallsOf(l) : Over(d))
  PROVE  OpsAreAlone' /\ Counted' /\ boxes' + Cardinality(Holders') =< Cap
<1> USE Actors
<1>1. OpsAreAlone'
  BY DEF OpsAreAlone, CallsOf, Over
<1>2. Counted'
  <2> SUFFICES ASSUME NEW d \in Call, pc[d] \notin {"idle", "done", "crashed", "asked"}
               PROVE  status'[for[d]] \in {"pending", "running"}
    BY DEF Counted, Working
  <2>1. for[d] \in Lab /\ d \in CallsOf(for[d]) /\ ~Over(d)
    BY DEF Typed, ForTyped, CallsOf, Over
  <2> QED
    BY <2>1 DEF Counted, Working
<1>3. \A l \in Lab : Holds(l)' => Holds(l)
  BY DEF Holds, CallsOf, Over, Serving, Failing, Reserved
<1> QED
  BY <1>1, <1>2, <1>3, FewerHold DEF Typed

LEMMA CapStep ==
  ASSUME Typed, NodeInv, ClosedInv, LifeInv, CapInv, [Next]_vars
  PROVE  CapInv'
<1> USE Actors
<1>a. DbTyped /\ PcTyped /\ ForTyped /\ OpsTyped
  BY DEF Typed
<1>b. hasty' = {} => hasty = {}
  BY Grows
<1>c. \A c \in Call : for[c] \in Lab \/ (for[c] = NoVal /\ pc[c] = "idle")
  BY <1>a DEF ForTyped
<1> DEFINE Fine == OpsAreAlone /\ Counted /\ boxes + Cardinality(Holders) =< Cap
<1>d. hasty = {} /\ OneCallEach => Fine
  BY DEF CapInv
<1>1. ASSUME NEW c \in Call, CallMoves(c) PROVE CapInv'
  <2>1. /\ OnlyMoves(c) /\ \A l \in Lab : l # for[c] => status'[l] = status[l]
        /\ for[c] \in Lab /\ for' = for
    BY <1>1, CallFrame, CallGoes DEF OnlyMoves
  <2>2. LabsHaveCalls'
    BY <2>1 DEF CapInv, LabsHaveCalls, CallsOf
  <2>3. OneCallEach' => OneCallEach
    BY <2>1 DEF OneCallEach
  <2> QED
    BY <1>1, <1>b, <1>d, <2>2, <2>3, CallCounts DEF CapInv
<1>2. ASSUME NEW c \in Call, NEW l \in Lab, Ask(c, l) \/ Retry(c, l) PROVE CapInv'
  <2>1. /\ pc[c] = "idle" /\ for' = [for EXCEPT ![c] = l]
        /\ Ask(c, l) => status[l] = "none" /\ pc' = [pc EXCEPT ![c] = "asked"]
        /\ Retry(c, l) => status[l] # "none"
        /\ UNCHANGED <<boxes, status, hasty>>
    BY <1>2 DEF Ask, Retry, Goto, db
  <2>2. for'[c] = l /\ for[c] = NoVal /\ \A y \in Call \cup Op : y # c => for'[y] = for[y]
    BY <1>a, <2>1 DEF ForTyped, ClosedInv, IdleIsEmpty
  <2>3. LabsHaveCalls'
    BY <2>1, <2>2 DEF CapInv, LabsHaveCalls, CallsOf
  <2>4. OneCallEach' => OneCallEach
    BY <2>2 DEF OneCallEach
  <2>5. OneCallEach' => status[l] = "none"
    <3>1. ASSUME status[l] # "none", OneCallEach' PROVE FALSE
      <4>1. PICK d \in CallsOf(l) : TRUE
        BY <3>1 DEF CapInv, LabsHaveCalls
      <4>2. d \in Call /\ for[d] = l /\ d # c
        BY <2>2, <4>1 DEF CallsOf
      <4> QED
        BY <2>2, <3>1, <4>2 DEF OneCallEach
    <3> QED
      BY <3>1
  <2>6. ASSUME hasty = {}, OneCallEach' PROVE Fine'
    <3>1. status[l] = "none" /\ pc'[c] = "asked" /\ \A y \in Proc : y # c => pc'[y] = pc[y]
      BY <1>2, <1>a, <2>1, <2>5, <2>6 DEF PcTyped
    <3>2. Fine
      BY <1>d, <2>4, <2>6
    <3>3. OpsAreAlone'
      <4> SUFFICES ASSUME NEW o \in Op, for[o] # NoVal, NEW d \in Call, for'[d] = for[o] PROVE Over(d)'
        BY <2>2 DEF OpsAreAlone, CallsOf
      <4>1. status[for[o]] # "none"
        BY DEF ClosedInv, OpsAfter, LifeInv, IdleOps
      <4> QED
        BY <2>2, <3>1, <3>2, <4>1 DEF OpsAreAlone, CallsOf, Over
    <3>4. Counted'
      BY <2>1, <2>2, <3>1, <3>2 DEF Counted, Working
    <3>5. \A k \in Lab : Holds(k)' => Holds(k)
      BY <2>1, <2>2, <3>1 DEF Holds, CallsOf, Serving, Failing, Reserved
    <3> QED
      BY <1>a, <2>1, <3>2, <3>3, <3>4, <3>5, FewerHold
  <2> QED
    BY <1>b, <2>3, <2>6 DEF CapInv
<1>3. ASSUME NEW p \in Probe, ProbeMoves(p) PROVE CapInv'
  <2>1. OnlyMoves(p) /\ status' = status
    BY <1>3, ProbeFrame
  <2>2. /\ \A d \in Call : for'[d] = for[d] /\ pc'[d] = pc[d]
        /\ boxes' = boxes /\ for' = for
    BY <2>1 DEF OnlyMoves
  <2>3. LabsHaveCalls' /\ (OneCallEach' => OneCallEach)
    BY <2>1, <2>2 DEF CapInv, LabsHaveCalls, CallsOf, OneCallEach
  <2> QED
    BY <1>b, <1>d, <2>1, <2>2, <2>3, CapKept DEF CapInv
<1>4. ASSUME NEW o \in Op, OpStep(o) PROVE CapInv'
  <2>1. /\ OpEdge(o) /\ for[o] \in Lab /\ for' = for /\ boxes' = boxes
        /\ \A d \in Call : pc'[d] = pc[d]
    BY <1>4, OpGoes
  <2>2. \A l \in Lab : status'[l] = status[l] \/ (l = for[o] /\ status'[l] = "destroyed")
    BY <2>1 DEF OpEdge
  <2>3. pc[o] # "idle" /\ status[for[o]] # "none"
    <3>1. pc[o] # "idle"
      BY <1>4 DEF OpStep, DestroyNext, DropNext, RecordDestroyed
    <3> QED
      BY <3>1 DEF ClosedInv, OpsAfter
  <2>4. LabsHaveCalls' /\ (OneCallEach' => OneCallEach)
    BY <2>1, <2>2, <2>3 DEF CapInv, LabsHaveCalls, CallsOf, OneCallEach
  <2>5. OpsAreAlone => \A d \in CallsOf(for[o]) : Over(d)
    BY <2>1 DEF OpsAreAlone
  <2> QED
    BY <1>b, <1>d, <2>1, <2>2, <2>4, <2>5, CapKept DEF CapInv
<1>5. ASSUME NEW o \in Op, NEW l \in Lab, Deprovision(o, l) PROVE CapInv'
  <2>1. /\ for' = [for EXCEPT ![o] = l] /\ pc' = [pc EXCEPT ![o] = "next"]
        /\ UNCHANGED <<boxes, status>> /\ status[l] # "none"
        /\ hasty' = {} => \A c \in CallsOf(l) : ~Working(c)
    BY <1>5 DEF Deprovision, Goto, db
  <2>2. /\ for'[o] = l /\ \A y \in Call \cup Op : y # o => for'[y] = for[y]
        /\ \A d \in Call : pc'[d] = pc[d] /\ for'[d] = for[d]
    BY <1>a, <2>1 DEF ForTyped, PcTyped
  <2>3. LabsHaveCalls' /\ (OneCallEach' => OneCallEach)
    BY <2>1, <2>2 DEF CapInv, LabsHaveCalls, CallsOf, OneCallEach
  <2>4. ASSUME hasty' = {}, OneCallEach' PROVE Fine'
    <3>1. Fine
      BY <1>b, <1>d, <2>3, <2>4
    <3>2. OpsAreAlone'
      <4>1. \A d \in CallsOf(l) : Over(d)
        BY <2>1, <2>4 DEF CallsOf, Working, Over, ClosedInv, IdleIsEmpty
      <4> QED
        BY <2>2, <3>1, <4>1 DEF OpsAreAlone, CallsOf, Over
    <3>3. Counted' /\ \A k \in Lab : Holds(k)' => Holds(k)
      BY <2>1, <2>2, <3>1 DEF Counted, Working, Holds, CallsOf
    <3> QED
      BY <1>a, <2>1, <3>1, <3>2, <3>3, FewerHold
  <2> QED
    BY <2>3, <2>4 DEF CapInv
<1>6. CASE UNCHANGED <<boxes, status, for, pc>>
  <2>1. LabsHaveCalls' /\ (OneCallEach' => OneCallEach)
    BY <1>6 DEF CapInv, LabsHaveCalls, CallsOf, OneCallEach
  <2> QED
    BY <1>6, <1>b, <1>d, <2>1, CapKept DEF CapInv
<1> QED
  BY <1>1, <1>2, <1>3, <1>4, <1>5, <1>6
     DEF Next, vars, db, locals, FinishClone, CallMoves, ProbeMoves

\* However labs are asked for at the same time, those that run and the students' boxes
\* stay within PROVISION_MAX_CONCURRENT: the lab is written pending before it is tested,
\* so of two that are tested at once each sees the other (api.py:122-142,
\* tasks.py:522-532).
THEOREM CapIsHonoured == Spec => []CapHonoured
<1>1. Init => CapInv
  <2> SUFFICES ASSUME Init PROVE CapInv
    OBVIOUS
  <2> USE Actors
  <2>1. LabsHaveCalls /\ OpsAreAlone
    BY DEF Init, LabsHaveCalls, OpsAreAlone
  <2>2. Counted
    BY DEF Init, Counted, Working, Proc
  <2>3. Holders = {}
    <3>1. \A c \in Call : pc[c] = "idle"
      BY DEF Init, Proc
    <3> QED
      BY <3>1 DEF Init, Holders, Holds, CallsOf, Serving, Failing, Reserved
  <2>4. boxes + Cardinality(Holders) =< Cap
    BY <2>3, FS_EmptySet, SharedSizes DEF Init
  <2> QED
    BY <2>1, <2>2, <2>4 DEF CapInv
<1>2. Typed /\ ClosedInv /\ CapInv => CapHonoured
  <2> SUFFICES ASSUME Typed, CapInv, hasty = {}, \A l \in Lab : Cardinality(CallsOf(l)) =< 1
               PROVE  boxes + Cardinality({l \in Lab : status[l] = "running"}) =< Cap
    BY DEF CapHonoured
  <2> USE Actors
  <2>1. OneCallEach
    <3> SUFFICES ASSUME NEW c \in Call, NEW d \in Call, for[c] = for[d], for[c] # NoVal, c # d
                 PROVE  FALSE
      BY DEF OneCallEach
    <3>1. for[c] \in Lab /\ {c, d} \subseteq CallsOf(for[c])
      BY DEF Typed, ForTyped, CallsOf
    <3>2. IsFiniteSet(CallsOf(for[c]))
      <4>1. CallsOf(for[c]) \subseteq Call
        BY DEF CallsOf
      <4> QED
        BY <4>1, SharedFinite, FS_Subset
    <3>3. Cardinality({c, d}) = 2
      <4>1. IsFiniteSet({c}) /\ Cardinality({c}) = 1
        BY FS_Singleton
      <4>2. {c} \cup {d} = {c, d} /\ d \notin {c}
        OBVIOUS
      <4>3. Cardinality({c} \cup {d}) = Cardinality({c}) + 1
        BY <4>1, <4>2, FS_AddElement
      <4> QED
        BY <4>1, <4>2, <4>3
    <3>4. Cardinality({c, d}) =< Cardinality(CallsOf(for[c])) /\ Cardinality(CallsOf(for[c])) \in Nat
      BY <3>1, <3>2, FS_Subset, FS_CardinalityType
    <3> QED
      BY <3>1, <3>3, <3>4
  <2>2. boxes + Cardinality(Holders) =< Cap
    BY <2>1 DEF CapInv
  <2> DEFINE R == {l \in Lab : status[l] = "running"}
  <2>3. R \subseteq Holders /\ Holders \subseteq Lab /\ R \subseteq Lab
    BY DEF Holders, Holds
  <2> HIDE DEF R
  <2>4. Cardinality(R) \in Nat /\ Cardinality(Holders) \in Nat /\ Cardinality(R) =< Cardinality(Holders)
    BY <2>3, LabsAreCounted
  <2>5. boxes + Cardinality(R) =< Cap
    BY <2>2, <2>4, SharedSizes DEF Typed, DbTyped
  <2> QED
    BY <2>5 DEF R
<1> QED
  BY <1>1, <1>2, CapStep, AlwaysLives, PTL DEF Spec

-----------------------------------------------------------------------------
(* What a probe's step does, and a call's to the leases *)

ProbeKeeps(p) == row'[p] = row[p] /\ lease' = lease /\ hand'[p] = hand[p]
ProbeLeases(p, i) ==
  /\ i \in FreeLeases /\ lease' = [lease EXCEPT ![i] = [state |-> "leased", vm |-> p]]
  /\ IsRow(p, ProbeVmid, i, FALSE) /\ hand'[p] = i
ProbeFrees(p) ==
  /\ row'[p] = NoVal /\ hand'[p] = hand[p]
  /\ lease' = IF hand[p] = NoVal THEN lease ELSE [lease EXCEPT ![hand[p]] = FreeLease]
Restarts(v) == Usable(v) /\ \E st \in {"running", "stopped"} : IsVm(v, vm[v].by, st, vm[v].ip)

\* A probe's step along its life, and what it does to its records and to ProbeVmid.
ProbeEdge(p) ==
  LET v == ProbeVmid
  IN  \/ Goes(p, "idle", "clone") /\ ProbeKeeps(p) /\ vm' = vm
      \/ Goes(p, "idle", "done") /\ ProbeKeeps(p) /\ vm' = vm
      \/ /\ Goes(p, "clone", "cloning") \/ (Goes(p, "clone", "clean") /\ Met("call"))
         /\ ProbeKeeps(p) /\ vm[v] = NoVal /\ IsVm(v, p, "cloning", NoVal)
      \/ Goes(p, "clone", "clean") /\ ProbeKeeps(p) /\ vm' = vm
      \/ Goes(p, "cloning", "cloned") /\ ProbeKeeps(p) /\ IsVm(v, p, "stopped", vm[v].ip)
      \/ /\ Goes(p, "cloning", "clean") /\ ProbeKeeps(p)
         /\ vm'[v] = NoVal \/ IsVm(v, p, "conf", NoVal)
            \/ (vm' = vm /\ (Met("late") \/ Met("call")))
      \/ /\ Goes(p, "cloned", "record") \/ Goes(p, "cloned", "destroy") \/ Goes(p, "record", "destroy")
         /\ ProbeKeeps(p) /\ vm' = vm
      \/ /\ Goes(p, "record", "destroy") \/ Goes(p, "record", "power_on")
         /\ vm' = vm /\ \E i \in FreeLeases : ProbeLeases(p, i)
      \/ /\ Goes(p, "power_on", "power_off") \/ Goes(p, "power_on", "destroy")
            \/ Goes(p, "power_off", "destroy")
         /\ ProbeKeeps(p) /\ (vm' = vm \/ Restarts(v))
      \/ /\ Goes(p, "destroy", "clean") /\ ProbeKeeps(p)
         /\ \/ Usable(v) /\ vm'[v] = NoVal
            \/ vm' = vm /\ (~Usable(v) \/ Met("cleanup") \/ Met("misread"))
      \/ Goes(p, "clean", "done") /\ vm' = vm /\ ProbeFrees(p)
      \/ Goes(p, "clean", "done") /\ vm' = vm /\ ProbeKeeps(p) /\ Met("cleanup")
      \/ pc'[p] = "crashed" /\ ProbeKeeps(p) /\ vm' = vm /\ Met("crash")

LEMMA ProbeGoes ==
  ASSUME Typed, NodeInv, NEW p \in Probe, ProbeMoves(p)
  PROVE  ProbeEdge(p)
<1> USE Actors, ProbeVmidInRange
<1>a. DbTyped /\ PcTyped /\ HandsTyped /\ VmTyped
  BY DEF Typed
<1>b. \A l : Goto(p, l) => pc'[p] = l
  BY <1>a DEF Goto, PcTyped
<1>c. UNCHANGED <<db, locals>> => ProbeKeeps(p)
  BY DEF db, locals, ProbeKeeps
<1>d. \A k : Fault(k) => Met(k)
  BY DEF Fault, Met
<1>e. ASSUME NEW y, vm' = [vm EXCEPT ![ProbeVmid] = y] PROVE vm'[ProbeVmid] = y
  BY <1>a, <1>e DEF VmTyped
<1>g. ASSUME vm[ProbeVmid] # NoVal, NEW st \in {"stopped", "running"},
             vm' = [vm EXCEPT ![ProbeVmid].st = st]
      PROVE  IsVm(ProbeVmid, vm[ProbeVmid].by, st, vm[ProbeVmid].ip)
  <2> DEFINE y == [vm[ProbeVmid] EXCEPT !.st = st]
  <2>1. vm'[ProbeVmid] = y
    BY <1>e, <1>g
  <2>2. y \in Vm /\ y.by = vm[ProbeVmid].by /\ y.st = st /\ y.ip = vm[ProbeVmid].ip
    BY <1>a, <1>g DEF VmTyped, Vm
  <2> QED
    BY <2>1, <2>2 DEF IsVm
<1>h. ASSUME NEW st \in {"cloning", "conf"}, vm'[ProbeVmid] = NewVm(p, st)
      PROVE  IsVm(ProbeVmid, p, st, NoVal)
  <2>1. NewVm(p, st) \in Vm
    BY DEF NewVm, Vm
  <2> QED
    BY <1>h, <2>1 DEF IsVm, NewVm
<1>1. CASE BeginProbe(p)
  BY <1>1, <1>b, <1>c DEF BeginProbe, ProbeEdge, Goes
<1>2. CASE ProbeClone(p)
  <2>1. pc[p] = "clone" /\ ProbeKeeps(p)
    BY <1>2, <1>c DEF ProbeClone, StartClone
  <2>2. \/ /\ vm[ProbeVmid] = NoVal /\ vm' = [vm EXCEPT ![ProbeVmid] = NewVm(p, "cloning")]
           /\ pc'[p] = "cloning" \/ (pc'[p] = "clean" /\ Met("call"))
        \/ pc'[p] = "clean" /\ vm' = vm
    BY <1>2, <1>b, <1>d DEF ProbeClone, StartClone
  <2> QED
    BY <1>e, <1>h, <2>1, <2>2 DEF ProbeEdge, Goes
<1>3. CASE ProbeWait(p)
  <2>1. pc[p] = "cloning" /\ ProbeKeeps(p)
    BY <1>3, <1>c DEF ProbeWait, WaitClone
  <2>2. vm[ProbeVmid] # NoVal /\ vm[ProbeVmid].by = p
    BY <2>1 DEF NodeInv, ClonesThere, CloneThere, VmidOf
  <2>3. \/ vm' = [vm EXCEPT ![ProbeVmid].st = "stopped"] /\ pc'[p] = "cloned"
        \/ /\ pc'[p] = "clean"
           /\ \E left \in {NoVal, NewVm(p, "conf")} : vm' = [vm EXCEPT ![ProbeVmid] = left]
        \/ pc'[p] = "clean" /\ vm' = vm /\ (Met("late") \/ Met("call"))
    <3>1. vm' = [vm EXCEPT ![ProbeVmid] = vm[ProbeVmid]] => vm' = vm
      BY <1>a DEF VmTyped
    <3> QED
      BY <1>3, <1>b, <1>d, <3>1 DEF ProbeWait, WaitClone
  <2>4. CASE vm' = [vm EXCEPT ![ProbeVmid].st = "stopped"] /\ pc'[p] = "cloned"
    BY <1>g, <2>1, <2>2, <2>4 DEF ProbeEdge, Goes
  <2>5. CASE /\ pc'[p] = "clean"
             /\ \E left \in {NoVal, NewVm(p, "conf")} : vm' = [vm EXCEPT ![ProbeVmid] = left]
    BY <1>e, <1>h, <2>1, <2>5 DEF ProbeEdge, Goes
  <2> QED
    BY <2>1, <2>3, <2>4, <2>5 DEF ProbeEdge, Goes
<1>4. CASE ReadBack(p)
  BY <1>4, <1>b, <1>c DEF ReadBack, ProbeEdge, Goes
<1>5. CASE RecordProbe(p)
  <2>1. pc[p] = "record" /\ vm' = vm
    BY <1>5 DEF RecordProbe
  <2>2. ASSUME NEW i \in FreeLeases, hand' = [hand EXCEPT ![p] = i],
               row' = [row EXCEPT ![p] = [vmid |-> ProbeVmid, ip |-> i, running |-> FALSE]],
               lease' = [lease EXCEPT ![i] = [state |-> "leased", vm |-> p]]
        PROVE  ProbeLeases(p, i)
    <3>1. row'[p] = [vmid |-> ProbeVmid, ip |-> i, running |-> FALSE] /\ hand'[p] = i
      BY <1>a, <2>2 DEF DbTyped, HandsTyped
    <3>2. [vmid |-> ProbeVmid, ip |-> i, running |-> FALSE] \in Row
      BY DEF Row, FreeLeases
    <3>3. row'[p] # NoVal
      BY <3>1, <3>2
    <3>4. row'[p].vmid = ProbeVmid /\ row'[p].ip = i
      BY <3>1
    <3>5. row'[p].running = FALSE
      BY <3>1
    <3> QED
      BY <2>2, <3>1, <3>3, <3>4, <3>5 DEF ProbeLeases, IsRow
  <2>3. \/ /\ \E i \in FreeLeases : ProbeLeases(p, i)
           /\ pc'[p] = "destroy" \/ pc'[p] = "power_on"
        \/ pc'[p] = "destroy" /\ UNCHANGED <<row, lease, hand>>
    BY <1>5, <1>b, <2>2 DEF RecordProbe
  <2> QED
    BY <2>1, <2>3 DEF ProbeEdge, Goes, ProbeKeeps
<1>6. CASE PowerOn(p)
  <2>1. pc[p] = "power_on" /\ ProbeKeeps(p)
    BY <1>6, <1>c DEF PowerOn
  <2>2. /\ pc'[p] = "power_off" \/ pc'[p] = "destroy"
        /\ vm' = vm \/ (Usable(ProbeVmid) /\ vm' = [vm EXCEPT ![ProbeVmid].st = "running"])
    BY <1>6, <1>b DEF PowerOn, Boot
  <2>3. vm' = vm \/ Restarts(ProbeVmid)
    BY <1>g, <2>2 DEF Restarts, Usable, Exists
  <2> QED
    BY <2>1, <2>2, <2>3 DEF ProbeEdge, Goes
<1>7. CASE PowerOff(p)
  <2>1. pc[p] = "power_off" /\ ProbeKeeps(p) /\ pc'[p] = "destroy"
    BY <1>7, <1>b, <1>c DEF PowerOff
  <2>2. vm' = vm \/ (Usable(ProbeVmid) /\ vm' = [vm EXCEPT ![ProbeVmid].st = "stopped"])
    BY <1>7 DEF PowerOff
  <2>3. vm' = vm \/ Restarts(ProbeVmid)
    BY <1>g, <2>2 DEF Restarts, Usable, Exists
  <2> QED
    BY <2>1, <2>3 DEF ProbeEdge, Goes
<1>8. CASE ProbeDestroy(p)
  <2>1. pc[p] = "destroy" /\ ProbeKeeps(p) /\ pc'[p] = "clean"
    BY <1>8, <1>b, <1>c DEF ProbeDestroy
  <2>2. \/ Usable(ProbeVmid) /\ vm' = [vm EXCEPT ![ProbeVmid] = NoVal]
        \/ vm' = vm /\ (~Usable(ProbeVmid) \/ Met("cleanup") \/ Met("misread"))
    BY <1>8, <1>d DEF ProbeDestroy, DestroyProbe, TearDown, Destroy
  <2> QED
    BY <1>e, <2>1, <2>2 DEF ProbeEdge, Goes
<1>9. CASE ProbeClean(p)
  <2>1. Goes(p, "clean", "done") /\ vm' = vm /\ hand' = hand
    BY <1>9, <1>b DEF ProbeClean, Goes, locals
  <2>2. \/ /\ row' = [row EXCEPT ![p] = NoVal]
           /\ lease' = IF hand[p] = NoVal THEN lease ELSE [lease EXCEPT ![hand[p]] = FreeLease]
        \/ Met("cleanup") /\ UNCHANGED <<row, lease>>
    BY <1>9, <1>d DEF ProbeClean
  <2>3. row' = [row EXCEPT ![p] = NoVal] => row'[p] = NoVal
    BY <1>a DEF DbTyped
  <2> QED
    BY <2>1, <2>2, <2>3 DEF ProbeEdge, ProbeFrees, ProbeKeeps
<1>10. CASE Crash(p)
  BY <1>10, <1>b, <1>c, <1>d DEF Crash, ProbeEdge
<1> QED
  BY <1>1, <1>2, <1>3, <1>4, <1>5, <1>6, <1>7, <1>8, <1>9, <1>10 DEF ProbeMoves, ProbeStep

\* Whom the addresses are bound to after a call's step.
CallLeases(c) ==
  \/ /\ \A i \in Ip : lease'[i].vm = lease[i].vm
     /\ ~Goes(c, "bind", "clone") /\ ~Goes(c, "release", "fail")
  \/ /\ Goes(c, "bind", "clone") /\ hand[c] \in Ip
     /\ \A i \in Ip : lease'[i].vm = IF i = hand[c] THEN c ELSE lease[i].vm
  \/ Goes(c, "release", "fail") /\ lease' = LeasesWithout(c)

LEMMA CallOnLeases ==
  ASSUME Typed, NEW c \in Call, CallMoves(c)
  PROVE  CallLeases(c)
<1> USE Actors
<1>a. DbTyped /\ PcTyped /\ HandsTyped
  BY DEF Typed
<1>b. \A l : Goto(c, l) => pc'[c] = l
  BY <1>a DEF Goto, PcTyped
<1>1. CASE LeaseIp(c)
  <2>1. pc[c] = "lease" /\ (lease' = lease \/ \E i \in Ip : lease' = [lease EXCEPT ![i].state = "leased"])
    BY <1>1 DEF LeaseIp, FreeLeases
  <2>2. \A i \in Ip : lease'[i].vm = lease[i].vm
    BY <1>a, <2>1 DEF DbTyped, Lease
  <2> QED
    BY <2>1, <2>2 DEF CallLeases, Goes
<1>2. CASE Bind(c)
  <2>1. pc[c] = "bind" /\ hand[c] \in Ip
    BY <1>2, <1>a DEF Bind, HandsTyped, Holding
  <2>2. CASE lease' = [lease EXCEPT ![hand[c]].vm = c] /\ Goto(c, "clone")
    <3>1. \A i \in Ip : lease'[i].vm = IF i = hand[c] THEN c ELSE lease[i].vm
      BY <1>a, <2>1, <2>2 DEF DbTyped, Lease
    <3> QED
      BY <1>b, <2>1, <2>2, <3>1 DEF CallLeases, Goes
  <2>3. CASE lease' = lease /\ Goto(c, "teardown")
    BY <1>b, <2>1, <2>3 DEF CallLeases, Goes
  <2> QED
    BY <1>2, <2>2, <2>3 DEF Bind
<1>3. CASE Release(c)
  BY <1>3, <1>b DEF Release, ReleaseReservation, DeleteRow, CallLeases, Goes
<1>4. CASE Accept(c) \/ Admit(c) \/ Reserve(c) \/ Record(c) \/ Fail(c)
  BY <1>4 DEF Accept, Admit, Reserve, Record, Fail, CallLeases, Goes
<1>5. CASE \/ Configure(c) \/ BootBox(c) \/ ConfirmIp(c) \/ ErrorPath(c)
           \/ StartClone(c, mine[c], "teardown") \/ WaitClone(c, mine[c], "teardown")
  BY <1>5 DEF Configure, BootBox, ConfirmIp, ErrorPath, StartClone, WaitClone, db, CallLeases, Goes
<1>6. CASE Crash(c)
  BY <1>6, <1>b DEF Crash, db, CallLeases, Goes
<1> QED
  BY <1>1, <1>2, <1>3, <1>4, <1>5, <1>6 DEF CallMoves, CallStep

-----------------------------------------------------------------------------
(* Residue *)

\* The faults after which nothing may be left: failing calls and an unreachable node.
Mild == faults.kinds \subseteq {"call", "unreachable"}

\* A bound address is on the row it is bound to, and a probe knows its own.
Bound ==
  \A i \in Ip : lease[i].vm # NoVal => lease[i].vm \in Rows /\ row[lease[i].vm].ip = i
ProbeHands == \A p \in Probe : p \in Rows => hand[p] # NoVal /\ row[p].ip = hand[p]

\* Of every VM somebody is still in charge, the probe at work, or a call whose row
\* records it; or it is a bare clone that was given up.
InCharge(x, v) ==
  /\ x \in Probe => v = ProbeVmid /\ pc[x] \in {"cloning", "cloned", "record", "power_on",
                                                "power_off", "destroy"}
  /\ x \in Call => v = mine[x] /\ x \in Rows /\ pc[x] \notin {"release", "fail"}
VmsHaveOwners == \A v \in Vmid : Exists(v) => InCharge(vm[v].by, v) \/ Bare(vm[v].by, v)

\* A VM is under the vmid its owner clones into, and nobody else's is under the vmid of a
\* call that has a row, but for the probes'.
AtHome(x, v) == IF x \in Probe THEN v = ProbeVmid ELSE v = mine[x]
VmsAtHome == \A v \in Vmid : Exists(v) => AtHome(vm[v].by, v)
RowsOwn ==
  \A y \in Call : \A v \in Vmid \ {ProbeVmid} :
    y \in Rows /\ mine[y] = v /\ Exists(v) => vm[v].by = y
CloningIsBare == \A v \in Vmid : Exists(v) /\ vm[v].st = "cloning" => vm[v].ip = NoVal
DropIsGone == \A o \in Op : pc[o] = "drop" => \A v \in Vmid : Exists(v) => vm[v].by # hand[o]

\* Rows that outlive the call or probe that made them are of boxes that run.
DoneRows ==
  \A c \in Call : pc[c] = "done" /\ c \in Rows => row[c].running /\ status[for[c]] # "error"
ProbeRows ==
  \A p \in Probe : p \in Rows => pc[p] \in {"power_on", "power_off", "destroy", "clean"}

ResidueInv ==
  hasty = {} =>
    /\ Bound /\ ProbeHands
    /\ VmsAtHome /\ CloningIsBare /\ RowsOwn
    /\ Mild => VmsHaveOwners /\ DropIsGone /\ DoneRows /\ ProbeRows

\* Deleting a row leaves no address bound to it.
LEMMA DeleteRowBinds ==
  ASSUME Bound, NEW x \in Owner, lease' = LeasesWithout(x),
         \A y \in Owner \ {x} : row'[y] = row[y]
  PROVE  Bound'
<1> SUFFICES ASSUME NEW i \in Ip, lease'[i].vm # NoVal
             PROVE  lease'[i].vm \in Rows' /\ row'[lease'[i].vm].ip = i
  BY DEF Bound
<1>1. lease'[i] = IF lease[i].vm = x THEN FreeLease ELSE lease[i]
  BY DEF LeasesWithout
<1>2. lease[i].vm # x /\ lease'[i].vm = lease[i].vm
  BY <1>1 DEF FreeLease
<1>3. lease[i].vm \in Rows /\ row[lease[i].vm].ip = i
  BY <1>2 DEF Bound
<1> QED
  BY <1>2, <1>3 DEF Rows

LEMMA CallBinds ==
  ASSUME Typed, RowsOfCalls, Bound, ProbeHands, NEW c \in Call, IpOf(c), CallMoves(c)
  PROVE  Bound' /\ ProbeHands'
<1> USE Actors
<1>1. OnlyMoves(c) /\ CallEdge(c) /\ CallLeases(c)
  BY CallFrame, CallGoes, CallOnLeases
<1>2. ProbeHands'
  BY <1>1 DEF ProbeHands, OnlyMoves, Rows
<1>3. RowOf(c) /\ \A y \in Owner \ {c} : row'[y] = row[y]
  BY <1>1 DEF RowsOfCalls, OnlyMoves
<1>4. CASE Goes(c, "release", "fail") /\ lease' = LeasesWithout(c)
  BY <1>2, <1>3, <1>4, DeleteRowBinds
<1>5. CASE /\ Goes(c, "bind", "clone") /\ hand[c] \in Ip
           /\ \A i \in Ip : lease'[i].vm = IF i = hand[c] THEN c ELSE lease[i].vm
  <2> SUFFICES ASSUME NEW i \in Ip, lease'[i].vm # NoVal
               PROVE  lease'[i].vm \in Rows' /\ row'[lease'[i].vm].ip = i
    BY <1>2 DEF Bound
  <2>1. CASE i = hand[c]
    BY <1>1, <1>5, <2>1 DEF CallEdge, Goes, IsRow, Rows, Forward, Trying
  <2>2. CASE i # hand[c]
    <3>1. lease[i].vm \in Rows /\ row[lease[i].vm].ip = i /\ lease'[i].vm = lease[i].vm
      BY <1>5, <2>2 DEF Bound
    <3>2. lease[i].vm # c
      BY <1>5, <3>1 DEF IpOf, Goes
    <3> QED
      BY <1>3, <3>1, <3>2 DEF Rows
  <2> QED
    BY <2>1, <2>2
<1>6. CASE /\ \A i \in Ip : lease'[i].vm = lease[i].vm
           /\ ~Goes(c, "bind", "clone") /\ ~Goes(c, "release", "fail")
  <2>1. c \in Rows => c \in Rows' /\ row'[c].ip = row[c].ip
    BY <1>1, <1>3, <1>6
       DEF CallEdge, Keeps, KeepsRow, IsRow, Rows, RowOf, Goes
  <2> SUFFICES ASSUME NEW i \in Ip, lease[i].vm # NoVal
               PROVE  lease[i].vm \in Rows' /\ row'[lease[i].vm].ip = i
    BY <1>2, <1>6 DEF Bound
  <2>2. lease[i].vm \in Rows /\ row[lease[i].vm].ip = i
    BY DEF Bound
  <2> QED
    BY <1>3, <2>1, <2>2 DEF Rows
<1> QED
  BY <1>1, <1>4, <1>5, <1>6 DEF CallLeases

LEMMA ProbeBinds ==
  ASSUME Typed, NodeInv, ResInv, Bound, ProbeHands, NEW p \in Probe, ProbeMoves(p)
  PROVE  Bound' /\ ProbeHands'
<1> USE Actors
<1>1. OnlyMoves(p) /\ ProbeEdge(p)
  BY ProbeFrame, ProbeGoes
<1>2. /\ \A y \in Owner \ {p} : row'[y] = row[y]
      /\ \A q \in Probe \ {p} : hand'[q] = hand[q]
  BY <1>1 DEF OnlyMoves
<1>3. CASE ProbeKeeps(p)
  <2>1. \A y \in Owner : row'[y] = row[y]
    BY <1>2, <1>3 DEF ProbeKeeps
  <2> QED
    BY <1>2, <1>3, <2>1 DEF ProbeKeeps, Bound, ProbeHands, Rows
<1>4. ASSUME NEW i \in FreeLeases, ProbeLeases(p, i), pc[p] = "record" PROVE Bound' /\ ProbeHands'
  <2>1. hand[p] = NoVal /\ p \notin Rows
    BY <1>4 DEF ResInv, ProbesEmpty, ProbeHands
  <2>2. i \in Ip /\ row'[p] # NoVal /\ row'[p].ip = i /\ hand'[p] = i
    BY <1>4 DEF ProbeLeases, IsRow, FreeLeases
  <2>3. \A j \in Ip : lease'[j].vm = IF j = i THEN p ELSE lease[j].vm
    BY <1>4, <2>2 DEF ProbeLeases, Typed, DbTyped
  <2>4. Bound'
    <3> SUFFICES ASSUME NEW j \in Ip, lease'[j].vm # NoVal
                 PROVE  lease'[j].vm \in Rows' /\ row'[lease'[j].vm].ip = j
      BY DEF Bound
    <3>1. CASE j = i
      BY <2>2, <2>3, <3>1 DEF Rows
    <3>2. CASE j # i
      BY <1>2, <2>1, <2>3, <3>2 DEF Bound, Rows
    <3> QED
      BY <3>1, <3>2
  <2> QED
    BY <1>2, <2>2, <2>4 DEF ProbeHands, Rows
<1>5. CASE ProbeFrees(p)
  <2>1. row'[p] = NoVal
    BY <1>5 DEF ProbeFrees
  <2>2. \A j \in Ip : lease'[j] = IF j = hand[p] THEN FreeLease ELSE lease[j]
    BY <1>5 DEF ProbeFrees, Typed, DbTyped
  <2>3. Bound'
    <3> SUFFICES ASSUME NEW j \in Ip, lease'[j].vm # NoVal
                 PROVE  lease'[j].vm \in Rows' /\ row'[lease'[j].vm].ip = j
      BY DEF Bound
    <3>1. j # hand[p] /\ lease'[j].vm = lease[j].vm
      BY <2>2 DEF FreeLease
    <3>2. lease[j].vm \in Rows /\ row[lease[j].vm].ip = j
      BY <3>1 DEF Bound
    <3>3. lease[j].vm # p
      BY <3>1, <3>2 DEF ProbeHands
    <3> QED
      BY <1>2, <3>1, <3>2, <3>3 DEF Rows
  <2> QED
    BY <1>2, <2>1, <2>3 DEF ProbeHands, Rows
<1> QED
  BY <1>1, <1>3, <1>4, <1>5 DEF ProbeEdge, Goes

LEMMA BoundStep ==
  ASSUME Typed, NodeInv, ResInv, LifeInv, WholeInv, hasty = {}, Bound, ProbeHands, [Next]_vars
  PROVE  Bound' /\ ProbeHands'
<1> USE Actors
<1>1. ASSUME NEW c \in Call, CallMoves(c) PROVE Bound' /\ ProbeHands'
  BY <1>1, CallBinds DEF LifeInv, WholeInv
<1>2. ASSUME NEW p \in Probe, ProbeMoves(p) PROVE Bound' /\ ProbeHands'
  BY <1>2, ProbeBinds
<1>3. CASE row' = row /\ lease' = lease /\ \A p \in Probe : hand'[p] = hand[p]
  BY <1>3 DEF Bound, ProbeHands, Rows
<1>4. ASSUME NEW o \in Op, OpStep(o) PROVE Bound' /\ ProbeHands'
  <2>1. OpEdge(o) /\ \A p \in Probe : hand'[p] = hand[p]
    BY <1>4, OpGoes
  <2>2. CASE hand[o] \in Call /\ DeleteRow(hand[o]) /\ \A y \in Owner \ {hand[o]} : row'[y] = row[y]
    <3>1. Bound'
      BY <2>2, DeleteRowBinds DEF DeleteRow
    <3> QED
      BY <2>1, <2>2, <3>1 DEF ProbeHands, Rows
  <2> QED
    BY <1>3, <2>1, <2>2 DEF OpEdge
<1> QED
  BY <1>1, <1>2, <1>3, <1>4
     DEF Next, vars, db, locals, Ask, Retry, Deprovision, FinishClone, CallMoves, ProbeMoves

\* Where a VM comes from: it was there and its owner's, or its owner starts to clone it.
WasThere(v) ==
  Exists(v) /\ vm'[v].by = vm[v].by /\ (vm'[v].st = "cloning" => vm'[v] = vm[v])
Begun(x, v) ==
  v = VmidOf(x) /\ IsVm(v, x, "cloning", NoVal) /\ pc[x] = "clone" /\ pc'[x] # "clone"

LEMMA VmsOrigin ==
  ASSUME Typed, NodeInv, [Next]_vars, NEW v \in Vmid, Exists(v)'
  PROVE  WasThere(v) \/ \E x \in Owner : Begun(x, v)
<1> USE Actors, ProbeVmidInRange
<1>1. vm'[v] = vm[v] => WasThere(v)
  BY DEF WasThere, Exists
<1>2. ASSUME NEW c \in Call, CallMoves(c) PROVE WasThere(v) \/ Begun(c, v)
  <2>1. CallTouches(c)
    BY <1>2, CallOnVms
  <2>2. CASE v = mine[c] /\ ChangesVm(c, v)
    <3>1. Goes(c, "cloning", "cloned") => Exists(v) /\ vm[v].by = c
      BY <2>2 DEF NodeInv, ClonesThere, CloneThere, VmidOf, Goes, Exists
    <3>2. CASE pc[c] = "clone"
      BY <2>2, <3>2 DEF ChangesVm, Goes, Begun, VmidOf
    <3>3. CASE pc[c] # "clone"
      BY <2>2, <3>1, <3>3 DEF ChangesVm, IsVm, Exists, Usable, WasThere, Goes
    <3> QED
      BY <3>2, <3>3
  <2> QED
    BY <1>1, <2>1, <2>2 DEF CallTouches, LeavesVms
<1>3. ASSUME NEW p \in Probe, ProbeMoves(p) PROVE WasThere(v) \/ Begun(p, v)
  <2>1. ProbeEdge(p) /\ \A w \in Vmid \ {ProbeVmid} : vm'[w] = vm[w]
    BY <1>3, ProbeFrame, ProbeGoes
  <2>2. CASE v = ProbeVmid /\ vm'[v] # vm[v]
    <3>1. Goes(p, "cloning", "cloned") => Exists(v) /\ vm[v].by = p
      BY <2>2 DEF NodeInv, ClonesThere, CloneThere, VmidOf, Goes, Exists
    <3>2. Restarts(v) => WasThere(v)
      BY DEF Restarts, Usable, IsVm, WasThere
    <3>3. CASE pc[p] = "clone"
      BY <2>1, <2>2, <3>3 DEF ProbeEdge, Goes, Begun, VmidOf
    <3>4. CASE pc[p] # "clone"
      BY <2>1, <2>2, <3>1, <3>2, <3>4 DEF ProbeEdge, IsVm, Exists, WasThere, Goes
    <3> QED
      BY <3>3, <3>4
  <2> QED
    BY <1>1, <2>1, <2>2
<1>4. ASSUME NEW o \in Op, OpStep(o) PROVE WasThere(v)
  <2>1. OpEdge(o)
    BY <1>4, OpGoes
  <2> QED
    BY <1>1, <2>1 DEF OpEdge, Exists
<1>5. ASSUME NEW w \in Vmid, FinishClone(w) PROVE WasThere(v)
  <2>1. vm[w] \in Vm /\ vm[w].st = "cloning" /\ vm' = [vm EXCEPT ![w] = [vm[w] EXCEPT !.st = "stopped"]]
    BY <1>5 DEF FinishClone, Typed, VmTyped
  <2>2. CASE v = w
    <3>1. vm'[v] = [vm[v] EXCEPT !.st = "stopped"]
      BY <2>1, <2>2 DEF Typed, VmTyped
    <3> QED
      BY <2>1, <2>2, <3>1 DEF WasThere, Exists, Vm
  <2>3. CASE v # w
    BY <1>1, <2>1, <2>3 DEF Typed, VmTyped
  <2> QED
    BY <2>2, <2>3
<1> QED
  BY <1>1, <1>2, <1>3, <1>4, <1>5
     DEF Next, vars, db, locals, Ask, Retry, Deprovision, CallMoves, ProbeMoves

\* A call gets its row and its vmid at once, and the vmid is absent then.
ReservesAbsent(y) ==
  /\ mine[y] = NoVal /\ mine'[y] \in Vmid /\ ~Exists(mine'[y])
  /\ vm' = vm /\ pc[y] = "reserve"

LEMMA RowsOrigin ==
  ASSUME Typed, NodeInv, LifeInv, hasty = {}, [Next]_vars, NEW y \in Call
  PROVE  (mine'[y] = mine[y] /\ (y \in Rows' => y \in Rows)) \/ ReservesAbsent(y)
<1> USE Actors
<1>1. ASSUME CallMoves(y)
      PROVE  (mine'[y] = mine[y] /\ (y \in Rows' => y \in Rows)) \/ ReservesAbsent(y)
  <2>1. CallEdge(y) /\ CallTouches(y) /\ RowOf(y)
    BY <1>1, CallGoes, CallOnVms DEF LifeInv, RowsOfCalls
  <2>2. CASE Goes(y, "reserve", "lease") /\ \E v \in FreeVmids : mine'[y] = v
    BY <2>1, <2>2 DEF RowOf, Goes, CallTouches, LeavesVms, ChangesVm, FreeVmids, ReservesAbsent
  <2>3. CASE mine'[y] = mine[y] /\ (row'[y] = row[y] \/ y \in Rows \/ row'[y] = NoVal)
    BY <2>3 DEF Rows
  <2> QED
    BY <2>1, <2>2, <2>3 DEF CallEdge, Keeps, KeepsRow
<1>2. ASSUME NEW d \in Call \ {y}, CallMoves(d) PROVE mine'[y] = mine[y] /\ (y \in Rows' => y \in Rows)
  BY <1>2, CallFrame DEF OnlyMoves, Rows
<1>3. ASSUME NEW p \in Probe, ProbeMoves(p) PROVE mine'[y] = mine[y] /\ (y \in Rows' => y \in Rows)
  BY <1>3, ProbeFrame DEF OnlyMoves, Rows
<1>4. ASSUME NEW o \in Op, OpStep(o) PROVE mine'[y] = mine[y] /\ (y \in Rows' => y \in Rows)
  <2>1. OpEdge(o) /\ mine' = mine
    BY <1>4, OpGoes
  <2> QED
    BY <2>1 DEF OpEdge, Rows
<1>5. ASSUME NEW o \in Op, NEW l \in Lab, Deprovision(o, l) PROVE mine'[y] = mine[y] /\ row' = row
  <2>1. row' = row /\ \E m : mine' = [mine EXCEPT ![o] = m]
    BY <1>5 DEF Deprovision, db
  <2> QED
    BY <2>1 DEF Typed, HandsTyped
<1>6. row' = row => (y \in Rows' => y \in Rows)
  BY DEF Rows
<1> QED
  BY <1>1, <1>2, <1>3, <1>4, <1>5, <1>6
     DEF Next, vars, db, locals, Ask, Retry, FinishClone, CallMoves, ProbeMoves

Home == VmsAtHome /\ CloningIsBare /\ RowsOwn

LEMMA HomeStep ==
  ASSUME Typed, NodeInv, ResInv, LifeInv, hasty = {}, Home, [Next]_vars
  PROVE  Home'
<1> USE Actors
<1>a. ProbeVmid' = ProbeVmid
  BY DEF ProbeVmid
<1>1. \A x \in Owner : \A v \in Vmid : Begun(x, v) => AtHome(x, v) /\ (x \in Call => x \in Rows)
  BY DEF Begun, VmidOf, AtHome, LifeInv, RowsOfCalls, RowOf, Reserved
<1>2. ASSUME NEW x \in Owner, NEW v \in Vmid, AtHome(x, v) PROVE AtHome(x, v)'
  <2>1. CASE x \in Probe
    BY <1>a, <1>2, <2>1 DEF AtHome
  <2>2. CASE x \in Call
    <3>1. x \notin Probe /\ mine[x] = v /\ v # NoVal
      BY <1>2, <2>2 DEF AtHome
    <3>2. mine'[x] = v
      BY <2>2, <3>1, RowsOrigin DEF ReservesAbsent
    <3> QED
      BY <3>1, <3>2 DEF AtHome
  <2> QED
    BY <2>1, <2>2 DEF Owner
<1>3. \A v \in Vmid : Exists(v) => vm[v].by \in Owner
  BY DEF Exists, Typed, VmTyped, Vm
<1>4. VmsAtHome'
  <2> SUFFICES ASSUME NEW v \in Vmid, Exists(v)', NEW x, x = vm'[v].by PROVE AtHome(x, v)'
    BY DEF VmsAtHome
  <2>1. CASE WasThere(v)
    <3>1. vm[v].by = x /\ x \in Owner /\ AtHome(x, v)
      BY <1>3, <2>1 DEF Home, VmsAtHome, WasThere
    <3> QED
      BY <1>2, <3>1
  <2>2. CASE x \in Owner /\ Begun(x, v)
    BY <1>1, <1>2, <2>2
  <2> QED
    BY <2>1, <2>2, VmsOrigin DEF Begun, IsVm
<1>5. CloningIsBare'
  <2> SUFFICES ASSUME NEW v \in Vmid, Exists(v)', vm'[v].st = "cloning" PROVE vm'[v].ip = NoVal
    BY DEF CloningIsBare
  <2> QED
    BY VmsOrigin DEF Home, CloningIsBare, WasThere, Begun, IsVm
<1>6. RowsOwn'
  <2> SUFFICES ASSUME NEW y \in Call, NEW v \in Vmid \ {ProbeVmid}, y \in Rows', mine'[y] = v, Exists(v)'
               PROVE  vm'[v].by = y
    <3>1. ProbeVmid' = ProbeVmid
      BY DEF ProbeVmid
    <3> QED
      BY <3>1 DEF RowsOwn
  <2>1. y \in Rows /\ mine[y] = v
    BY RowsOrigin DEF ReservesAbsent, Exists
  <2>2. CASE WasThere(v)
    BY <2>1, <2>2 DEF Home, RowsOwn, WasThere
  <2>3. ASSUME NEW x \in Owner, Begun(x, v) PROVE x = y
    <3>0. AtHome(x, v) /\ (x \in Call => x \in Rows)
      BY <1>1, <2>3
    <3>1. x \in Call /\ x \in Rows /\ mine[x] = v
      BY <3>0 DEF AtHome, Owner
    <3>2. row[x].vmid = v /\ row[y].vmid = v
      BY <2>1, <3>1 DEF LifeInv, RowsOfCalls, RowOf
    <3> QED
      BY <2>1, <3>1, <3>2 DEF ResInv, VmidsApart
  <2> QED
    BY <2>2, <2>3, VmsOrigin DEF Begun, IsVm
<1> QED
  BY <1>4, <1>5, <1>6 DEF Home

LEMMA ProbesGoOn ==
  ASSUME Typed, NodeInv, [Next]_vars, NEW y \in Probe, pc[y] # "idle"
  PROVE  pc'[y] # "idle"
<1> USE Actors
<1>1. ASSUME NEW c \in Call, CallMoves(c) PROVE pc'[y] = pc[y]
  BY <1>1, CallFrame DEF OnlyMoves
<1>2. ASSUME NEW p \in Probe, ProbeMoves(p) PROVE pc'[y] # "idle"
  BY <1>2, ProbeFrame DEF OnlyMoves
<1>3. ASSUME NEW o \in Op, OpStep(o) PROVE pc'[y] = pc[y]
  BY <1>3, OpGoes
<1>4. ASSUME NEW z \in Call \cup Op, NEW k, pc' = [pc EXCEPT ![z] = k] PROVE pc'[y] = pc[y]
  BY <1>4 DEF Typed, PcTyped
<1>5. ASSUME NEW c \in Call, NEW l \in Lab, Ask(c, l) \/ Retry(c, l) PROVE pc'[y] = pc[y]
  BY <1>4, <1>5 DEF Ask, Retry, Goto
<1>6. ASSUME NEW o \in Op, NEW l \in Lab, Deprovision(o, l) PROVE pc'[y] = pc[y]
  BY <1>4, <1>6 DEF Deprovision, Goto
<1> QED
  BY <1>1, <1>2, <1>3, <1>5, <1>6 DEF Next, vars, FinishClone, CallMoves, ProbeMoves

\* Who is in charge of a VM after a step that is not his own and leaves his row.
LEMMA ChargeKept ==
  ASSUME Typed, NEW x \in Owner, NEW v \in Vmid, InCharge(x, v), pc'[x] = pc[x],
         x \in Call => mine'[x] = mine[x] /\ row'[x] = row[x]
  PROVE  InCharge(x, v)'
  BY Actors DEF InCharge, Rows, ProbeVmid

\* A VM that is disputed stays so, and a bare one that is left alone stays bare.
LEMMA BareKept ==
  ASSUME Typed, NodeInv, LifeInv, hasty = {}, [Next]_vars,
         NEW x \in Owner, NEW v \in Vmid, Bare(x, v),
         \/ Disputed(x, v) \/ vm'[v] = vm[v]
         \/ IsVm(v, vm[v].by, "stopped", vm[v].ip)
         \/ Disputed(x, v)'
  PROVE  Bare(x, v)'
<1> USE Actors
<1>1. ASSUME Disputed(x, v) PROVE Disputed(x, v)'
  <2>1. PICK y \in Owner \ {x} : IF y \in Probe THEN pc[y] # "idle" ELSE mine[y] = v
    BY <1>1 DEF Disputed
  <2>2. CASE y \in Call
    <3>1. y \notin Probe /\ mine[y] = v /\ v # NoVal
      BY <2>1, <2>2
    <3>2. mine'[y] = v
      BY <2>2, <3>1, RowsOrigin DEF ReservesAbsent
    <3> QED
      BY <1>1, <2>1, <3>1, <3>2 DEF Disputed, ProbeVmid
  <2>3. CASE y \in Probe
    <3>1. pc[y] # "idle"
      BY <2>1, <2>3
    <3>2. pc'[y] # "idle"
      BY <2>3, <3>1, ProbesGoOn
    <3> QED
      BY <1>1, <2>1, <2>3, <3>2 DEF Disputed, ProbeVmid
  <2> QED
    BY <2>1, <2>2, <2>3 DEF Owner
<1>2. CASE vm[v].ip = NoVal /\ ~Running(v) /\ vm'[v] = vm[v]
  BY <1>2 DEF Bare, Running, Exists
<1>3. CASE vm[v].ip = NoVal /\ IsVm(v, vm[v].by, "stopped", vm[v].ip)
  BY <1>3 DEF Bare, IsVm, Running
<1> QED
  BY <1>1, <1>2, <1>3 DEF Bare

\* A call that fails mildly gives its VM up only when it is gone or is a bare clone.
LEMMA CallCharge ==
  ASSUME Typed, NodeInv, LifeInv, hasty = {}, Home, [Next]_vars, Mild',
         NEW c \in Call, CallMoves(c), NEW v \in Vmid, Exists(v)',
         (WasThere(v) /\ vm[v].by = c /\ (InCharge(c, v) \/ Bare(c, v))) \/ Begun(c, v)
  PROVE  InCharge(c, v)' \/ Bare(c, v)'
<1> USE Actors
<1>1. CallEdge(c) /\ CallTouches(c) /\ RowOf(c)
  BY CallGoes, CallOnVms DEF LifeInv, RowsOfCalls
<1>2. ~Met("crash") /\ ~Met("late") /\ ~Met("cleanup") /\ ~Met("misread") /\ ~Met("database")
  BY DEF Mild, Met
<1>3. CASE Begun(c, v)
  <2>1. v = mine[c] /\ c \in Rows /\ pc[c] = "clone" /\ pc'[c] # "clone"
    BY <1>1, <1>3 DEF Begun, VmidOf, RowOf, Reserved
  <2>2. Keeps(c) /\ pc'[c] \in {"cloning", "teardown"}
    BY <1>1, <1>2, <2>1 DEF CallEdge, Goes, Forward
  <2> QED
    BY <2>1, <2>2 DEF InCharge, Keeps, KeepsRow, Rows
<1>4. CASE WasThere(v) /\ vm[v].by = c /\ InCharge(c, v)
  <2>1. v = mine[c] /\ c \in Rows /\ pc[c] \notin {"release", "fail", "idle", "asked", "queued", "reserve"}
    BY <1>1, <1>4 DEF InCharge, RowOf
  <2>2. c \in Rows' /\ mine'[c] = mine[c] /\ pc'[c] # "fail"
    BY <1>1, <1>2, <2>1 DEF CallEdge, Goes, Forward, Trying, Keeps, KeepsRow, IsRow, Rows
  <2>3. ASSUME pc'[c] = "release" PROVE Bare(c, v)'
    <3>1. Goes(c, "teardown", "release")
      BY <1>1, <2>3 DEF CallEdge, Goes, Forward, Trying
    <3>2. vm' = vm /\ ~Usable(v)
      BY <1>1, <1>2, <2>1, <3>1 DEF CallTouches, LeavesVms, ChangesVm, Goes, Exists
    <3>3. vm[v].st = "cloning"
      BY <1>4, <3>2 DEF WasThere, Exists, Usable, Typed, VmTyped, Vm
    <3>4. vm'[v].ip = NoVal /\ vm'[v].st = "cloning"
      BY <1>4, <3>2, <3>3 DEF Home, CloningIsBare, WasThere
    <3> QED
      BY <3>4 DEF Bare, Running
  <2> QED
    BY <2>1, <2>2, <2>3 DEF InCharge
<1>5. CASE WasThere(v) /\ vm[v].by = c /\ ~InCharge(c, v) /\ Bare(c, v)
  <2>1. v = mine[c]
    BY <1>5 DEF Home, VmsAtHome, AtHome, WasThere
  <2>2. c \notin Rows \/ pc[c] \in {"release", "fail"}
    BY <1>5, <2>1 DEF InCharge
  <2>3. vm' = vm
    BY <1>1, <2>1, <2>2 DEF CallTouches, LeavesVms, ChangesVm, Goes, RowOf, Reserved
  <2> QED
    BY <1>5, <2>3, BareKept
<1> QED
  BY <1>3, <1>4, <1>5

LEMMA ProbeCharge ==
  ASSUME Typed, NodeInv, LifeInv, hasty = {}, Home, [Next]_vars, Mild',
         NEW p \in Probe, ProbeMoves(p), NEW v \in Vmid, Exists(v)',
         (WasThere(v) /\ vm[v].by = p /\ (InCharge(p, v) \/ Bare(p, v))) \/ Begun(p, v)
  PROVE  InCharge(p, v)' \/ Bare(p, v)'
<1> USE Actors
<1>1. ProbeEdge(p)
  BY ProbeGoes
<1>2. ~Met("crash") /\ ~Met("late") /\ ~Met("cleanup") /\ ~Met("misread")
  BY DEF Mild, Met
<1>a. ProbeVmid' = ProbeVmid
  BY DEF ProbeVmid
<1>3. CASE Begun(p, v)
  <2>1. pc'[p] \in {"cloning", "clean"} /\ v = ProbeVmid
    BY <1>1, <1>2, <1>3 DEF Begun, ProbeEdge, Goes, VmidOf
  <2> QED
    BY <1>a, <1>3, <2>1 DEF Begun, IsVm, InCharge, Bare, Running
<1>4. CASE WasThere(v) /\ vm[v].by = p /\ InCharge(p, v)
  <2>1. v = ProbeVmid /\ pc[p] \in {"cloning", "cloned", "record", "power_on", "power_off", "destroy"}
    BY <1>4 DEF InCharge
  <2>2. ASSUME pc'[p] = "clean" PROVE Bare(p, v)'
    <3>1. Goes(p, "cloning", "clean") \/ Goes(p, "destroy", "clean")
      BY <1>1, <1>2, <2>1, <2>2 DEF ProbeEdge, Goes
    <3>2. vm' = vm /\ vm[v].st = "cloning"
      <4>1. CASE Goes(p, "cloning", "clean")
        <5>1. vm' = vm
          BY <1>1, <2>1, <4>1 DEF ProbeEdge, Goes, IsVm, Exists
        <5> QED
          BY <2>1, <4>1, <5>1 DEF NodeInv, ClonesThere, CloneThere, VmidOf, Goes
      <4>2. CASE Goes(p, "destroy", "clean")
        <5>1. vm' = vm /\ ~Usable(v)
          BY <1>1, <1>2, <2>1, <4>2 DEF ProbeEdge, Goes, Exists
        <5> QED
          BY <1>4, <5>1 DEF WasThere, Exists, Usable, Typed, VmTyped, Vm
      <4> QED
        BY <3>1, <4>1, <4>2
    <3>3. vm'[v].ip = NoVal /\ vm'[v].st = "cloning"
      BY <1>4, <3>2 DEF Home, CloningIsBare, WasThere
    <3> QED
      BY <3>3 DEF Bare, Running
  <2>3. pc'[p] \in {"cloning", "cloned", "record", "power_on", "power_off", "destroy", "clean"}
    BY <1>1, <1>2, <2>1 DEF ProbeEdge, Goes
  <2> QED
    BY <1>a, <2>1, <2>2, <2>3 DEF InCharge
<1>5. CASE WasThere(v) /\ vm[v].by = p /\ ~InCharge(p, v) /\ Bare(p, v)
  <2>1. v = ProbeVmid
    BY <1>5 DEF Home, VmsAtHome, AtHome, WasThere
  <2>2. pc[p] \notin {"cloning", "cloned", "record", "power_on", "power_off", "destroy"}
    BY <1>5, <2>1 DEF InCharge
  <2>3. vm'[v] = vm[v]
    BY <1>1, <1>2, <1>5, <2>1, <2>2 DEF ProbeEdge, Goes, WasThere, Exists
  <2> QED
    BY <1>5, <2>3, BareKept
<1> QED
  BY <1>3, <1>4, <1>5

Residue == VmsHaveOwners /\ DropIsGone /\ DoneRows /\ ProbeRows

LEMMA CallResidue ==
  ASSUME Typed, NodeInv, ResInv, ClosedInv, LifeInv, RunsInv, hasty = {}, Home, Residue, [Next]_vars, Mild',
         NEW c \in Call, CallMoves(c)
  PROVE  Residue'
<1> USE Actors
<1>a. VmsHaveOwners /\ DropIsGone /\ DoneRows /\ ProbeRows
  BY DEF Residue
<1>b. OpsAreLate /\ RowsOfCalls /\ Alone
  BY DEF LifeInv, RunsInv
<1>1. OnlyMoves(c) /\ CallEdge(c) /\ CallTouches(c) /\ for[c] \in Lab /\ for' = for
  BY CallFrame, CallGoes, CallOnVms DEF OnlyMoves
<1>2. \A x \in Owner \ {c} : pc'[x] = pc[x] /\ row'[x] = row[x]
  BY <1>1 DEF OnlyMoves
<1>3. \A l \in Lab : l # for[c] => status'[l] = status[l]
  BY CallFrame
<1>4. ASSUME NEW v \in Vmid, Exists(v)'
      PROVE  WasThere(v) \/ Begun(c, v)
  <2>1. \A x \in Owner : Begun(x, v) => x = c
    BY <1>2 DEF Begun
  <2> QED
    BY <1>4, <2>1, VmsOrigin
<1>5. ASSUME NEW v \in Vmid, Exists(v)', WasThere(v)
      PROVE  (InCharge(vm[v].by, v) \/ Bare(vm[v].by, v)) /\ vm[v].by \in Owner
  BY <1>a, <1>5 DEF VmsHaveOwners, WasThere, Exists, Typed, VmTyped, Vm
<1>6. VmsHaveOwners'
  <2> SUFFICES ASSUME NEW v \in Vmid, Exists(v)', NEW x \in Owner, x = vm'[v].by
               PROVE  InCharge(x, v)' \/ Bare(x, v)'
    BY <1>4, <1>5 DEF VmsHaveOwners, WasThere, Begun, IsVm
  <2>1. CASE Begun(c, v)
    <3>1. x = c
      BY <2>1 DEF Begun, IsVm
    <3> QED
      BY <2>1, <3>1, CallCharge
  <2>2. CASE WasThere(v)
    <3>1. (InCharge(x, v) \/ Bare(x, v)) /\ vm[v].by = x
      BY <1>5, <2>2 DEF WasThere
    <3>2. CASE x = c
      BY <2>2, <3>1, <3>2, CallCharge
    <3>3. CASE x # c /\ InCharge(x, v)
      <4>1. pc'[x] = pc[x] /\ (x \in Call => mine'[x] = mine[x] /\ row'[x] = row[x])
        BY <1>1, <3>3 DEF OnlyMoves
      <4> QED
        BY <3>3, <4>1, ChargeKept
    <3>4. CASE x # c /\ Bare(x, v)
      <4>1. CASE vm'[v] = vm[v]
        BY <3>4, <4>1, BareKept
      <4>2. CASE v = mine[c] /\ ChangesVm(c, v)
        <5>1. c \in Rows
          BY <1>b, <4>2 DEF ChangesVm, Goes, RowsOfCalls, RowOf, Reserved
        <5>2. v = ProbeVmid
          BY <2>2, <3>1, <3>4, <4>2, <5>1 DEF Home, RowsOwn, WasThere
        <5>3. Disputed(x, v)
          BY <3>4, <4>2, <5>2 DEF Disputed
        <5> QED
          BY <3>4, <5>3, BareKept
      <4> QED
        BY <1>1, <4>1, <4>2 DEF CallTouches, LeavesVms
    <3> QED
      BY <3>1, <3>2, <3>3, <3>4
  <2> QED
    BY <1>4, <2>1, <2>2
<1>8. DropIsGone'
  <2> SUFFICES ASSUME NEW o \in Op, pc'[o] = "drop", NEW v \in Vmid, Exists(v)'
               PROVE  vm'[v].by # hand'[o]
    BY DEF DropIsGone
  <2>1. pc[o] = "drop" /\ hand'[o] = hand[o]
    BY <1>1 DEF OnlyMoves
  <2>2. CASE Begun(c, v)
    <3>1. Over(hand[o])
      BY <1>b, <2>1 DEF OpsAreLate
    <3> QED
      BY <2>1, <2>2, <3>1 DEF Begun, IsVm, Over
  <2>3. CASE WasThere(v)
    BY <1>a, <2>1, <2>3 DEF WasThere, DropIsGone
  <2> QED
    BY <1>4, <2>2, <2>3
<1>9. DoneRows'
  <2> SUFFICES ASSUME NEW d \in Call, pc'[d] = "done", d \in Rows', NEW l \in Lab, l = for[d]
               PROVE  row'[d].running /\ status'[l] # "error"
    BY <1>1, <1>2 DEF DoneRows, Typed, ForTyped, ClosedInv, IdleIsEmpty
  <2>1. CASE d = c
    <3>1. RowOf(c) /\ ~Met("database")
      BY <1>b DEF RowsOfCalls, Mild, Met
    <3> QED
      BY <1>1, <2>1, <3>1 DEF CallEdge, Goes, Forward, Trying, Keeps, KeepsRow, Rows, RowOf, IsRow
  <2>2. CASE d # c
    <3>1. pc[d] = "done" /\ d \in Rows /\ row'[d] = row[d] /\ row[d].running /\ status[l] # "error"
      BY <1>2, <1>a, <2>2 DEF Rows, DoneRows
    <3>2. CASE l = for[c]
      <4>1. d \in RunningRows(l)
        BY <3>1 DEF RunningRows, RowsOf, CallsOf
      <4>2. pc[c] \notin Serving \cup Failing
        BY <1>b, <2>2, <3>2, <4>1 DEF Alone
      <4> QED
        BY <1>1, <3>1, <3>2, <4>1, <4>2 DEF CallEdge, Goes, Serving, Failing, Reserved, Forward, Trying
    <3> QED
      BY <1>3, <3>1, <3>2
  <2> QED
    BY <2>1, <2>2
<1>10. ProbeRows'
  BY <1>2, <1>a DEF ProbeRows, Rows
<1> QED
  BY <1>6, <1>8, <1>9, <1>10 DEF Residue

LEMMA ProbeResidue ==
  ASSUME Typed, NodeInv, LifeInv, ClosedInv, hasty = {}, Home, Residue, [Next]_vars, Mild',
         NEW p \in Probe, ProbeMoves(p)
  PROVE  Residue'
<1> USE Actors
<1>a. VmsHaveOwners /\ DropIsGone /\ DoneRows /\ ProbeRows
  BY DEF Residue
<1>1. /\ OnlyMoves(p) /\ ProbeEdge(p) /\ status' = status /\ pc'[p] # "idle"
      /\ \A w \in Vmid \ {ProbeVmid} : vm'[w] = vm[w]
  BY ProbeFrame, ProbeGoes
<1>2. /\ \A x \in Owner \ {p} : pc'[x] = pc[x] /\ row'[x] = row[x]
      /\ \A c \in Call : pc'[c] = pc[c] /\ row'[c] = row[c] /\ mine'[c] = mine[c] /\ for'[c] = for[c]
      /\ \A o \in Op : pc'[o] = pc[o] /\ hand'[o] = hand[o]
  BY <1>1 DEF OnlyMoves
<1>4. ASSUME NEW v \in Vmid, Exists(v)'
      PROVE  WasThere(v) \/ Begun(p, v)
  <2>1. \A x \in Owner : Begun(x, v) => x = p
    BY <1>2 DEF Begun
  <2> QED
    BY <1>4, <2>1, VmsOrigin
<1>5. ASSUME NEW v \in Vmid, Exists(v)', WasThere(v)
      PROVE  (InCharge(vm[v].by, v) \/ Bare(vm[v].by, v)) /\ vm[v].by \in Owner
  BY <1>a, <1>5 DEF VmsHaveOwners, WasThere, Exists, Typed, VmTyped, Vm
<1>6. VmsHaveOwners'
  <2> SUFFICES ASSUME NEW v \in Vmid, Exists(v)', NEW x \in Owner, x = vm'[v].by
               PROVE  InCharge(x, v)' \/ Bare(x, v)'
    BY <1>4, <1>5 DEF VmsHaveOwners, WasThere, Begun, IsVm
  <2>1. CASE Begun(p, v)
    <3>1. x = p
      BY <2>1 DEF Begun, IsVm
    <3> QED
      BY <2>1, <3>1, ProbeCharge
  <2>2. CASE WasThere(v)
    <3>1. (InCharge(x, v) \/ Bare(x, v)) /\ vm[v].by = x
      BY <1>5, <2>2 DEF WasThere
    <3>2. CASE x = p
      BY <2>2, <3>1, <3>2, ProbeCharge
    <3>3. CASE x # p /\ InCharge(x, v)
      BY <1>2, <3>3, ChargeKept
    <3>4. CASE x # p /\ Bare(x, v)
      <4>1. CASE v = ProbeVmid
        <5>1. ProbeVmid' = ProbeVmid
          BY DEF ProbeVmid
        <5>2. Disputed(x, v)'
          BY <1>1, <3>4, <4>1, <5>1 DEF Disputed
        <5> QED
          BY <3>4, <5>2, BareKept
      <4>2. CASE v # ProbeVmid
        BY <1>1, <3>4, <4>2, BareKept
      <4> QED
        BY <4>1, <4>2
    <3> QED
      BY <3>1, <3>2, <3>3, <3>4
  <2> QED
    BY <1>4, <2>1, <2>2
<1>8. DropIsGone'
  <2> SUFFICES ASSUME NEW o \in Op, pc[o] = "drop", NEW v \in Vmid, Exists(v)'
               PROVE  vm'[v].by # hand[o]
    BY <1>2 DEF DropIsGone
  <2>1. hand[o] \in Call
    BY DEF Typed, OpsTyped
  <2> QED
    BY <1>4, <1>a, <2>1 DEF WasThere, Begun, IsVm, DropIsGone
<1>9. DoneRows'
  BY <1>1, <1>2, <1>a DEF DoneRows, Rows
<1>10. ProbeRows'
  <2>1. ASSUME p \in Rows' PROVE pc'[p] \in {"power_on", "power_off", "destroy", "clean"}
    <3>1. ~Met("cleanup") /\ ~Met("crash")
      BY DEF Mild, Met
    <3>2. p \in Rows => pc[p] \in {"power_on", "power_off", "destroy", "clean"}
      BY <1>a DEF ProbeRows
    <3> QED
      BY <1>1, <2>1, <3>1, <3>2 DEF ProbeEdge, ProbeKeeps, ProbeFrees, Goes, Rows
  <2> QED
    BY <1>2, <1>a, <2>1 DEF ProbeRows, Rows
<1> QED
  BY <1>6, <1>8, <1>9, <1>10 DEF Residue

LEMMA OpResidue ==
  ASSUME Typed, NodeInv, LifeInv, hasty = {}, Home, Residue, [Next]_vars, Mild',
         NEW o \in Op, OpStep(o)
  PROVE  Residue'
<1> USE Actors
<1>a. VmsHaveOwners /\ DropIsGone /\ DoneRows /\ ProbeRows /\ OpsAreLate
  BY DEF Residue, LifeInv
<1>1. /\ OpEdge(o) /\ for' = for /\ mine' = mine /\ for[o] \in Lab
      /\ \A y \in Proc \ {o} : pc'[y] = pc[y] /\ hand'[y] = hand[y]
  BY OpGoes
<1>2. \A x \in Owner : pc'[x] = pc[x] /\ (row'[x] = row[x] \/ (pc[o] = "drop" /\ x = hand[o] /\ row'[x] = NoVal))
  BY <1>1 DEF OpEdge, Goes
<1>3. ASSUME NEW v \in Vmid, Exists(v)' PROVE WasThere(v) /\ vm'[v] = vm[v]
  <2>1. WasThere(v)
    BY <1>2, <1>3, VmsOrigin DEF Begun
  <2> QED
    BY <1>1, <1>3, <2>1 DEF OpEdge, Exists
<1>4. VmsHaveOwners'
  <2> SUFFICES ASSUME NEW v \in Vmid, Exists(v)', NEW x \in Owner, x = vm[v].by
               PROVE  InCharge(x, v)' \/ Bare(x, v)'
    BY <1>3 DEF VmsHaveOwners, WasThere, Exists, Typed, VmTyped, Vm
  <2>1. WasThere(v) /\ vm'[v] = vm[v]
    BY <1>3
  <2>2. (InCharge(x, v) \/ Bare(x, v)) /\ (pc[o] = "drop" => x # hand[o])
    BY <1>a, <2>1 DEF VmsHaveOwners, DropIsGone, WasThere
  <2>3. CASE InCharge(x, v)
    BY <1>1, <1>2, <2>2, <2>3, ChargeKept
  <2>4. CASE Bare(x, v)
    BY <2>1, <2>4, BareKept
  <2> QED
    BY <2>2, <2>3, <2>4
<1>6. DropIsGone'
  <2> SUFFICES ASSUME NEW q \in Op, pc'[q] = "drop", NEW v \in Vmid, Exists(v)'
               PROVE  vm'[v].by # hand'[q]
    BY DEF DropIsGone
  <2>1. WasThere(v)
    BY <1>3
  <2>2. CASE q # o
    BY <1>1, <1>a, <2>1, <2>2 DEF DropIsGone, WasThere
  <2>3. CASE q = o
    <3>0. ~Met("misread")
      BY DEF Mild, Met
    <3>1. PICK x \in todo[o] :
            /\ hand'[o] = x
            /\ \/ vm' = vm /\ ~Exists(mine[o][x])
               \/ /\ Usable(mine[o][x])
                  /\ \A w \in Vmid : vm'[w] = IF w = mine[o][x] THEN NoVal ELSE vm[w]
      BY <1>1, <2>3, <3>0 DEF OpEdge, Goes
    <3>2. x \in Call /\ mine[o][x] = mine[x]
      BY <1>a DEF OpsAreLate, Typed, OpsTyped
    <3>3. vm[v].by = x => v = mine[x]
      BY <2>1, <3>2 DEF Home, VmsAtHome, AtHome, WasThere
    <3> QED
      BY <2>1, <2>3, <3>1, <3>2, <3>3 DEF WasThere, Exists
  <2> QED
    BY <2>2, <2>3
<1>7. DoneRows'
  <2> SUFFICES ASSUME NEW d \in Call, pc[d] = "done", d \in Rows'
               PROVE  row'[d].running /\ status'[for[d]] # "error"
    BY <1>1, <1>2 DEF DoneRows
  <2>1. row'[d] = row[d] /\ d \in Rows
    BY <1>2 DEF Rows
  <2>2. for[d] \in Lab
    BY DEF Typed, ForTyped
  <2> QED
    BY <1>1, <1>a, <2>1, <2>2 DEF DoneRows, OpEdge
<1>8. ProbeRows'
  BY <1>2, <1>a DEF ProbeRows, Rows
<1> QED
  BY <1>4, <1>6, <1>7, <1>8 DEF Residue

LEMMA OtherResidue ==
  ASSUME Typed, NodeInv, ClosedInv, LifeInv, hasty = {}, Residue, [Next]_vars,
         row' = row, status' = status, hand' = hand,
         \A x \in Owner : pc'[x] = pc[x] \/ (pc[x] = "idle" /\ x \in Call /\ pc'[x] \in {"asked", "queued"}),
         \A c \in Call : mine'[c] = mine[c] /\ (for'[c] = for[c] \/ pc[c] = "idle"),
         \A o \in Op : pc'[o] = "drop" => pc[o] = "drop",
         \A v \in Vmid : vm'[v] = vm[v] \/ IsVm(v, vm[v].by, "stopped", vm[v].ip)
  PROVE  Residue'
<1> USE Actors
<1>a. VmsHaveOwners /\ DropIsGone /\ DoneRows /\ ProbeRows
  BY DEF Residue
<1>1. ASSUME NEW v \in Vmid, Exists(v)' PROVE WasThere(v)
  BY <1>1, VmsOrigin DEF Begun
<1>2. VmsHaveOwners'
  <2> SUFFICES ASSUME NEW v \in Vmid, Exists(v)', NEW x \in Owner, x = vm[v].by
               PROVE  InCharge(x, v)' \/ Bare(x, v)'
    BY <1>1 DEF VmsHaveOwners, WasThere, Exists, Typed, VmTyped, Vm
  <2>1. InCharge(x, v) \/ Bare(x, v)
    BY <1>1, <1>a DEF VmsHaveOwners, WasThere
  <2>2. InCharge(x, v) /\ x \in Call => pc[x] # "idle"
    BY DEF InCharge, ClosedInv, IdleIsEmpty
  <2>3. CASE InCharge(x, v)
    BY <2>2, <2>3, ChargeKept
  <2>4. CASE Bare(x, v)
    BY <2>4, BareKept
  <2> QED
    BY <2>1, <2>3, <2>4
<1>4. DropIsGone'
  BY <1>1, <1>a DEF DropIsGone, WasThere
<1>5. DoneRows'
  BY <1>a DEF DoneRows, Rows
<1>6. ProbeRows'
  BY <1>a DEF ProbeRows, Rows
<1> QED
  BY <1>2, <1>4, <1>5, <1>6 DEF Residue

LEMMA ResidueStep ==
  ASSUME Typed, NodeInv, ResInv, ClosedInv, LifeInv, RunsInv, WholeInv, ResidueInv, [Next]_vars
  PROVE  ResidueInv'
<1> USE Actors
<1>a. (hasty' = {} => hasty = {}) /\ (Mild' => Mild)
  BY Grows DEF Mild
<1>1. hasty = {} => Bound' /\ ProbeHands' /\ Home'
  BY BoundStep, HomeStep DEF ResidueInv, Home
<1>2. ASSUME hasty = {}, Mild' PROVE Residue'
  <2>0. Residue /\ Home
    BY <1>a, <1>2 DEF ResidueInv, Residue, Home
  <2>1. ASSUME NEW c \in Call, CallMoves(c) PROVE Residue'
    BY <1>2, <2>0, <2>1, CallResidue
  <2>2. ASSUME NEW p \in Probe, ProbeMoves(p) PROVE Residue'
    BY <1>2, <2>0, <2>2, ProbeResidue
  <2>3. ASSUME NEW o \in Op, OpStep(o) PROVE Residue'
    BY <1>2, <2>0, <2>3, OpResidue
  <2>4. ASSUME NEW c \in Call, NEW l \in Lab, Ask(c, l) \/ Retry(c, l) PROVE Residue'
    <3>1. /\ pc[c] = "idle" /\ for' = [for EXCEPT ![c] = l]
          /\ \E k \in {"asked", "queued"} : pc' = [pc EXCEPT ![c] = k]
          /\ UNCHANGED <<row, status, mine, hand, vm>>
      BY <2>4 DEF Ask, Retry, Goto, db
    <3>2. /\ \A y \in Call : y # c => for'[y] = for[y]
          /\ pc'[c] \in {"asked", "queued"} /\ \A y \in Proc : y # c => pc'[y] = pc[y]
      BY <3>1 DEF Typed, ForTyped, PcTyped
    <3> QED
      BY <1>2, <2>0, <3>1, <3>2, OtherResidue
  <2>5. ASSUME NEW o \in Op, NEW l \in Lab, Deprovision(o, l) PROVE Residue'
    <3>1. /\ for' = [for EXCEPT ![o] = l] /\ pc' = [pc EXCEPT ![o] = "next"]
          /\ \E m : mine' = [mine EXCEPT ![o] = m]
          /\ UNCHANGED <<row, status, hand, vm>>
      BY <2>5 DEF Deprovision, Goto, db
    <3>2. /\ \A y \in Call : for'[y] = for[y] /\ mine'[y] = mine[y]
          /\ pc'[o] = "next" /\ \A y \in Proc : y # o => pc'[y] = pc[y]
      BY <3>1 DEF Typed, ForTyped, PcTyped, HandsTyped
    <3> QED
      BY <1>2, <2>0, <3>1, <3>2, OtherResidue
  <2>6. CASE UNCHANGED <<row, status, for, pc, mine, hand, vm>>
    BY <1>2, <2>0, <2>6, OtherResidue
  <2>7. ASSUME NEW v \in Vmid, FinishClone(v) PROVE Residue'
    <3>1. UNCHANGED <<row, status, for, pc, mine, hand>> /\ vm[v] \in Vm /\ v \in Vmid
          /\ vm' = [vm EXCEPT ![v] = [vm[v] EXCEPT !.st = "stopped"]]
      BY <2>7 DEF FinishClone, db, locals, Typed, VmTyped
    <3>2. vm'[v] = [vm[v] EXCEPT !.st = "stopped"] /\ \A w \in Vmid : w # v => vm'[w] = vm[w]
      BY <3>1 DEF Typed, VmTyped
    <3>3. [vm[v] EXCEPT !.st = "stopped"] \in Vm /\ NoVal \notin Vm
      BY <3>1 DEF Vm
    <3>4. IsVm(v, vm[v].by, "stopped", vm[v].ip)
      BY <3>1, <3>2, <3>3 DEF IsVm, Vm
    <3> QED
      BY <1>2, <2>0, <3>1, <3>2, <3>4, OtherResidue
  <2> QED
    BY <2>1, <2>2, <2>3, <2>4, <2>5, <2>6, <2>7
       DEF Next, vars, CallMoves, ProbeMoves
<1> QED
  BY <1>a, <1>1, <1>2 DEF ResidueInv, Residue, Home

\* Failing calls leave nothing of a provision that ended in error, nor of a probe, but
\* bare clones they have lost sight of: no row, no address, and no VM of its own that was
\* ever configured or started, except ProbeVmid where somebody else worked with it
\* (tasks.py:488-490, 8-17).  As in the property, labs are not deprovisioned during their
\* provision, and calls fail, or the node is not there; nothing else goes wrong.
THEOREM NothingIsLeft == Spec => []ZeroResidue
<1>1. Init => ResidueInv
  <2> SUFFICES ASSUME Init PROVE ResidueInv
    OBVIOUS
  <2> USE Actors
  <2>1. Rows = {} /\ \A v \in Vmid : ~Exists(v)
    BY DEF Init, Rows, Exists
  <2>2. \A i \in Ip : lease[i].vm = NoVal
    BY DEF Init, FreeLease
  <2>3. \A o \in Op : pc[o] # "drop"
    BY DEF Init, Proc
  <2> QED
    BY <2>1, <2>2, <2>3 DEF ResidueInv, Bound, ProbeHands, VmsHaveOwners, DropIsGone,
         VmsAtHome, CloningIsBare, RowsOwn, DoneRows, ProbeRows
<1>2. Typed /\ ResidueInv => ZeroResidue
  <2> SUFFICES ASSUME Typed, ResidueInv, NEW x \in Owner, pc[x] = "done", Mild, hasty = {},
                      x \in Call => status[for[x]] = "error"
               PROVE  /\ x \notin Rows
                      /\ \A i \in Ip : lease[i].vm # x
                      /\ \A v \in Vmid : Exists(v) /\ vm[v].by = x => Bare(x, v)
    BY DEF ZeroResidue, Mild
  <2> USE Actors
  <2>1. x \notin Rows
    BY DEF ResidueInv, DoneRows, ProbeRows, Owner
  <2>2. \A i \in Ip : lease[i].vm # x
    BY <2>1 DEF ResidueInv, Bound
  <2>3. \A v \in Vmid : Exists(v) /\ vm[v].by = x => Bare(x, v)
    BY <2>1 DEF ResidueInv, VmsHaveOwners, InCharge, Owner
  <2> QED
    BY <2>1, <2>2, <2>3
<1> QED
  BY <1>1, <1>2, ResidueStep, AlwaysWhole, PTL DEF Spec

=============================================================================
