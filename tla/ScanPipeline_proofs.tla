------------------------ MODULE ScanPipeline_proofs ------------------------
(***************************************************************************)
(* Proofs about ScanPipeline, for any number of submissions and download   *)
(* requests, any number of retries and every set of faults.                *)
(*                                                                         *)
(* That staff are given clean files only is not inductive: between the     *)
(* read of a status and the file that is sent, the scan goes on.  What     *)
(* makes it so is that "clean" is final (CleanIsFinal): the task that      *)
(* wrote it has ended and nothing starts another.                          *)
(***************************************************************************)
EXTENDS ScanPipeline, TLAPS

\* A submission without a row is yet to be uploaded; "clean" is what clamd said, and
\* the task that recorded it has ended.
CleanIsFinal ==
  \A f \in Sub :
    /\ scan[f] = "none" => job[f] = "upload"
    /\ scan[f] = "clean" => verdict[f] = "clean" /\ job[f] = "ended"

\* A download request that read "clean" reads it of a submission that still is.
AskedIsCurrent ==
  \A d \in Staff :
    asked[d] # NoVal /\ asked[d].status = "clean" => scan[asked[d].sub] = "clean"

ScanInv == CleanIsFinal /\ AskedIsCurrent /\ StaffGetOnlyClean

-----------------------------------------------------------------------------
(* Type correctness *)

\* Every step of the request, the task and the download keeps the types; a retry is
\* counted only while one is left (tasks.py:18-48).
LEMMA ScanTypeStep == TypeOK /\ CleanIsFinal /\ [Next]_vars => TypeOK'
<1> USE RetryAssumption, NullAssumption
<1> SUFFICES ASSUME TypeOK, CleanIsFinal, [Next]_vars PROVE TypeOK'
  OBVIOUS
<1>1. ASSUME NEW f \in Sub, Create(f) PROVE TypeOK'
  BY <1>1 DEF Create, Decide, Go, TypeOK
<1>2. ASSUME NEW f \in Sub, Enqueue(f) \/ WebDies(f) PROVE TypeOK'
  BY <1>2 DEF Enqueue, WebDies, Go, TypeOK
<1>3. ASSUME NEW f \in Sub, ReadFile(f) PROVE TypeOK'
  BY <1>3 DEF ReadFile, Decide, Go, TypeOK, Verdict
<1>4. ASSUME NEW f \in Sub, Answered(f) \/ Hangs(f) \/ WorkerDies(f) PROVE TypeOK'
  BY <1>4 DEF Answered, Hangs, WorkerDies, Go, TypeOK
<1>5. ASSUME NEW f \in Sub, Refused(f) PROVE TypeOK'
  <2>1. refused' \in [Sub -> 0 .. MaxRefusals] /\ job' \in [Sub -> {"upload", "created",
          "queued", "scan", "answered", "ended", "lost"}]
    BY <1>5 DEF Refused, Go, TypeOK
  <2>2. tries' \in [Sub -> 0 .. MaxRetries]
    BY <1>5 DEF Refused, RetriesLeft, TypeOK
  <2> QED
    BY <1>5, <2>1, <2>2 DEF Refused, TypeOK
<1>6. ASSUME NEW f \in Sub, Record(f) PROVE TypeOK'
  BY <1>6 DEF Record, Decide, Go, TypeOK
<1>7. ASSUME NEW f \in Sub, FileLost(f) PROVE TypeOK'
  BY <1>7 DEF FileLost, TypeOK
<1>8. ASSUME NEW d \in Staff, Ask(d) PROVE TypeOK'
  <2>1. PICK f \in Sub :
          /\ scan[f] # "none"
          /\ asked' = [asked EXCEPT ![d] = [sub |-> f, status |-> scan[f]]]
    BY <1>8 DEF Ask
  <2>2. [sub |-> f, status |-> scan[f]] \in Request
    BY <2>1 DEF TypeOK, Request
  <2> QED
    BY <1>8, <2>1, <2>2 DEF Ask, TypeOK
<1>9. ASSUME NEW d \in Staff, Serve(d) PROVE TypeOK'
  <2>1. asked[d].sub \in Sub
    BY <1>9 DEF Serve, TypeOK, Request
  <2> QED
    BY <1>9, <2>1 DEF Serve, TypeOK
<1>10. CASE UNCHANGED vars
  BY <1>10 DEF vars, TypeOK
<1> QED
  BY <1>1, <1>2, <1>3, <1>4, <1>5, <1>6, <1>7, <1>8, <1>9, <1>10 DEF Next, Task

-----------------------------------------------------------------------------
(* What staff are given *)

\* Nothing scans a submission again once it is clean, so that neither a request in
\* flight nor what was served is overtaken (tasks.py:18-61, api.py:119-167).
LEMMA ScanInvStep == TypeOK /\ ScanInv /\ [Next]_vars => ScanInv'
<1> USE NullAssumption
<1> SUFFICES ASSUME TypeOK, ScanInv, [Next]_vars PROVE ScanInv'
  OBVIOUS
<1>a. \A d \in Staff : asked[d] # NoVal => asked[d].sub \in Sub
  BY DEF TypeOK, Request
<1>1. ASSUME NEW f \in Sub, scan[f] # "clean" /\ UNCHANGED <<verdict, asked, served>>,
             job' = [job EXCEPT ![f] = job'[f]], scan' = [scan EXCEPT ![f] = scan'[f]],
             job'[f] # "upload" /\ scan'[f] # "none",
             scan'[f] = "clean" => verdict[f] = "clean" /\ job'[f] = "ended"
      PROVE  ScanInv'
  <2>1. \A g \in Sub : g # f => job'[g] = job[g] /\ scan'[g] = scan[g]
    BY <1>1 DEF TypeOK
  <2>2. CleanIsFinal'
    BY <1>1, <2>1 DEF ScanInv, CleanIsFinal
  <2>3. AskedIsCurrent'
    BY <1>1, <1>a, <2>1 DEF ScanInv, AskedIsCurrent
  <2>4. StaffGetOnlyClean'
    BY <1>1, <2>1 DEF ScanInv, StaffGetOnlyClean, TypeOK
  <2> QED
    BY <2>2, <2>3, <2>4 DEF ScanInv
<1>2. ASSUME NEW f \in Sub, Create(f) PROVE ScanInv'
  <2>1. job'[f] = "created" /\ scan'[f] = "pending" /\ scan[f] # "clean"
    BY <1>2 DEF Create, Decide, Go, TypeOK, ScanInv, CleanIsFinal
  <2> QED
    BY <1>1, <1>2, <2>1 DEF Create, Decide, Go
<1>3. ASSUME NEW f \in Sub, Task(f) \/ WebDies(f) \/ Hangs(f) \/ WorkerDies(f) PROVE ScanInv'
  <2>1. job[f] \in {"created", "queued", "scan", "answered"} /\ scan[f] \notin {"none", "clean"}
    BY <1>3 DEF Task, Enqueue, ReadFile, Answered, Refused, Record, WebDies, Hangs,
                WorkerDies, ScanInv, CleanIsFinal
  <2>2. /\ UNCHANGED <<verdict, asked, served>>
        /\ \/ \E l \in {"queued", "scan", "answered", "ended", "lost"} :
                job' = [job EXCEPT ![f] = l] /\ scan' = scan
           \/ /\ job' = [job EXCEPT ![f] = "ended"]
              /\ \E v \in {"error", verdict[f]} : scan' = [scan EXCEPT ![f] = v]
    BY <1>3 DEF Task, Enqueue, ReadFile, Answered, Refused, Record, WebDies, Hangs,
                WorkerDies, Go, Decide
  <2>3. /\ job' = [job EXCEPT ![f] = job'[f]] /\ scan' = [scan EXCEPT ![f] = scan'[f]]
        /\ job'[f] # "upload" /\ scan'[f] # "none"
        /\ scan'[f] = "clean" => verdict[f] = "clean" /\ job'[f] = "ended"
    BY <2>1, <2>2 DEF TypeOK, Verdict
  <2> QED
    BY <1>1, <2>1, <2>2, <2>3
<1>4. ASSUME NEW f \in Sub, FileLost(f) PROVE ScanInv'
  BY <1>4 DEF FileLost, ScanInv, CleanIsFinal, AskedIsCurrent, StaffGetOnlyClean
<1>5. ASSUME NEW d \in Staff, Ask(d) PROVE ScanInv'
  <2>1. PICK f \in Sub : asked' = [asked EXCEPT ![d] = [sub |-> f, status |-> scan[f]]]
    BY <1>5 DEF Ask
  <2>2. AskedIsCurrent'
    BY <1>5, <2>1 DEF Ask, ScanInv, AskedIsCurrent, TypeOK
  <2> QED
    BY <1>5, <2>2 DEF Ask, ScanInv, CleanIsFinal, StaffGetOnlyClean
<1>6. ASSUME NEW d \in Staff, Serve(d) PROVE ScanInv'
  <2>1. AskedIsCurrent'
    BY <1>6 DEF Serve, ScanInv, AskedIsCurrent, TypeOK
  <2>2. StaffGetOnlyClean'
    BY <1>6, <1>a DEF Serve, Clean, ScanInv, CleanIsFinal, AskedIsCurrent, StaffGetOnlyClean
  <2> QED
    BY <1>6, <2>1, <2>2 DEF Serve, ScanInv, CleanIsFinal
<1>7. CASE UNCHANGED vars
  BY <1>7 DEF vars, ScanInv, CleanIsFinal, AskedIsCurrent, StaffGetOnlyClean
<1> QED
  BY <1>2, <1>3, <1>4, <1>5, <1>6, <1>7 DEF Next

-----------------------------------------------------------------------------
\* The variables keep their types and the retries stay within max_retries, whatever
\* is refused, lost or asked for (tasks.py:18-61).
THEOREM ScanTypeCorrect == Spec => [](TypeOK /\ ScanInv)
<1>1. Init => TypeOK /\ ScanInv
  BY RetryAssumption
     DEF Init, TypeOK, ScanInv, CleanIsFinal, AskedIsCurrent, StaffGetOnlyClean, Verdict
<1>2. ScanInv => CleanIsFinal
  BY DEF ScanInv
<1> QED
  BY <1>1, <1>2, ScanTypeStep, ScanInvStep, PTL DEF Spec

\* Staff are only ever given files clamd found clean, and no later step of a scan makes
\* that untrue (api.py:146-155).
THEOREM StaffGetCleanFiles == Spec => []StaffGetOnlyClean
<1>1. ScanInv => StaffGetOnlyClean
  BY DEF ScanInv
<1> QED
  BY <1>1, ScanTypeCorrect, PTL

=============================================================================
