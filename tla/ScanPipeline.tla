---------------------------- MODULE ScanPipeline ----------------------------
(***************************************************************************)
(* apps/assessments: a student uploads a report, a Celery task streams it  *)
(* to clamd, staff may download what was found clean.                      *)
(*                                                                         *)
(* The web request, the scan task and the download each consist of a read  *)
(* and a later act, so the steps of all three interleave.  What clamd says *)
(* of a file (verdict) is fixed; whether it answers is not.                *)
(***************************************************************************)
EXTENDS Naturals

CONSTANTS
  Sub,           \* submissions
  Staff,         \* download requests of instructors and administrators
  MaxRetries,    \* max_retries of scan_submission
  MaxRefusals,   \* bound on the connections clamd refuses per submission
  FaultKinds,    \* what may go wrong besides a refused connection
  NoVal

ASSUME RetryAssumption == MaxRetries \in Nat /\ MaxRefusals \in Nat
ASSUME FaultAssumption == FaultKinds \subseteq {"web", "worker", "hang", "file"}

Verdict == {"clean", "infected", "error"}
Request == [sub : Sub, status : {"pending"} \cup Verdict]

ASSUME NullAssumption == NoVal \notin Request

VARIABLES
  verdict,    \* verdict[f]: what clamd would answer
  stored,     \* the submissions whose file is on the volume
  scan,       \* scan[f]: Submission.scan_status, "none" before the row exists
  job,        \* job[f]: where the request and then the scan task are; "lost" when
              \* one of them died without the next having been queued
  tries,      \* tries[f]: retries the task has used
  refused,    \* refused[f]: connections clamd refused
  asked,      \* asked[d]: the submission a download request read, and its status
  served      \* what staff were given

vars == <<verdict, stored, scan, job, tries, refused, asked, served>>

Init ==
  /\ verdict \in [Sub -> Verdict]
  /\ stored = {}
  /\ scan = [f \in Sub |-> "none"]
  /\ job = [f \in Sub |-> "upload"]
  /\ tries = [f \in Sub |-> 0]
  /\ refused = [f \in Sub |-> 0]
  /\ asked = [d \in Staff |-> NoVal]
  /\ served = {}

Go(f, label) == job' = [job EXCEPT ![f] = label]
Decide(f, status) == scan' = [scan EXCEPT ![f] = status]

-----------------------------------------------------------------------------
(* The upload *)

\* The file is written first, then the row.
Create(f) ==
  /\ job[f] = "upload"
  /\ stored' = stored \cup {f}
  /\ Decide(f, "pending")
  /\ Go(f, "created")
  /\ UNCHANGED <<verdict, tries, refused, asked, served>>

\* scan_submission.delay()
Enqueue(f) ==
  /\ job[f] = "created"
  /\ Go(f, "queued")
  /\ UNCHANGED <<verdict, stored, scan, tries, refused, asked, served>>

\* The web process dies, or the broker refuses: the row is there, the task is not.
WebDies(f) ==
  /\ "web" \in FaultKinds /\ job[f] = "created"
  /\ Go(f, "lost")
  /\ UNCHANGED <<verdict, stored, scan, tries, refused, asked, served>>

-----------------------------------------------------------------------------
(* scan_submission *)

\* The file is read; without it the status is "error".
ReadFile(f) ==
  /\ job[f] = "queued"
  /\ \/ f \in stored /\ Go(f, "scan") /\ UNCHANGED scan
     \/ f \notin stored /\ Go(f, "ended") /\ Decide(f, "error")
  /\ UNCHANGED <<verdict, stored, tries, refused, asked, served>>

Answered(f) ==
  /\ job[f] = "scan"
  /\ Go(f, "answered")
  /\ UNCHANGED <<verdict, stored, scan, tries, refused, asked, served>>

\* (bug: one retry too few)
RetriesLeftEarly(f) == tries[f] + 1 < MaxRetries
RetriesLeft(f) == tries[f] < MaxRetries

\* clamd is not reachable: ConnectionError.  self.retry(exc=exc) sends the task
\* back to the queue, or, with no retry left, raises exc itself: the handler for
\* MaxRetriesExceededError never runs and the status stays as it is.
Refused(f) ==
  /\ job[f] = "scan" /\ refused[f] < MaxRefusals
  /\ refused' = [refused EXCEPT ![f] = @ + 1]
  /\ \/ RetriesLeft(f) /\ tries' = [tries EXCEPT ![f] = @ + 1] /\ Go(f, "queued")
     \/ ~RetriesLeft(f) /\ Go(f, "ended") /\ UNCHANGED tries
  /\ UNCHANGED <<verdict, stored, scan, asked, served>>

\* clamd accepts and does not answer: a socket timeout is no ConnectionError, and
\* nothing catches it.
Hangs(f) ==
  /\ "hang" \in FaultKinds /\ job[f] = "scan"
  /\ Go(f, "lost")
  /\ UNCHANGED <<verdict, stored, scan, tries, refused, asked, served>>

Record(f) ==
  /\ job[f] = "answered"
  /\ Decide(f, verdict[f])
  /\ Go(f, "ended")
  /\ UNCHANGED <<verdict, stored, tries, refused, asked, served>>

\* The worker process dies; the message is acknowledged already.
WorkerDies(f) ==
  /\ "worker" \in FaultKinds /\ job[f] \in {"queued", "scan", "answered"}
  /\ Go(f, "lost")
  /\ UNCHANGED <<verdict, stored, scan, tries, refused, asked, served>>

\* The file disappears from the volume.
FileLost(f) ==
  /\ "file" \in FaultKinds /\ f \in stored
  /\ stored' = stored \ {f}
  /\ UNCHANGED <<verdict, scan, job, tries, refused, asked, served>>

-----------------------------------------------------------------------------
(* download, by somebody who is not the owner *)

\* get_object()
Ask(d) ==
  /\ asked[d] = NoVal
  /\ \E f \in Sub :
       /\ scan[f] # "none"
       /\ asked' = [asked EXCEPT ![d] = [sub |-> f, status |-> scan[f]]]
  /\ UNCHANGED <<verdict, stored, scan, job, tries, refused, served>>

\* The scan gate: infected is refused, and so is whatever is not clean.
\* (bug: only infected is)
NotInfected(status) == status # "infected"
Clean(status) == status = "clean"

Serve(d) ==
  /\ asked[d] # NoVal
  /\ \/ /\ Clean(asked[d].status) /\ asked[d].sub \in stored
        /\ served' = served \cup {asked[d].sub}
     \/ /\ ~(Clean(asked[d].status) /\ asked[d].sub \in stored)
        /\ UNCHANGED served
  /\ asked' = [asked EXCEPT ![d] = NoVal]
  /\ UNCHANGED <<verdict, stored, scan, job, tries, refused>>

-----------------------------------------------------------------------------
Task(f) ==
  Enqueue(f) \/ ReadFile(f) \/ Answered(f) \/ Refused(f) \/ Record(f)

Next ==
  \/ \E f \in Sub :
       Create(f) \/ Task(f) \/ WebDies(f) \/ Hangs(f) \/ WorkerDies(f) \/ FileLost(f)
  \/ \E d \in Staff : Ask(d) \/ Serve(d)

Spec == Init /\ [][Next]_vars

\* The worker runs what is queued, and a retry comes back after its delay.
FairSpec == Spec /\ \A f \in Sub : WF_vars(Task(f))

-----------------------------------------------------------------------------
(* Properties *)

\* Every variable has its type; the retries stay within max_retries.
TypeOK ==
  /\ verdict \in [Sub -> Verdict]
  /\ stored \subseteq Sub
  /\ scan \in [Sub -> {"none", "pending"} \cup Verdict]
  /\ job \in [Sub -> {"upload", "created", "queued", "scan", "answered", "ended", "lost"}]
  /\ tries \in [Sub -> 0 .. MaxRetries]
  /\ refused \in [Sub -> 0 .. MaxRefusals]
  /\ asked \in [Staff -> Request \cup {NoVal}]
  /\ served \subseteq Sub

\* Staff are only ever given files clamd found clean, whatever is still being
\* scanned, retried or lost while they ask (api.py:146-155).
StaffGetOnlyClean == \A f \in served : verdict[f] = "clean" /\ scan[f] = "clean"

\* The retries outlast an outage of max_retries refused connections: a pending
\* submission gets a verdict, unless clamd refused more or its request, its worker or
\* the daemon was lost on the way (tasks.py:18, 36-38).
ScanResolves ==
  \A f \in Sub :
    scan[f] = "pending" ~> scan[f] # "pending" \/ refused[f] > MaxRetries \/ job[f] = "lost"

\* A submission whose retries are used up falls back to "error" (tasks.py:4-6, 40-44).
FallsBackToError == \A f \in Sub : refused[f] > MaxRetries ~> scan[f] = "error"

=============================================================================
