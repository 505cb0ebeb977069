------------------------------- MODULE Records -------------------------------
(***************************************************************************)
(* What staff write and students download through the portal: schedules,   *)
(* reservations, assessments, batches and their enrolment, the catalog,    *)
(* and the count of a student's configuration downloads.                   *)
(*                                                                         *)
(* Every handler has the same three steps with nothing around them: load   *)
(* the object, validate and check the scope; save; write the audit row.    *)
(* Requests of other clients come between the steps, and a request may die *)
(* after any of them.  Audit rows of events no property tells apart are    *)
(* left out.                                                               *)
(***************************************************************************)
EXTENDS Accounts

CONSTANTS
  Batch,
  Owned,        \* Owned[b]: the user who is the instructor of batch b at first
  Enrolled      \* Enrolled[b]: the students of batch b at first

ASSUME RecordConstants ==
  /\ Owned \in [Batch -> User \cup {NoVal}]
  /\ Enrolled \in [Batch -> SUBSET User]

VARIABLES
  owner,      \* owner[b]: Batch.instructor
  enrolled,   \* enrolled[b]: Batch.students
  withdrawn,  \* some batch has lost its instructor or a student
  sched,      \* the Schedule row, or NoVal
  row,        \* row[k]: the LabReservation and the Assessment of a student
  peer,       \* download_count and issued_at of the student's WireGuardPeer
  served,     \* downloads that were carried out
  carried,    \* the requests whose save is committed
  audited,    \* the requests with a row in AuditLog
  lost        \* the requests that died between their save and their audit row

rows == <<owner, enrolled, withdrawn, sched, row, peer, served>>
ledger == <<carried, audited, lost>>
recordVars == <<rows, ledger>>
accounts ==
  <<scene, failures, guesses, session, device, overlapped, logins, visits>>

Kind == {"reservation", "assessment"}

RecordsInit ==
  /\ owner = Owned
  /\ enrolled = Enrolled
  /\ withdrawn = FALSE
  /\ sched = NoVal
  /\ row = [k \in Kind |-> NoVal]
  /\ peer = [count |-> 0, issued |-> FALSE]
  /\ served = 0
  /\ carried = {} /\ audited = {} /\ lost = {}

\* A request is named by its client and its number.
Id(c) == <<c, sent[c].writes>>

-----------------------------------------------------------------------------
(* Who may do what *)

IsInstructor(u) == scene.role[u] = "instructor"
Student == scene.profiled

OwnsBatch(u, b) == b # NoVal /\ owner[b] = u
OwnsStudent(u, s) == \E b \in Batch : owner[b] = u /\ s \in enrolled[b]

IsAdminOrInstructor(c) == session[c] # "none" /\ IsStaffRole(c) /\ StaffMFARequired(c)
IsAdmin(c) == IsAdminOrInstructor(c) /\ Role(c) = "admin"
CanManageBatch(c, b) == IsAdminOrInstructor(c) /\ (IsInstructor(Who(c)) => OwnsBatch(Who(c), b))

\* get_queryset: a schedule out of scope is not found.
Visible(u, r) ==
  IsInstructor(u) => OwnsBatch(u, r.batch) \/ OwnsStudent(u, r.student)

\* _check_instructor_scope, of the values the save will write.
ScheduleInScope(u, r) ==
  IsInstructor(u) =>
    IF r.batch # NoVal THEN OwnsBatch(u, r.batch) ELSE OwnsStudent(u, r.student)

StudentInScope(u, s) == IsInstructor(u) => OwnsStudent(u, s)

\* ScheduleSerializer.validate: exactly one of batch and student.
OneTarget(r) == (r.batch = NoVal) # (r.student = NoVal)

-----------------------------------------------------------------------------
(* First step: load, validate, check *)

\* (bug: the audit row is written before the save)
AuditFirst(c) ==
  audited' = audited \cup {<<c, sent[c].writes + 1>>} /\ UNCHANGED <<carried, lost>>
AuditLater(c) == UNCHANGED ledger

Begin(c, r) ==
  /\ Send(c, "writes", r)
  /\ AuditLater(c)
  /\ UNCHANGED <<accounts, rows>>

\* What a PATCH may hold: the fields it names, with their values.
Patch ==
  LET batch == Batch \cup {NoVal}
      student == Student \cup {NoVal}
  IN {<<>>} \cup [{"batch"} -> batch] \cup [{"student"} -> student]
       \cup [batch : batch, student : student]

\* The fields of the PATCH p over those of the row r.
Over(p, r) == [f \in DOMAIN r |-> IF f \in DOMAIN p THEN p[f] ELSE r[f]]

\* Bound: one schedule and one reservation at a time, so none is created while
\* another request is about to save the one there was.
NobodySaves(ops) == \A b \in Client : req[b].at = "checked" => req[b].op \notin ops

CreateSchedule(c) ==
  \E b \in Batch \cup {NoVal}, s \in Student \cup {NoVal} :
    LET r == [batch |-> b, student |-> s] IN
    /\ IsAdminOrInstructor(c) /\ sched = NoVal /\ NobodySaves({"schedule"})
    /\ OneTarget(r) /\ ScheduleInScope(Who(c), r)
    /\ Begin(c, [at |-> "checked", op |-> "schedule", old |-> NoVal, new |-> r])

UpdateSchedule(c) ==
  \E p \in Patch :
    /\ IsAdminOrInstructor(c) /\ sched # NoVal
    /\ Visible(Who(c), sched)
    /\ OneTarget(Over(p, sched)) /\ ScheduleInScope(Who(c), Over(p, sched))
    /\ Begin(c, [at |-> "checked", op |-> "schedule", old |-> sched, new |-> p])

DeleteSchedule(c) ==
  /\ IsAdminOrInstructor(c) /\ sched # NoVal
  /\ Visible(Who(c), sched)
  /\ Begin(c, [at |-> "checked", op |-> "unschedule"])

\* A reservation or an assessment of a student; an assessment is unique.
WriteRow(c) ==
  \E k \in Kind, s \in Student :
    /\ IsAdminOrInstructor(c) /\ StudentInScope(Who(c), s)
    /\ \/ /\ row[k] = NoVal
          /\ NobodySaves(IF k = "reservation" THEN {"create", "save"} ELSE {"save"})
          /\ Begin(c, [at |-> "checked", op |-> "create", kind |-> k, student |-> s])
       \/ /\ row[k] # NoVal /\ StudentInScope(Who(c), row[k].student)
          /\ Begin(c, [at |-> "checked", op |-> "save", kind |-> k, student |-> s])

DeleteRow(c) ==
  \E k \in Kind :
    /\ IsAdminOrInstructor(c) /\ row[k] # NoVal
    /\ StudentInScope(Who(c), row[k].student)
    /\ Begin(c, [at |-> "checked", op |-> "delete", kind |-> k])

\* A PATCH of a batch: of its instructor, or of something else.
UpdateBatch(c) ==
  \E b \in Batch, u \in User \cup {NoVal} :
    /\ CanManageBatch(c, b)
    /\ u \notin {owner[b], NoVal} => IsInstructor(u)
    /\ Begin(c, [at |-> "checked", op |-> "batch", batch |-> b, instructor |-> u])

EnrollChange(c) ==
  \E b \in Batch, s \in Student, add \in BOOLEAN :
    /\ CanManageBatch(c, b)
    /\ Begin(c, [at |-> "checked", op |-> IF add THEN "enroll" ELSE "unenroll", batch |-> b, student |-> s])

\* Courses, modules, exercises and templates: admins only, nobody's in particular.
WriteCatalog(c) == IsAdmin(c) /\ Begin(c, [at |-> "checked", op |-> "catalog"])

Download(c) ==
  /\ session[c] # "none" /\ Who(c) \in Student
  /\ Begin(c, [at |-> "checked", op |-> "download", seen |-> peer])

-----------------------------------------------------------------------------
(* Second step: save *)

Doing(c, op) == req[c].at = "checked" /\ req[c].op = op

Saved(c) ==
  /\ carried' = carried \cup {Id(c)}
  /\ Step(c, [at |-> "saved"])
  /\ UNCHANGED <<accounts, sent, audited, lost>>

\* serializer.save() writes every column of the row as it was loaded, with the
\* fields of the request over it; when the row is gone it is inserted anew.
\* (bug: only the fields of the request are written)
SaveFields(r, p) == Over(p, IF sched = NoVal THEN r ELSE sched)
SaveWhole(r, p) == Over(p, r)

SaveSchedule(c) ==
  /\ Doing(c, "schedule")
  /\ LET loaded == IF req[c].old = NoVal THEN req[c].new ELSE req[c].old
         saved == SaveWhole(loaded, req[c].new) IN
     sched' = [batch |-> saved.batch, student |-> saved.student, by |-> Who(c)]
  /\ Saved(c)
  /\ UNCHANGED <<owner, enrolled, withdrawn, row, peer, served>>

\* delete() of a row that is gone deletes nothing, and is audited all the same.
DropSchedule(c) ==
  /\ Doing(c, "unschedule")
  /\ sched' = NoVal
  /\ Saved(c)
  /\ UNCHANGED <<owner, enrolled, withdrawn, row, peer, served>>

SaveRow(c) ==
  /\ Doing(c, "create") \/ Doing(c, "save")
  /\ req[c].op = "create" /\ req[c].kind = "assessment" => row["assessment"] = NoVal
  /\ row' = [row EXCEPT ![req[c].kind] = [student |-> req[c].student, by |-> Who(c)]]
  /\ Saved(c)
  /\ UNCHANGED <<owner, enrolled, withdrawn, sched, peer, served>>

\* OneToOneField(submission): the insert raises IntegrityError.
RefuseDuplicate(c) ==
  /\ Doing(c, "create") /\ req[c].kind = "assessment" /\ row["assessment"] # NoVal
  /\ Respond(c)
  /\ UNCHANGED <<accounts, sent, recordVars>>

DropRow(c) ==
  /\ Doing(c, "delete")
  /\ row' = [row EXCEPT ![req[c].kind] = NoVal]
  /\ Saved(c)
  /\ UNCHANGED <<owner, enrolled, withdrawn, sched, peer, served>>

SaveBatch(c) ==
  /\ Doing(c, "batch")
  /\ owner' = [owner EXCEPT ![req[c].batch] = req[c].instructor]
  /\ withdrawn' = (withdrawn \/ owner' # owner)
  /\ Saved(c)
  /\ UNCHANGED <<enrolled, sched, row, peer, served>>

ChangeEnrolment(c) ==
  /\ \/ /\ Doing(c, "enroll")
        /\ enrolled' = [enrolled EXCEPT ![req[c].batch] = @ \cup {req[c].student}]
        /\ UNCHANGED withdrawn
     \/ /\ Doing(c, "unenroll")
        /\ enrolled' = [enrolled EXCEPT ![req[c].batch] = @ \ {req[c].student}]
        /\ withdrawn' = TRUE
  /\ Saved(c)
  /\ UNCHANGED <<owner, sched, row, peer, served>>

SaveCatalog(c) ==
  /\ Doing(c, "catalog")
  /\ Saved(c)
  /\ UNCHANGED rows

\* (bug: the count of the row that was read, plus one)
CountOfRead(c) == req[c].seen.count + 1
CountOfRow(c) == peer.count + 1

\* One UPDATE with F("download_count") + 1; issued_at when none was read.
CountDownload(c) ==
  /\ Doing(c, "download")
  /\ peer' = [count |-> CountOfRow(c), issued |-> peer.issued \/ ~req[c].seen.issued]
  /\ served' = served + 1
  /\ Saved(c)
  /\ UNCHANGED <<owner, enrolled, withdrawn, sched, row>>

-----------------------------------------------------------------------------
(* Third step: the audit row, and the answer *)

WriteAudit(c) ==
  /\ req[c].at = "saved"
  /\ audited' = audited \cup {Id(c)}
  /\ Respond(c)
  /\ UNCHANGED <<accounts, sent, rows, carried, lost>>

RecordStep(c) ==
  \/ CreateSchedule(c) \/ UpdateSchedule(c) \/ DeleteSchedule(c)
  \/ WriteRow(c) \/ DeleteRow(c) \/ UpdateBatch(c) \/ EnrollChange(c)
  \/ WriteCatalog(c) \/ Download(c)
  \/ SaveSchedule(c) \/ DropSchedule(c) \/ SaveRow(c) \/ RefuseDuplicate(c)
  \/ DropRow(c) \/ SaveBatch(c) \/ ChangeEnrolment(c) \/ SaveCatalog(c)
  \/ CountDownload(c) \/ WriteAudit(c)

=============================================================================
