------------------------------- MODULE Portal -------------------------------
(***************************************************************************)
(* The web portal: clients log in, enrol their TOTP device and, with the   *)
(* session that gives them, write and download records.  Every request is  *)
(* a gunicorn worker of its own, which may be killed at any point          *)
(* (docker-compose.yml:5: three workers, --timeout 60).                    *)
(***************************************************************************)
EXTENDS Records

vars == <<accountVars, recordVars>>

Init == AccountsInit /\ RecordsInit

\* A worker is killed; the row its request has saved is not audited.
Crash(c) ==
  /\ LoseRequest(c)
  /\ lost' = IF req[c].at = "saved" THEN lost \cup {Id(c)} ELSE lost
  /\ UNCHANGED <<rows, carried, audited>>

Next ==
  \/ \E c \in Client : AccountStep(c) /\ UNCHANGED recordVars
  \/ \E u \in User : Cooloff(u) /\ UNCHANGED recordVars
  \/ \E c \in Client : RecordStep(c) \/ Crash(c)

Spec == Init /\ [][Next]_vars

-----------------------------------------------------------------------------

\* A session the browser holds was recorded when it began (accounts/signals.py:
\* 13-20), that of a student with a profile by an AccessSession too
\* (scheduling/signals.py:19-29).  Who has a verified session has a device, and
\* nobody gets a second one (views.py:208-221).  Where two forms of a user were
\* handled at once that much still holds: the device need not be confirmed any
\* more, and there are no more devices than the user has clients.
SessionsBacked ==
  /\ \A c \in Client : session[c] # "none" =>
       /\ Who(c) \in logins
       /\ Who(c) \in scene.profiled => Who(c) \in visits
       /\ session[c] = "verified" =>
            Devices(Who(c)) # {} /\ (Confirmed(Who(c)) # {} \/ Who(c) \in overlapped)
  /\ \A u \in User :
       \/ Cardinality(Devices(u)) <= 1
       \/ /\ u \in overlapped
          /\ Cardinality(Devices(u)) <= Cardinality({c \in Client : Who(c) = u})

\* Between two clearings of the count, a user's password is tried wrongly at most
\* AXES_FAILURE_LIMIT times from one address, and once more for every other client
\* that was let through before the last failure was counted (base.py:151-154,
\* views.py:55-69).
GuessesBounded ==
  \A u \in User :
    guesses[u] <= Limit + Cardinality({c \in Client : Who(c) = u}) - 1

\* A schedule targets a batch or a student and never both or neither, whatever
\* PATCHes were merged into it (scheduling/models.py:37-40), and one an instructor
\* saved targets a batch or a student of his, so long as no batch was taken from
\* an instructor and no student from a batch; so do the other records
\* (scheduling/api.py:121-128, 167-172, assessments/api.py:211-218).
RecordsInScope ==
  /\ sched # NoVal =>
       /\ OneTarget(sched)
       /\ ~withdrawn => ScheduleInScope(sched.by, sched)
  /\ \A k \in Kind : row[k] # NoVal /\ ~withdrawn => StudentInScope(row[k].by, row[k].student)

\* Only what was carried out is audited, and what was carried out is audited
\* before the answer, unless the worker died in between (curriculum/api.py:6-7).
AuditMatches ==
  /\ audited \subseteq carried
  /\ lost = carried \ (audited \cup {Id(c) : c \in {b \in Client : req[b].at = "saved"}})

\* download_count is the number of downloads, however they overlap, and issued_at
\* is set from the first on (provisioning/api.py:394-398).
DownloadsCounted ==
  /\ peer.count = served
  /\ peer.issued = (served > 0)

=============================================================================
