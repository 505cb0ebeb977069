# TLA+ models of cyberlab-portal

The portal gives every student of a cyber-security course a persistent Kali VM on
one Proxmox node.  A Django web process validates requests and enqueues Celery
tasks; several workers run the tasks, each a long sequence of database
transactions and Proxmox calls; beat enqueues a reaper that cleans up after
accidents.  Around the boxes there are logins with TOTP, schedules, reports that are
scanned for viruses, and WireGuard tunnels whose state is polled.  Most of what can go
wrong is in the gaps between the steps of tasks and requests.  These modules model the
steps, TLC checks them on small instances, and TLAPS proves every safety property the
runs check for every instance (section 5 names the few hypotheses on sweeps): of the allocator and its refinement of a pool, of the
students' boxes, of the reaper, of the shared labs, of the WireGuard status, of the scan gate
and of the portal's sessions, lockout, records, audit log and download count.

Paths below are relative to `src/`; `tasks.py`, `reaper.py`, `allocation.py`,
`pve.py` and `api.py` without a directory are those of `apps/provisioning/`.

## 1. Inventory of the system

| component | state it keeps | operations | interacts with |
|---|---|---|---|
| allocator, `allocation.py` | `VMInstance` (unique `vmid`, key to `IPLease`), `IPLease` (`free`/`leased`, key to `VMInstance`) | reserve a VMID, lease an address, release either, capacity checks, number a student | called by every provision, by the reaper, by the web tier (DB part) |
| per-student tasks, `tasks.py:844-1409` | `LabInstance.status`; locals of the task across minutes of waiting | provision (with self-heal and error path), start, stop, deprovision | allocator, Proxmox, audit; enqueued by the API |
| shared-lab tasks, `tasks.py:479-783` | the same tables | accept and enqueue, provision (with error path), deprovision one VM per batch and exercise | as above |
| probes, `tasks.py:57-434`, `management/commands` | a lab, a row and a lease of their own for a while | clone VMID 9000, record, power on and off, destroy, clean up | the same tables and node, without the allocator |
| reaper, `reaper.py` | `ReaperSighting`; a snapshot of node and reservations during a sweep | destroy orphan VMs, drop stale reservations, free orphaned leases | the same tables and node as the tasks, every ten minutes |
| Proxmox client, `pve.py` | none | guarded calls, bounded waits | the node |
| API, `api.py` | `WireGuardPeer.download_count` | authorise, enqueue, serve the configuration file | tasks |
| data model, `apps/labs/models.py` | the tables and their constraints | template writes | everybody |
| scan pipeline, `apps/assessments` | `Submission.scan_status`, files, `Assessment` | upload, scan with retries, download behind a gate, grade | clamd, redis |
| WireGuard status, `wgstatus.py`, `mylab.py` | a cache with an expiry | poll the gateway, write a pill per peer, read it | VPN gateway, `WireGuardPeer` |
| WireGuard loader, `load_wireguard_peers.py` | `WireGuardPeer` (key, address, pointer to a box) | validate a manifest, write all peers | labs |
| accounts, `apps/accounts` | session, TOTP device, counted failures | log in, verify a token, enrol a device, log out | axes, django-otp; the login receivers of accounts and scheduling |
| scheduling, curriculum | `Schedule`, `LabReservation`, `AccessSession`, `Course`, `Module`, `LabExercise`, `Batch` and its students | role-gated, scoped, audited writes; enrolment | accounts (gate and scope), audit |
| audit, `apps/audit` | `AuditLog`, a JSON stream | append to both | called by everybody |
| dashboard | none | read-only views | the tables, `wgstatus` |

Hard behaviour, and what makes each component correct:

* **Allocator.** Calls of several workers interleave between the listing of the
  node, the read of the reservations and the INSERT.  Correct: no VMID and no
  address is held twice; the two foreign keys between row and lease agree; an
  address lost in a crash comes back; contention cannot keep a call going.
* **Per-student tasks.** Messages are acknowledged when a worker takes them, so a
  dead worker's task is never resumed; staff and students act on a lab at any
  moment; Proxmox calls fail, outlive their cap, or answer with an error that is
  read as absence.  Correct: one active box per student; a box that is recorded as
  usable has its reservation and is whole; a failed provision leaves no row, no address
  and no box that was set up; `DESTROYED` means gone; a provision ends, and gets past what
  blocks its VMID.
* **Shared labs and probes.** Several requests pass the same capacity test; a task can
  be run again for a lab; nobody asks whether a lab is being provisioned before it is
  deprovisioned; probes use a VMID they have not reserved.  Correct: the cap holds; a
  running lab is one whole VM; a failed call closes its lab, leaves no row, no address and
  no box that was set up, and destroys nothing of another lab's.
* **Reaper.** It works for minutes from a snapshot of two things read at two
  times.  Correct: it frees no address in use, no box is recorded whose reservation it
  dropped, and everything orphaned goes in the end.  That it destroys no reserved VM would
  belong here and is not so (section 4).
* **Scan pipeline.** Upload, scan and download overlap; clamd may be down for
  minutes at start-up.  Correct: staff get clean files only; a pending submission
  gets a verdict.
* **WireGuard.** Polls overlap; they read gateway, table and clock one after the other
  and write peer by peer; manifests are loaded and boxes rebuilt in between.  Correct: a
  tunnel shown as connected was so recently, whatever polls do; what is shown of a
  student is of the student's own tunnel and machine.
* **Web requests.** Three gunicorn workers handle requests of one user at once, nothing
  is wrapped in a transaction, and a worker is killed after 60 s.  Correct: a session has
  its login record, and a verified one its device; the lockout holds against parallel
  attempts; a record saved by an instructor is in his scope even when two PATCHes cross;
  the audit log has what was done and nothing else; no download goes uncounted.

`PROJECT.json` lists every hazard with its line and the properties about it.

## 2. Plan

Order of work; all but the last two are done.

1. `SlotPool`, `Allocation`, `MCAllocation`, `Allocation_proofs`: the allocator,
   its abstract specification and its proofs.
2. `BoxState`, `Provision`, `Power`: the per-student tasks on one database and node.
3. `Reaper`, composed with the tasks in `StudentBox`; instances in `MCStudentBox`.
4. `ScanPipeline`, `ScanPipeline_proofs`.
5. `SharedLab` and `Probes`, composed in `SharedNode`; `SharedNode_proofs`.
6. `WgStatus`, `WgStatus_proofs`: polls, cache with expiry, manifests loaded, boxes rebuilt.
7. `Accounts` and `Records`, composed in `Portal`; `Portal_proofs`.
8. The numbering of students, inside `Provision`; `StudentBox_proofs`.
9. `SharedBoxes_proofs` and `StudentLife_proofs`: what needs a history of who has cloned
   what under which VMID; the boxes as users of the atomic pool (`BoxesUsePool`).
10. `Reaper` extended by the first-seen stamps.
11. `BoxLife`: an abstract life of a box (absent, building, usable, gone) that
   `StudentBox` without faults is to implement.

The theorems planned so far are proved.  Wanted next: `BoxLife` with its refinement, and
`RowsAreDistinct` beside one sweep at a time without the race of `reaper.py:190`.

## 3. Modules

### SlotPool
What `allocation.py:1-18` promises: VMIDs and addresses, each held once, every
operation atomic.  `slot`, `addr` and `out` are the held VMIDs, the assigned
addresses and the addresses that have left the pool.  Two modules implement it:
`Allocation`, where every read and write of the code is a step of its own, and
`StudentBox`, where a reservation is one step and everything around it is not.

### Allocation
`row`, `rowIp` and `lease` are the two tables; a member of `Req` is a call and the
row it inserts.  The call's locals are `live`, `pick`, `tries` and `hand`, its
program counter `pc`.  `ReadLive`, `PickVmid`, `GiveUp`, `InsertRow` are
`allocate_and_reserve_vmid`; `LeaseIp` is `lease_ip` (any free row: SKIP LOCKED
passes over locked ones); `BindLease` the caller's transaction; `Raise` and
`Crash` an exception and a dead worker; `ReleaseReservation` what every clean-up
calls; `SweepFetch` and `SweepRelease` phase 3 of the reaper, the other writer of
the lease table.  `CloneInto` and `Destroyed` move the node under the feet of the
calls that listed it.

### BoxState, Provision, Power, Reaper, StudentBox
`BoxState` declares the shared state: `status`, `row`, `lease` (tables), `vm` (the
node; `by` says which provision cloned a VM, `st` its state, `ip` and `guest` its
configured and its actual address), `pc` and the locals of the tasks, the snapshot
of each sweep, and two sets of what is older than `REAPER_GRACE`.

`Provision` is `provision_student_instance` statement by statement: `FindBox` (the no-op
for an existing box), `PickNumber` and `SaveNumber` (`assign_student_index`: the lowest
free number, picked under the lock of the student's own row and saved against a UNIQUE
column), `Admit` (capacity, scope test), `CreateLab`, then per attempt
`Reserve`, `LeaseIp`, `Bind`, `CheckVmid`, `ReapBeforeClone`, `StartClone`,
`WaitClone`, `CloneFailed`, `ReapFailedClone`, `DropReservation`; then `Configure`,
`BootBox`, `ConfirmIp`, `Record`; and on any exception `Teardown`,
`ReleaseAfterError`, `MarkError`.  `Power` has start, stop and deprovision, each a
load, an act on the node and a record.  `Reaper` has `ListNode`, `ReadReserved`,
the three phases item by item, and time.  `StudentBox` composes them and states
the properties.

Faults are steps with a kind, and a run names the kinds it allows and their number:
`call` (an exception from a call inside of a `try`, or its answer is lost), `late` (a cap
breached), `destroy` (a destroy refused or failed), `misread` (an error answer read as
absence), `crash` (the worker dies), `database` (a write, or an audit entry, raises where
no `try` or only the one at the end of the error path catches it), `slow` (a provision
outlives `REAPER_GRACE`).  A `call` need not mean that nothing happened: a clone request
whose answer is lost has begun a clone, and a failed poll of `wait_task` (`pve.py:507-512`)
leaves the clone at work, gone, or a bare configuration file.  `FinishClone` ends what
nobody waits for.  The shared labs have the same kinds, with `cleanup` for the calls of the
error path and `unreachable` for the listing before the `try`; `slow` has no meaning there.
`StrayKinds` is what earlier incidents left on the node: `conf` (a
configuration file the listing does not show), a `stopped`, `running` or `locked` VM.

Abstractions to know about:

* `RecordStarted` is one step for the two saves of `tasks.py:1239-1243`, and `Validate` one
  for the loader's checks of the boxes one after the other.
* `Reserve` is one step with a fresh listing, because `Allocation` shows that the
  real, racy call hands out VMIDs as the atomic one does.  What a stale listing
  adds, a VM without a row under the chosen VMID, is what strays put there.
* The enqueue of a power task and its beginning are one step; a task may begin in
  any state of the lab, so nothing is lost by it.
* The inner waits of shutdown, forced stop and destroy are one step with several
  outcomes.  An orphan's age is known (no first-seen stamps).
* Sizes, names, TLS, audit texts and HTTP are left out.

### ScanPipeline
`job[f]` is where the upload request and then the scan task of a submission are,
`tries` the retries used, `asked` and `served` the downloads.  What clamd says of a
file is fixed in `verdict`; whether it answers is not.

### SharedLab, Probes, SharedNode
The same tables and node for shared labs.  A call is one run of
`provision_shared_instance`; it makes at most one row, which is named by it.  `Ask` and
`Accept` are the endpoint, `Retry` another run of the task for a lab; then, statement by
statement, `Admit`, `Reserve`, `LeaseIp`, `Bind`, `StartClone`, `WaitClone`, `Configure`,
`BootBox`, `ConfirmIp`, `Record`, and on an exception `ErrorPath`, `Release`, `Fail`.
`Deprovision`, `DestroyNext`, `DropNext` and `RecordDestroyed` are
`deprovision_instance`, which works on the rows it loaded at first.  `Probes` adds
`provision_clone_primitive` and the longer `provision_lifecycle_probe`, which share their
steps; the second goes through `PowerOn` and `PowerOff`.  `boxes` is how many students'
boxes count against the cap meanwhile.

`hasty` remembers the labs that were deprovisioned while a call of theirs was at work.
The code allows it and several properties do not survive it (below); the properties name
it where they need it.

### WgStatus
`manifest` is the file, `plan` what the loader has validated of it, `peer` the table,
`box` the boxes, `handshake` the gateway, `cache` the entries with their expiry.  A poll
is `Fetch` (the dump), `ReadPeers` (table and clock), `WriteStatus` per peer, `EndPoll`;
a gateway that does not answer is a poll that does not begin, since it writes nothing.
`Status` and `MachineIp` are what the pages show.  `Tick` keeps a poll within `MaxPoll`.

### Accounts, Records, Portal
A client is a browser; `req[c]` is the request a worker handles for it and how far it
has got.  `Accounts` has the password step (`Submit`, `WrongPassword`, `CountFailure`,
`Welcome`), the two ends of a login (`EnterWithToken`, `EnterWithoutToken`), `Logout`, the
cool-off, and `totp_enroll` in its statements (`OpenForm`, `CreateDevice`, `WrongToken`,
`ConfirmDevice`, `FinishEnrolment`).  `Welcome` is what the receivers of the login signal
do: count cleared, audit row, and an `AccessSession` if the student has a profile
(`scene.profiled`; `scheduling/signals.py:23-25`).  `overlapped` remembers the users two of
whose enrolment forms were handled at once.  `mfa_enabled` is left out: it is displayed,
decides nothing, and the admin site sets it freely (`accounts/admin.py:12`).
`Cooloff` clears all counted failures of a user at once, where axes keeps a row per user
agent.  `verify_token` of django-otp saves the
whole device row, which is why `WrongToken` writes it.  `Records` has one action per write
handler for its first step (load, permission, validation, scope), one for its save, and
`WriteAudit`; a save writes the row as it was loaded with the request's fields over it.
`Portal` adds the worker that is killed and states the properties.  A scenario says who
the two clients are and whether they begin before their first login or enrolled and
logged in; the second kind is where records are written.

## 4. Runs

All configurations are small because every interesting interaction here is between
two actors over one VMID, address or lab; a third of a kind repeats the second.

| run | instance | what it shows |
|---|---|---|
| `Allocation` | two calls that come again and again, two VMIDs, two addresses, one sweep | exclusive addresses, bookkeeping, refinement of `SlotPool` (which hands a VMID to one); calls end, lost addresses return |
| `Box_once` | two provisions for one student (double click, redelivery), starts and deprovisions at any moment, one fault of any kind | one active box per student, distinct reservations, also when a deprovision takes the row from under the provision; no box on record without its row; a number that is given once; the tables are used as `SlotPool` is |
| `Box_safe` | two students, stops from the first moment of the provision, starts and deprovisions of boxes that are there, one fault of any kind | usable boxes are whole; a box recorded as `DESTROYED` is gone |
| `Box_live` | two students, configuration files left under any VMID, up to two failing, late or refused calls | provisions end, and succeed when nothing else fails; failing calls and lost answers leave no row, no lease and no VM that was ever configured; two students never get one number |
| `Reaper_sweeps` | one sweep after the other beside a provision of two attempts, orphans left on the node, up to two crashes, failing calls or destroys, or ages past the grace | no box on record without its row, though a sweep may drop the row under a slow provision; addresses of the reservations the sweep saw are spared; orphans and stale reservations go |
| `Scan` | two submissions, one staff member downloading again and again, every fault | the gate holds; an outage of `max_retries` refusals is waited out |
| `Shared` | two calls for two labs or one, a deprovision at any moment, a probe, two VMIDs and addresses, one student's box or none, one fault of any kind | distinct reservations; the cap; whole labs; failing calls and lost answers leave no row, no address and no VM that was set up, close their lab and spare others |
| `WgStatus` | two students, two keys of which one connects, two addresses, two polls, two loads; time up to 4, or boxes rebuilt at time 1 | pills are recent and of the own tunnel; a peer with a box shows that box |
| `Portal` | two clients in six scenarios: an instructor twice, an admin and a student, a student without a profile twice, before the first login; two instructors, an instructor and an admin, a student twice, logged in | sessions, lockout, scope, audit and counts |

Bounds.  `Attempts` is 3 in the code (`CLONE_SELF_HEAL_ATTEMPTS`); 2 is enough for
the last attempt to differ from the others by the guard `att < Attempts`, and 1 is
used where another actor makes the run large.
`MaxFaults` is 1 or 2; each cfg says which.  Two VMIDs and two addresses make both
exhaustion and reuse happen.  Each power task of `Op` runs once; two of them cover
every overlap of two.  `MaxRetries` is 12 in the code and 2 here, with `MaxRefusals`
one above what the retries survive.  `Cap` is the number of tasks.  `EarlyKinds` says which power tasks may
begin while the lab is still being provisioned.  In `Box_safe` it holds stops only, which
keeps the run short; `Box_once` has early starts and deprovisions, and
`StudentLife_proofs` proves `BoxesAreWhole` with early starts and stops and whatever
deprovisions the hypotheses of the property leave.  The properties themselves say which
of them a deprovision during a provision invalidates (`NoneHasty`), and which faults.
Sweeps are where a bound stands for a hypothesis: `RowsDistinct`, `BoxesAreWhole` and
`BoxesUsePool` are checked and proved without any, `ReaperSparesAddresses` with one at a
time, for the reasons below.
In `Shared` a third call or lab repeats the second: the interesting meetings are call and
retry, call and call of another lab, call and deprovision, call and probe.  In `WgStatus`
`Freshness`, `Ttl` and `MaxPoll` are 1 tick, so every order of expiry, reload and late
write occurs within 4; rebuilding boxes and letting time pass are separate bounds of one
run, since no property relates them.  In `Portal` `Limit` is 2 (5 in the code), a user may
get three devices, one more than there are clients, and a client sends three login or enrolment requests or two writes; there
is one schedule and one reservation at a time.
Symmetry is used among calls of one kind, never in a liveness run.
`CHECK_DEADLOCK FALSE` where every task or request may simply have ended.
The type invariants of `SharedNode`, `WgStatus` and `ScanPipeline` are proved and not run.

### Where the code does not do what it says

Each of these runs violates one property, and the counterexample is the finding.

| run | property | what happens |
|---|---|---|
| `Box_twice` | `DeprovisionSparesOthers` | of two deprovisions of one lab, the slower destroys the VM of the student who has the VMID by then |
| `Reaper_pending` | `PendingIsResolved` | a crash after the clone began leaves a lab pending for ever |
| `Scan_unavailable` | `FallsBackToError` | the fallback after the last retry is dead code |

### What goes wrong outside the configured instances

These were met while modelling.  The first can be seen by changing a constant; for the
others the run needs the property that is described, which the project does not keep
because it does not hold.

* Two overlapping sweeps (`Sweep = {s1, s2}` in `Allocation.cfg`) violate
  `AddressesExclusive`: phase 3 releases every lease it fetched without looking again
  (`reaper.py:241`, `allocation.py:209-222`).  Both fetch the same orphan, the first
  releases it, a provision leases it, and the second frees it in that provision's hands.
  `allocation.py:3-4` says that two provisions can never claim the same address; nothing
  stops sweeps from overlapping.
* A sweep can destroy a VM whose VMID is reserved (in `Reaper_sweeps.cfg`: an action
  property on `SweepStep` and `RowVmids`).  The node is listed before the reservations are
  read (`reaper.py:119-125`) and neither is read again before the destroy.  A box
  deprovisioned in between, or a clone whose attempt has given its row back, is in the list
  and not in the reservations, and when the next attempt or another provision takes its
  VMID the sweep destroys the new VM.
* A sweep can drop the reservation of a provision at work.  `CAP_CLONE` (`tasks.py:241`) and
  `REAPER_GRACE` (`config/settings/base.py:217`) are both 900 s, so a lab whose clone is slow
  is older than the grace.  The fault `slow` is this, and `Reaper_sweeps` includes it:
  `RunningHasRow` says what holds all the same, the box is never recorded without its row.
* A provision can destroy another student's VM.  Staff may deprovision a lab in any state
  (`api.py:257-273`); when its provision is still at work, the row goes, another provision
  takes the VMID, and the error path of the first, which knows the VMID only
  (`tasks.py:1161-1180`), or its self-heal, which asked about other reservations one step
  before, destroys what is there (`EarlyKinds = {"deprovision"}` in `Box_safe.cfg`).
  `RowsDistinct` and `RunningHasRow` hold through this, in `Box_once` and for every
  instance: the tables stay right, the node does not.
* A lab can stay `pending` though its provision has ended: when the audit entry before the
  `try` raises (`tasks.py:517`, `985`), when a shared lab's node cannot be listed
  (`tasks.py:523`), or when the release at the end of the error path raises and the status
  is skipped with it (`tasks.py:685-692`, `1189-1196`).  The faults `database` and
  `unreachable` are these; the properties name them where they do not hold with them.

### What the passing properties leave out

Some properties carry a hypothesis, or their run an instance, because the code as it
is does not promise more.  Each of these can be seen by dropping the restriction:

* `NoResidueAfterError` and `ZeroResidue` are about failing calls and lost answers, and they
  promise less than the "ZERO residue" of the docstrings (`tasks.py:10`, `488-490`,
  `913-915`): no row, no address, and no VM that was ever configured or started.  A clone
  whose answer was lost (`pve.py:188-203`) or whose poll failed (`pve.py:507-512`) goes on,
  is locked while the error path looks at it, and its reservation is dropped all the same
  (`tasks.py:1069`): a bare, powered-off clone stays until the reaper comes.  A probe that did
  not see its clone succeed does not even try to destroy it (`clone_done`, `tasks.py:176`,
  `384`).  Under VMID 9000, which nobody reserves for the probes, a probe and a call can each
  take the other's VM for their own, and `Disputed` excepts what comes of it.  A clone that
  outlives `CAP_CLONE`, a failing destroy and a misread answer leave more.
* `DestroyedMeansGone` and the other properties that name `NoneHasty` say nothing once a lab
  was deprovisioned during its provision, see above.
* `DestroyedMeansGone` excludes `misread`: `get_status` takes any answer but 200 for
  absence (`pve.py:223-230`), and a deprovision that met such an answer records
  `DESTROYED` with the VM running on an address it has freed.
  It excludes two more ways to leave a VM behind.  A lab that had ended in error
  may have one from a failed teardown, with its row gone, so a deprovision finds nothing to
  destroy.  And when the provision's worker dies, or a write fails, in its error path after
  a destroy had failed or a clone been lost, the row may be gone with the VM still there.
* `BoxesAreWhole` holds while no lab is deprovisioned twice (`DeprovisionedOnce`): of two
  deprovisions of one lab the slower can destroy the VM of whoever has the VMID by
  then, as `Box_twice` shows.  It does not hold either when the error path of a box that is
  already recorded (the audit entry after `Record` raised) cannot write its status.
* `RunningHasRow` leaves out writers that die or fail between the delete of the row and the
  write of the status, two transactions in the reaper (`reaper.py:218-221`) and in a
  deprovision, and a deprovision that misread the node and writes no status.
* `SharedBoxesAreWhole` has the same hypothesis, for the same reason
  (`tasks.py:726` loads the rows once).  It also says nothing of a lab whose call
  met a failing call and then lost its worker: when the audit entry after `Record` raises
  (`tasks.py:624-645`), the error path destroys a box that is already recorded, and a worker
  that dies there leaves the lab `running` with no VM.
* `DESTROYED` is not final: a deprovision that begins before the provision has reserved
  anything records it, and the provision writes over it.
* `BoxesAreWhole` says nothing of the power state: `start` and `stop` each record their
  own outcome without looking at the other's, so a box can be recorded as running and
  be off.  A box stopped while still pending is recorded as stopped before it has a VM;
  when its provision ends it is whole.
* One VM that cannot be destroyed (`locked` in `StrayKinds`) raises out of every sweep
  before phases 2 and 3 (`reaper.py:186-188`), so no run combines it with `StaleRowsGo`.
* After a destroy the sweep frees the leases of whatever row has the VMID by then
  (`reaper.py:190-192`).  A provision that reserved the VMID and bound an address between
  the destroy and that query loses the address, and the next call leases it again.
  `ReaperSparesAddresses` is therefore about the reservations the sweep has read; stated
  of every row it is violated in `Reaper_sweeps.cfg`.
* With `Cap` below the number of provisions, two of them pass the test of the cap
  together (`tasks.py:957`).  Shared labs are written before they are tested, so
  `CapHonoured` holds for them; a lab in error counts nowhere while it is retried.
* A shared lab can be deprovisioned during its provision (`api.py:145-161` and
  `tasks.py:709-722` look at no status).  The provision then works on a VMID that may be
  another lab's by now, tears that lab's VM down, or records `running` over `destroyed`;
  properties of `SharedNode` that name `hasty` exclude it.
* The capacity test of a shared provision asks the node outside of the `try`
  (`tasks.py:522-523`).  When the node cannot be reached the task dies and its lab stays
  pending and counted, though `tasks.py:488-490` promises the error status.
* The shared path has no self-heal: a configuration file left under the lowest free VMID
  fails every provision that picks it.  A VM that is cloned while its lab is deprovisioned
  is seen by the last look of `DropNext` at best: the row goes all the same.
* A probe destroys what is under its VMID at the end, also when a call has reserved it
  meanwhile; `SharedBoxesAreWhole` says nothing of that VMID beside a probe.
* After a box is rebuilt the peer's pointer is NULL and its address stays
  (`SET_NULL`, `mylab.py:52`): the page shows the old address until peers are loaded
  again, and it may be another student's by then.
* Enrolment forms of one user that are handled at once can make two devices, and a wrong
  token in one takes back the confirmation of the other, so that a verified session is left
  with an unconfirmed device.  `SessionsBacked` says of such users (`overlapped`) that a
  device is there and that they have no more of them than clients.
* A student without a profile gets a session and an audit row, but no `AccessSession`
  (`scheduling/signals.py:23-25`).
* A PATCH saves the whole row as it was loaded.  It brings back a schedule that was
  deleted, or a batch that was reassigned, in between; `RecordsInScope` excludes
  reassignments.  A delete of a row that is gone is audited all the same.
* Guesses of a request that died before its failure was counted are not in `guesses`.
* After a password login the template pages never ask a staff member who is already
  enrolled for a token (`views.py:171` speaks of "their own pages"); only the API login
  with `otp_token` gives such a user a verified session.

* An audit row whose worker died between the save and the audit is counted as `lost`;
  `AuditMatches` says that nothing else is missing.  A download that dies while it is sent
  counts as served, in the code as in `DownloadsCounted`.

### Fairness

A worker that has taken a task runs its next statement unless it dies
(`WF(ProvisionStep)`, `WF(OpStep)`, `WF(Call)`, `WF(Task)`): every wait in `pve.py` and
`tasks.py` is bounded.  Beat queues a sweep every ten minutes (`CELERY_BEAT_SCHEDULE`)
and a sweep runs to its end or raises (`WF(SweepStep)`).  Proxmox finishes its clones
(`WF(FinishClone)`) and time passes (`WF(AgeVm)`, `WF(AgeLab)`).  Nothing obliges anybody
to ask for a start, a stop, a deprovision or a download, and faults are never fair.

## 5. Proofs

`Allocation_proofs` proves, for any number of calls, VMIDs, addresses and sweeps,
from the assumptions of `Allocation` (the range is a range, addresses are numbers,
NULL is none of the values):

* `TypeCorrect`: `TypeOK` together with `Phases`, which says what a call holds at
  each statement; `Phases` is needed because a call at `bind` has a lease in hand and
  a row, and the two leave the hand and enter the row together.
* `SlotsAreExclusive`: inductive as it stands given the types, since only `InsertRow`
  writes a VMID and the UNIQUE constraint guards it.

and under the hypothesis `OneSweep` (no two sweeps at a time, which beat does not
enforce and without which the statements are false, see section 4):

* `LeasesStayBooked`, `AddressesAreExclusive`, `SweepsAreSafe`: from `LeaseInv`.
  `LeaseBookkeeping` alone is not inductive: a release by a sweep could hit a lease in
  a call's hand.  `UnboundLeasesOwned` adds that the lease in a hand is leased, unbound
  and in no other hand, and that whatever a sweep has fetched is still unbound and in
  nobody's hand.
* `AllocationImplementsPool`: initial states map to initial states and every step to
  a step of `SlotPool` or a stutter; `InsertRow` maps to `Reserve`, `LeaseIp` to
  `TakeOut`, `BindLease` to `Assign`, `ReleaseReservation` to `GiveBack`,
  `SweepRelease` to `Reclaim`.

`SharedNode_proofs` proves, for any labs, calls, deprovisions, probes, VMIDs, addresses,
cap and set of fault kinds, from the assumptions of `SharedLab` (the lowest VMID, which
the probes use, exists; calls, probes and deprovisions are different things; NULL is none
of the values):

* `SharedTypeCorrect`: `TypeOK`.  A call configures and tears down the VMID and the
  address in its hands, so the types need `Typed`: which of `mine` and `hand` a process
  holds at each statement.  `NodeInv` adds that a clone under way has its VM, since Proxmox
  writes the state of a VM it assumes to be there.
* `ReservationsAreDistinct`: from `ResInv`.  A row gets its address one statement after
  the lease was taken, so the property alone is not inductive: `LeasesMatch` (the two
  foreign keys agree), `FreeIsUnbound` and `BindersAlone` (the lease in the hand of a call
  that is about to bind it is in nobody else's hand and on no row), and `ProbesOwn` and
  `ProbesEmpty` (which rows a probe has) are added.  A deprovision that frees what a call
  has is covered: no `hasty` hypothesis is needed here.
* `EndedIsClosed`: from `ClosedInv`.  Several calls may be for one lab, and one that finds
  the lab already provisioned ends without writing its status.  `RunningWas` says that the
  row it found is of a lab that has left `pending`; `OnlyAsker` and `NoneIsAsked`, that
  writing `pending` at the beginning cannot fall on a lab another call has closed;
  `IdleIsEmpty` and `OpsAfter`, that nothing happens to a lab before that.  A node that
  cannot be asked before the `try` and writes that raise are excepted, since then it is not so.

`WgStatus_proofs` proves, for any students, keys, addresses, polls, clock and bounds:

* `WgTypeCorrect`, with `PollsInv` (a poll never is later than `MaxPoll` after its dump,
  and what it holds at each statement);
* `ConnectedIsAlwaysRecent` and `StatusIsOfOwnTunnel`, from `CacheInv`: each entry was
  computed from a handshake that was fresh when the poll read the clock, for a key that
  was the peer's when the poll read the table.  The properties are about now, and only a
  statement about the moment of the poll survives the passing of time;
* `MachineIsTheirOwn`, from `BoxesInv` and `PointersInv`: what the loader has validated
  is, when it is written, either still the student's box with that address or a box that
  is gone, which the foreign key refuses.

`ScanPipeline_proofs` proves, for any submissions, verdicts and limits, `ScanTypeCorrect`
and `StaffGetCleanFiles`.  The gate reads the status and the file goes out later, so
`CleanIsFinal` (no step of a scan changes the status of a submission that is clean) and
`AskedIsCurrent` (a pending request that saw `clean` still would) carry the proof.

`Portal_proofs` proves, for any finite set of clients, any users, batches, limit and
scenarios, with workers killed at any point:

* `GuessesAreBounded`, from `GuessInv`: the guesses are at most the failures counted and
  the refusals about to be; and the failures and the attempts under way are at most
  `Limit - 1` and the clients of the user.  The second is what the unlocked test of the
  view gives: it lets an attempt through only while fewer than `Limit` are counted, and
  there is at most one attempt per client.  Both are about the size of sets of clients,
  which is why `Client` has to be finite.
* `AuditLogMatches`, from `AuditInv`: a request at its save is not carried out, one after
  it is carried out and unaudited, and numbers of requests are not used again.
* `DownloadsAreCounted`, from `DlInv`: a download that read a first issue does not see it
  taken back.

`StudentBox_proofs` proves, for any students, provisions, power tasks, sweeps, VMIDs,
addresses, attempts, cap, strays and kinds of fault, from the assumptions of `BoxState`
(the kinds of task are different things; NULL is none of the values):

* `BoxTypeCorrect`, from `Typed`: what each task holds at each statement.  The row object
  of a provision is its own and the row of its present attempt is the only one of its lab
  (`OwnObj`, `RowsOfAttempt`), which is why a lab never has two rows: a retry deletes the
  row of the attempt before it inserts another.  `ClonesThere` says that a clone somebody
  waits for has its VM, and `SweepHolds` which of VMIDs, rows and addresses a sweep has on
  its list in each phase.
* `OneBoxAtATime`: the property is inductive by itself given the types, but three writers of
  `status` have to be told apart: `CreateLab`, `Record` and the power tasks.
* `NumbersAreDistinct`, from `NumberInv`: the UNIQUE column is tested against every other
  student, but a student's own number could be written twice by two calls.  `SavingAlone`
  (a call at its save is the only one of its student there, since it holds the row) excludes
  it, and gives `NumbersAreStable` as well.
* `RowsAreDistinct`, under the hypothesis that no sweeps run: from `ReservationInv`, by
  the same invariants as in `SharedNode_proofs` (a free lease is bound to nothing, and the
  lease in the hand of a call about to bind it is in no other hand and on no row).  With
  sweeps the statement needs one sweep at a time and the absence of the race of
  `reaper.py:190` (section 4).

`SharedBoxes_proofs` continues `SharedNode_proofs` with what a shared lab comes to, for any
labs, calls, deprovisions, probes and faults.  Its theorems share one account of what a
step of a call changes (`CallEdge` for the program counter and the locals, `CallTouches`
for the node) and one invariant, `LifeInv`: one call at a time works on a lab; and as long as
no lab is deprovisioned during its own provision, a call has its row from `Reserve` to
`Release`, under the VMID it reserved, and a deprovision handles only rows of calls that
are over.

* `TeardownsSpareOthers` follows from it and `ReservationsAreDistinct`: the row that
  reserves the VMID a call tears down is its own.
* `SharedBoxesStayWhole`, from `RunsInv` (a lab has one running row, a call is admitted only
  to a lab that has none, and a lab recorded as running has one) and `WholeInv` (how far the
  VM of a call has come at each statement).  The second depends on nobody else
  destroying the VM, which is where `DeprovisionedOnce` is needed.
* `CapIsHonoured`, from `CapInv`.  The labs that run and those with an
  admitted call at work are counted together (`Holders`): a lab is pending before it is
  tested, so of two tests one at least counts the other.  It is about sizes of sets of labs, which is why `SharedFinite`
  (finitely many labs and calls) is assumed.
* `NothingIsLeft`, from `ResidueInv`: of every VM somebody is still in charge, a probe at
  work or a call whose row records it, or the VM is `Bare`; and a row that outlives its call is
  of a box that runs.  A lost clone is where its owner cloned it (`VmsAtHome`) and has no
  address while it is cloned (`CloningIsBare`), so nobody can have set it up but somebody who
  works under the same VMID, which outside of the probes' VMID nobody does.

`Portal_proofs` further proves

* `SessionsAreBacked`, from `SessionInv` and `RoomInv`: what an enrolment form has seen stays so
  until it acts on it, because a user with no overlapping forms has one form at work
  (`OneForm`) and at most one device (`OneDevice`).  For a user whose forms overlapped, each
  client that is not about to make a device has room for one that is there (`Room`), since a
  form that makes one saw none: the bound by the number of clients.  It counts clients, which
  are finitely many by `AccountSizes`.
* `RecordsStayInScope`, from `ScopeInv`: a request that was checked is in scope still when
  it is saved (`ChecksHold`), since permissions only grow while nothing is withdrawn.  For a
  PATCH this is about the row it will write, the loaded one with its fields over it.

`StudentLife_proofs` continues `StudentBox_proofs` with the life of a box among sweeps,
deprovisions and other provisions.  Everything rests on `OwnedInv`: the row of a lab is the
one its provision holds, no VMID is on two rows, a bound lease is bound to a row, and a power
task works on a row of the lab it was called for.  Unlike `RowsDistinct` it needs no
restriction of the sweeps, because it says nothing of addresses.

Two facts are behind most of what follows.  A sweep that takes a lab for old takes one
whose provision has ended, unless the provision outlived the grace (`OldAreEnded`).
And unless a lab is deprovisioned during its provision, a deprovision works on a lab that
is over (`DeprovisionsAfter`); hence a provision at work keeps its row (`HasRow`, `KeptInv`), and
from its clone on the VM under its VMID is its own (`ClonesAreOwn`).  What a property needs of
this is part of the property, as `NoneHasty` and the kinds of fault it names, and not an
assumption of its theorem; `Orderly` is the two together, and invariants below hold in
states that are.

* `SweepsSpareAddresses` (one sweep at a time): an orphan is no VMID the sweep saw
  reserved, and what it found unbound stays unbound and in nobody's hand (`AddressInv`).
  Two sweeps free addresses in use, see section 4.
* `BoxesOnRecordHaveRows`, for any number of sweeps and with early deprovisions and slow
  provisions: a provision, `start` and `stop` record a lab only while its row is there, and
  whoever deletes the row of a lab that is over, a sweep or a deprovision, writes its status
  next (`RowOrClosing`).  A deprovision that deletes the row and writes no status has
  misread the node (`PartialIsMisread`).
* `NothingIsLeftAfterError`: while only calls fail, a VM of a lab that has an address is
  under the VMID of its provision, which is at work on it or has ended (`OwnAtWork`), and can be
  destroyed (`AddressedAreUsable`), so the teardown leaves bare clones at most; and what a
  sweep's list says is not there has not come back when the sweep closes the lab
  (`StaleAreDead`).
* `DestroyedIsGone`: from `GoneInv`.  A deprovision knows, from the moment
  it has seen the VM gone until it records `DESTROYED`, that the VM is gone still, because
  the lab's provision has ended and nobody else clones in its name (`DeprovisionsKnow`).  One
  that finds no row relies on who deleted it: another deprovision, an error path,
  whose lab is in error, or a sweep that had not listed the VM (`RowlessAreAbsent`).
  `TornDown` and `ClonesAreKnown` say that an error path leaves a VM only where something
  failed; with `Excused`, what the property excepts, they carry the cases of a dead worker.
* `BoxesStayWhole` (no sweeps): from `BoxesHold`.  `BuiltWell` says how
  far the box has come at each statement of the provision, `WholeBoxes` that it stays so
  afterwards: nobody but its own deprovision touches a VM under a VMID that is reserved for
  its lab, start and stop only turn it on and off, and a deprovision holds the
  reservation up to its last step if no other call deletes it (`DeprovisionsHold`).
  Sweeps are excluded because of `reaper.py:190`: one frees the address of whoever took
  over the VMID it destroyed.
* `BoxesImplementPool` (no sweeps): the steps of the boxes are steps of `SlotPool` or leave
  its three variables alone, read off the tables by `Slots`, `Addresses` and `LeasedIps`.
  `Reserve`, `LeaseIp` and `Bind` map to `Reserve`, `TakeOut` and `Assign`, and every
  release, by a retry, an error path or a deprovision, to `GiveBack`.  From `BindInv`: what is
  bound is bound to the row with that address, so that a release returns exactly the
  address of its row (`BoundBack`), and a row that is to be bound has no address yet
  (`Unaddressed`).  `Allocation` implements the same module, so the caller model and the
  allocator model agree on what they share.

Both modules on the boxes use `Alterations` and `NodeChanges`: a step begins, ends or fails a
clone, or alters a VM nobody clones without changing whose it is.  `NoRecordAssumption` says
that NULL is no row, object or remembered call, which TLC checks and the provers cannot infer
of records.

Only model-checked: liveness (`ProvisionEnds`, `ProvisionHeals`, `OrphansGo`, `StaleRowsGo`,
`CallsEnd`, `LostLeasesReturn`, `ScanResolves`), since fairness and ENABLED are beyond the
prover.  The hypotheses above on sweeps (none, or one at a time) are conditions of the
instance: the runs of the same properties have constants that satisfy them, and section 4
says what goes wrong outside.  Every other exception is part of the property itself.  No theorem rests on an induction over data; the modules have
no recursive operator.

## 6. Not modelled

The reaper's first-seen stamps, the batch
provision of the API, POD mode, the validation of uploads and the owner's download, the
creation and deletion of batches, profiles and the guest role, a swap of two students'
`tunnel_ip` in a manifest (the UNIQUE column refuses it half-way and the load is rolled
back), and the JSON stream of audit, whose rotation by several processes is best-effort by
its own comment (`apps/audit/emit.py:13-22`).  The dashboard and the other read views
change no state.  The management commands `b2_*`, `provision_probe` and `wazuh1_check` are
scripts that drive the modelled tasks in a fixed order against a real node and print a
verdict.  `components` in `PROJECT.json` has the reason for each part.
HTTP, TLS, templates and formatting stay out.
