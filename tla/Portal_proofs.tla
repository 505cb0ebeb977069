---------------------------- MODULE Portal_proofs ----------------------------
(***************************************************************************)
(* Proofs about Portal, for any finite number of clients, any users,       *)
(* batches, limits and scenarios, and workers killed at any point.         *)
(***************************************************************************)
EXTENDS Portal, FiniteSetTheorems, WellFoundedInduction, TLAPS

\* What the counters are.
Counters ==
  /\ scene \in Scenarios
  /\ failures \in [User -> Nat] /\ guesses \in [User -> Nat]
  /\ sent \in [Client -> [auth : Nat, writes : Nat]]
  /\ req = [c \in Client |-> req[c]]
  /\ peer \in [count : Nat, issued : BOOLEAN] /\ served \in Nat

\* c's request goes from one of some labels to one of others.
Moved(c, from, to) == \E r : req' = [req EXCEPT ![c] = r] /\ req[c].at \in from /\ r.at \in to

\* The labels a request has once the password is right, and those it has elsewhere.
Right == {"welcomed", "form", "token", "right", "idle"}

-----------------------------------------------------------------------------
(* The steps *)

\* The three steps of a record handler.
Begins(c) ==
  /\ \E r : /\ req' = [req EXCEPT ![c] = r] /\ r.at = "checked"
            /\ r.op = "download" => r.seen = peer
  /\ req[c].at = "idle" /\ sent' = [sent EXCEPT ![c]["writes"] = @ + 1]
  /\ UNCHANGED recordVars
Saves(c) ==
  /\ Moved(c, {"checked"}, {"saved"})
  /\ UNCHANGED <<sent, audited, lost>> /\ carried' = carried \cup {Id(c)}
  /\ \/ UNCHANGED <<peer, served>>
     \/ /\ Doing(c, "download") /\ served' = served + 1
        /\ peer' = [count |-> peer.count + 1, issued |-> peer.issued \/ ~req[c].seen.issued]
Refuses(c) == Moved(c, {"checked"}, {"idle"}) /\ UNCHANGED <<sent, recordVars>>
Audits(c) ==
  /\ Moved(c, {"saved"}, {"idle"}) /\ UNCHANGED <<sent, rows, carried, lost>>
  /\ audited' = audited \cup {Id(c)}

\* A request whose next label is l.
LEMMA Goes ==
  ASSUME NEW c \in Client, NEW l, Step(c, [at |-> l])
  PROVE  Moved(c, {req[c].at}, {l})
<1> DEFINE r == [at |-> l]
<1>1. req' = [req EXCEPT ![c] = r] /\ r.at = l
  BY DEF Step
<1> HIDE DEF r
<1> QED
  BY <1>1 DEF Moved

\* The steps of the records, classified.
LEMMA RecordMoves ==
  ASSUME NEW c \in Client, RecordStep(c)
  PROVE  UNCHANGED accounts /\ (Begins(c) \/ Saves(c) \/ Refuses(c) \/ Audits(c))
<1>1. ASSUME NEW r, r.at = "checked", r.op = "download" => r.seen = peer, Begin(c, r)
      PROVE  UNCHANGED accounts /\ Begins(c)
  <2>1. Send(c, "writes", r) /\ UNCHANGED accounts /\ UNCHANGED recordVars
    BY <1>1 DEF Begin, AuditLater, recordVars
  <2>2. req[c].at = "idle"
    BY <2>1 DEF Send, Idle
  <2> QED
    BY <1>1, <2>1, <2>2 DEF Begins, Send
<1>2. CASE CreateSchedule(c) \/ UpdateSchedule(c) \/ DeleteSchedule(c)
  BY <1>1, <1>2 DEF CreateSchedule, UpdateSchedule, DeleteSchedule
<1>3. CASE WriteRow(c) \/ DeleteRow(c)
  BY <1>1, <1>3 DEF WriteRow, DeleteRow
<1>4. CASE UpdateBatch(c) \/ EnrollChange(c) \/ WriteCatalog(c)
  <2>1. CASE EnrollChange(c)
    BY <1>1, <2>1 DEF EnrollChange
  <2> QED
    BY <1>1, <1>4, <2>1 DEF UpdateBatch, WriteCatalog
<1>5. CASE Download(c)
  BY <1>1, <1>5 DEF Download
<1>6. ASSUME Saved(c), req[c].at = "checked",
             UNCHANGED <<peer, served>> \/ CountDownload(c)
      PROVE  UNCHANGED accounts /\ Saves(c)
  <2>1. UNCHANGED accounts /\ UNCHANGED <<sent, audited, lost>> /\ carried' = carried \cup {Id(c)}
    BY <1>6 DEF Saved
  <2>2. Step(c, [at |-> "saved"])
    BY <1>6 DEF Saved
  <2> DEFINE r == [at |-> "saved"]
  <2>3. Moved(c, {"checked"}, {"saved"})
    <3>1. req' = [req EXCEPT ![c] = r]
      BY <2>2 DEF Step
    <3>2. r.at = "saved"
      OBVIOUS
    <3> HIDE DEF r
    <3> QED
      BY <1>6, <3>1, <3>2 DEF Moved
  <2>4. \/ UNCHANGED <<peer, served>>
        \/ /\ Doing(c, "download") /\ served' = served + 1
           /\ peer' = [count |-> peer.count + 1, issued |-> peer.issued \/ ~req[c].seen.issued]
    BY <1>6 DEF CountDownload, CountOfRow
  <2> QED
    BY <2>1, <2>3, <2>4 DEF Saves
<1>7. CASE SaveSchedule(c) \/ DropSchedule(c) \/ SaveRow(c) \/ DropRow(c)
  BY <1>6, <1>7 DEF SaveSchedule, DropSchedule, SaveRow, DropRow, Doing
<1>8. CASE SaveBatch(c) \/ ChangeEnrolment(c) \/ SaveCatalog(c)
  <2>1. CASE SaveCatalog(c)
    <3>1. Saved(c) /\ req[c].at = "checked" /\ UNCHANGED rows
      BY <2>1 DEF SaveCatalog, Doing
    <3> QED
      BY <1>6, <3>1 DEF rows
  <2> QED
    BY <1>6, <1>8, <2>1 DEF SaveBatch, ChangeEnrolment, Doing
<1>9. CASE CountDownload(c)
  BY <1>6, <1>9 DEF CountDownload, Doing
<1>10. CASE RefuseDuplicate(c)
  <2>1. Step(c, Idle) /\ req[c].at = "checked" /\ Idle.at = "idle"
    BY <1>10 DEF RefuseDuplicate, Doing, Respond, Idle
  <2>2. UNCHANGED accounts /\ UNCHANGED <<sent, recordVars>>
    BY <1>10 DEF RefuseDuplicate
  <2> QED
    BY <2>1, <2>2 DEF Step, Refuses, Moved
<1>11. CASE WriteAudit(c)
  <2>1. Step(c, Idle) /\ req[c].at = "saved" /\ Idle.at = "idle"
    BY <1>11 DEF WriteAudit, Respond, Idle
  <2>2. UNCHANGED accounts /\ UNCHANGED <<sent, rows, carried, lost>>
    BY <1>11 DEF WriteAudit
  <2>3. audited' = audited \cup {Id(c)}
    BY <1>11 DEF WriteAudit
  <2> QED
    BY <2>1, <2>2, <2>3 DEF Step, Audits, Moved
<1> QED
  BY <1>2, <1>3, <1>4, <1>5, <1>7, <1>8, <1>9, <1>10, <1>11 DEF RecordStep

\* The steps of logging in that count or clear, and all the others of a client.
Counting(c) == Submit(c) \/ WrongPassword(c) \/ CountFailure(c) \/ Welcome(c)
LEMMA AccountMoves ==
  ASSUME NEW c \in Client, AccountStep(c)
  PROVE  \/ Counting(c)
         \/ /\ UNCHANGED <<scene, failures, guesses>>
            /\ \/ UNCHANGED <<req, sent>>
               \/ Moved(c, {"idle"}, Right) /\ sent' = [sent EXCEPT ![c]["auth"] = @ + 1]
               \/ Moved(c, Right, Right) /\ UNCHANGED sent
<1>1. CASE EnterWithoutToken(c) \/ EnterWithToken(c) \/ Logout(c)
  BY <1>1 DEF EnterWithoutToken, EnterWithToken, Logout, Respond, Step, Idle, Moved, Right
<1>2. CASE OpenForm(c)
  BY <1>2 DEF OpenForm, Send, Idle, Moved, Right
<1>3. CASE CreateDevice(c) \/ WrongToken(c) \/ FinishEnrolment(c)
  BY <1>3 DEF CreateDevice, WrongToken, FinishEnrolment, Respond, Step, Idle, Moved, Right
<1>4. CASE ConfirmDevice(c)
  <2>1. PICK l \in {"right"} : Step(c, [req[c] EXCEPT !.at = l])
    BY <1>4 DEF ConfirmDevice
  <2>2. req[c].at = "token" /\ UNCHANGED <<scene, failures, guesses, sent>>
    BY <1>4 DEF ConfirmDevice
  <2>3. [req[c] EXCEPT !.at = l].at = l
    OBVIOUS
  <2> QED
    BY <2>1, <2>2, <2>3 DEF Step, Moved, Right
<1> QED
  BY <1>1, <1>2, <1>3, <1>4 DEF AccountStep, Counting

\* A step of logging in or of enrolling, as the records see it.
Login == Right \cup {"password", "refused"}
LEMMA AccountMovesOnly ==
  ASSUME NEW c \in Client, AccountStep(c)
  PROVE  /\ UNCHANGED scene
         /\ \/ UNCHANGED <<req, sent>>
            \/ /\ Moved(c, Login, Login)
               /\ UNCHANGED sent \/ sent' = [sent EXCEPT ![c]["auth"] = @ + 1]
<1>1. ASSUME NEW from, NEW to, Moved(c, from, to), from \subseteq Login, to \subseteq Login
      PROVE  Moved(c, Login, Login)
  BY <1>1 DEF Moved
<1>2. Right \subseteq Login /\ {"idle", "password", "refused", "welcomed"} \subseteq Login
  BY DEF Login, Right
<1>3. CASE Submit(c)
  <2>1. req[c].at = "idle" /\ Step(c, [at |-> "password"])
    BY <1>3 DEF Submit, Send, Step, Idle
  <2>2. Moved(c, {"idle"}, {"password"})
    BY <2>1, Goes
  <2> QED
    BY <1>1, <1>2, <1>3, <2>2 DEF Submit, Send
<1>4. CASE WrongPassword(c)
  <2>1. req[c].at = "password" /\ Step(c, [at |-> "refused"])
    BY <1>4 DEF WrongPassword
  <2>2. Moved(c, {"password"}, {"refused"})
    BY <2>1, Goes
  <2> QED
    BY <1>1, <1>2, <1>4, <2>2 DEF WrongPassword
<1>5. CASE CountFailure(c)
  <2>1. req[c].at = "refused" /\ Step(c, [at |-> "idle"])
    BY <1>5 DEF CountFailure, Respond, Idle
  <2>2. Moved(c, {"refused"}, {"idle"})
    BY <2>1, Goes
  <2> QED
    BY <1>1, <1>2, <1>5, <2>2 DEF CountFailure
<1>6. CASE Welcome(c)
  <2>1. req[c].at = "password" /\ Step(c, [at |-> "welcomed"])
    BY <1>6 DEF Welcome
  <2>2. Moved(c, {"password"}, {"welcomed"})
    BY <2>1, Goes
  <2> QED
    BY <1>1, <1>2, <1>6, <2>2 DEF Welcome
<1> QED
  BY <1>1, <1>2, <1>3, <1>4, <1>5, <1>6, AccountMoves DEF Counting

\* A worker dies.
LEMMA CrashMoves ==
  ASSUME NEW c \in Client, Crash(c)
  PROVE  /\ \E r : req' = [req EXCEPT ![c] = r] /\ r.at = "idle"
         /\ req[c].at # "idle" \/ req[c] # Idle
         /\ UNCHANGED <<scene, failures, sent, rows, carried, audited>>
         /\ lost' = IF req[c].at = "saved" THEN lost \cup {Id(c)} ELSE lost
<1>1. req' = [req EXCEPT ![c] = Idle] /\ Idle.at = "idle" /\ req[c] # Idle
  BY DEF Crash, LoseRequest, Respond, Step, Idle
<1> QED
  BY <1>1 DEF Crash, LoseRequest

-----------------------------------------------------------------------------
(* The counters *)

\* Every client is of some user.
LEMMA UserOfClient ==
  ASSUME scene \in Scenarios, NEW c \in Client
  PROVE  Who(c) \in User
BY AccountSizes DEF Who

\* The counters are numbers, at first and after every step.
LEMMA CountersHold == Init => Counters
BY AccountSizes DEF Init, AccountsInit, RecordsInit, Counters

LEMMA CountersStep ==
  ASSUME Counters, [Next]_vars
  PROVE  Counters'
<1> USE DEF Counters
<1>1. CASE UNCHANGED vars
  BY <1>1 DEF vars, accountVars, recordVars, rows
<1>2. ASSUME NEW c \in Client, AccountStep(c), UNCHANGED recordVars
      PROVE  Counters'
  <2>1. UNCHANGED <<peer, served>>
    BY <1>2 DEF recordVars, rows
  <2>2. scene' = scene /\ sent' \in [Client -> [auth : Nat, writes : Nat]]
    BY <1>2, AccountMovesOnly
  <2>3. req' = [b \in Client |-> req'[b]]
    BY <1>2, AccountMovesOnly DEF Moved
  <2>4. failures' \in [User -> Nat] /\ guesses' \in [User -> Nat]
    <3>1. CASE Counting(c)
      <4>1. CASE Submit(c) \/ Welcome(c)
        BY <4>1 DEF Submit, Welcome
      <4>2. CASE WrongPassword(c)
        BY <4>2, UserOfClient DEF WrongPassword
      <4>3. CASE CountFailure(c)
        BY <4>3, UserOfClient DEF CountFailure
      <4> QED
        BY <3>1, <4>1, <4>2, <4>3 DEF Counting
    <3> QED
      BY <1>2, <3>1, AccountMoves
  <2> QED
    BY <2>1, <2>2, <2>3, <2>4
<1>3. ASSUME NEW u \in User, Cooloff(u), UNCHANGED recordVars
      PROVE  Counters'
  BY <1>3 DEF Cooloff, recordVars, rows
<1>4. ASSUME NEW c \in Client, RecordStep(c)
      PROVE  Counters'
  <2>1. UNCHANGED accounts /\ (Begins(c) \/ Saves(c) \/ Refuses(c) \/ Audits(c))
    BY <1>4, RecordMoves
  <2>2. UNCHANGED <<scene, failures, guesses>>
    BY <2>1 DEF accounts
  <2>3. req' = [b \in Client |-> req'[b]] /\ sent' \in [Client -> [auth : Nat, writes : Nat]]
    BY <2>1 DEF Begins, Saves, Refuses, Audits, Moved
  <2>4. peer' \in [count : Nat, issued : BOOLEAN] /\ served' \in Nat
    <3>1. CASE Begins(c) \/ Refuses(c) \/ Audits(c)
      BY <3>1 DEF Begins, Refuses, Audits, recordVars, rows
    <3>2. CASE Saves(c)
      <4> DEFINE given == peer.issued \/ ~req[c].seen.issued
      <4>1. given \in BOOLEAN
        BY Zenon
      <4>2. peer.count + 1 \in Nat /\ served + 1 \in Nat
        OBVIOUS
      <4>3. UNCHANGED <<peer, served>> \/ (peer' = [count |-> peer.count + 1, issued |-> given] /\ served' = served + 1)
        BY <3>2 DEF Saves
      <4> HIDE DEF given
      <4> QED
        BY <4>1, <4>2, <4>3
    <3> QED
      BY <2>1, <3>1, <3>2
  <2> QED
    BY <2>2, <2>3, <2>4
<1>5. ASSUME NEW c \in Client, Crash(c)
      PROVE  Counters'
  <2>1. guesses' \in [User -> Nat]
    <3>1. Who(c) \in User
      BY UserOfClient
    <3>2. guesses[Who(c)] = 0 \/ guesses[Who(c)] - 1 \in Nat
      BY <3>1
    <3> QED
      BY <1>5, <3>1, <3>2 DEF Crash, LoseRequest
  <2>2. UNCHANGED <<scene, failures, sent, peer, served>>
    BY <1>5, CrashMoves DEF rows
  <2>3. req' = [b \in Client |-> req'[b]]
    BY <1>5, CrashMoves
  <2> QED
    BY <2>1, <2>2, <2>3
<1> QED
  BY <1>1, <1>2, <1>3, <1>4, <1>5 DEF Next

\* What a step does to the requests: one of them, of c, moves.
OneMoves(c, from, to) ==
  /\ req[c].at \in from /\ req'[c].at \in to
  /\ \A b \in Client \ {c} : req'[b] = req[b]

LEMMA MovesOne ==
  ASSUME Counters, NEW c \in Client, NEW from, NEW to, Moved(c, from, to)
  PROVE  OneMoves(c, from, to)
BY DEF Moved, OneMoves, Counters

\* A step as the records see it: nothing happens to them, a request of c is
\* logged in, is begun, saved, refused or audited, or its worker dies.
Others(c) ==
  /\ UNCHANGED recordVars
  /\ \/ UNCHANGED <<req, sent>>
     \/ /\ OneMoves(c, Login, Login)
        /\ UNCHANGED sent \/ sent' = [sent EXCEPT ![c]["auth"] = @ + 1]
LEMMA RecordsSee ==
  ASSUME Counters, [Next]_vars
  PROVE  \/ UNCHANGED <<recordVars, req, sent>>
         \/ \E c \in Client :
              Others(c) \/ Begins(c) \/ Saves(c) \/ Refuses(c) \/ Audits(c) \/ Crash(c)
<1>1. CASE UNCHANGED vars
  BY <1>1 DEF vars, accountVars
<1>2. ASSUME NEW c \in Client, AccountStep(c), UNCHANGED recordVars
      PROVE  Others(c)
  BY <1>2, AccountMovesOnly, MovesOne DEF Others
<1>3. ASSUME NEW u \in User, Cooloff(u), UNCHANGED recordVars
      PROVE  UNCHANGED <<recordVars, req, sent>>
  BY <1>3 DEF Cooloff
<1>4. ASSUME NEW c \in Client, RecordStep(c)
      PROVE  Begins(c) \/ Saves(c) \/ Refuses(c) \/ Audits(c)
  BY <1>4, RecordMoves
<1> QED
  BY <1>1, <1>2, <1>3, <1>4 DEF Next

-----------------------------------------------------------------------------
(* Downloads *)

\* A download that read a first issue does not see it taken back.
DlInv ==
  /\ DownloadsCounted
  /\ \A c \in Client : Doing(c, "download") /\ req[c].seen.issued => peer.issued

LEMMA DlInit == Init => DlInv
<1> SUFFICES ASSUME Init PROVE DlInv
  OBVIOUS
<1>1. peer.count = 0 /\ peer.issued = FALSE /\ served = 0
  BY DEF Init, RecordsInit
<1>2. \A c \in Client : req[c].at = "idle"
  BY DEF Init, AccountsInit, Idle
<1>3. (served > 0) = FALSE
  BY <1>1
<1> QED
  BY <1>1, <1>2, <1>3 DEF DlInv, DownloadsCounted, Doing

LEMMA DlStep ==
  ASSUME Counters, DlInv, [Next]_vars
  PROVE  DlInv'
<1> USE DEF DlInv
<1>1. CASE UNCHANGED <<recordVars, req, sent>>
  BY <1>1 DEF recordVars, rows, DownloadsCounted, Doing
<1>2. ASSUME NEW c \in Client, UNCHANGED <<peer, served>>,
             \A b \in Client \ {c} : req'[b] = req[b],
             req'[c].at # "checked" \/ (req'[c].op = "download" => req'[c].seen = peer)
      PROVE  DlInv'
  BY <1>2 DEF DownloadsCounted, Doing
<1>3. ASSUME NEW c \in Client, Others(c)
      PROVE  DlInv'
  <2>1. UNCHANGED <<peer, served>>
    BY <1>3 DEF Others, recordVars, rows
  <2>2. CASE UNCHANGED req
    BY <2>1, <2>2 DEF DownloadsCounted, Doing
  <2>3. CASE OneMoves(c, Login, Login)
    BY <1>2, <2>1, <2>3 DEF OneMoves, Login, Right
  <2> QED
    BY <1>3, <2>2, <2>3 DEF Others
<1>4. ASSUME NEW c \in Client, Begins(c)
      PROVE  DlInv'
  <2>1. UNCHANGED <<peer, served>>
    BY <1>4 DEF Begins, recordVars, rows
  <2>2. PICK r : req' = [req EXCEPT ![c] = r] /\ (r.op = "download" => r.seen = peer)
    BY <1>4 DEF Begins
  <2>3. req'[c] = r /\ \A b \in Client \ {c} : req'[b] = req[b]
    BY <2>2 DEF Counters
  <2> QED
    BY <1>2, <2>1, <2>2, <2>3
<1>5. ASSUME NEW c \in Client, Refuses(c) \/ Audits(c)
      PROVE  DlInv'
  <2>1. UNCHANGED <<peer, served>>
    BY <1>5 DEF Refuses, Audits, recordVars, rows
  <2>2. req'[c].at = "idle" /\ \A b \in Client \ {c} : req'[b] = req[b]
    BY <1>5, MovesOne DEF Refuses, Audits, OneMoves
  <2> QED
    BY <1>2, <2>1, <2>2
<1>6. ASSUME NEW c \in Client, Crash(c)
      PROVE  DlInv'
  <2>1. UNCHANGED <<peer, served>>
    BY <1>6, CrashMoves DEF rows
  <2>2. req'[c].at = "idle" /\ \A b \in Client \ {c} : req'[b] = req[b]
    BY <1>6, CrashMoves DEF Counters
  <2> QED
    BY <1>2, <2>1, <2>2
<1>7. ASSUME NEW c \in Client, Saves(c)
      PROVE  DlInv'
  <2>1. req'[c].at = "saved" /\ \A b \in Client \ {c} : req'[b] = req[b]
    BY <1>7, MovesOne DEF Saves, OneMoves
  <2>2. CASE UNCHANGED <<peer, served>>
    BY <1>2, <2>1, <2>2
  <2>3. CASE /\ Doing(c, "download") /\ served' = served + 1
             /\ peer' = [count |-> peer.count + 1, issued |-> peer.issued \/ ~req[c].seen.issued]
    <3>1. peer.issued \/ ~req[c].seen.issued
      BY <2>3
    <3>2. peer'.count = served' /\ served' > 0
      BY <2>3 DEF DownloadsCounted, Counters
    <3>3. peer'.issued = TRUE
      BY <2>3, <3>1
    <3> QED
      BY <2>1, <3>2, <3>3 DEF DownloadsCounted
  <2> QED
    BY <1>7, <2>2, <2>3 DEF Saves
<1> QED
  BY <1>1, <1>3, <1>4, <1>5, <1>6, <1>7, RecordsSee

-----------------------------------------------------------------------------
(* The audit log *)

\* A request to be saved is not yet carried out; one that is saved is carried
\* out and not yet audited; the ones carried out have been sent.
AuditInv ==
  /\ AuditMatches
  /\ \A c \in Client :
       /\ req[c].at = "checked" => Id(c) \notin carried
       /\ req[c].at = "saved" => Id(c) \in carried \ audited
       /\ \A n : <<c, n>> \in carried => n \in Nat /\ n <= sent[c].writes

\* AuditMatches, one request at a time.
LEMMA Lost ==
  AuditMatches <=>
    /\ audited \subseteq carried
    /\ \A x : x \in lost <=> /\ x \in carried /\ x \notin audited
                             /\ ~\E c \in Client : req[c].at = "saved" /\ x = Id(c)
BY DEF AuditMatches

LEMMA LostNext ==
  AuditMatches' <=>
    /\ audited' \subseteq carried'
    /\ \A x : x \in lost' <=> /\ x \in carried' /\ x \notin audited'
                              /\ ~\E c \in Client : req'[c].at = "saved" /\ x = <<c, sent'[c].writes>>
BY DEF AuditMatches, Id

LEMMA AuditInit == Init => AuditInv
<1> SUFFICES ASSUME Init PROVE AuditInv
  OBVIOUS
<1>1. carried = {} /\ audited = {} /\ lost = {}
  BY DEF Init, RecordsInit
<1>2. \A c \in Client : req[c].at = "idle"
  BY DEF Init, AccountsInit, Idle
<1> QED
  BY <1>1, <1>2 DEF AuditInv, AuditMatches

LEMMA AuditStep ==
  ASSUME Counters, AuditInv, [Next]_vars
  PROVE  AuditInv'
<1> USE DEF AuditInv
<1>1. CASE UNCHANGED <<recordVars, req, sent>>
  BY <1>1 DEF recordVars, ledger, AuditMatches, Id
\* c, whose request was not saved, goes on, and so do the counts.
<1>2. ASSUME NEW c \in Client, UNCHANGED <<carried, audited, lost>>,
             \A b \in Client : sent'[b].writes = sent[b].writes,
             \A b \in Client \ {c} : req'[b] = req[b],
             req[c].at # "saved", req'[c].at \notin {"checked", "saved"}
      PROVE  AuditInv'
  <2>1. AuditMatches'
    BY <1>2, Lost, LostNext DEF Id
  <2> QED
    BY <1>2, <2>1 DEF Id
<1>3. ASSUME NEW c \in Client, Others(c)
      PROVE  AuditInv'
  <2>1. UNCHANGED <<carried, audited, lost>>
    BY <1>3 DEF Others, recordVars, ledger
  <2>2. CASE UNCHANGED <<req, sent>>
    BY <2>1, <2>2 DEF AuditMatches, Id
  <2>3. CASE /\ OneMoves(c, Login, Login)
             /\ UNCHANGED sent \/ sent' = [sent EXCEPT ![c]["auth"] = @ + 1]
    <3>1. \A b \in Client : sent'[b].writes = sent[b].writes
      BY <2>3 DEF Counters
    <3> QED
      BY <1>2, <2>1, <2>3, <3>1 DEF OneMoves, Login, Right
  <2> QED
    BY <1>3, <2>2, <2>3 DEF Others
<1>4. ASSUME NEW c \in Client, Begins(c)
      PROVE  AuditInv'
  <2>1. UNCHANGED <<carried, audited, lost>> /\ req[c].at = "idle"
    BY <1>4 DEF Begins, recordVars, ledger
  <2>2. req'[c].at = "checked" /\ \A b \in Client \ {c} : req'[b] = req[b]
    BY <1>4 DEF Begins, Counters
  <2>3. /\ sent'[c].writes = sent[c].writes + 1 /\ sent[c].writes \in Nat
        /\ \A b \in Client \ {c} : sent'[b] = sent[b]
    BY <1>4 DEF Begins, Counters
  <2>4. AuditMatches'
    BY <2>1, <2>2, <2>3, Lost, LostNext DEF Id
  <2>5. <<c, sent'[c].writes>> \notin carried
    BY <2>3
  <2>6. \A b \in Client : \A n : <<b, n>> \in carried => n \in Nat /\ n <= sent'[b].writes
    <3> SUFFICES ASSUME NEW b \in Client, NEW n, <<b, n>> \in carried
                 PROVE  n \in Nat /\ n <= sent'[b].writes
      OBVIOUS
    <3>1. n \in Nat /\ n <= sent[b].writes
      OBVIOUS
    <3>2. CASE b = c
      BY <2>3, <3>1, <3>2
    <3>3. CASE b # c
      BY <2>3, <3>1, <3>3
    <3> QED
      BY <3>2, <3>3
  <2>7. ASSUME NEW b \in Client
        PROVE  /\ req'[b].at = "checked" => <<b, sent'[b].writes>> \notin carried
               /\ req'[b].at = "saved" => <<b, sent'[b].writes>> \in carried \ audited
    BY <2>2, <2>3, <2>5 DEF Id
  <2> QED
    BY <2>1, <2>4, <2>6, <2>7 DEF Id
<1>5. ASSUME NEW c \in Client, Refuses(c)
      PROVE  AuditInv'
  BY <1>2, <1>5, MovesOne DEF Refuses, OneMoves, recordVars, ledger
<1>6. ASSUME NEW c \in Client, Saves(c)
      PROVE  AuditInv'
  <2>1. /\ req[c].at = "checked" /\ req'[c].at = "saved"
        /\ \A b \in Client \ {c} : req'[b] = req[b]
    BY <1>6, MovesOne DEF Saves, OneMoves
  <2>2. UNCHANGED <<sent, audited, lost>> /\ carried' = carried \cup {Id(c)}
    BY <1>6 DEF Saves
  <2>3. AuditMatches'
    BY <2>1, <2>2, Lost, LostNext DEF Id
  <2>4. sent[c].writes \in Nat
    BY DEF Counters
  <2> QED
    BY <2>1, <2>2, <2>3, <2>4, Lost DEF Id
<1>7. ASSUME NEW c \in Client, Audits(c)
      PROVE  AuditInv'
  <2>1. /\ req[c].at = "saved" /\ req'[c].at = "idle"
        /\ \A b \in Client \ {c} : req'[b] = req[b]
    BY <1>7, MovesOne DEF Audits, OneMoves
  <2>2. UNCHANGED <<sent, carried, lost>> /\ audited' = audited \cup {Id(c)}
    BY <1>7 DEF Audits
  <2>3. AuditMatches'
    BY <2>1, <2>2, Lost, LostNext DEF Id
  <2> QED
    BY <2>1, <2>2, <2>3 DEF Id
<1>8. ASSUME NEW c \in Client, Crash(c)
      PROVE  AuditInv'
  <2>1. req'[c].at = "idle" /\ \A b \in Client \ {c} : req'[b] = req[b]
    BY <1>8, CrashMoves DEF Counters
  <2>2. UNCHANGED <<sent, carried, audited>>
    BY <1>8, CrashMoves
  <2>3. lost' = IF req[c].at = "saved" THEN lost \cup {Id(c)} ELSE lost
    BY <1>8, CrashMoves
  <2>4. AuditMatches'
    BY <2>1, <2>2, <2>3, Lost, LostNext DEF Id
  <2> QED
    BY <2>1, <2>2, <2>4 DEF Id
<1> QED
  BY <1>1, <1>3, <1>4, <1>5, <1>6, <1>7, <1>8, RecordsSee

-----------------------------------------------------------------------------
(* Guesses *)

\* The clients of u whose password is being tried, or was wrong and is not yet
\* counted.
Trying(u) == {c \in Client : Who(c) = u /\ req[c].at \in {"password", "refused"}}
Refused(u) == {c \in Client : Who(c) = u /\ req[c].at = "refused"}
Clients(u) == {c \in Client : Who(c) = u}

\* A wrong password is counted, or about to be; and so many are being tried that
\* were let through under the limit.
GuessInv ==
  \A u \in User :
    /\ guesses[u] <= failures[u] + Cardinality(Refused(u))
    /\ failures[u] + Cardinality(Trying(u)) <= Limit - 1 + Cardinality(Clients(u))

\* Sets of clients, each in the next, have sizes in this order.
LEMMA Sizes ==
  ASSUME NEW C \in SUBSET Client, NEW T \in SUBSET C, NEW R \in SUBSET T
  PROVE  /\ IsFiniteSet(C) /\ IsFiniteSet(T) /\ IsFiniteSet(R)
         /\ Cardinality(C) \in Nat /\ Cardinality(T) \in Nat /\ Cardinality(R) \in Nat
         /\ Cardinality(R) <= Cardinality(T) /\ Cardinality(T) <= Cardinality(C)
<1>1. IsFiniteSet(C)
  BY AccountSizes, FS_Subset
<1>2. IsFiniteSet(T) /\ Cardinality(T) <= Cardinality(C)
  BY <1>1, FS_Subset
<1>3. IsFiniteSet(R) /\ Cardinality(R) <= Cardinality(T)
  BY <1>2, FS_Subset
<1> QED
  BY <1>1, <1>2, <1>3, FS_CardinalityType

\* The sizes of a user's sets, before and after a step, when only c's request moves.
OnlyOf(c) == scene' = scene /\ \A b \in Client \ {c} : req'[b] = req[b]
Tried == {"password", "refused"}
LEMMA SetSizes ==
  ASSUME NEW c \in Client, OnlyOf(c), NEW u
  PROVE  /\ Cardinality(Clients(u)') = Cardinality(Clients(u)) /\ Cardinality(Clients(u)) \in Nat
         /\ Cardinality(Trying(u)) \in Nat /\ Cardinality(Refused(u)) \in Nat
         /\ Cardinality(Trying(u)') \in Nat /\ Cardinality(Refused(u)') \in Nat
         /\ Cardinality(Trying(u)) <= Cardinality(Clients(u))
         /\ Cardinality(Trying(u)') <= Cardinality(Clients(u))
         /\ u # Who(c) \/ (req[c].at \in Tried <=> req'[c].at \in Tried) =>
              Cardinality(Trying(u)') = Cardinality(Trying(u))
         /\ u # Who(c) \/ (req[c].at = "refused" <=> req'[c].at = "refused") =>
              Cardinality(Refused(u)') = Cardinality(Refused(u))
         /\ u = Who(c) /\ req[c].at # "refused" /\ req'[c].at = "refused" =>
              Cardinality(Refused(u)') = Cardinality(Refused(u)) + 1
         /\ u = Who(c) /\ req[c].at = "refused" /\ req'[c].at # "refused" =>
              Cardinality(Refused(u)') = Cardinality(Refused(u)) - 1
         /\ u = Who(c) /\ req[c].at \in Tried /\ req'[c].at \notin Tried =>
              Cardinality(Trying(u)') = Cardinality(Trying(u)) - 1
<1> DEFINE C == Clients(u)  T == Trying(u)  R == Refused(u)
           T1 == Trying(u)' R1 == Refused(u)'
<1>1. Clients(u)' = C
  BY DEF OnlyOf, Clients, Who
<1>2. /\ C \subseteq Client /\ T \subseteq C /\ R \subseteq T
      /\ T1 \subseteq C /\ R1 \subseteq T1
  BY DEF OnlyOf, Clients, Trying, Refused, Who
<1>3. u # Who(c) \/ (req[c].at \in Tried <=> req'[c].at \in Tried) => T1 = T
  BY DEF OnlyOf, Trying, Who, Tried
<1>4. u # Who(c) \/ (req[c].at = "refused" <=> req'[c].at = "refused") => R1 = R
  BY DEF OnlyOf, Refused, Who
<1>5. u = Who(c) /\ req[c].at # "refused" /\ req'[c].at = "refused" => c \notin R /\ R1 = R \cup {c}
  BY DEF OnlyOf, Refused, Who
<1>6. u = Who(c) /\ req[c].at = "refused" /\ req'[c].at # "refused" => c \in R /\ R1 = R \ {c}
  BY DEF OnlyOf, Refused, Who
<1>7. u = Who(c) /\ req[c].at \in Tried /\ req'[c].at \notin Tried => c \in T /\ T1 = T \ {c}
  BY DEF OnlyOf, Trying, Who, Tried
<1> HIDE DEF C, T, R, T1, R1
<1>8. /\ IsFiniteSet(C) /\ IsFiniteSet(T) /\ IsFiniteSet(R)
      /\ Cardinality(C) \in Nat /\ Cardinality(T) \in Nat /\ Cardinality(R) \in Nat
      /\ Cardinality(T) <= Cardinality(C)
  BY <1>2, Sizes
<1>9. Cardinality(T1) \in Nat /\ Cardinality(R1) \in Nat /\ Cardinality(T1) <= Cardinality(C)
  BY <1>2, Sizes
<1>10. c \notin R => Cardinality(R \cup {c}) = Cardinality(R) + 1
  BY <1>8, FS_AddElement
<1>11. c \in R => Cardinality(R \ {c}) = Cardinality(R) - 1
  BY <1>8, FS_RemoveElement
<1>12. c \in T => Cardinality(T \ {c}) = Cardinality(T) - 1
  BY <1>8, FS_RemoveElement
<1> USE DEF C, T, R, T1, R1
<1> QED
  BY <1>1, <1>3, <1>4, <1>5, <1>6, <1>7, <1>8, <1>9, <1>10, <1>11, <1>12

LEMMA GuessInit == Init => GuessInv
<1> SUFFICES ASSUME Init, NEW u \in User
             PROVE  /\ guesses[u] <= failures[u] + Cardinality(Refused(u))
                    /\ failures[u] + Cardinality(Trying(u)) <= Limit - 1 + Cardinality(Clients(u))
  BY DEF GuessInv
<1>1. guesses[u] = 0 /\ failures[u] = 0
  BY DEF Init, AccountsInit
<1>2. Clients(u) \subseteq Client /\ Trying(u) \subseteq Clients(u) /\ Refused(u) \subseteq Trying(u)
  BY DEF Clients, Trying, Refused
<1>3. /\ Cardinality(Clients(u)) \in Nat /\ Cardinality(Trying(u)) \in Nat
      /\ Cardinality(Refused(u)) \in Nat /\ Cardinality(Trying(u)) <= Cardinality(Clients(u))
  BY <1>2, Sizes
<1> QED
  BY <1>1, <1>3, AccountSizes

LEMMA GuessStep ==
  ASSUME Counters, GuessInv, [Next]_vars
  PROVE  GuessInv'
<1> SUFFICES ASSUME NEW u \in User
             PROVE  /\ guesses'[u] <= failures'[u] + Cardinality(Refused(u)')
                    /\ failures'[u] + Cardinality(Trying(u)') <= Limit - 1 + Cardinality(Clients(u)')
  BY DEF GuessInv
<1> DEFINE Kept == /\ guesses'[u] <= failures'[u] + Cardinality(Refused(u)')
                   /\ failures'[u] + Cardinality(Trying(u)') <= Limit - 1 + Cardinality(Clients(u)')
<1>1. /\ guesses[u] <= failures[u] + Cardinality(Refused(u))
      /\ failures[u] + Cardinality(Trying(u)) <= Limit - 1 + Cardinality(Clients(u))
      /\ guesses[u] \in Nat /\ failures[u] \in Nat /\ Limit \in Nat /\ Limit >= 1
  BY AccountSizes DEF GuessInv, Counters
\* No password is tried or counted in this step.
<1>2. CASE UNCHANGED <<scene, failures, guesses, req>>
  BY <1>1, <1>2 DEF Trying, Refused, Clients, Who
<1>3. ASSUME NEW c \in Client, UNCHANGED <<failures, guesses>>, OnlyOf(c),
             req[c].at \notin Tried, req'[c].at \notin Tried
      PROVE  Kept
  BY <1>1, <1>3, SetSizes DEF Tried
<1>4. ASSUME NEW c \in Client, AccountStep(c), ~Counting(c)
      PROVE  Kept
  <2>1. UNCHANGED <<scene, failures, guesses>>
    BY <1>4, AccountMoves
  <2>2. UNCHANGED req \/ Moved(c, {"idle"}, Right) \/ Moved(c, Right, Right)
    BY <1>4, AccountMoves
  <2>3. UNCHANGED req \/ OneMoves(c, {"idle"}, Right) \/ OneMoves(c, Right, Right)
    BY <2>2, MovesOne
  <2> QED
    BY <1>2, <1>3, <2>1, <2>3 DEF OneMoves, OnlyOf, Tried, Right
<1>5. ASSUME NEW c \in Client, RecordStep(c)
      PROVE  Kept
  <2>1. UNCHANGED accounts /\ (Begins(c) \/ Saves(c) \/ Refuses(c) \/ Audits(c))
    BY <1>5, RecordMoves
  <2>2. UNCHANGED <<scene, failures, guesses>>
    BY <2>1 DEF accounts
  <2>3. CASE Begins(c)
    <3>1. req[c].at = "idle" /\ req'[c].at = "checked" /\ OnlyOf(c)
      BY <2>2, <2>3 DEF Begins, OnlyOf, Counters
    <3> QED
      BY <1>3, <2>2, <3>1 DEF Tried
  <2>4. CASE Saves(c) \/ Refuses(c) \/ Audits(c)
    <3>1. OneMoves(c, {"checked"}, {"saved"}) \/ OneMoves(c, {"checked"}, {"idle"}) \/ OneMoves(c, {"saved"}, {"idle"})
      BY <2>4, MovesOne DEF Saves, Refuses, Audits
    <3> QED
      BY <1>3, <2>2, <3>1 DEF OneMoves, OnlyOf, Tried
  <2> QED
    BY <2>1, <2>3, <2>4
\* One is: the request of c moves from a label to another.
<1>6. ASSUME NEW c \in Client, Submit(c)
      PROVE  Kept
  <2>1. failures[Who(c)] < Limit
    BY <1>1, <1>6, UserOfClient DEF Submit, Locked, Counters
  <2>2. /\ UNCHANGED <<failures, guesses>> /\ OnlyOf(c)
        /\ req[c].at = "idle" /\ req'[c].at = "password"
    BY <1>6 DEF Submit, Send, Idle, OnlyOf, Counters
  <2>3. u # Who(c) => Cardinality(Trying(u)') = Cardinality(Trying(u))
    BY <2>2, SetSizes
  <2>4. Cardinality(Refused(u)') = Cardinality(Refused(u))
    BY <2>2, SetSizes
  <2>5. /\ Cardinality(Clients(u)') = Cardinality(Clients(u)) /\ Cardinality(Clients(u)) \in Nat
        /\ Cardinality(Trying(u)') \in Nat /\ Cardinality(Trying(u)') <= Cardinality(Clients(u))
    BY <2>2, SetSizes
  <2> QED
    BY <1>1, <2>1, <2>2, <2>3, <2>4, <2>5
<1>7. ASSUME NEW c \in Client, WrongPassword(c)
      PROVE  Kept
  <2>1. /\ UNCHANGED failures /\ OnlyOf(c)
        /\ req[c].at = "password" /\ req'[c].at = "refused"
    BY <1>7 DEF WrongPassword, Step, OnlyOf, Counters
  <2>2. guesses'[u] = IF u = Who(c) THEN guesses[u] + 1 ELSE guesses[u]
    BY <1>7 DEF WrongPassword, Counters
  <2>3. Cardinality(Refused(u)') = IF u = Who(c) THEN Cardinality(Refused(u)) + 1 ELSE Cardinality(Refused(u))
    BY <2>1, SetSizes
  <2>4. Cardinality(Trying(u)') = Cardinality(Trying(u)) /\ Cardinality(Clients(u)') = Cardinality(Clients(u))
    BY <2>1, SetSizes DEF Tried
  <2>5. Cardinality(Refused(u)) \in Nat
    BY <2>1, SetSizes
  <2> QED
    BY <1>1, <2>1, <2>2, <2>3, <2>4, <2>5
<1>8. ASSUME NEW c \in Client, CountFailure(c)
      PROVE  Kept
  <2>1. /\ UNCHANGED guesses /\ OnlyOf(c)
        /\ req[c].at = "refused" /\ req'[c].at = "idle"
    BY <1>8 DEF CountFailure, Respond, Step, Idle, OnlyOf, Counters
  <2>2. failures'[u] = IF u = Who(c) THEN failures[u] + 1 ELSE failures[u]
    BY <1>8 DEF CountFailure, Counters
  <2>3. Cardinality(Refused(u)') = IF u = Who(c) THEN Cardinality(Refused(u)) - 1 ELSE Cardinality(Refused(u))
    BY <2>1, SetSizes
  <2>4. Cardinality(Trying(u)') = IF u = Who(c) THEN Cardinality(Trying(u)) - 1 ELSE Cardinality(Trying(u))
    BY <2>1, SetSizes DEF Tried
  <2>5. /\ Cardinality(Clients(u)') = Cardinality(Clients(u)) /\ Cardinality(Clients(u)) \in Nat
        /\ Cardinality(Refused(u)) \in Nat /\ Cardinality(Trying(u)) \in Nat
    BY <2>1, SetSizes
  <2> QED
    BY <1>1, <2>1, <2>2, <2>3, <2>4, <2>5
<1>9. ASSUME NEW c \in Client, Welcome(c)
      PROVE  Kept
  <2>1. /\ OnlyOf(c) /\ req[c].at = "password" /\ req'[c].at = "welcomed"
    BY <1>9 DEF Welcome, Step, OnlyOf, Counters
  <2>2. /\ failures'[u] = IF u = Who(c) THEN 0 ELSE failures[u]
        /\ guesses'[u] = IF u = Who(c) THEN 0 ELSE guesses[u]
    BY <1>9 DEF Welcome, Counters
  <2>3. Cardinality(Refused(u)') = Cardinality(Refused(u)) /\ Cardinality(Refused(u)) \in Nat
    BY <2>1, SetSizes
  <2>4. /\ Cardinality(Clients(u)') = Cardinality(Clients(u)) /\ Cardinality(Clients(u)) \in Nat
        /\ Cardinality(Trying(u)') \in Nat /\ Cardinality(Trying(u)') <= Cardinality(Clients(u))
        /\ u # Who(c) => Cardinality(Trying(u)') = Cardinality(Trying(u))
    BY <2>1, SetSizes
  <2> QED
    BY <1>1, <2>2, <2>3, <2>4
<1>10. ASSUME NEW v \in User, Cooloff(v)
       PROVE  Kept
  <2>1. /\ Trying(u)' = Trying(u) /\ Refused(u)' = Refused(u) /\ Clients(u)' = Clients(u)
    BY <1>10 DEF Cooloff, Trying, Refused, Clients, Who
  <2>2. /\ failures'[u] = IF u = v THEN 0 ELSE failures[u]
        /\ guesses'[u] = IF u = v THEN 0 ELSE guesses[u]
    BY <1>10 DEF Cooloff, Counters
  <2>3. /\ Clients(u) \subseteq Client /\ Trying(u) \subseteq Clients(u) /\ Refused(u) \subseteq Trying(u)
    BY DEF Clients, Trying, Refused
  <2>4. /\ Cardinality(Clients(u)) \in Nat /\ Cardinality(Trying(u)) \in Nat
        /\ Cardinality(Refused(u)) \in Nat /\ Cardinality(Trying(u)) <= Cardinality(Clients(u))
    BY <2>3, Sizes
  <2> QED
    BY <1>1, <2>1, <2>2, <2>4
<1>11. ASSUME NEW c \in Client, Crash(c)
       PROVE  Kept
  <2>1. req'[c].at = "idle" /\ OnlyOf(c) /\ UNCHANGED failures
    BY <1>11, CrashMoves DEF OnlyOf, Counters
  <2>2. guesses'[u] = IF u = Who(c) /\ req[c].at = "refused" /\ guesses[u] # 0
                      THEN guesses[u] - 1 ELSE guesses[u]
    BY <1>11 DEF Crash, LoseRequest, Counters
  <2>3. Cardinality(Refused(u)') = IF u = Who(c) /\ req[c].at = "refused"
                                   THEN Cardinality(Refused(u)) - 1 ELSE Cardinality(Refused(u))
    BY <2>1, SetSizes
  <2>4. Cardinality(Trying(u)') <= Cardinality(Trying(u))
    <3>1. /\ Cardinality(Trying(u)) \in Nat
          /\ u # Who(c) \/ req[c].at \notin Tried => Cardinality(Trying(u)') = Cardinality(Trying(u))
          /\ u = Who(c) /\ req[c].at \in Tried => Cardinality(Trying(u)') = Cardinality(Trying(u)) - 1
      BY <2>1, SetSizes DEF Tried
    <3> QED
      BY <3>1
  <2>5. /\ Cardinality(Clients(u)') = Cardinality(Clients(u)) /\ Cardinality(Clients(u)) \in Nat
        /\ Cardinality(Refused(u)) \in Nat /\ Cardinality(Refused(u)') \in Nat
        /\ Cardinality(Trying(u)) \in Nat /\ Cardinality(Trying(u)') \in Nat
    BY <2>1, SetSizes
  <2> QED
    BY <1>1, <2>1, <2>2, <2>3, <2>4, <2>5
<1>12. CASE UNCHANGED vars
  BY <1>2, <1>12 DEF vars, accountVars
<1> QED
  BY <1>4, <1>5, <1>6, <1>7, <1>8, <1>9, <1>10, <1>11, <1>12 DEF Next, Counting

-----------------------------------------------------------------------------

\* The counters are numbers in every behaviour.
LEMMA AlwaysCounters == Spec => []Counters
BY CountersHold, CountersStep, PTL DEF Spec

\* A user's password is tried wrongly at most AXES_FAILURE_LIMIT times between two
\* clearings of the count, and once more for every other client that was let
\* through before the last failure was counted: however many clients he has.
THEOREM GuessesAreBounded == Spec => []GuessesBounded
<1>1. Spec => []GuessInv
  BY GuessInit, GuessStep, AlwaysCounters, PTL DEF Spec
<1>2. Counters /\ GuessInv => GuessesBounded
  <2> SUFFICES ASSUME Counters, GuessInv, NEW u \in User
               PROVE  guesses[u] <= Limit + Cardinality(Clients(u)) - 1
    BY DEF GuessesBounded, Clients
  <2>1. Clients(u) \subseteq Client /\ Trying(u) \subseteq Clients(u) /\ Refused(u) \subseteq Trying(u)
    BY DEF Clients, Trying, Refused
  <2>2. /\ Cardinality(Clients(u)) \in Nat /\ Cardinality(Trying(u)) \in Nat
        /\ Cardinality(Refused(u)) \in Nat /\ Cardinality(Refused(u)) <= Cardinality(Trying(u))
    BY <2>1, Sizes
  <2>3. /\ guesses[u] <= failures[u] + Cardinality(Refused(u))
        /\ failures[u] + Cardinality(Trying(u)) <= Limit - 1 + Cardinality(Clients(u))
        /\ guesses[u] \in Nat /\ failures[u] \in Nat /\ Limit \in Nat
    BY AccountSizes DEF GuessInv, Counters
  <2> QED
    BY <2>2, <2>3
<1> QED
  BY <1>1, <1>2, AlwaysCounters, PTL

\* What is audited was carried out, and what was carried out and is not audited
\* is either about to be or was lost with its worker.
THEOREM AuditLogMatches == Spec => []AuditMatches
<1>1. Spec => []AuditInv
  BY AuditInit, AuditStep, AlwaysCounters, PTL DEF Spec
<1>2. AuditInv => AuditMatches
  BY DEF AuditInv
<1> QED
  BY <1>1, <1>2, PTL

\* However downloads overlap, each is counted, and the first sets issued_at.
THEOREM DownloadsAreCounted == Spec => []DownloadsCounted
<1>1. Spec => []DlInv
  BY DlInit, DlStep, AlwaysCounters, PTL DEF Spec
<1>2. DlInv => DownloadsCounted
  BY DEF DlInv
<1> QED
  BY <1>1, <1>2, PTL

-----------------------------------------------------------------------------
(* Sessions and devices *)

\* A set of numbers has a least one.
LEMMA LeastNumber ==
  ASSUME NEW D \in SUBSET Nat, D # {}
  PROVE  \E d \in D : \A e \in D : d <= e
<1> DEFINE R == OpToRel(<, Nat)
<1>1. IsWellFoundedOn(R, Nat)
  BY NatLessThanWellFounded
<1>2. \A d, e \in D : e < d => <<e, d>> \in R
  BY DEF OpToRel
<1> HIDE DEF R
<1>3. \E d \in D : \A e \in D : <<e, d>> \notin R
  BY <1>1, WFMin
<1>4. \A d, e \in D : ~(e < d) <=> d <= e
  OBVIOUS
<1> QED
  BY <1>2, <1>3, <1>4, Zenon

LEMMA FirstIsIn ==
  ASSUME NEW D \in SUBSET Nat, D # {}
  PROVE  FirstOf(D) \in D
BY LeastNumber DEF FirstOf

\* What sessions and devices are.
SessionTypes ==
  /\ session \in [Client -> {"none", "in", "verified"}]
  /\ device \in [User -> [Device -> {"none", "new", "confirmed"}]]

\* A login that c saved, or is about to save, was recorded; who enrols is logged in.
Recorded(c) ==
  /\ session[c] # "none" \/ req[c].at = "welcomed" =>
       Who(c) \in logins /\ (Who(c) \in scene.profiled => Who(c) \in visits)
  /\ Enrolling(c) => session[c] # "none"
  /\ session[c] = "verified" \/ req[c].at = "right" => Devices(Who(c)) # {}
  /\ req[c].at = "token" => req[c].dev \in Devices(Who(c))

\* What the enrolment form of c has seen, and what c has shown, still holds.
SeenStays(c) ==
  LET u == Who(c) IN
  /\ req[c].at = "form" => \A d \in Device : device[u][d] = "none"
  /\ req[c].at = "token" => req[c].dev \in Device /\ device[u][req[c].dev] = "new"
  /\ req[c].at = "right" \/ session[c] = "verified" => Confirmed(u) # {}

OneDevice(u) ==
  \A d, e \in Device : device[u][d] # "none" /\ device[u][e] # "none" => d = e

\* One form of u at a time.
OneForm(u) ==
  \A b, c \in Client : Who(b) = u /\ Who(c) = u /\ Enrolling(b) /\ Enrolling(c) => b = c

SessionInv ==
  /\ SessionTypes
  /\ \A c \in Client : Recorded(c)
  /\ \A c \in Client : Who(c) \notin overlapped => SeenStays(c)
  /\ \A u \in User \ overlapped : OneDevice(u) /\ OneForm(u)

LEMMA SessionInit == Init => SessionInv
<1> SUFFICES ASSUME Init PROVE SessionInv
  OBVIOUS
<1> DEFINE Settled(u) == scene.auth = 0
           Staff(u) == scene.role[u] # "student"
<1>1. /\ overlapped = {} /\ req = [c \in Client |-> Idle]
      /\ session = [c \in Client |-> IF ~Settled(Who(c)) THEN "none"
                                     ELSE IF IsStaffRole(c) THEN "verified" ELSE "in"]
      /\ device = [u \in User |-> [d \in Device |->
                    IF Settled(u) /\ Staff(u) /\ d = FirstOf(Device) THEN "confirmed" ELSE "none"]]
      /\ logins = {u \in User : Settled(u)}
      /\ visits = {u \in scene.profiled : Settled(u)}
      /\ scene \in Scenarios
  BY DEF Init, AccountsInit
<1>2. FirstOf(Device) \in Device
  BY FirstIsIn, AccountSizes
<1>3. \A c \in Client : Who(c) \in User
  BY <1>1, UserOfClient
<1>4. SessionTypes
  BY <1>1 DEF SessionTypes
<1>5. \A c \in Client : req[c].at = "idle"
  BY <1>1 DEF Idle
<1>6. ASSUME NEW u \in User, Settled(u), Staff(u)
      PROVE  Confirmed(u) # {}
  BY <1>1, <1>2, <1>6 DEF Confirmed
<1>7. ASSUME NEW c \in Client
      PROVE  Recorded(c)
  <2>1. session[c] = "verified" => Devices(Who(c)) # {}
    <3>1. session[c] = "verified" => Settled(Who(c)) /\ Staff(Who(c))
      BY <1>1 DEF IsStaffRole, Role
    <3> QED
      BY <1>3, <1>6, <3>1 DEF Devices
  <2>2. session[c] # "none" => Who(c) \in logins /\ (Who(c) \in scene.profiled => Who(c) \in visits)
    BY <1>1, <1>3
  <2> QED
    BY <1>5, <2>1, <2>2 DEF Recorded, Enrolling
<1>8. ASSUME NEW c \in Client
      PROVE  SeenStays(c)
  <2>1. session[c] = "verified" => Settled(Who(c)) /\ Staff(Who(c))
    BY <1>1 DEF IsStaffRole, Role
  <2> QED
    BY <1>3, <1>5, <1>6, <2>1 DEF SeenStays
<1>9. ASSUME NEW u \in User
      PROVE  OneDevice(u) /\ OneForm(u)
  BY <1>1, <1>5, <1>6 DEF OneDevice, OneForm, Enrolling
<1> QED
  BY <1>4, <1>7, <1>8, <1>9 DEF SessionInv

\* A step of c after which it is not enrolling, in which no device changes.
Quiet(c) ==
  /\ UNCHANGED <<scene, device, overlapped>>
  /\ logins \subseteq logins' /\ visits \subseteq visits'
  /\ session' \in [Client -> {"none", "in", "verified"}]
  /\ \A b \in Client \ {c} : req'[b] = req[b] /\ session'[b] = session[b]
  /\ req'[c].at \notin {"form", "token", "right"}
  /\ session'[c] # "none" \/ req'[c].at = "welcomed" =>
       Who(c) \in logins' /\ (Who(c) \in scene.profiled => Who(c) \in visits')
  /\ session'[c] = "verified" /\ Who(c) \notin overlapped => Confirmed(Who(c)) # {}
  /\ session'[c] = "verified" => Devices(Who(c)) # {}

LEMMA QuietKeeps ==
  ASSUME SessionInv, NEW c \in Client, Quiet(c)
  PROVE  SessionInv'
<1>1. /\ \A b \in Client : Who(b)' = Who(b) /\ Role(b)' = Role(b)
      /\ \A u : Confirmed(u)' = Confirmed(u) /\ Devices(u)' = Devices(u)
  BY DEF Quiet, Who, Role, Confirmed, Unconfirmed, Devices
<1>2. SessionTypes'
  BY DEF SessionInv, SessionTypes, Quiet
<1>3. ~Enrolling(c)' /\ \A b \in Client : Enrolling(b)' => b # c /\ Enrolling(b)
  BY DEF Quiet, Enrolling
<1>4. ASSUME NEW b \in Client
      PROVE  Recorded(b)'
  <2>1. CASE b = c
    BY <1>1, <1>3, <2>1 DEF Quiet, Recorded
  <2>2. CASE b # c
    <3>1. Recorded(b) /\ req'[b] = req[b] /\ session'[b] = session[b] /\ logins \subseteq logins' /\ visits \subseteq visits'
      BY <2>2 DEF SessionInv, Quiet
    <3>2. scene' = scene
      BY DEF Quiet
    <3>3. PICK u : u = Who(b)
      OBVIOUS
    <3>4. Who(b)' = u /\ Devices(u)' = Devices(u)
      BY <1>1, <3>3
    <3> QED
      BY <3>1, <3>2, <3>3, <3>4 DEF Recorded, Enrolling
  <2> QED
    BY <2>1, <2>2
<1>5. ASSUME NEW b \in Client, Who(b)' \notin overlapped'
      PROVE  SeenStays(b)'
  <2>0. Who(b) \notin overlapped /\ SeenStays(b) /\ device' = device
    BY <1>1, <1>5 DEF SessionInv, Quiet
  <2>1. CASE b = c
    BY <1>1, <2>0, <2>1 DEF Quiet, SeenStays
  <2>2. CASE b # c
    <3>1. req'[b] = req[b] /\ session'[b] = session[b]
      BY <2>2 DEF Quiet
    <3> QED
      BY <1>1, <2>0, <3>1 DEF SeenStays
  <2> QED
    BY <2>1, <2>2
<1>6. ASSUME NEW u \in User \ overlapped'
      PROVE  OneDevice(u)' /\ OneForm(u)'
  <2>1. OneDevice(u) /\ OneForm(u) /\ device' = device
    BY DEF SessionInv, Quiet
  <2> QED
    BY <1>1, <1>3, <2>1 DEF OneDevice, OneForm
<1> QED
  BY <1>2, <1>4, <1>5, <1>6 DEF SessionInv


\* The request of c moves on, and it is neither logged in nor enrolling.
LEMMA MovesQuietly ==
  ASSUME Counters, SessionInv, NEW c \in Client, NEW r,
         UNCHANGED <<scene, session, device, overlapped, logins, visits>>,
         req' = [req EXCEPT ![c] = r],
         r.at \notin {"form", "token", "right", "welcomed"}
  PROVE  Quiet(c)
<1>1. req'[c] = r /\ \A b \in Client \ {c} : req'[b] = req[b]
  BY DEF Counters
<1>2. Recorded(c) /\ (Who(c) \notin overlapped => SeenStays(c)) /\ SessionTypes
  BY DEF SessionInv
<1> QED
  BY <1>1, <1>2 DEF Quiet, Recorded, SeenStays, SessionTypes

LEMMA QuietSteps ==
  ASSUME Counters, SessionInv, NEW c \in Client,
         \/ Submit(c) \/ WrongPassword(c) \/ CountFailure(c) \/ Welcome(c)
         \/ EnterWithoutToken(c) \/ EnterWithToken(c) \/ Logout(c) \/ FinishEnrolment(c)
         \/ RecordStep(c) \/ Crash(c)
  PROVE  Quiet(c)
<1>1. Recorded(c) /\ (Who(c) \notin overlapped => SeenStays(c)) /\ SessionTypes
  BY DEF SessionInv
<1>2. CASE Submit(c) \/ WrongPassword(c) \/ CountFailure(c)
  <2>1. PICK l \in {"password", "refused", "idle"} : req' = [req EXCEPT ![c] = [at |-> l]]
    BY <1>2 DEF Submit, Send, WrongPassword, CountFailure, Respond, Step, Idle
  <2>2. UNCHANGED <<scene, session, device, overlapped, logins, visits>>
    BY <1>2 DEF Submit, WrongPassword, CountFailure
  <2> DEFINE r == [at |-> l]
  <2>3. r.at \notin {"form", "token", "right", "welcomed"} /\ req' = [req EXCEPT ![c] = r]
    BY <2>1
  <2> HIDE DEF r
  <2> QED
    BY <2>2, <2>3, MovesQuietly
<1>3. CASE Welcome(c)
  <2>1. req'[c].at = "welcomed" /\ \A b \in Client \ {c} : req'[b] = req[b]
    BY <1>3 DEF Welcome, Step, Counters
  <2>2. UNCHANGED <<scene, session, device, overlapped>> /\ logins' = logins \cup {Who(c)}
    BY <1>3 DEF Welcome
  <2>3. visits \subseteq visits' /\ (Who(c) \in scene.profiled => Who(c) \in visits')
    BY <1>3 DEF Welcome
  <2> QED
    BY <1>1, <2>1, <2>2, <2>3 DEF Quiet, SeenStays, SessionTypes, Recorded
<1>4. CASE EnterWithoutToken(c) \/ EnterWithToken(c) \/ FinishEnrolment(c)
  <2>1. /\ req'[c].at = "idle" /\ \A b \in Client \ {c} : req'[b] = req[b]
        /\ UNCHANGED <<scene, device, overlapped, logins, visits>>
    BY <1>4 DEF EnterWithoutToken, EnterWithToken, FinishEnrolment, Respond, Step, Idle, Counters
  <2>2. req[c].at = "welcomed" \/ session[c] # "none"
    BY <1>1, <1>4 DEF EnterWithoutToken, EnterWithToken, FinishEnrolment, Recorded, Enrolling
  <2>3. Who(c) \in logins /\ (Who(c) \in scene.profiled => Who(c) \in visits)
    BY <1>1, <2>2 DEF Recorded
  <2>4. PICK level \in {"in", "verified"} : session' = [session EXCEPT ![c] = level]
    <3>1. CASE FinishEnrolment(c)
      BY <3>1 DEF FinishEnrolment
    <3>2. CASE EnterWithoutToken(c) \/ EnterWithToken(c)
      BY <3>2 DEF EnterWithoutToken, EnterWithToken, SaveSession
    <3> QED
      BY <1>4, <3>1, <3>2
  <2>5. session' \in [Client -> {"none", "in", "verified"}] /\ \A b \in Client \ {c} : session'[b] = session[b]
    BY <1>1, <2>4 DEF SessionTypes
  <2>7. session'[c] = "verified" => Devices(Who(c)) # {}
    <3>1. CASE FinishEnrolment(c)
      BY <1>1, <3>1 DEF FinishEnrolment, Recorded
    <3>2. CASE EnterWithToken(c)
      BY <3>2 DEF EnterWithToken, ConfirmedTotp, Devices
    <3>3. CASE EnterWithoutToken(c)
      <4>1. session'[c] = "verified" => session[c] = "verified"
        BY <1>1, <3>3 DEF EnterWithoutToken, SaveSession, SessionTypes
      <4> QED
        BY <1>1, <4>1 DEF Recorded
    <3> QED
      BY <1>4, <3>1, <3>2, <3>3
  <2>6. session'[c] = "verified" /\ Who(c) \notin overlapped => Confirmed(Who(c)) # {}
    <3>1. CASE FinishEnrolment(c)
      BY <1>1, <3>1 DEF FinishEnrolment, SeenStays
    <3>2. CASE EnterWithToken(c)
      BY <3>2 DEF EnterWithToken, ConfirmedTotp
    <3>3. CASE EnterWithoutToken(c)
      <4>1. session'[c] = "verified" => session[c] = "verified"
        BY <1>1, <3>3 DEF EnterWithoutToken, SaveSession, SessionTypes
      <4> QED
        BY <1>1, <4>1 DEF SeenStays
    <3> QED
      BY <1>4, <3>1, <3>2, <3>3
  <2> QED
    BY <2>1, <2>3, <2>5, <2>6, <2>7 DEF Quiet
<1>5. CASE Logout(c)
  <2>1. /\ req'[c].at = "idle" /\ UNCHANGED <<scene, device, overlapped, logins, visits, req>>
        /\ session' = [session EXCEPT ![c] = "none"]
    BY <1>5 DEF Logout, Idle
  <2>2. /\ session' \in [Client -> {"none", "in", "verified"}] /\ session'[c] = "none"
        /\ \A b \in Client \ {c} : session'[b] = session[b]
    BY <1>1, <2>1 DEF SessionTypes
  <2> QED
    BY <2>1, <2>2 DEF Quiet
<1>6. CASE RecordStep(c)
  <2>1. UNCHANGED accounts /\ (Begins(c) \/ Saves(c) \/ Refuses(c) \/ Audits(c))
    BY <1>6, RecordMoves
  <2>2. UNCHANGED <<scene, session, device, overlapped, logins, visits>>
    BY <2>1 DEF accounts
  <2>3. PICK r : req' = [req EXCEPT ![c] = r] /\ r.at \in {"checked", "saved", "idle"}
    BY <2>1 DEF Begins, Saves, Refuses, Audits, Moved
  <2> QED
    BY <2>2, <2>3, MovesQuietly
<1>7. CASE Crash(c)
  <2>1. UNCHANGED <<scene, session, device, overlapped, logins, visits>>
    BY <1>7 DEF Crash, LoseRequest
  <2>2. PICK r : req' = [req EXCEPT ![c] = r] /\ r.at = "idle"
    BY <1>7, CrashMoves
  <2> QED
    BY <2>1, <2>2, MovesQuietly
<1> QED
  BY <1>2, <1>3, <1>4, <1>5, <1>6, <1>7

\* A step of c that opens or handles its form: what it does to the devices is of
\* its own user, and the invariant is kept if it is for that user.
Forms(c) ==
  /\ UNCHANGED <<scene, session, logins, visits>>
  /\ overlapped \subseteq overlapped'
  /\ device' \in [User -> [Device -> {"none", "new", "confirmed"}]]
  /\ \A u \in User \ {Who(c)} : device'[u] = device[u]
  /\ \A u \in User : Devices(u) \subseteq Devices(u)'
  /\ \A u \in User : Who(c) = u =>
       /\ req'[c].at = "token" => req'[c].dev \in Devices(u)'
       /\ req'[c].at = "right" => Devices(u)' # {}
  /\ \A b \in Client \ {c} : req'[b] = req[b]
  /\ req'[c].at # "welcomed" /\ session[c] # "none"
  /\ Enrolling(c) \/ Enrolling(c)'

LEMMA FormsKeep ==
  ASSUME Counters, SessionInv, NEW c \in Client, NEW v \in User, Who(c) = v, Forms(c),
         v \notin overlapped' =>
           /\ OneDevice(v)' /\ OneForm(v)' /\ SeenStays(c)'
           /\ \A b \in Client \ {c} : Who(b) = v /\ session[b] = "verified" => Confirmed(v)' # {}
  PROVE  SessionInv'
<1>0. \A b \in Client : Who(b) \in User
  BY UserOfClient DEF Counters
<1>1. /\ \A b \in Client : Who(b)' = Who(b) /\ Role(b)' = Role(b)
      /\ \A u \in User \ {v} : Confirmed(u)' = Confirmed(u)
  BY DEF Forms, Who, Role, Confirmed
<1>2. SessionTypes'
  BY DEF SessionInv, SessionTypes, Forms
<1>3. ASSUME NEW b \in Client
      PROVE  Recorded(b)'
  <2>1. Recorded(b) /\ UNCHANGED <<session, logins, visits, scene>>
    BY DEF SessionInv, Forms
  <2>2. CASE b = c
    <3>2. PICK u \in User : u = Who(c)
      OBVIOUS
    <3>3. Who(c)' = u /\ Devices(u) \subseteq Devices(u)'
      BY <1>1, <3>2 DEF Forms
    <3>4. /\ req'[c].at = "token" => req'[c].dev \in Devices(u)'
          /\ req'[c].at = "right" => Devices(u)' # {}
      BY <3>2 DEF Forms
    <3> QED
      BY <2>1, <2>2, <3>2, <3>3, <3>4 DEF Recorded, Forms
  <2>3. CASE b # c
    <3>1. req'[b] = req[b]
      BY <2>3 DEF Forms
    <3>3. PICK u \in User : u = Who(b)
      BY <1>0
    <3>4. Who(b)' = u /\ Devices(u) \subseteq Devices(u)'
      BY <1>1, <3>3 DEF Forms
    <3> QED
      BY <2>1, <3>1, <3>3, <3>4 DEF Recorded, Enrolling
  <2> QED
    BY <2>2, <2>3
<1>4. ASSUME NEW b \in Client, Who(b)' \notin overlapped'
      PROVE  SeenStays(b)'
  <2>1. CASE b = c
    BY <1>1, <1>4, <2>1
  <2>2. CASE b # c /\ Who(b) = v
    <3>1. v \notin overlapped' /\ OneForm(v)' /\ SeenStays(c)' /\ OneForm(v) /\ SeenStays(b)
      BY <1>1, <1>4, <2>2 DEF SessionInv, Forms
    <3>2. req'[b] = req[b] /\ session'[b] = session[b] /\ Who(b)' = v /\ Who(c)' = v
      BY <1>1, <2>2 DEF Forms
    <3>3. ~Enrolling(b)
      BY <1>1, <2>2, <3>1, <3>2 DEF OneForm, Enrolling, Forms
    <3>4. session[b] = "verified" => Confirmed(v)' # {}
      BY <2>2, <3>1
    <3> QED
      BY <3>2, <3>3, <3>4 DEF SeenStays, Enrolling
  <2>3. CASE Who(b) # v
    <3>1. req'[b] = req[b] /\ session'[b] = session[b] /\ SeenStays(b) /\ Who(b) \in User
      BY <1>0, <1>1, <1>4, <2>3 DEF SessionInv, Forms
    <3>2. device'[Who(b)] = device[Who(b)] /\ Confirmed(Who(b))' = Confirmed(Who(b))
      BY <1>1, <2>3, <3>1 DEF Forms
    <3> QED
      BY <1>1, <3>1, <3>2 DEF SeenStays
  <2> QED
    BY <2>1, <2>2, <2>3
<1>5. ASSUME NEW u \in User \ overlapped'
      PROVE  OneDevice(u)' /\ OneForm(u)'
  <2>1. CASE u = v
    BY <1>5, <2>1
  <2>2. CASE u # v
    <3>1. OneDevice(u) /\ OneForm(u) /\ device'[u] = device[u] /\ Confirmed(u)' = Confirmed(u)
      BY <1>1, <2>2 DEF SessionInv, Forms
    <3>3. \A b \in Client : Who(b)' = u => req'[b] = req[b] /\ Who(b) = u
      BY <1>1, <2>2 DEF Forms
    <3>4. OneForm(u)'
      BY <3>1, <3>3 DEF OneForm, Enrolling
    <3> QED
      BY <3>1, <3>4 DEF OneDevice
  <2> QED
    BY <2>1, <2>2
<1> QED
  BY <1>2, <1>3, <1>4, <1>5 DEF SessionInv


\* Every step on a form of c is one of Forms, and what it leaves is sound.
LEMMA FormSteps ==
  ASSUME Counters, SessionInv, NEW c \in Client, NEW v \in User, Who(c) = v,
         OpenForm(c) \/ CreateDevice(c) \/ WrongToken(c) \/ ConfirmDevice(c)
  PROVE  Forms(c)
<1>1. Recorded(c) /\ SessionTypes
  BY DEF SessionInv
<1>2. CASE OpenForm(c)
  <2>1. \/ req' = [req EXCEPT ![c] = [at |-> "token", dev |-> FirstOf(Unconfirmed(Who(c)))]]
        \/ req' = [req EXCEPT ![c] = [at |-> "form"]]
    BY <1>2 DEF OpenForm, Send
  <2>2. req'[c].at \in {"form", "token"} /\ \A b \in Client \ {c} : req'[b] = req[b]
    BY <2>1 DEF Counters
  <2>3. /\ UNCHANGED <<scene, session, device, logins, visits>> /\ session[c] # "none"
        /\ overlapped \subseteq overlapped'
    BY <1>2 DEF OpenForm, NoteOverlap
  <2>4. \A u \in User : Devices(u)' = Devices(u)
    BY <2>3 DEF Devices, Confirmed, Unconfirmed
  <2>5. req'[c].at = "token" => req'[c].dev \in Devices(v)'
    <3>1. CASE req'[c].at = "token"
      <4>1. Unconfirmed(v) # {} /\ req'[c].dev = FirstOf(Unconfirmed(v))
        BY <1>2, <3>1 DEF OpenForm, Send, Counters
      <4>2. FirstOf(Unconfirmed(v)) \in Unconfirmed(v)
        BY <4>1, FirstIsIn, AccountSizes DEF Unconfirmed
      <4> QED
        BY <2>4, <4>1, <4>2 DEF Devices
    <3> QED
      BY <3>1
  <2> QED
    BY <1>1, <2>2, <2>3, <2>4, <2>5 DEF Forms, SessionTypes, Enrolling
<1>3. CASE CreateDevice(c) \/ WrongToken(c) \/ ConfirmDevice(c)
  <2>1. Enrolling(c) /\ session[c] # "none"
    BY <1>1, <1>3 DEF CreateDevice, WrongToken, ConfirmDevice, Enrolling, Recorded
  <2>2. UNCHANGED <<scene, session, overlapped, logins, visits>>
    BY <1>3 DEF CreateDevice, WrongToken, ConfirmDevice
  <2>3. req'[c].at # "welcomed" /\ \A b \in Client \ {c} : req'[b] = req[b]
    <3>1. CASE CreateDevice(c) \/ WrongToken(c)
      BY <3>1 DEF CreateDevice, WrongToken, Respond, Step, Idle, Counters
    <3>2. CASE ConfirmDevice(c)
      <4>1. PICK l \in {"right"} : req' = [req EXCEPT ![c] = [req[c] EXCEPT !.at = l]]
        BY <3>2 DEF ConfirmDevice, Step
      <4> DEFINE r == [req[c] EXCEPT !.at = l]
      <4>2. req' = [req EXCEPT ![c] = r] /\ r.at # "welcomed"
        <5>1. req[c].at = "token"
          BY <3>2 DEF ConfirmDevice
        <5> QED
          BY <4>1, <5>1
      <4> HIDE DEF r
      <4> QED
        BY <4>2 DEF Counters
    <3> QED
      BY <1>3, <3>1, <3>2
  <2>4. \/ device' = device
        \/ \E d : \E l \in {"new", "confirmed"} : device' = [device EXCEPT ![v][d] = l]
    BY <1>3 DEF CreateDevice, WrongToken, ConfirmDevice
  <2>5. /\ device' \in [User -> [Device -> {"none", "new", "confirmed"}]]
        /\ \A u \in User \ {v} : device'[u] = device[u]
    BY <1>1, <2>4 DEF SessionTypes
  <2>6. \A u \in User : Devices(u) \subseteq Devices(u)'
    <3>1. \/ device' = device
          \/ \E d : \E l \in {"new", "confirmed"} : device' = [device EXCEPT ![v][d] = l]
      BY <2>4
    <3> QED
      BY <1>1, <3>1 DEF SessionTypes, Devices, Confirmed, Unconfirmed
  <2>7. req'[c].at # "token" /\ (req'[c].at = "right" => Devices(v)' # {})
    <3>1. CASE CreateDevice(c) \/ WrongToken(c)
      BY <3>1 DEF CreateDevice, WrongToken, Respond, Step, Idle, Counters
    <3>2. CASE ConfirmDevice(c)
      <4>1. req[c].at = "token" /\ req' = [req EXCEPT ![c] = [req[c] EXCEPT !.at = "right"]]
        BY <3>2 DEF ConfirmDevice, Step
      <4>2. [req[c] EXCEPT !.at = "right"].at = "right"
        BY <4>1
      <4>3. req'[c].at = "right"
        BY <4>1, <4>2 DEF Counters
      <4>4. req[c].dev \in Devices(v)
        BY <4>1 DEF SessionInv, Recorded
      <4> QED
        BY <2>6, <4>3, <4>4
    <3> QED
      BY <1>3, <3>1, <3>2
  <2> QED
    BY <2>1, <2>2, <2>3, <2>5, <2>6, <2>7 DEF Forms
<1> QED
  BY <1>2, <1>3

LEMMA FormStepsKeep ==
  ASSUME Counters, SessionInv, NEW c \in Client, NEW v \in User, Who(c) = v,
         OpenForm(c) \/ CreateDevice(c) \/ WrongToken(c) \/ ConfirmDevice(c)
  PROVE  SessionInv'
<1>1. Forms(c)
  BY FormSteps
<1> SUFFICES ASSUME v \notin overlapped'
             PROVE  /\ OneDevice(v)' /\ OneForm(v)' /\ SeenStays(c)'
                    /\ \A b \in Client \ {c} : Who(b) = v /\ session[b] = "verified" => Confirmed(v)' # {}
  BY <1>1, FormsKeep
<1>2. /\ OneDevice(v) /\ OneForm(v) /\ \A b \in Client : Who(b) = v => SeenStays(b)
      /\ device[v] \in [Device -> {"none", "new", "confirmed"}]
  BY <1>1 DEF SessionInv, SessionTypes, Forms
<1>3. /\ \A b \in Client : Who(b)' = Who(b) /\ session'[b] = session[b]
      /\ \A b \in Client \ {c} : req'[b] = req[b]
  BY <1>1 DEF Forms, Who
<1>4. CASE OpenForm(c)
  <2>1. UNCHANGED device /\ Confirmed(v)' = Confirmed(v)
    BY <1>4 DEF OpenForm, Confirmed
  <2>2. \A b \in Client \ {c} : Who(b) = v => ~Enrolling(b)
    BY <1>4 DEF OpenForm, NoteOverlap
  <2>3. OneForm(v)'
    BY <1>3, <2>2 DEF OneForm, Enrolling
  <2>4. SeenStays(c)'
    <3>1. session[c] = "verified" => Confirmed(v) # {}
      BY <1>2 DEF SeenStays
    <3>2. CASE Unconfirmed(v) # {} /\ req'[c] = [at |-> "token", dev |-> FirstOf(Unconfirmed(v))]
      <4>1. FirstOf(Unconfirmed(v)) \in Unconfirmed(v)
        BY <3>2, FirstIsIn, AccountSizes DEF Unconfirmed
      <4>2. req'[c].at = "token" /\ req'[c].dev = FirstOf(Unconfirmed(v))
        BY <3>2
      <4> QED
        BY <1>3, <2>1, <3>1, <4>1, <4>2 DEF SeenStays, Unconfirmed
    <3>3. CASE NeedsDevice(v) /\ req'[c] = [at |-> "form"]
      <4>1. \A d \in Device : device[v][d] = "none"
        BY <1>2, <3>3 DEF NeedsDevice, Devices, Unconfirmed, Confirmed
      <4> QED
        BY <1>3, <2>1, <3>1, <3>3, <4>1 DEF SeenStays
    <3> QED
      BY <1>4, <3>2, <3>3 DEF OpenForm, Send, Counters
  <2>5. OneDevice(v)'
    BY <1>2, <2>1 DEF OneDevice
  <2> QED
    BY <1>2, <2>1, <2>3, <2>4, <2>5 DEF SeenStays
\* The form of c is the only one of v; it goes on or is done with.
<1>5. CASE CreateDevice(c) \/ WrongToken(c) \/ ConfirmDevice(c)
  <2>1. Enrolling(c)
    BY <1>5 DEF CreateDevice, WrongToken, ConfirmDevice, Enrolling
  <2>2. OneForm(v)'
    BY <1>2, <1>3, <2>1 DEF OneForm, Enrolling
  <2>3. CASE CreateDevice(c)
    <3>1. \A d \in Device : device[v][d] = "none"
      BY <1>2, <2>3 DEF CreateDevice, SeenStays
    <3>2. PICK f : device' = device \/ device' = [device EXCEPT ![v][f] = "new"]
      BY <2>3 DEF CreateDevice
    <3>3. \A d \in Device : device'[v][d] # "none" => d = f /\ device'[v][d] = "new"
      BY <1>2, <3>1, <3>2 DEF SessionInv, SessionTypes
    <3>4. \A b \in Client : Who(b) = v => session[b] # "verified"
      BY <1>2, <2>3, <3>1 DEF CreateDevice, OneDevice, SeenStays, Confirmed
    <3>5. OneDevice(v)'
      BY <3>3, <3>4 DEF OneDevice
    <3>6. req'[c].at = "idle"
      BY <2>3 DEF CreateDevice, Respond, Step, Idle, Counters
    <3>7. SeenStays(c)'
      BY <1>3, <3>4, <3>6 DEF SeenStays
    <3> QED
      BY <2>2, <3>4, <3>5, <3>7
  <2>4. CASE WrongToken(c)
    <3>1. req[c].dev \in Device /\ device[v][req[c].dev] = "new"
      BY <1>2, <2>4 DEF WrongToken, SeenStays
    <3>2. device'[v] = device[v] /\ Confirmed(v)' = Confirmed(v)
      BY <1>2, <2>4, <3>1 DEF WrongToken, Confirmed, SessionInv, SessionTypes
    <3>3. req'[c].at = "idle"
      BY <2>4 DEF WrongToken, Respond, Step, Idle, Counters
    <3>4. SeenStays(c)' /\ OneDevice(v)'
      BY <1>2, <1>3, <3>1, <3>2, <3>3 DEF SeenStays, OneDevice
    <3> QED
      BY <1>2, <2>2, <3>2, <3>4 DEF SeenStays
  <2>5. CASE ConfirmDevice(c)
    <3>1. req[c].dev \in Device /\ device[v][req[c].dev] = "new"
      BY <1>2, <2>5 DEF ConfirmDevice, SeenStays
    <3>2. PICK f \in Device : device' = [device EXCEPT ![v][f] = "confirmed"] /\ device[v][f] = "new"
      BY <2>5, <3>1 DEF ConfirmDevice
    <3>3. device'[v][f] = "confirmed" /\ \A d \in Device : device'[v][d] # "none" => device[v][d] # "none"
      BY <1>2, <3>2 DEF SessionInv, SessionTypes
    <3>4. Confirmed(v)' # {}
      BY <3>3 DEF Confirmed
    <3>5. OneDevice(v)'
      BY <1>2, <3>3, <3>4 DEF OneDevice
    <3>6. req'[c].at = "right"
      <4>1. req[c].at = "token" /\ req' = [req EXCEPT ![c] = [req[c] EXCEPT !.at = "right"]]
        BY <2>5 DEF ConfirmDevice, Step
      <4>2. req'[c] = [req[c] EXCEPT !.at = "right"]
        BY <4>1 DEF Counters
      <4> QED
        BY <4>2
    <3>7. SeenStays(c)'
      BY <1>3, <3>4, <3>6 DEF SeenStays
    <3> QED
      BY <2>2, <3>4, <3>5, <3>7
  <2> QED
    BY <1>5, <2>3, <2>4, <2>5
<1> QED
  BY <1>4, <1>5

LEMMA SessionStep ==
  ASSUME Counters, SessionInv, [Next]_vars
  PROVE  SessionInv'
<1>1. CASE UNCHANGED vars
  BY <1>1 DEF vars, accountVars, SessionInv, SessionTypes, Recorded, SeenStays, OneDevice,
              OneForm, Enrolling, Devices, Confirmed, Unconfirmed, Who
<1>2. ASSUME NEW u \in User, Cooloff(u)
      PROVE  SessionInv'
  BY <1>2 DEF Cooloff, SessionInv, SessionTypes, Recorded, SeenStays, OneDevice,
              OneForm, Enrolling, Devices, Confirmed, Unconfirmed, Who
<1>3. ASSUME NEW c \in Client, AccountStep(c)
      PROVE  SessionInv'
  <2>1. PICK v \in User : Who(c) = v
    BY UserOfClient DEF Counters
  <2> QED
    BY <1>3, <2>1, QuietSteps, QuietKeeps, FormStepsKeep DEF AccountStep
<1>4. ASSUME NEW c \in Client, RecordStep(c) \/ Crash(c)
      PROVE  SessionInv'
  BY <1>4, QuietSteps, QuietKeeps
<1> QED
  BY <1>1, <1>2, <1>3, <1>4 DEF Next

(* How many devices there are *)

\* The clients of u that are not about to make a device.
NoForm(u) == {c \in Client : Who(c) = u /\ req[c].at # "form"}
Room(u) ==
  /\ IsFiniteSet(Devices(u))
  /\ \/ Cardinality(Devices(u)) <= Cardinality(NoForm(u))
     \/ /\ Cardinality(Devices(u)) <= 1
        /\ \A c \in Client : Who(c) = u => req[c].at # "form"
RoomInv == \A u \in User : Room(u)

LEMMA RoomIsFinite == ASSUME NEW u PROVE IsFiniteSet(NoForm(u)) /\ Cardinality(NoForm(u)) \in Nat
<1>1. NoForm(u) \subseteq Client
  BY DEF NoForm
<1> QED
  BY <1>1, AccountSizes, FS_Subset, FS_CardinalityType

LEMMA RoomInit == Init => RoomInv
<1> SUFFICES ASSUME Init, NEW u \in User PROVE Room(u)
  BY DEF RoomInv
<1>1. \A c \in Client : req[c].at = "idle"
  BY DEF Init, AccountsInit, Idle
<1>2. Devices(u) \subseteq {FirstOf(Device)}
  BY DEF Init, AccountsInit, Devices, Confirmed, Unconfirmed
<1>3. PICK d : Devices(u) \subseteq {d}
  BY <1>2
<1>4. Devices(u) = {} \/ Devices(u) = {d}
  BY <1>3
<1>5. IsFiniteSet(Devices(u)) /\ Cardinality(Devices(u)) <= 1
  <2>1. IsFiniteSet({}) /\ Cardinality({}) = 0
    BY FS_EmptySet
  <2>2. IsFiniteSet({d}) /\ Cardinality({d}) = 1
    BY FS_Singleton
  <2> QED
    BY <1>4, <2>1, <2>2
<1> QED
  BY <1>1, <1>5 DEF Room

\* No device is made and nobody opens a form to make one.
LEMMA RoomStays ==
  ASSUME RoomInv, NEW u \in User, Devices(u)' = Devices(u),
         \A c \in Client : Who(c)' = Who(c),
         \A c \in Client : req'[c].at = "form" => req[c].at = "form"
  PROVE  Room(u)'
<1>1. NoForm(u) \subseteq NoForm(u)'
  BY DEF NoForm
<1>2. PICK n, m : n = NoForm(u) /\ m = NoForm(u)'
  OBVIOUS
<1>3. m \subseteq Client
  BY <1>2 DEF NoForm
<1>4. IsFiniteSet(m) /\ n \subseteq m
  BY <1>1, <1>2, <1>3, AccountSizes, FS_Subset
<1>5. Cardinality(n) <= Cardinality(m) /\ Cardinality(m) \in Nat /\ Cardinality(n) \in Nat
  BY <1>4, FS_Subset, FS_CardinalityType
<1>6. Room(u) /\ Cardinality(Devices(u)) \in Nat
  BY FS_CardinalityType DEF RoomInv, Room
<1>7. Cardinality(Devices(u)) <= Cardinality(n) => Cardinality(Devices(u)) <= Cardinality(m)
  BY <1>5, <1>6
<1> QED
  BY <1>2, <1>6, <1>7 DEF Room

\* A device is made by a client that was about to.
LEMMA RoomForOne ==
  ASSUME Counters, SessionInv, RoomInv, NEW c \in Client, NEW v \in User, Who(c) = v,
         CreateDevice(c)
  PROVE  Room(v)'
<1>1. Who(c)' = v /\ \A b \in Client : Who(b)' = Who(b)
  BY UserOfClient DEF Counters, CreateDevice, Who
<1>2. req'[c].at = "idle" /\ \A b \in Client \ {c} : req'[b] = req[b]
  BY DEF CreateDevice, Respond, Step, Idle, Counters
<1>3. req[c].at = "form"
  BY DEF CreateDevice
<1>4. PICK n, D : n = NoForm(v) /\ D = Devices(v)
  OBVIOUS
<1>5. NoForm(v)' = n \cup {c} /\ c \notin n
  BY <1>1, <1>2, <1>3, <1>4 DEF NoForm
<1>6. \/ device' = device
      \/ \E d : device' = [device EXCEPT ![v][d] = "new"]
  BY DEF CreateDevice
<1>7. \E d : Devices(v)' \subseteq D \cup {d}
  <2>1. CASE device' = device
    BY <1>4, <2>1 DEF Devices, Confirmed, Unconfirmed
  <2>2. ASSUME NEW d, device' = [device EXCEPT ![v][d] = "new"]
        PROVE  Devices(v)' \subseteq D \cup {d}
    <3>1. \A e \in Device \ {d} : device'[v][e] = device[v][e]
      BY <1>1, <2>2 DEF SessionInv, SessionTypes
    <3> QED
      BY <1>4, <3>1 DEF Devices, Confirmed, Unconfirmed
  <2> QED
    BY <1>6, <2>1, <2>2
<1>8. IsFiniteSet(n) /\ Cardinality(n) \in Nat /\ IsFiniteSet(D) /\ Cardinality(D) \in Nat
  BY <1>1, <1>4, RoomIsFinite, FS_CardinalityType DEF RoomInv, Room
<1>9. Cardinality(D) <= Cardinality(n)
  BY <1>1, <1>3, <1>4 DEF RoomInv, Room
<1>10. Cardinality(n \cup {c}) = Cardinality(n) + 1
  BY <1>5, <1>8, FS_AddElement
<1>11. PICK d : Devices(v)' \subseteq D \cup {d}
  BY <1>7
<1>12. IsFiniteSet(D \cup {d}) /\ Cardinality(D \cup {d}) <= Cardinality(D) + 1
  <2>1. IsFiniteSet(D \cup {d}) /\ (Cardinality(D \cup {d}) = IF d \in D THEN Cardinality(D) ELSE Cardinality(D) + 1)
    BY <1>8, FS_AddElement
  <2> QED
    BY <1>8, <2>1
<1>13. PICK E : E = Devices(v)'
  OBVIOUS
<1>14. IsFiniteSet(E) /\ Cardinality(E) <= Cardinality(D \cup {d}) /\ Cardinality(E) \in Nat
  BY <1>11, <1>12, <1>13, FS_Subset, FS_CardinalityType
<1>15. Cardinality(D \cup {d}) \in Nat
  BY <1>12, FS_CardinalityType
<1>16. Cardinality(E) <= Cardinality(n \cup {c})
  BY <1>8, <1>9, <1>10, <1>12, <1>14, <1>15
<1> QED
  BY <1>5, <1>13, <1>14, <1>16 DEF Room

LEMMA RoomStep ==
  ASSUME Counters, SessionInv, RoomInv, [Next]_vars
  PROVE  RoomInv'
<1> SUFFICES ASSUME NEW u \in User PROVE Room(u)'
  BY DEF RoomInv
<1>1. ASSUME UNCHANGED <<scene, device, req>>
      PROVE  Room(u)'
  BY <1>1, RoomStays DEF Devices, Confirmed, Unconfirmed, Who
<1>2. ASSUME NEW c \in Client, Quiet(c)
      PROVE  Room(u)'
  <2>1. \A b \in Client : Who(b)' = Who(b) /\ (req'[b].at = "form" => req[b].at = "form")
    BY <1>2 DEF Quiet, Who
  <2> QED
    BY <1>2, <2>1, RoomStays DEF Quiet, Devices, Confirmed, Unconfirmed
<1>3. ASSUME NEW c \in Client, NEW v \in User, Who(c) = v,
             OpenForm(c) \/ CreateDevice(c) \/ WrongToken(c) \/ ConfirmDevice(c)
      PROVE  Room(u)'
  <2>1. Forms(c)
    BY <1>3, FormSteps
  <2>2. \A b \in Client : Who(b)' = Who(b)
    BY <2>1 DEF Forms, Who
  <2>3. CASE u # v
    <3>1. Devices(u)' = Devices(u)
      BY <1>3, <2>1, <2>3 DEF Forms, Devices, Confirmed, Unconfirmed
    <3>2. NoForm(u)' = NoForm(u) /\ \A b \in Client : Who(b) = u => req'[b] = req[b]
      BY <1>3, <2>1, <2>2, <2>3 DEF Forms, NoForm
    <3> QED
      BY <2>2, <3>1, <3>2 DEF RoomInv, Room
  <2>4. CASE u = v /\ OpenForm(c)
    <3>1. UNCHANGED device
      BY <2>4 DEF OpenForm
    <3>2. Devices(v)' = Devices(v)
      BY <3>1 DEF Devices, Confirmed, Unconfirmed
    <3>3. CASE req'[c].at # "form"
      BY <2>1, <2>2, <2>4, <3>2, <3>3, RoomStays DEF Forms
    <3>4. CASE NeedsDevice(v)
      <4>1. Devices(v)' = {}
        BY <3>2, <3>4 DEF NeedsDevice
      <4>2. Cardinality({}) = 0 /\ IsFiniteSet({})
        BY FS_EmptySet
      <4>3. PICK m : m = NoForm(v)'
        OBVIOUS
      <4>4. m \subseteq Client
        BY <4>3 DEF NoForm
      <4>5. Cardinality(m) \in Nat
        BY <4>4, AccountSizes, FS_Subset, FS_CardinalityType
      <4> QED
        BY <2>4, <4>1, <4>2, <4>3, <4>5 DEF Room
    <3> QED
      BY <1>3, <2>4, <3>3, <3>4 DEF OpenForm, Send, Counters
  <2>5. CASE u = v /\ CreateDevice(c)
    BY <1>3, <2>5, RoomForOne
  <2>6. CASE u = v /\ (WrongToken(c) \/ ConfirmDevice(c))
    <3>1. req[c].at = "token" /\ req[c].dev \in Devices(v) /\ SessionTypes
      BY <1>3, <2>6 DEF WrongToken, ConfirmDevice, SessionInv, Recorded
    <3>2. PICK l \in {"new", "confirmed"} :
            device' = device \/ device' = [device EXCEPT ![v][req[c].dev] = l]
      BY <1>3, <2>6 DEF WrongToken, ConfirmDevice
    <3>3. Devices(v)' = Devices(v)
      BY <3>1, <3>2 DEF SessionTypes, Devices, Confirmed, Unconfirmed
    <3>4. req'[c].at # "form"
      <4>1. CASE WrongToken(c)
        BY <4>1 DEF WrongToken, Respond, Step, Idle, Counters
      <4>2. CASE ConfirmDevice(c)
        <5>1. req' = [req EXCEPT ![c] = [req[c] EXCEPT !.at = "right"]]
          BY <4>2 DEF ConfirmDevice, Step
        <5>2. [req[c] EXCEPT !.at = "right"].at = "right"
          BY <3>1
        <5> QED
          BY <5>1, <5>2 DEF Counters
      <4> QED
        BY <2>6, <4>1, <4>2
    <3> QED
      BY <2>1, <2>2, <2>6, <3>3, <3>4, RoomStays DEF Forms
  <2> QED
    BY <1>3, <2>3, <2>4, <2>5, <2>6
<1>4. CASE UNCHANGED vars \/ \E x \in User : Cooloff(x)
  BY <1>1, <1>4 DEF vars, accountVars, Cooloff
<1>5. ASSUME NEW c \in Client, AccountStep(c)
      PROVE  Room(u)'
  <2>1. Who(c) \in User
    BY UserOfClient DEF Counters
  <2> QED
    BY <1>2, <1>3, <1>5, <2>1, QuietSteps DEF AccountStep
<1>6. ASSUME NEW c \in Client, RecordStep(c) \/ Crash(c)
      PROVE  Room(u)'
  BY <1>2, <1>6, QuietSteps
<1> QED
  BY <1>4, <1>5, <1>6 DEF Next

\* Whoever is logged in was recorded, a verified session stands on a device of its
\* user, and nobody gets a second one unless two of the user's forms overlapped, nor
\* then more than the user has clients.
THEOREM SessionsAreBacked == Spec => []SessionsBacked
<1>1. Spec => []SessionInv
  BY SessionInit, SessionStep, AlwaysCounters, PTL DEF Spec
<1>2. Spec => []RoomInv
  BY <1>1, RoomInit, RoomStep, AlwaysCounters, PTL DEF Spec
<1>3. SessionInv /\ RoomInv => SessionsBacked
  <2> SUFFICES ASSUME SessionInv, RoomInv PROVE SessionsBacked
    OBVIOUS
  <2>1. ASSUME NEW u \in User
        PROVE  \/ Cardinality(Devices(u)) <= 1
               \/ /\ u \in overlapped
                  /\ Cardinality(Devices(u)) <= Cardinality({c \in Client : Who(c) = u})
    <3> DEFINE own == {c \in Client : Who(c) = u}
    <3>1. CASE u \notin overlapped
      <4>1. PICK D : D = Devices(u)
        OBVIOUS
      <4>2. \A d, e \in D : d = e
        BY <3>1, <4>1 DEF SessionInv, OneDevice, Devices, Confirmed, Unconfirmed
      <4>3. D = {} \/ \E d : D = {d}
        BY <4>2
      <4>4. Cardinality(D) <= 1
        <5>1. CASE D = {}
          BY <5>1, FS_EmptySet
        <5>2. ASSUME NEW d, D = {d}
              PROVE  Cardinality(D) <= 1
          <6>1. Cardinality({d}) = 1
            BY FS_Singleton
          <6> QED
            BY <5>2, <6>1
        <5> QED
          BY <4>3, <5>1, <5>2
      <4> QED
        BY <4>1, <4>4
    <3>2. CASE u \in overlapped
      <4>1. own \subseteq Client /\ NoForm(u) \subseteq own
        BY DEF NoForm
      <4> HIDE DEF own
      <4>2. IsFiniteSet(own)
        BY <4>1, AccountSizes, FS_Subset
      <4>3. Cardinality(NoForm(u)) <= Cardinality(own) /\ Cardinality(own) \in Nat
        BY <4>1, <4>2, FS_Subset, FS_CardinalityType
      <4>4. Room(u) /\ Cardinality(Devices(u)) \in Nat /\ Cardinality(NoForm(u)) \in Nat
        BY RoomIsFinite, FS_CardinalityType DEF RoomInv, Room
      <4>5. Cardinality(Devices(u)) <= 1 \/ Cardinality(Devices(u)) <= Cardinality(own)
        BY <4>3, <4>4 DEF Room
      <4> QED
        BY <3>2, <4>5 DEF own
    <3> QED
      BY <3>1, <3>2
  <2>2. \A c \in Client : session[c] # "none" =>
          /\ Who(c) \in logins
          /\ Who(c) \in scene.profiled => Who(c) \in visits
          /\ session[c] = "verified" =>
               Devices(Who(c)) # {} /\ (Confirmed(Who(c)) # {} \/ Who(c) \in overlapped)
    BY DEF SessionInv, Recorded, SeenStays
  <2> QED
    BY <2>1, <2>2 DEF SessionsBacked
<1> QED
  BY <1>1, <1>2, <1>3, PTL

-----------------------------------------------------------------------------
(* The scope of what is saved *)

\* What the save of a schedule will write.
Pending(c) == SaveWhole(IF req[c].old = NoVal THEN req[c].new ELSE req[c].old, req[c].new)

\* A request that was checked is still in scope when it is saved, unless a batch
\* or a student was taken away.
ChecksHold(c) ==
  /\ Doing(c, "schedule") =>
       OneTarget(Pending(c)) /\ (~withdrawn => ScheduleInScope(Who(c), Pending(c)))
  /\ Doing(c, "create") \/ Doing(c, "save") => (~withdrawn => StudentInScope(Who(c), req[c].student))

ScopeInv ==
  /\ owner = [b \in Batch |-> owner[b]] /\ enrolled = [b \in Batch |-> enrolled[b]]
  /\ row = [k \in Kind |-> row[k]]
  /\ RecordsInScope
  /\ \A c \in Client : ChecksHold(c)

\* No batch loses its instructor, and none a student, unless that is recorded.
Grows ==
  /\ UNCHANGED scene
  /\ owner' = [b \in Batch |-> owner'[b]] /\ enrolled' = [b \in Batch |-> enrolled'[b]]
  /\ withdrawn => withdrawn'
  /\ ~withdrawn' => owner' = owner /\ \A b \in Batch : enrolled[b] \subseteq enrolled'[b]

LEMMA ScopeGrows ==
  ASSUME Grows, ~withdrawn'
  PROVE  /\ \A u, r : ScheduleInScope(u, r) => ScheduleInScope(u, r)'
         /\ \A u, s : StudentInScope(u, s) => StudentInScope(u, s)'
<1>1. \A u, b : OwnsBatch(u, b) => OwnsBatch(u, b)'
  BY DEF Grows, OwnsBatch
<1>2. \A u, s : OwnsStudent(u, s) => OwnsStudent(u, s)'
  BY DEF Grows, OwnsStudent
<1>3. \A u : IsInstructor(u)' = IsInstructor(u)
  BY DEF Grows, IsInstructor
<1> QED
  BY <1>1, <1>2, <1>3 DEF ScheduleInScope, StudentInScope

\* The checks of a request that does not move still hold.
LEMMA CheckStays ==
  ASSUME ScopeInv, NEW b \in Client, Grows, req'[b] = req[b]
  PROVE  ChecksHold(b)'
<1>1. ChecksHold(b) /\ req'[b] = req[b] /\ Who(b)' = Who(b) /\ (withdrawn => withdrawn')
  BY DEF ScopeInv, Grows, Who
<1>2. \A op : Doing(b, op)' = Doing(b, op)
  BY <1>1 DEF Doing
<1>3. Pending(b)' = Pending(b)
  BY <1>1 DEF Pending
<1>4. PICK p : p = Pending(b)
  OBVIOUS
<1>5. PICK u : u = Who(b)
  OBVIOUS
<1>6. PICK s : s = req[b].student
  OBVIOUS
<1>7. Doing(b, "schedule") => OneTarget(p) /\ (~withdrawn => ScheduleInScope(u, p))
  BY <1>1, <1>4, <1>5 DEF ChecksHold
<1>8. Doing(b, "create") \/ Doing(b, "save") => (~withdrawn => StudentInScope(u, s))
  BY <1>1, <1>5, <1>6 DEF ChecksHold
<1>9. Doing(b, "schedule") => OneTarget(p) /\ (~withdrawn' => ScheduleInScope(u, p)')
  BY <1>1, <1>7, ScopeGrows
<1>10. Doing(b, "create") \/ Doing(b, "save") => (~withdrawn' => StudentInScope(u, s)')
  BY <1>1, <1>8, ScopeGrows
<1>11. Pending(b)' = p /\ Who(b)' = u /\ req'[b].student = s
  BY <1>1, <1>3, <1>4, <1>5, <1>6
<1> QED
  BY <1>2, <1>9, <1>10, <1>11 DEF ChecksHold

\* A schedule, or a row of a student, that is not saved stays in scope.
LEMMA ScheduleStays ==
  ASSUME ScopeInv, Grows, sched' = sched, sched' # NoVal
  PROVE  OneTarget(sched)' /\ (~withdrawn' => ScheduleInScope(sched.by, sched)')
<1>1. sched' = sched /\ OneTarget(sched) /\ (~withdrawn => ScheduleInScope(sched.by, sched))
  BY DEF ScopeInv, RecordsInScope
<1>2. PICK r : r = sched
  OBVIOUS
<1>3. ~withdrawn' => ScheduleInScope(r.by, r)'
  BY <1>1, <1>2, ScopeGrows DEF Grows
<1>4. sched' = r
  BY <1>1, <1>2
<1> QED
  BY <1>1, <1>2, <1>3, <1>4

LEMMA RowStays ==
  ASSUME ScopeInv, Grows, NEW k \in Kind, row'[k] = row[k], row'[k] # NoVal, ~withdrawn'
  PROVE  StudentInScope(row[k].by, row[k].student)'
<1>1. row'[k] = row[k] /\ StudentInScope(row[k].by, row[k].student)
  BY DEF ScopeInv, RecordsInScope, Grows
<1>2. PICK r : r = row[k]
  OBVIOUS
<1>3. StudentInScope(r.by, r.student)'
  BY <1>1, <1>2, ScopeGrows
<1> QED
  BY <1>1, <1>2, <1>3

\* A step that saves neither: c begins, drops or saves something else.
LEMMA ScopeStays ==
  ASSUME ScopeInv, NEW c \in Client, Grows, ChecksHold(c)',
         \A b \in Client \ {c} : req'[b] = req[b],
         sched' \in {NoVal, sched},
         row' = [k \in Kind |-> row'[k]], \A k \in Kind : row'[k] \in {NoVal, row[k]}
  PROVE  ScopeInv'
<1>1. \A b \in Client : ChecksHold(b)'
  BY CheckStays
<1>2. sched' # NoVal => OneTarget(sched)' /\ (~withdrawn' => ScheduleInScope(sched.by, sched)')
  BY ScheduleStays
<1>3. \A k \in Kind : row'[k] # NoVal /\ ~withdrawn' => StudentInScope(row[k].by, row[k].student)'
  BY RowStays
<1> QED
  BY <1>1, <1>2, <1>3 DEF ScopeInv, Grows, RecordsInScope

\* The checks of a request that is not one to be saved hold trivially.
LEMMA NothingToCheck ==
  ASSUME NEW c \in Client,
         req'[c].at = "checked" => req'[c].op \notin {"schedule", "create", "save"}
  PROVE  ChecksHold(c)'
BY DEF ChecksHold, Doing

\* Neither batches nor students change.
LEMMA SameGrows ==
  ASSUME ScopeInv, UNCHANGED <<scene, owner, enrolled, withdrawn>>
  PROVE  Grows
BY DEF Grows, ScopeInv

LEMMA ScopeInit == Init => ScopeInv
<1> SUFFICES ASSUME Init PROVE ScopeInv
  OBVIOUS
<1>1. sched = NoVal /\ row = [k \in Kind |-> NoVal] /\ owner = Owned /\ enrolled = Enrolled
  BY DEF Init, RecordsInit
<1>2. \A c \in Client : req[c].at = "idle"
  BY DEF Init, AccountsInit, Idle
<1> QED
  BY <1>1, <1>2, RecordConstants DEF ScopeInv, RecordsInScope, ChecksHold, Doing

\* The first step: what is to be saved was checked.
LEMMA ScopeBegins ==
  ASSUME Counters, ScopeInv, NEW c \in Client,
         \/ CreateSchedule(c) \/ UpdateSchedule(c) \/ DeleteSchedule(c)
         \/ WriteRow(c) \/ DeleteRow(c) \/ UpdateBatch(c) \/ EnrollChange(c)
         \/ WriteCatalog(c) \/ Download(c)
  PROVE  ScopeInv'
<1>1. ASSUME NEW r, Begin(c, r)
      PROVE  /\ UNCHANGED rows /\ scene' = scene /\ Who(c)' = Who(c)
             /\ req'[c] = r /\ \A b \in Client \ {c} : req'[b] = req[b]
  BY <1>1 DEF Begin, Send, accounts, Counters, Who
<1>2. ASSUME NEW r, Begin(c, r), ChecksHold(c)'
      PROVE  ScopeInv'
  <2>1. Grows
    BY <1>1, <1>2, SameGrows DEF rows
  <2>2. UNCHANGED <<sched, row>>
    BY <1>1, <1>2 DEF rows
  <2> QED
    BY <1>1, <1>2, <2>1, <2>2, ScopeStays DEF ScopeInv
<1>3. ASSUME NEW r, Begin(c, r), r.op \notin {"schedule", "create", "save"}
      PROVE  ScopeInv'
  BY <1>1, <1>2, <1>3, NothingToCheck
<1>4. CASE CreateSchedule(c) \/ UpdateSchedule(c)
  <2>1. PICK old, new :
          LET p == Over(new, IF old = NoVal THEN new ELSE old) IN
          /\ OneTarget(p) /\ ScheduleInScope(Who(c), p)
          /\ Begin(c, [at |-> "checked", op |-> "schedule", old |-> old, new |-> new])
    <3>1. CASE UpdateSchedule(c)
      BY <3>1 DEF UpdateSchedule
    <3>2. CASE CreateSchedule(c)
      <4>1. PICK r : /\ OneTarget(r) /\ ScheduleInScope(Who(c), r)
                     /\ r = [batch |-> r.batch, student |-> r.student]
                     /\ Begin(c, [at |-> "checked", op |-> "schedule", old |-> NoVal, new |-> r])
        BY <3>2 DEF CreateSchedule
      <4>2. Over(r, r) = r
        BY <4>1 DEF Over
      <4> QED
        BY <4>1, <4>2
    <3> QED
      BY <1>4, <3>1, <3>2
  <2>2. PICK p : p = Over(new, IF old = NoVal THEN new ELSE old)
    OBVIOUS
  <2>3. OneTarget(p) /\ ScheduleInScope(Who(c), p)
    BY <2>1, <2>2
  <2>4. PICK r : r = [at |-> "checked", op |-> "schedule", old |-> old, new |-> new]
    OBVIOUS
  <2>5. Begin(c, r) /\ r.op = "schedule" /\ r.old = old /\ r.new = new
    BY <2>1, <2>4
  <2>6. req'[c] = r /\ UNCHANGED rows /\ scene' = scene /\ Who(c)' = Who(c)
    BY <1>1, <2>5
  <2>7. Pending(c)' = p
    BY <2>2, <2>5, <2>6 DEF Pending, SaveWhole, Over
  <2>8. PICK u : u = Who(c)
    OBVIOUS
  <2>9. ScheduleInScope(u, p)'
    BY <2>3, <2>6, <2>8 DEF ScheduleInScope, OwnsBatch, OwnsStudent, IsInstructor, rows
  <2>10. ChecksHold(c)'
    BY <2>3, <2>5, <2>6, <2>7, <2>8, <2>9 DEF ChecksHold, Doing
  <2> QED
    BY <1>2, <2>5, <2>10
<1>5. CASE WriteRow(c)
  <2>1. PICK k, s, op :
          /\ op \in {"create", "save"}
          /\ StudentInScope(Who(c), s)
          /\ Begin(c, [at |-> "checked", op |-> op, kind |-> k, student |-> s])
    BY <1>5 DEF WriteRow
  <2>2. PICK r : r = [at |-> "checked", op |-> op, kind |-> k, student |-> s]
    OBVIOUS
  <2>3. Begin(c, r) /\ r.op \in {"create", "save"} /\ r.student = s
    BY <2>1, <2>2
  <2>4. req'[c] = r /\ UNCHANGED rows /\ scene' = scene /\ Who(c)' = Who(c)
    BY <1>1, <2>3
  <2>5. PICK u : u = Who(c)
    OBVIOUS
  <2>6. StudentInScope(u, s)'
    BY <2>1, <2>4, <2>5 DEF StudentInScope, OwnsStudent, IsInstructor, rows
  <2>7. ChecksHold(c)'
    BY <2>3, <2>4, <2>5, <2>6 DEF ChecksHold, Doing
  <2> QED
    BY <1>2, <2>3, <2>7
<1>6. CASE DeleteSchedule(c) \/ WriteCatalog(c) \/ Download(c)
  BY <1>3, <1>6 DEF DeleteSchedule, WriteCatalog, Download
<1>7. CASE DeleteRow(c) \/ UpdateBatch(c)
  BY <1>3, <1>7 DEF DeleteRow, UpdateBatch
<1>8. CASE EnrollChange(c)
  BY <1>3, <1>8 DEF EnrollChange
<1> QED
  BY <1>4, <1>5, <1>6, <1>7, <1>8


\* The second step: what was checked is saved.
LEMMA ScopeSaves ==
  ASSUME Counters, ScopeInv, NEW c \in Client,
         \/ SaveSchedule(c) \/ DropSchedule(c) \/ SaveRow(c) \/ RefuseDuplicate(c)
         \/ DropRow(c) \/ SaveBatch(c) \/ ChangeEnrolment(c) \/ SaveCatalog(c)
         \/ CountDownload(c) \/ WriteAudit(c)
  PROVE  ScopeInv'
<1>1. /\ scene' = scene /\ Who(c)' = Who(c)
      /\ req'[c].at # "checked" /\ \A b \in Client \ {c} : req'[b] = req[b]
  <2>1. RecordStep(c)
    BY DEF RecordStep
  <2>2. scene' = scene
    BY <2>1, RecordMoves DEF accounts
  <2>3. PICK l \in {"saved", "idle"} : req' = [req EXCEPT ![c] = [at |-> l]]
    BY DEF SaveSchedule, DropSchedule, SaveRow, RefuseDuplicate, DropRow, SaveBatch,
           ChangeEnrolment, SaveCatalog, CountDownload, WriteAudit, Saved, Respond, Step, Idle
  <2>4. req'[c] = [at |-> l] /\ \A b \in Client \ {c} : req'[b] = req[b]
    BY <2>3 DEF Counters
  <2> QED
    BY <2>2, <2>4 DEF Who
<1>2. ChecksHold(c)'
  BY <1>1, NothingToCheck
<1>3. CASE SaveSchedule(c)
  <2>1. Grows /\ row' = row /\ withdrawn' = withdrawn
    BY <1>1, <1>3, SameGrows DEF SaveSchedule
  <2>2. OneTarget(Pending(c)) /\ (~withdrawn => ScheduleInScope(Who(c), Pending(c)))
    BY <1>3 DEF SaveSchedule, ScopeInv, ChecksHold
  <2>3. PICK p : p = Pending(c)
    OBVIOUS
  <2>4. PICK u : u = Who(c)
    OBVIOUS
  <2>5. sched' = [batch |-> p.batch, student |-> p.student, by |-> u]
    BY <1>3, <2>3, <2>4 DEF SaveSchedule, Pending
  <2>6. PICK r : r = [batch |-> p.batch, student |-> p.student, by |-> u]
    OBVIOUS
  <2>7. OneTarget(r) /\ r.by = u /\ (~withdrawn => ScheduleInScope(u, r))
    BY <2>2, <2>3, <2>4, <2>6 DEF OneTarget, ScheduleInScope
  <2>8. ~withdrawn' => ScheduleInScope(u, r)'
    BY <2>1, <2>7, ScopeGrows
  <2>9. OneTarget(sched)' /\ (~withdrawn' => ScheduleInScope(sched.by, sched)')
    <3>1. sched' = r
      BY <2>5, <2>6
    <3> QED
      BY <2>7, <2>8, <3>1
  <2>10. \A k \in Kind : row'[k] # NoVal /\ ~withdrawn' => StudentInScope(row[k].by, row[k].student)'
    BY <2>1, RowStays
  <2>11. \A b \in Client : ChecksHold(b)'
    BY <1>1, <1>2, <2>1, CheckStays
  <2> QED
    BY <2>1, <2>9, <2>10, <2>11 DEF ScopeInv, RecordsInScope, Grows
<1>4. CASE SaveRow(c)
  <2>1. Grows /\ sched' = sched /\ withdrawn' = withdrawn
    BY <1>1, <1>4, SameGrows DEF SaveRow
  <2>2. ~withdrawn => StudentInScope(Who(c), req[c].student)
    BY <1>4 DEF SaveRow, ScopeInv, ChecksHold
  <2>3. PICK u : u = Who(c)
    OBVIOUS
  <2>4. PICK s : s = req[c].student
    OBVIOUS
  <2>5. row' = [row EXCEPT ![req[c].kind] = [student |-> s, by |-> u]]
    BY <1>4, <2>3, <2>4 DEF SaveRow
  <2>6. ~withdrawn' => StudentInScope(u, s)'
    BY <2>1, <2>2, <2>3, <2>4, ScopeGrows
  <2>7. ASSUME NEW k \in Kind, row'[k] # NoVal, ~withdrawn'
        PROVE  StudentInScope(row[k].by, row[k].student)'
    <3>1. CASE row'[k] = row[k]
      BY <2>1, <2>7, <3>1, RowStays
    <3>2. CASE row'[k] # row[k]
      <4>1. row'[k] = [student |-> s, by |-> u]
        BY <2>5, <3>2 DEF ScopeInv
      <4>2. row'[k].student = s /\ row'[k].by = u
        BY <4>1
      <4> QED
        BY <2>6, <2>7, <4>2
    <3> QED
      BY <3>1, <3>2
  <2>8. sched' # NoVal => OneTarget(sched)' /\ (~withdrawn' => ScheduleInScope(sched.by, sched)')
    BY <2>1, ScheduleStays
  <2>9. \A b \in Client : ChecksHold(b)'
    BY <1>1, <1>2, <2>1, CheckStays
  <2>10. row' = [k \in Kind |-> row'[k]]
    BY <2>5 DEF ScopeInv
  <2> QED
    BY <2>1, <2>7, <2>8, <2>9, <2>10 DEF ScopeInv, RecordsInScope, Grows
<1>5. CASE DropSchedule(c) \/ RefuseDuplicate(c) \/ DropRow(c) \/ SaveCatalog(c)
           \/ CountDownload(c) \/ WriteAudit(c)
  <2>1. UNCHANGED <<owner, enrolled, withdrawn>>
    BY <1>5 DEF DropSchedule, RefuseDuplicate, DropRow, SaveCatalog, CountDownload, WriteAudit,
                recordVars, rows
  <2>2. /\ sched' \in {NoVal, sched}
        /\ row' = row \/ \E k : row' = [row EXCEPT ![k] = NoVal]
    BY <1>5 DEF DropSchedule, RefuseDuplicate, DropRow, SaveCatalog, CountDownload, WriteAudit,
                recordVars, rows
  <2>3. row' = [k \in Kind |-> row'[k]] /\ \A k \in Kind : row'[k] \in {NoVal, row[k]}
    BY <2>2 DEF ScopeInv
  <2> QED
    BY <1>1, <1>2, <2>1, <2>2, <2>3, SameGrows, ScopeStays
<1>6. CASE SaveBatch(c) \/ ChangeEnrolment(c)
  <2>1. UNCHANGED <<sched, row>>
    BY <1>6 DEF SaveBatch, ChangeEnrolment
  <2>2. Grows
    <3>1. CASE SaveBatch(c)
      <4>1. owner' = [b \in Batch |-> owner'[b]] /\ enrolled' = enrolled
        BY <3>1 DEF SaveBatch, ScopeInv
      <4>2. (withdrawn => withdrawn') /\ (~withdrawn' => owner' = owner)
        BY <3>1 DEF SaveBatch
      <4> QED
        BY <1>1, <4>1, <4>2 DEF Grows, ScopeInv
    <3>2. CASE ChangeEnrolment(c)
      <4>1. owner' = owner /\ enrolled' = [b \in Batch |-> enrolled'[b]]
        BY <3>2 DEF ChangeEnrolment, ScopeInv
      <4>2. /\ withdrawn => withdrawn'
            /\ ~withdrawn' => \A b \in Batch : enrolled[b] \subseteq enrolled'[b]
        BY <3>2 DEF ChangeEnrolment, ScopeInv
      <4> QED
        BY <1>1, <4>1, <4>2 DEF Grows, ScopeInv
    <3> QED
      BY <1>6, <3>1, <3>2
  <2> QED
    BY <1>1, <1>2, <2>1, <2>2, ScopeStays DEF ScopeInv
<1> QED
  BY <1>3, <1>4, <1>5, <1>6

LEMMA ScopeStep ==
  ASSUME Counters, ScopeInv, [Next]_vars
  PROVE  ScopeInv'
<1>1. CASE UNCHANGED vars \/ \E u \in User : Cooloff(u) /\ UNCHANGED recordVars
  <2>1. UNCHANGED <<recordVars, req, scene>>
    BY <1>1 DEF vars, accountVars, Cooloff
  <2>2. /\ UNCHANGED <<scene, owner, enrolled, withdrawn>> /\ UNCHANGED <<sched, row>>
        /\ \A b \in Client : req'[b] = req[b]
    BY <2>1 DEF recordVars, rows
  <2>3. Grows
    BY <2>2, SameGrows
  <2>4. \A b \in Client : ChecksHold(b)'
    BY <2>2, <2>3, CheckStays
  <2>5. sched' # NoVal => OneTarget(sched)' /\ (~withdrawn' => ScheduleInScope(sched.by, sched)')
    BY <2>2, <2>3, ScheduleStays
  <2>6. \A k \in Kind : row'[k] # NoVal /\ ~withdrawn' => StudentInScope(row[k].by, row[k].student)'
    BY <2>2, <2>3, RowStays
  <2> QED
    BY <2>2, <2>4, <2>5, <2>6 DEF ScopeInv, RecordsInScope
<1>2. ASSUME NEW c \in Client, AccountStep(c), UNCHANGED recordVars
      PROVE  ScopeInv'
  <2>1. UNCHANGED <<scene, owner, enrolled, withdrawn>> /\ UNCHANGED <<sched, row>>
    BY <1>2, AccountMovesOnly DEF recordVars, rows
  <2>2. Grows
    BY <2>1, SameGrows
  <2>3. UNCHANGED req \/ OneMoves(c, Login, Login)
    BY <1>2, AccountMovesOnly, MovesOne
  <2>4. (\A b \in Client \ {c} : req'[b] = req[b]) /\ ChecksHold(c)'
    <3>1. CASE UNCHANGED req
      BY <2>2, <3>1, CheckStays
    <3>2. CASE OneMoves(c, Login, Login)
      BY <3>2, NothingToCheck DEF OneMoves, Login, Right
    <3> QED
      BY <2>3, <3>1, <3>2
  <2> QED
    BY <2>1, <2>2, <2>4, ScopeStays DEF ScopeInv
<1>3. ASSUME NEW c \in Client, RecordStep(c)
      PROVE  ScopeInv'
  BY <1>3, ScopeBegins, ScopeSaves DEF RecordStep
<1>4. ASSUME NEW c \in Client, Crash(c)
      PROVE  ScopeInv'
  <2>1. UNCHANGED <<scene, owner, enrolled, withdrawn>> /\ UNCHANGED <<sched, row>>
    BY <1>4, CrashMoves DEF rows
  <2>2. Grows
    BY <2>1, SameGrows
  <2>3. req'[c].at = "idle" /\ \A b \in Client \ {c} : req'[b] = req[b]
    BY <1>4, CrashMoves DEF Counters
  <2>4. ChecksHold(c)'
    BY <2>3, NothingToCheck
  <2> QED
    BY <2>1, <2>2, <2>3, <2>4, ScopeStays DEF ScopeInv
<1> QED
  BY <1>1, <1>2, <1>3, <1>4 DEF Next

\* Whatever PATCHes meet between their checks and their saves, a schedule has one
\* target, and so long as nothing is withdrawn, what staff saved is in their scope.
THEOREM RecordsStayInScope == Spec => []RecordsInScope
<1>1. Spec => []ScopeInv
  BY ScopeInit, ScopeStep, AlwaysCounters, PTL DEF Spec
<1>2. ScopeInv => RecordsInScope
  BY DEF ScopeInv
<1> QED
  BY <1>1, <1>2, PTL

=============================================================================
