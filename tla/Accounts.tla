------------------------------ MODULE Accounts ------------------------------
(***************************************************************************)
(* Logging in, the lockout after too many wrong passwords, and the TOTP    *)
(* device of a user (apps/accounts/views.py), with the signal receivers    *)
(* that record a login (accounts/signals.py, scheduling/signals.py).       *)
(*                                                                         *)
(* A client is a browser of a user; it sends one request at a time, and a  *)
(* user may have several at one address (the lockout is by name and        *)
(* address, config/settings/base.py:153).  Django saves a session with the *)
(* response, so a request whose worker dies leaves the session as it was.  *)
(* There is no ATOMIC_REQUESTS (config/settings/base.py:93-103): what a    *)
(* request wrote before it died stays.                                     *)
(*                                                                         *)
(* Left out are mfa_enabled, which is displayed but decides nothing and    *)
(* which the admin site sets as it likes (accounts/admin.py:12), and the   *)
(* rows that admins edit by hand there.                                    *)
(***************************************************************************)
EXTENDS Naturals, FiniteSets

CONSTANTS
  Client, User,
  Limit,        \* AXES_FAILURE_LIMIT
  Device,       \* primary keys of TOTP devices, lowest first
  Scenarios,    \* [who, role, profiled, auth, writes]: the user of each client,
                \* the role of each user, the students with a StudentProfile,
                \* and how many requests of each sort a client sends; with
                \* auth = 0 everybody starts enrolled and logged in
  NoVal

ASSUME AccountSizes ==
  /\ IsFiniteSet(Client)
  /\ Limit \in Nat \ {0} /\ Device \subseteq Nat /\ Device # {}
  /\ NoVal \notin Client \cup User \cup Device
  /\ \A z \in Scenarios :
       /\ z.who \in [Client -> User]
       /\ z.role \in [User -> {"admin", "instructor", "student"}]
       /\ z.profiled \subseteq {u \in User : z.role[u] = "student"}
       /\ z.auth \in Nat /\ z.writes \in Nat

VARIABLES
  scene,      \* the scenario of this behaviour
  failures,   \* failures[u]: the failed attempts axes has counted
  guesses,    \* guesses[u]: wrong passwords tried since the count was cleared,
              \* but for those whose request died before it was counted
  session,    \* session[c]: "none", "in" or, after the TOTP step, "verified"
  device,     \* device[u][d]: "none", "new" or "confirmed"
  overlapped, \* the users two of whose enrolment forms were handled at once
  logins,     \* the users with an auth.login_success row
  visits,     \* the students with an AccessSession row
  sent,       \* sent[c]: requests of each sort sent so far
  req         \* req[c]: the request a worker handles for c

accountVars ==
  <<scene, failures, guesses, session, device, overlapped, logins, visits, sent, req>>

Who(c) == scene.who[c]
Role(c) == scene.role[Who(c)]
IsStaffRole(c) == Role(c) \in {"admin", "instructor"}
Idle == [at |-> "idle"]

\* StaffMFARequired: staff need a TOTP device verified in this very session.
StaffMFARequired(c) == IsStaffRole(c) => session[c] = "verified"

Confirmed(u) == {d \in Device : device[u][d] = "confirmed"}
Unconfirmed(u) == {d \in Device : device[u][d] = "new"}
Devices(u) == Confirmed(u) \cup Unconfirmed(u)
FirstOf(ds) == CHOOSE d \in ds : \A e \in ds : d <= e

AccountsInit ==
  /\ scene \in Scenarios
  /\ failures = [u \in User |-> 0]
  /\ guesses = [u \in User |-> 0]
  /\ sent = [c \in Client |-> [auth |-> 0, writes |-> 0]]
  /\ req = [c \in Client |-> Idle]
  /\ overlapped = {}
  /\ LET Settled(u) == scene.auth = 0
         Staff(u) == scene.role[u] # "student" IN
     /\ session = [c \in Client |-> IF ~Settled(Who(c)) THEN "none"
                                    ELSE IF IsStaffRole(c) THEN "verified" ELSE "in"]
     /\ device = [u \in User |-> [d \in Device |->
                    IF Settled(u) /\ Staff(u) /\ d = FirstOf(Device) THEN "confirmed" ELSE "none"]]
     /\ logins = {u \in User : Settled(u)}
     /\ visits = {u \in scene.profiled : Settled(u)}

\* c sends a request; "what" is "auth" or "writes".
Send(c, what, r) ==
  /\ req[c] = Idle
  /\ sent[c][what] < scene[what]
  /\ sent' = [sent EXCEPT ![c][what] = @ + 1]
  /\ req' = [req EXCEPT ![c] = r]

Step(c, r) == req' = [req EXCEPT ![c] = r]
Respond(c) == Step(c, Idle)

-----------------------------------------------------------------------------
(* Logging in *)

\* (bug: one failure more than the limit before the lock)
LockedLate(u) == failures[u] > Limit
Locked(u) == failures[u] >= Limit

\* The axes backend asks again what the view asked before it; the answer of
\* the second time counts (views.py:55-61, 165-169).
Submit(c) ==
  /\ Send(c, "auth", [at |-> "password"])
  /\ ~Locked(Who(c))
  /\ UNCHANGED <<scene, failures, guesses, session, device, overlapped, logins, visits>>

WrongPassword(c) ==
  /\ req[c].at = "password"
  /\ guesses' = [guesses EXCEPT ![Who(c)] = @ + 1]
  /\ Step(c, [at |-> "refused"])
  /\ UNCHANGED <<scene, failures, session, device, overlapped, logins, visits, sent>>

\* The user_login_failed receivers count the failure.
CountFailure(c) ==
  /\ req[c].at = "refused"
  /\ failures' = [failures EXCEPT ![Who(c)] = @ + 1]
  /\ Respond(c)
  /\ UNCHANGED <<scene, guesses, session, device, overlapped, logins, visits, sent>>

\* login(): the user_logged_in receivers clear the count, write the audit row
\* and, for a student with a profile, the AccessSession; the session is not yet
\* saved.
Welcome(c) ==
  /\ req[c].at = "password"
  /\ failures' = [failures EXCEPT ![Who(c)] = 0]
  /\ guesses' = [guesses EXCEPT ![Who(c)] = 0]
  /\ logins' = logins \cup {Who(c)}
  /\ visits' = IF Who(c) \in scene.profiled THEN visits \cup {Who(c)} ELSE visits
  /\ Step(c, [at |-> "welcomed"])
  /\ UNCHANGED <<scene, session, device, overlapped, sent>>

\* The session is saved with the response.  A second login in a verified
\* session keeps its device.
SaveSession(c, level) ==
  session' = [session EXCEPT ![c] = IF @ = "verified" THEN @ ELSE level]

\* No token, a wrong one, the form without a token field, or not staff.
EnterWithoutToken(c) ==
  /\ req[c].at = "welcomed"
  /\ SaveSession(c, "in")
  /\ Respond(c)
  /\ UNCHANGED <<scene, failures, guesses, device, overlapped, logins, visits, sent>>

ConfirmedTotp(u) == Confirmed(u)

\* verify_token saves the row as it was loaded: confirmed.
EnterWithToken(c) ==
  /\ req[c].at = "welcomed" /\ IsStaffRole(c)
  /\ ConfirmedTotp(Who(c)) # {}
  /\ SaveSession(c, "verified")
  /\ Respond(c)
  /\ UNCHANGED <<scene, failures, guesses, device, overlapped, logins, visits, sent>>

Logout(c) ==
  /\ req[c] = Idle /\ session[c] # "none" /\ scene.auth > 0
  /\ session' = [session EXCEPT ![c] = "none"]
  /\ UNCHANGED <<scene, failures, guesses, device, overlapped, logins, visits, sent, req>>

\* An hour without a failure: the attempts no longer count.
Cooloff(u) ==
  /\ failures[u] > 0
  /\ failures' = [failures EXCEPT ![u] = 0]
  /\ guesses' = [guesses EXCEPT ![u] = 0]
  /\ UNCHANGED <<scene, session, device, overlapped, logins, visits, sent, req>>

-----------------------------------------------------------------------------
(* totp_enroll *)

Enrolling(c) == req[c].at \in {"form", "token", "right"}

\* A form is handled while another form of the same user is.
NoteOverlap(c) ==
  overlapped' = overlapped \cup
    {u \in {Who(c)} : \E b \in Client \ {c} : Who(b) = u /\ Enrolling(b)}

\* (bug: a device is made for a user who has confirmed one)
MissesUnconfirmed(u) == Unconfirmed(u) = {}
NeedsDevice(u) == Devices(u) = {}

\* The unconfirmed device is looked up; without one, and without a confirmed
\* one, a device will be made; with a confirmed one the answer is "already
\* enrolled".
OpenForm(c) ==
  /\ session[c] # "none"
  /\ NoteOverlap(c)
  /\ \/ /\ Unconfirmed(Who(c)) # {}
        /\ Send(c, "auth", [at |-> "token", dev |-> FirstOf(Unconfirmed(Who(c)))])
     \/ /\ NeedsDevice(Who(c))
        /\ Send(c, "auth", [at |-> "form"])
  /\ UNCHANGED <<scene, failures, guesses, session, device, logins, visits>>

\* The QR of a new device is shown; no token can be right yet.
CreateDevice(c) ==
  /\ req[c].at = "form"
  /\ LET free == {d \in Device : device[Who(c)][d] = "none"} IN
     device' = IF free = {} THEN device
               ELSE [device EXCEPT ![Who(c)][FirstOf(free)] = "new"]
  /\ Respond(c)
  /\ UNCHANGED <<scene, failures, guesses, session, overlapped, logins, visits, sent>>

\* The form is only shown, or the token is wrong: then verify_token counts the
\* failure and saves the whole row it was called on, unconfirmed as loaded.
WrongToken(c) ==
  /\ req[c].at = "token"
  /\ device' \in {device, [device EXCEPT ![Who(c)][req[c].dev] = "new"]}
  /\ Respond(c)
  /\ UNCHANGED <<scene, failures, guesses, session, overlapped, logins, visits, sent>>

\* verify_token saves the row too; then the device is confirmed and saved.
ConfirmDevice(c) ==
  /\ req[c].at = "token"
  /\ device' = [device EXCEPT ![Who(c)][req[c].dev] = "confirmed"]
  /\ Step(c, [req[c] EXCEPT !.at = "right"])
  /\ UNCHANGED <<scene, failures, guesses, session, overlapped, logins, visits, sent>>

\* otp_login, the audit row and the redirect: the session is saved.
FinishEnrolment(c) ==
  /\ req[c].at = "right"
  /\ session' = [session EXCEPT ![c] = "verified"]
  /\ Respond(c)
  /\ UNCHANGED <<scene, failures, guesses, device, overlapped, logins, visits, sent>>

\* The worker that handles the request of c dies; what it wrote stays.
LoseRequest(c) ==
  /\ req[c] # Idle
  /\ guesses' = IF req[c].at = "refused" THEN [guesses EXCEPT ![Who(c)] = IF @ = 0 THEN 0 ELSE @ - 1] ELSE guesses
  /\ Respond(c)
  /\ UNCHANGED <<scene, failures, session, device, overlapped, logins, visits, sent>>

AccountStep(c) ==
  \/ Submit(c) \/ WrongPassword(c) \/ CountFailure(c) \/ Welcome(c)
  \/ EnterWithoutToken(c) \/ EnterWithToken(c) \/ Logout(c)
  \/ OpenForm(c) \/ CreateDevice(c) \/ WrongToken(c)
  \/ ConfirmDevice(c) \/ FinishEnrolment(c)

=============================================================================
