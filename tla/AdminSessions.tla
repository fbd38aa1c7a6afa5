---------------------------- MODULE AdminSessions ----------------------------
(***************************************************************************)
(* Administrators and their sessions (backend: auth.rs, admin_auth.rs).    *)
(*                                                                         *)
(* Accounts, authenticator devices and enrolments are rows of the          *)
(* database; sessions are kept in memory and are therefore checked against *)
(* the database each time they are used.  A request logs in, or it is      *)
(* admitted with a session and then either confirms an enrolment, opens a  *)
(* WebSocket that is watched by a guard, or presents a one-time code (the  *)
(* step-up) and changes the accounts.                                      *)
(*                                                                         *)
(* A one-time code is a pair of a device and a counter of the clock.  An   *)
(* account stands for its name and its row: a name is not given twice.     *)
(* The operation of a request is chosen where the handler first depends on *)
(* it.  A wrong code and the limiter of failed attempts change nothing     *)
(* that is kept here.  A transaction is one step unless it takes the table *)
(* lock.                                                                   *)
(***************************************************************************)
EXTENDS Integers

CONSTANTS
  Accounts,  \* administrators
  Devices,   \* authenticator devices, and the secrets of their enrolments
  Tokens,    \* tokens of sessions
  Calls,     \* requests that run at a time
  None,
  MaxClock,  \* bound on the clock of the one-time codes
  MaxCalls   \* bound on the number of requests

VARIABLES
  clock,
  account,     \* rows of admin_users: "none", "enabled", "disabled", "deleted"
  device,      \* rows of authenticator_devices
  enrolment,   \* rows of admin_enrollments, by the secret they hold
  session,     \* the sessions in memory
  channel,      \* the guarded WebSocket of a session: "none", "open", "closed"
  call,        \* the running requests
  locked,      \* the request that holds the table lock
  calls,       \* how many requests have been made
  firstUse,    \* how often a code has been accepted as a new one
  reuse        \* how often a code has been accepted again, by its session

vars ==
  <<clock, account, device, enrolment, session, channel, call, locked, calls, firstUse, reuse>>

Codes  == 0 .. MaxClock + 1
NoCode == -1
Never  == [user |-> None, last |-> NoCode, gone |-> FALSE]
Unused == [at |-> "unused", user |-> None, device |-> None, code |-> NoCode, expired |-> FALSE]
Idle   == [at |-> "idle", token |-> None, user |-> None, device |-> None, code |-> NoCode,
           op |-> None, target |-> None]

Row(u)      == account[u] \in {"enabled", "disabled"}
Exists(d)   == device[d].user # None /\ ~device[d].gone
Initialized == \E u \in Accounts : Row(u)
InWindow(c) == c \in Codes /\ c \in clock - 1 .. clock + 1
Live(t)     == session[t].at = "live"
\* The row the session needs: its user is enabled and its device is kept.
Backed(t)   ==
  /\ Exists(session[t].device) /\ device[session[t].device].user = session[t].user
  /\ account[session[t].user] = "enabled"
Revoked(P(_)) ==
  [t \in Tokens |-> IF Live(t) /\ P(t) THEN [Unused EXCEPT !.at = "gone"] ELSE session[t]]

TypeOK ==
  /\ clock \in 0 .. MaxClock
  /\ account \in [Accounts -> {"none", "enabled", "disabled", "deleted"}]
  /\ device \in [Devices -> [user : Accounts \cup {None}, last : Codes \cup {NoCode}, gone : BOOLEAN]]
  /\ channel \in [Tokens -> {"none", "open", "closed"}]
  /\ locked \in Calls \cup {None}

Init ==
  /\ clock = 0
  /\ account = [u \in Accounts |-> "none"]
  /\ device = [d \in Devices |-> Never]
  /\ enrolment = [d \in Devices |-> None]
  /\ session = [t \in Tokens |-> Unused]
  /\ channel = [t \in Tokens |-> "none"]
  /\ call = [r \in Calls |-> Idle]
  /\ locked = None /\ calls = 0
  /\ firstUse = [x \in Devices \X Codes |-> 0]
  /\ reuse = [x \in Devices \X Codes |-> 0]

Counted(f, d, c) == [f EXCEPT ![<<d, c>>] = @ + 1]
Starts(r)        == call[r].at = "idle" /\ calls < MaxCalls /\ calls' = calls + 1
Goes(r, where)   == call' = [call EXCEPT ![r].at = where]
Ends(r)          == call' = [call EXCEPT ![r] = Idle]

(***************************************************************************)
(* The first administrator, and the reset from the command line.           *)
(***************************************************************************)
\* bootstrap_start: the enrolments of new accounts are replaced by this one.
BootstrapStart(u, d) ==
  /\ ~Initialized /\ account[u] = "none" /\ device[d] = Never
  /\ enrolment' = [e \in Devices |->
       IF e = d THEN [user |-> u, fresh |-> TRUE, by |-> None]
       ELSE IF enrolment[e] # None /\ enrolment[e].fresh THEN None ELSE enrolment[e]]
  /\ UNCHANGED <<clock, account, device, session, channel, call, locked, calls, firstUse, reuse>>

\* A confirmed enrolment: the row is claimed, the account and the device are
\* inserted, the device with the counter of the code that confirmed it.
Enrols(d, c) ==
  /\ locked = None /\ enrolment[d] # None /\ InWindow(c)
  /\ account' = [account EXCEPT ![enrolment[d].user] = IF enrolment[d].fresh THEN "enabled" ELSE @]
  /\ device' = [device EXCEPT ![d] = [user |-> enrolment[d].user, last |-> c, gone |-> FALSE]]
  /\ firstUse' = Counted(firstUse, d, c)

BootstrapConfirm(r, d, c) ==
  /\ Starts(r) /\ ~Initialized
  /\ Enrols(d, c) /\ enrolment[d].fresh /\ enrolment[d].by = None
  /\ enrolment' = [e \in Devices |-> None]
  /\ call' = [call EXCEPT ![r] = [Idle EXCEPT !.at = "log", !.user = enrolment[d].user,
                                              !.device = d, !.code = c]]
  /\ UNCHANGED <<clock, session, channel, locked, reuse>>

\* reset_admin_auth runs in a process of its own: the sessions stay in memory.
ResetAuth ==
  /\ Initialized /\ locked = None
  /\ account' = [u \in Accounts |-> IF Row(u) THEN "deleted" ELSE account[u]]
  /\ device' = [d \in Devices |-> IF Exists(d) THEN [device[d] EXCEPT !.gone = TRUE] ELSE device[d]]
  /\ enrolment' = [d \in Devices |-> None]
  /\ UNCHANGED <<clock, session, channel, call, locked, calls, firstUse, reuse>>

(***************************************************************************)
(* The start of a request: login, or a session that is looked up in memory *)
(* and then in the database.                                               *)
(***************************************************************************)
Login(r, u) ==
  /\ Starts(r) /\ account[u] = "enabled"
  /\ call' = [call EXCEPT ![r] = [Idle EXCEPT !.at = "code", !.user = u]]
  /\ UNCHANGED <<clock, account, device, enrolment, session, channel, locked, firstUse, reuse>>

RequireAdmin(r, t) ==
  /\ Starts(r) /\ Live(t) /\ ~session[t].expired
  /\ session' = Revoked(LAMBDA s : session[s].expired)
  /\ call' = [call EXCEPT ![r] = [Idle EXCEPT !.at = "required", !.token = t,
                !.user = session[t].user, !.device = session[t].device]]
  /\ UNCHANGED <<clock, account, device, enrolment, channel, locked, firstUse, reuse>>

PrincipalBacked(r) ==
  /\ Exists(call[r].device) /\ device[call[r].device].user = call[r].user
  /\ account[call[r].user] = "enabled"

AdmitPrincipal(r) ==
  /\ call[r].at = "required"
  /\ IF PrincipalBacked(r)
     THEN Goes(r, "admitted") /\ UNCHANGED session
     ELSE Ends(r) /\ session' = Revoked(LAMBDA t : t = call[r].token)
  /\ UNCHANGED <<clock, account, device, enrolment, channel, locked, calls, firstUse, reuse>>

Logout(r) ==
  /\ call[r].at = "admitted"
  /\ session' = Revoked(LAMBDA t : t = call[r].token)
  /\ Ends(r)
  /\ UNCHANGED <<clock, account, device, enrolment, channel, locked, calls, firstUse, reuse>>

\* The WebSocket of the session is opened, its guard first looks itself.
OpenSocket(r) ==
  /\ call[r].at = "admitted" /\ channel[call[r].token] = "none"
  /\ channel' = [channel EXCEPT ![call[r].token] = "open"]
  /\ Ends(r)
  /\ UNCHANGED <<clock, account, device, enrolment, session, locked, calls, firstUse, reuse>>

(***************************************************************************)
(* The one-time code.                                                      *)
(***************************************************************************)
\* The rows of the devices are read; a code that is not newer than the last
\* one of its device may still be the one of the login of this session.
PresentCode(r, d, c) ==
  /\ call[r].at \in {"code", "admitted"}
  /\ Exists(d) /\ device[d].user = call[r].user /\ InWindow(c)
  /\ c > device[d].last
  /\ call' = [call EXCEPT ![r].at = "use", ![r].target = d, ![r].code = c]
  /\ UNCHANGED <<clock, account, device, enrolment, session, channel, locked, calls, firstUse, reuse>>

\* The conditional update: of two requests with one code only one succeeds.
UseCodeIf(r, newer) ==
  /\ call[r].at = "use" /\ locked = None
  /\ LET d == call[r].target
         c == call[r].code
     IN  IF Exists(d) /\ newer
         THEN /\ device' = [device EXCEPT ![d].last = c]
              /\ firstUse' = Counted(firstUse, d, c)
              /\ call' = [call EXCEPT ![r].at = IF call[r].token = None THEN "log" ELSE "clear",
                                      ![r].device = IF call[r].token = None THEN d ELSE @,
                                      ![r].target = None]
         ELSE /\ call' = [call EXCEPT ![r] = IF call[r].token = None THEN Idle
                                             ELSE [@ EXCEPT !.at = "stale"]]
              /\ UNCHANGED <<device, firstUse>>
  /\ UNCHANGED <<clock, account, enrolment, session, channel, locked, calls, reuse>>
\* The last counter is not part of the update's condition.
UseCodeUnchecked(r) == UseCodeIf(r, TRUE)

UseCode(r) == UseCodeIf(r, device[call[r].target].last < call[r].code)

\* A code that was read as not newer.
PresentOldCode(r, d, c) ==
  /\ call[r].at = "admitted"
  /\ Exists(d) /\ device[d].user = call[r].user /\ InWindow(c)
  /\ c <= device[d].last
  /\ call' = [call EXCEPT ![r].at = "stale", ![r].target = d, ![r].code = c]
  /\ UNCHANGED <<clock, account, device, enrolment, session, channel, locked, calls, firstUse, reuse>>

OwnSession(r) ==
  LET s == session[call[r].token]
  IN  s.at = "live" /\ s.user = call[r].user /\ s.device = call[r].device

ClearLoginCounter(r) ==
  /\ call[r].at = "clear"
  /\ session' = IF OwnSession(r) THEN [session EXCEPT ![call[r].token].code = NoCode] ELSE session
  /\ call' = [call EXCEPT ![r].at = "act", ![r].code = NoCode]
  /\ UNCHANGED <<clock, account, device, enrolment, channel, locked, calls, firstUse, reuse>>

\* The counter of the session is read, then the row of its device.
FindLoginCounter(r) ==
  /\ call[r].at = "stale"
  /\ IF /\ OwnSession(r) /\ session[call[r].token].code = call[r].code
        /\ call[r].target = call[r].device /\ Exists(call[r].device) /\ InWindow(call[r].code)
     THEN Goes(r, "reuse") ELSE Ends(r)
  /\ UNCHANGED <<clock, account, device, enrolment, session, channel, locked, calls, firstUse, reuse>>

\* The session is looked up again under the write lock and gives it up.
SpendLoginCounterIf(r, kept) ==
  /\ call[r].at = "reuse"
  /\ IF OwnSession(r) /\ kept
     THEN /\ session' = [session EXCEPT ![call[r].token].code = NoCode]
          /\ reuse' = Counted(reuse, call[r].device, call[r].code)
          /\ call' = [call EXCEPT ![r].at = "act", ![r].code = NoCode, ![r].target = None]
     ELSE Ends(r) /\ UNCHANGED <<session, reuse>>
  /\ UNCHANGED <<clock, account, device, enrolment, channel, locked, calls, firstUse>>
\* The counter is not compared again after the row was read.
SpendLoginCounterRead(r) == SpendLoginCounterIf(r, TRUE)

SpendLoginCounter(r) == SpendLoginCounterIf(r, session[call[r].token].code = call[r].code)

\* session_response: the log is written first, the row is not looked up again.
InsertSession(r, t) ==
  /\ call[r].at = "log" /\ session[t] = Unused
  /\ session' = [session EXCEPT ![t] = [at |-> "live", user |-> call[r].user, device |-> call[r].device,
                                        code |-> call[r].code, expired |-> FALSE]]
  /\ Ends(r)
  /\ UNCHANGED <<clock, account, device, enrolment, channel, locked, calls, firstUse, reuse>>

(***************************************************************************)
(* What a request does after the step-up.                                  *)
(***************************************************************************)
\* create_user_enrollment, create_device_enrollment.
CreateEnrolment(r, u, d) ==
  /\ call[r].at = "act" /\ device[d] = Never /\ enrolment[d] = None
  /\ \/ account[u] = "none" /\ \A e \in Devices : enrolment[e] # None => enrolment[e].user # u
     \/ Row(u)
  /\ enrolment' = [enrolment EXCEPT ![d] = [user |-> u, fresh |-> ~Row(u), by |-> call[r].user]]
  /\ Ends(r)
  /\ UNCHANGED <<clock, account, device, session, channel, locked, calls, firstUse, reuse>>

\* confirm_admin_enrollment asks for no step-up; the creator must still exist.
ConfirmEnrolment(r, d, c) ==
  /\ call[r].at = "admitted"
  /\ Enrols(d, c) /\ enrolment[d].by # None
  /\ IF enrolment[d].fresh THEN account[enrolment[d].user] = "none" ELSE Row(enrolment[d].user)
  /\ enrolment' = [enrolment EXCEPT ![d] = None]
  /\ Ends(r)
  /\ UNCHANGED <<clock, session, channel, locked, calls, reuse>>

DropsEnrolment(d) ==
  /\ enrolment[d] # None
  /\ enrolment' = [enrolment EXCEPT ![d] = None]
  /\ UNCHANGED <<clock, account, device, session, channel, locked, calls, firstUse, reuse>>
CancelEnrolment(r, d)  == call[r].at = "act" /\ DropsEnrolment(d) /\ Ends(r)
EnrolmentExpires(d)    == DropsEnrolment(d) /\ UNCHANGED call

\* ensure_other_login_path: the tables are locked, then the devices of the
\* enabled accounts are counted without what is about to go.
OtherLoginPath(op, x) ==
  \E d \in Devices :
    /\ Exists(d) /\ account[device[d].user] = "enabled"
    /\ IF op = "revoke" THEN d # x ELSE device[d].user # x
Removable(r, op, x) ==
  IF op = "revoke" THEN x \in Devices /\ Exists(x)
  ELSE x \in Accounts /\ Row(x) /\ x # call[r].user
BeginRemovalIf(r, op, x, free, holds) ==
  /\ call[r].at = "act" /\ free /\ Removable(r, op, x)
  /\ IF OtherLoginPath(op, x)
     THEN /\ locked' = holds
          /\ call' = [call EXCEPT ![r].at = "write", ![r].op = op, ![r].target = x]
     ELSE Ends(r) /\ UNCHANGED locked
  /\ UNCHANGED <<clock, account, device, enrolment, session, channel, calls, firstUse, reuse>>
\* The tables are not locked while the ways to log in are counted.
BeginRemovalUnlocked(r, op, x) == BeginRemovalIf(r, op, x, TRUE, locked)

BeginRemoval(r, op, x) == BeginRemovalIf(r, op, x, locked = None, r)

\* The row goes, with the rows that refer to it, and the lock with the commit.
CommitRemoval(r) ==
  /\ call[r].at = "write" /\ locked \in {r, None}
  /\ LET op == call[r].op
         x  == call[r].target
     IN  /\ account' = IF op = "revoke" THEN account
                       ELSE [account EXCEPT ![x] = IF op = "disable" THEN "disabled" ELSE "deleted"]
         /\ device' = [d \in Devices |->
              IF (op = "revoke" /\ d = x) \/ (op = "delete" /\ Exists(d) /\ device[d].user = x)
              THEN [device[d] EXCEPT !.gone = TRUE] ELSE device[d]]
         /\ enrolment' = [d \in Devices |->
              IF op # "delete" \/ enrolment[d] = None THEN enrolment[d]
              ELSE IF ~enrolment[d].fresh /\ enrolment[d].user = x THEN None
              ELSE [enrolment[d] EXCEPT !.by = IF @ = x THEN None ELSE @]]
  /\ locked' = None
  /\ Goes(r, "revoke")
  /\ UNCHANGED <<clock, session, channel, calls, firstUse, reuse>>

\* revoke_user_sessions, revoke_device_sessions.
RevokeSessions(r) ==
  /\ call[r].at = "revoke"
  /\ session' = Revoked(LAMBDA t : IF call[r].op = "revoke" THEN session[t].device = call[r].target
                                   ELSE session[t].user = call[r].target)
  /\ Ends(r)
  /\ UNCHANGED <<clock, account, device, enrolment, channel, locked, calls, firstUse, reuse>>

\* An account is enabled again if it has a device.
BeginEnable(r, u) ==
  /\ call[r].at = "act" /\ account[u] = "disabled"
  /\ \E d \in Devices : Exists(d) /\ device[d].user = u
  /\ call' = [call EXCEPT ![r].at = "enable", ![r].target = u]
  /\ UNCHANGED <<clock, account, device, enrolment, session, channel, locked, calls, firstUse, reuse>>
CommitEnable(r) ==
  /\ call[r].at = "enable" /\ locked = None
  /\ account' = [account EXCEPT ![call[r].target] = IF Row(call[r].target) THEN "enabled" ELSE @]
  /\ Ends(r)
  /\ UNCHANGED <<clock, device, enrolment, session, channel, locked, calls, firstUse, reuse>>

(***************************************************************************)
(* Time, and the guards of the WebSockets.                                 *)
(***************************************************************************)
Tick ==
  /\ clock < MaxClock
  /\ clock' = clock + 1
  /\ UNCHANGED <<account, device, enrolment, session, channel, call, locked, calls, firstUse, reuse>>
SessionExpires(t) ==
  /\ Live(t) /\ ~session[t].expired
  /\ session' = [session EXCEPT ![t].expired = TRUE]
  /\ UNCHANGED <<clock, account, device, enrolment, channel, call, locked, calls, firstUse, reuse>>

\* wait_until_invalid: the revocation is signalled, or found by looking at
\* the time, at the sessions and at the rows.
GuardEnds(t, invalid) ==
  /\ channel[t] = "open" /\ invalid
  /\ channel' = [channel EXCEPT ![t] = "closed"]
  /\ session' = Revoked(LAMBDA s : s = t)
  /\ UNCHANGED <<clock, account, device, enrolment, call, locked, calls, firstUse, reuse>>
\* The guard does not read the rows.
RevalidateMemory(t) == GuardEnds(t, ~(Live(t) /\ ~session[t].expired))

Revalidate(t) == GuardEnds(t, ~(Live(t) /\ ~session[t].expired /\ Backed(t)))

RequestStep(r) ==
  \/ AdmitPrincipal(r) \/ UseCode(r) \/ ClearLoginCounter(r) \/ FindLoginCounter(r)
  \/ SpendLoginCounter(r) \/ CommitRemoval(r) \/ RevokeSessions(r) \/ CommitEnable(r)
  \/ \E t \in Tokens : InsertSession(r, t)
RequestInput(r) ==
  \/ \E d \in Devices, c \in Codes : \/ BootstrapConfirm(r, d, c) \/ PresentCode(r, d, c)
                                     \/ PresentOldCode(r, d, c) \/ ConfirmEnrolment(r, d, c)
  \/ \E u \in Accounts : Login(r, u) \/ BeginEnable(r, u)
  \/ \E t \in Tokens : RequireAdmin(r, t)
  \/ \E u \in Accounts, d \in Devices : CreateEnrolment(r, u, d)
  \/ \E d \in Devices : CancelEnrolment(r, d)
  \/ \E op \in {"disable", "delete", "revoke"}, x \in Accounts \cup Devices : BeginRemoval(r, op, x)
  \/ Logout(r) \/ OpenSocket(r)
Next ==
  \/ \E r \in Calls : RequestStep(r) \/ RequestInput(r)
  \/ \E u \in Accounts, d \in Devices : BootstrapStart(u, d)
  \/ \E d \in Devices : EnrolmentExpires(d)
  \/ \E t \in Tokens : SessionExpires(t) \/ Revalidate(t)
  \/ ResetAuth \/ Tick
Spec == Init /\ [][Next]_vars
\* The guard wakes every 15 s, whatever is signalled.
Fairness == \A t \in Tokens : WF_vars(Revalidate(t))

\* A one-time code is accepted once, and once more only by the session its
\* login opened, for one operation.
CodesAreSpent ==
  \A x \in Devices \X Codes : firstUse[x] <= 1 /\ reuse[x] <= 1

\* Once there is an administrator, some enabled account keeps a device to log
\* in with, whatever removals ran at a time.
LoginRemains ==
  Initialized => \E d \in Devices : Exists(d) /\ account[device[d].user] = "enabled"

AccessHolds == TypeOK /\ CodesAreSpent /\ LoginRemains

\* A WebSocket of a session that is revoked, expired or no longer backed by the
\* rows is closed, also when the rows went without a word to this process.
SocketsEnd ==
  \A t \in Tokens :
    []<>(channel[t] = "open" => Live(t) /\ ~session[t].expired /\ Backed(t))
=============================================================================
