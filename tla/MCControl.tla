----------------------------- MODULE MCControl -----------------------------
(***************************************************************************)
(* Parts of the system that share nothing: the commands of an instance    *)
(* that is disabled or deleted (CommandJobs), the sessions of              *)
(* administrators (AdminSessions), the page that shows them their data     *)
(* (Console), and the locks of the registry (RegistryLocks).  One of them  *)
(* moves, the others have not begun.                                       *)
(***************************************************************************)
EXTENDS CommandJobs, TLC

CONSTANTS Accounts, Devices, Tokens, Calls, MaxClock, MaxCalls,
  u1, u2, d1, d2, t1, t2,  \* those of the sessions that are there at the beginning
  Logins, MaxRequests,
  e1, e2, m1, m2, s1, MaxPool

VARIABLES part, clock, account, device, enrolment, session, channel, call, locked, calls,
          firstUse, reuse, at, queue,
          open, live, used, truth, job, cookie, me, overtaken, query, busy, shown, requests,
          dialog, tracked, acts, faults, failed

A == INSTANCE AdminSessions
accessVars ==
  <<clock, account, device, enrolment, session, channel, call, locked, calls, firstUse, reuse>>

L == INSTANCE RegistryLocks WITH
       Evaluations <- {e1, e2}, Reports <- {m1, m2}, Upgrades <- {m1}, Sockets <- {s1}
lockVars == <<at, queue>>

P == INSTANCE Console
pageVars == <<open, live, used, truth, job, cookie, me, overtaken, query, busy, shown, requests,
              dialog, tracked, acts, faults, failed>>

\* "Nobody" is no account, device, token or request, and no answer.
ASSUME AccessAssumption ==
  /\ IsFiniteSet(Calls) /\ MaxClock \in Nat /\ MaxCalls \in Nat
  /\ None \notin Calls \cup Accounts \cup Devices \cup Tokens
  /\ {u1, u2} \subseteq Accounts /\ u1 # u2 /\ {d1, d2} \subseteq Devices /\ d1 # d2
  /\ {t1, t2} \subseteq Tokens /\ t1 # t2
ASSUME PageAssumption ==
  /\ MaxRequests \in Nat /\ t1 \in Logins
  /\ None \notin Logins \cup [by : Logins \cup {None}, version : Nat, query : Nat]

\* What the administrator works with, with how many actions and failures.
Works == {<<{"updates"}, 1, 0>>, <<{"audit"}, 2, 1>>, <<{"lists", "users"}, 1, 0>>,
          <<{"users", "confirm"}, 1, 1>>, <<{"events"}, 1, 1>>, <<{"rules", "channels"}, 1, 0>>,
          <<{"deliveries"}, 1, 0>>, <<{"instances"}, 1, 1>>, <<{"candidates"}, 1, 0>>,
          <<{"job"}, 2, 1>>}

\* What the accounts may be when the requests begin: there is none; one has a
\* session, and an enrolment of the other one is pending; both have one.
Served(u, d) == [at |-> "live", user |-> u, device |-> d, code |-> 0, expired |-> FALSE]
Enrolled(u)  == [user |-> u, last |-> 0, gone |-> FALSE]
Accepted(ds) == [x \in Devices \X A!Codes |-> IF x[1] \in ds /\ x[2] = 0 THEN 1 ELSE 0]
OneSession ==
  /\ account = [u \in Accounts |-> IF u = u1 THEN "enabled" ELSE "none"]
  /\ device = [d \in Devices |-> IF d = d1 THEN Enrolled(u1) ELSE A!Never]
  /\ enrolment = [d \in Devices |->
       IF d = d2 THEN [user |-> u2, fresh |-> TRUE, by |-> u1] ELSE None]
  /\ session = [t \in Tokens |-> IF t = t1 THEN Served(u1, d1) ELSE A!Unused]
  /\ firstUse = Accepted({d1})
TwoSessions ==
  /\ account = [u \in Accounts |-> IF u \in {u1, u2} THEN "enabled" ELSE "none"]
  /\ device = [d \in Devices |->
       CASE d = d1 -> Enrolled(u1) [] d = d2 -> Enrolled(u2) [] OTHER -> A!Never]
  /\ enrolment = [d \in Devices |-> None]
  /\ session = [t \in Tokens |->
       CASE t = t1 -> Served(u1, d1) [] t = t2 -> Served(u2, d2) [] OTHER -> A!Unused]
  /\ firstUse = Accepted({d1, d2})
InService ==
  /\ OneSession \/ TwoSessions
  /\ clock = 0 /\ locked = None /\ calls = 0
  /\ channel = [t \in Tokens |-> "none"]
  /\ call = [r \in Calls |-> A!Idle]
  /\ reuse = [x \in Devices \X A!Codes |-> 0]
Begun ==
  /\ part \in {"jobs", "access", "locks", "page"} /\ Init /\ L!Init
  /\ IF part = "page" THEN \E w \in Works : P!Init(w[1], t1, w[2], w[3])
                      ELSE P!Init({}, None, 0, 0)
  /\ A!Init \/ (part = "access" /\ InService)
Moves ==
  /\ UNCHANGED part
  /\ \/ part = "jobs" /\ Next /\ UNCHANGED <<accessVars, lockVars, pageVars>>
     \/ part = "access" /\ A!Next /\ UNCHANGED <<vars, lockVars, pageVars>>
     \/ part = "locks" /\ L!Next /\ UNCHANGED <<vars, accessVars, pageVars>>
     \/ part = "page" /\ P!Next /\ UNCHANGED <<vars, accessVars, lockVars>>
Jobbing(X) == part = "jobs" /\ X
Fair ==
  /\ \A j \in Jobs : WF_vars(Jobbing(HandlerStep(j))) /\ WF_vars(Jobbing(BecomeOverdue(j)))
  /\ \A c \in Conns : /\ WF_vars(Jobbing(SocketStep(c)))
                      /\ WF_vars(Jobbing(c \in shutdown /\ LeaveLoop(c)))
  /\ \A a \in Admins : WF_vars(Jobbing(RevokeStep(a)))
  /\ WF_vars(Jobbing(ExpireJobs))
  /\ \A t \in Tokens : WF_accessVars(part = "access" /\ A!Revalidate(t))
  /\ WF_lockVars(part = "locks" /\ L!Next)
  /\ WF_pageVars(part = "page" /\ P!Asked)
  /\ WF_pageVars(part = "page" /\ P!Answered(P!Polls))
  /\ WF_pageVars(part = "page" /\ P!Timer)
ControlSpec == Begun /\ [][Moves]_<<part, vars, accessVars, lockVars, pageVars>> /\ Fair

\* Codes are accepted once, a way to log in remains, and the page shows what was
\* answered to the session it believes in.
AccessHolds == A!AccessHolds /\ P!ShownIsOurs
\* The page comes to show what the server holds.
PageSettles == part = "page" => P!PageSettles
\* The WebSockets of sessions that are over are closed.
SocketsEnd == A!SocketsEnd
\* Tasks that wait for the registry and the pool go on.
RegistryFrees == part = "locks" => L!RegistryFrees
=============================================================================
