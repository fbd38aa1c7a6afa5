------------------------------- MODULE Console -------------------------------
(***************************************************************************)
(* The page of the administrators (useMonitoringConsole.ts and             *)
(* useAlertingConsole.ts): what it shows while answers come late, out of   *)
(* order or not at all, sessions end on the server, and one administrator  *)
(* logs out and another one logs in.                                       *)
(*                                                                         *)
(* A session counter and an AbortController bind a request to the login it *)
(* was made under; request counters let the newest request of a kind win;  *)
(* keys keep a load of a kind from being started twice.  A counter is      *)
(* modelled by what it decides: a request is the newest of its kind until  *)
(* another one takes a number, and an aborted request is gone.             *)
(***************************************************************************)
EXTENDS Naturals, FiniteSets

CONSTANTS Logins,       \* the sessions the server may grant
          None,
          MaxRequests   \* bound on requests in flight when another one is sent

\* What the page shows, by the way it is loaded.  "lists" are the pending
\* instances, commands, jobs and settings, "rules" also the maintenance windows.
Kinds     == {"instances", "lists", "users", "updates", "audit", "events", "deliveries",
              "rules", "channels", "candidates"}
Public    == {"instances"}
Queried   == {"audit", "events", "deliveries"}
Keyed     == {"events", "deliveries", "rules", "channels", "candidates"}
Ticketed  == Kinds \ {"rules", "channels", "candidates"}
Forgotten == Kinds \ {"instances", "candidates"}
AdminData == {"lists", "users", "updates"}

VARIABLES
  open,      \* what the administrator works with
  live,      \* the sessions the server accepts
  used,      \* the sessions it ever granted
  truth,     \* [kind -> what the server holds]
  job,       \* the command job on the server
  cookie,    \* the session the browser presents
  me,        \* the session the page believes in (isAdmin, currentUser)
  overtaken, \* the sessions it went on from without emptying itself
  query,     \* [kind -> what is asked for]
  busy,      \* the kinds whose load holds its key (loadingKeys)
  shown,     \* [kind -> what is shown]
  requests,  \* the requests in flight
  dialog,    \* the job's dialog (commandExecution)
  tracked,   \* "no", "asking" or "waiting": the polling of the job
  acts,      \* bound on the queries, changes, refreshes and server events to come
  faults,    \* bound on the requests the network may still lose
  failed     \* whether it has lost one

server == <<live, used, truth, job>>
page   == <<cookie, me, overtaken, query, busy, shown, dialog, tracked>>
vars   == <<open, server, page, requests, acts, faults, failed>>

Request(op, k, why, tickets) ==
  [op |-> op, kind |-> k, why |-> why, tickets |-> tickets, newest |-> TRUE, sent |-> cookie,
   query |-> query[k], aborted |-> FALSE, at |-> "sent", reply |-> None]
Denied == None
Shown(by, version, q) == [by |-> by, version |-> version, query |-> q]

TypeOK ==
  /\ open \subseteq Kinds \cup {"confirm", "job"}
  /\ live \subseteq used /\ used \subseteq Logins
  /\ truth \in [Kinds -> Nat] /\ job \in {"none", "running", "finished"}
  /\ cookie \in Logins \cup {None} /\ me \in Logins \cup {None} /\ overtaken \subseteq Logins
  /\ query \in [Kinds -> Nat] /\ busy \subseteq Keyed
  /\ \A k \in Kinds : shown[k] = None \/ shown[k].query \in Nat
  /\ dialog \in {"none", "running", "finished"} /\ tracked \in {"no", "asking", "waiting"}
  /\ \A r \in requests : r.kind \in Kinds /\ r.tickets \subseteq Ticketed

\* The page is opened, with the session the browser already has or with none,
\* and asks who is logged in (checkSession).
Opened(s) == {[op |-> "check", kind |-> "lists", why |-> "check", tickets |-> {}, newest |-> TRUE,
               sent |-> s, query |-> 0, aborted |-> FALSE, at |-> "sent", reply |-> None]}
Init(ks, s, work, losses) ==
  /\ open = ks /\ live = {s} \ {None} /\ used = live /\ job = "none"
  /\ truth = [k \in Kinds |-> 0] /\ query = [k \in Kinds |-> 0]
  /\ cookie = s /\ me = None /\ overtaken = {} /\ busy = {} /\ shown = [k \in Kinds |-> None]
  /\ requests = Opened(s) /\ dialog = "none" /\ tracked = "no"
  /\ acts = work /\ faults = losses /\ failed = FALSE

-----------------------------------------------------------------------------
(* Requests *)

\* A faulty numbering that lets any answer be shown is WinsAny.
WinsAny(r, taken) == r

Wins(r, taken) == IF r.tickets \cap taken # {} THEN [r EXCEPT !.newest = FALSE] ELSE r

\* R is sent, and its numbers outdate those of the requests before it.
Sending(R, taken, before) == {Wins(r, taken) : r \in before} \cup R
Room(R) == Cardinality(requests) + Cardinality(R) <= MaxRequests

\* The loads of the kinds ks: loadAdminData takes two numbers, that of the users too.
TicketsOf(k, ks) == IF {"lists", "users"} \subseteq ks /\ k = "users"
                    THEN {"lists", "users"} ELSE {k} \cap Ticketed
\* A load whose key is held is not sent, though it has taken its number.
Loads(ks, why, held) ==
  {Request("load", k, why, TicketsOf(k, ks)) : k \in {k \in ks : k \in held => why = "quiet"}}
Numbers(ks) == UNION {TicketsOf(k, ks) : k \in ks}
Keys(ks, why) == IF why = "quiet" THEN {} ELSE ks \cap Keyed

Load(ks, why, before) ==
  /\ requests' = Sending(Loads(ks, why, busy), Numbers(ks), before)
  /\ busy' = busy \cup Keys(ks, why)

\* A request of an administrator is aborted with the session it was made
\* under; what it asks the server to do may still be done.
Governed(r) == r.kind \notin Public /\ r.op # "logout"
Effects     == {"change", "confirm", "run", "login"}

\* A faulty logout that leaves the requests in flight is KeepRequests.
KeepRequests == requests

AfterInvalidate ==
  {r \in requests : ~Governed(r)}
    \cup {[r EXCEPT !.aborted = TRUE] : r \in
           {r \in requests : Governed(r) /\ r.op \in Effects /\ r.at = "sent"}}

\* A faulty clearAdminState that forgets the audit trail is ClearsLess.
ClearsLess == [k \in Kinds |-> IF k \in Forgotten \ {"audit"} THEN None ELSE shown[k]]

Cleared == [k \in Kinds |-> IF k \in Forgotten THEN None ELSE shown[k]]

ClearAdminState(before) ==
  /\ me' = None /\ overtaken' = {} /\ shown' = Cleared /\ requests' = before /\ busy' = {}
  /\ query' = [k \in Kinds |-> 0] /\ dialog' = "none" /\ tracked' = "no"

Release(r) == busy' = IF r.why \in {"asked", "task"} THEN busy \ {r.kind} ELSE busy

-----------------------------------------------------------------------------
(* The server *)

Accepts(r) == r.sent \in live

\* What the server answers to r, and what it does.
ServeLoad(r) ==
  /\ r.op = "load" /\ UNCHANGED server
  /\ requests' = (requests \ {r}) \cup {[r EXCEPT !.at = "served", !.reply =
       IF Accepts(r) \/ r.kind \in Public THEN Shown(r.sent, truth[r.kind], r.query) ELSE Denied]}
ServeMe(r) ==
  /\ r.op \in {"verify", "check"} /\ UNCHANGED server
  /\ requests' = (requests \ {r}) \cup
       {[r EXCEPT !.at = "served", !.reply = IF Accepts(r) THEN r.sent ELSE Denied]}
ServeChange(r) ==
  /\ r.op \in {"change", "confirm"}
  /\ truth' = IF Accepts(r) THEN [truth EXCEPT ![r.kind] = @ + 1] ELSE truth
  /\ requests' = (requests \ {r}) \cup (IF r.aborted THEN {} ELSE
       {[r EXCEPT !.at = "served", !.reply =
           IF Accepts(r) THEN Shown(r.sent, truth'[r.kind], r.query) ELSE Denied]})
  /\ UNCHANGED <<live, used, job>>
ServeRun(r) ==
  /\ r.op = "run"
  /\ job' = IF Accepts(r) THEN "running" ELSE job
  /\ requests' = (requests \ {r}) \cup (IF r.aborted THEN {} ELSE
       {[r EXCEPT !.at = "served", !.reply = IF Accepts(r) THEN Shown(r.sent, 0, 0) ELSE Denied]})
  /\ UNCHANGED <<live, used, truth>>
ServeJob(r) ==
  /\ r.op = "job" /\ UNCHANGED server
  /\ requests' = (requests \ {r}) \cup
       {[r EXCEPT !.at = "served", !.reply = 
           IF Accepts(r) THEN Shown(r.sent, IF job = "finished" THEN 1 ELSE 0, 0) ELSE Denied]}
ServeLogin(r) ==
  /\ r.op = "login"
  /\ \E s \in Logins \ used :
       /\ live' = live \cup {s} /\ used' = used \cup {s}
       /\ requests' = (requests \ {r}) \cup
            (IF r.aborted THEN {} ELSE {[r EXCEPT !.at = "served", !.reply = s]})
  /\ UNCHANGED <<truth, job>>
ServeLogout(r) ==
  /\ r.op = "logout" /\ live' = live \ {r.sent}
  /\ requests' = (requests \ {r}) \cup {[r EXCEPT !.at = "served"]}
  /\ UNCHANGED <<used, truth, job>>
Serve(r) ==
  /\ r.at = "sent" /\ UNCHANGED <<open, page, acts, faults, failed>>
  /\ \/ ServeLoad(r) \/ ServeMe(r) \/ ServeChange(r) \/ ServeRun(r) \/ ServeJob(r)
     \/ ServeLogin(r) \/ ServeLogout(r)

\* A session runs out or is revoked.
SessionEnds(s) ==
  /\ s \in live /\ live' = live \ {s}
  /\ UNCHANGED <<open, used, truth, job, page, requests, acts, faults, failed>>
\* Something happens that is polled: an agent reports, an alert fires.
Happens(k) ==
  /\ k \in open \cap {"instances", "updates", "events"} /\ acts > 0
  /\ acts' = acts - 1 /\ truth' = [truth EXCEPT ![k] = @ + 1]
  /\ UNCHANGED <<open, live, used, job, page, requests, faults, failed>>
JobFinishes ==
  /\ job = "running" /\ job' = "finished"
  /\ UNCHANGED <<open, live, used, truth, page, requests, acts, faults, failed>>

-----------------------------------------------------------------------------
(* The answers *)

Others(r) == requests \ {r}

\* An administrator's request is refused: is the session really over?
Refused(r) ==
  /\ r.reply = Denied /\ r.op \notin {"verify", "check", "logout"} /\ me # None
  /\ requests' = Others(r) \cup
       {[r EXCEPT !.op = "verify", !.at = "sent", !.sent = cookie, !.reply = None]}
  /\ UNCHANGED page

\* What is left of a request that failed: a job is asked for again later.
Fails(r) ==
  /\ requests' = Others(r) /\ Release(r)
  /\ tracked' = IF r.why = "job" /\ tracked = "asking" THEN "waiting" ELSE tracked
  /\ UNCHANGED <<cookie, me, overtaken, query, shown, dialog>>

Verified(r) ==
  /\ r.op = "verify"
  /\ IF r.reply = Denied
     THEN ClearAdminState(AfterInvalidate) /\ UNCHANGED cookie
     ELSE Fails(r)

Loaded(r) ==
  /\ r.op = "load" /\ r.reply # Denied
  /\ requests' = Others(r) /\ Release(r)
  /\ shown' = IF r.newest THEN [shown EXCEPT ![r.kind] = r.reply] ELSE shown
  /\ UNCHANGED <<cookie, me, overtaken, query, dialog, tracked>>

\* What is loaded again once the server has done what was asked.
Reload(k) == CASE k = "lists"    -> AdminData
               [] k = "channels" -> {"channels", "rules"}
               [] OTHER          -> {k}
Changed(r) ==
  /\ r.op = "change" /\ r.reply # Denied
  /\ Load(Reload(r.kind) \cap open, IF r.kind = "updates" THEN "task" ELSE "asked", Others(r))
  /\ UNCHANGED <<cookie, me, overtaken, query, shown, dialog, tracked>>
\* The confirmation of an enrolment brings the users with it, under no number.
Confirmed(r) ==
  /\ r.op = "confirm" /\ r.reply # Denied
  /\ requests' = Others(r) /\ shown' = [shown EXCEPT ![r.kind] = r.reply]
  /\ UNCHANGED <<cookie, me, overtaken, query, busy, dialog, tracked>>

\* The pages the administrator goes to are loaded after a login.  When the page
\* has an administrator already it stays where it is, and only loadAdminData runs.
Enter(s, before) ==
  /\ me' = s
  /\ LET ks == open \cap (IF me = None THEN Kinds \ Public ELSE AdminData \cup {"audit"})
     IN  /\ requests' = Sending({[x EXCEPT !.sent = cookie'] : x \in Loads(ks, "asked", {})},
                                Numbers(ks), before)
         /\ busy' = Keys(ks, "asked")
\* login() invalidates the requests and empties nothing.
LoggedIn(r) ==
  /\ r.op = "login" /\ cookie' = r.reply
  /\ Enter(r.reply, AfterInvalidate \ {r})
  /\ overtaken' = overtaken \cup ({me} \ {None})
  /\ UNCHANGED <<query, shown, dialog, tracked>>
LoggedOut(r) ==
  /\ r.op = "logout" /\ cookie' = None
  /\ ClearAdminState(AfterInvalidate \ {r})
Checked(r) ==
  /\ r.op = "check"
  /\ IF r.reply = Denied
     THEN ClearAdminState(AfterInvalidate) /\ UNCHANGED cookie
     ELSE UNCHANGED <<cookie, overtaken, query, shown, dialog, tracked>> /\ Enter(r.reply, Others(r))

Ran(r) ==
  /\ r.op = "run" /\ r.reply # Denied
  /\ dialog' = "running" /\ tracked' = "asking"
  /\ requests' = Others(r) \cup {Request("job", "lists", "job", {})}
  /\ UNCHANGED <<cookie, me, overtaken, query, busy, shown>>
\* The version of a job is 1 when it has ended.
JobIn(r) == IF r.reply.version = 1 THEN "finished" ELSE "running"
\* A faulty poll that gives up unless the job has ended is AsksOnce.
AsksOnce(r) ==
  /\ r.op = "job" /\ r.reply # Denied
  /\ requests' = Others(r)
  /\ dialog' = IF dialog = "none" THEN dialog ELSE JobIn(r)
  /\ tracked' = "no"
  /\ UNCHANGED <<cookie, me, overtaken, query, busy, shown>>

JobAnswered(r) ==
  /\ r.op = "job" /\ r.reply # Denied
  /\ requests' = Others(r)
  /\ dialog' = IF dialog = "none" THEN dialog ELSE JobIn(r)
  /\ tracked' = IF JobIn(r) = "finished" THEN "no" ELSE "waiting"
  /\ UNCHANGED <<cookie, me, overtaken, query, busy, shown>>

Arrive(r) ==
  /\ r.at = "served" /\ UNCHANGED <<open, server, acts, faults, failed>>
  /\ \/ Refused(r) \/ Verified(r) \/ Loaded(r) \/ Changed(r) \/ Confirmed(r)
     \/ LoggedIn(r) \/ LoggedOut(r) \/ Checked(r) \/ Ran(r) \/ JobAnswered(r)

\* The network loses a request or its answer.
Lost(r) ==
  /\ faults > 0 /\ faults' = faults - 1 /\ failed' = TRUE /\ ~r.aborted
  /\ r.at = "sent" \/ r.reply # Denied
  /\ Fails(r) /\ UNCHANGED <<open, server, acts>>

-----------------------------------------------------------------------------
(* The administrator, and the timers of the page *)

Sends(r) == Room({r}) /\ requests' = requests \cup {r}

Pending(op) == \E r \in requests : r.op = op /\ ~r.aborted
\* The page may not know yet who is logged in: a login that is typed in quickly
\* may be answered after the check of an earlier session.
Login ==
  /\ me = None /\ ~Pending("login") /\ used # Logins
  /\ Sends(Request("login", "lists", "login", {}))
  /\ UNCHANGED <<open, server, page, acts, faults, failed>>
Logout ==
  /\ me # None /\ ~Pending("logout")
  /\ Sends(Request("logout", "lists", "logout", {}))
  /\ UNCHANGED <<open, server, page, acts, faults, failed>>

Acts == acts > 0 /\ acts' = acts - 1 /\ UNCHANGED <<open, server, faults, failed>>
Change(k) ==
  /\ k \in open /\ me # None /\ Acts
  /\ Sends(Request("change", k, "change", {})) /\ UNCHANGED page
ChangeLists      == Change("lists")
ChangeUsers      == Change("users")
ChangeUpdates    == Change("updates")
ChangeRules      == Change("rules")
ChangeChannels   == Change("channels")
ChangeDeliveries == Change("deliveries")
Confirm ==
  /\ "confirm" \in open /\ me # None /\ Acts
  /\ Sends(Request("confirm", "users", "change", {})) /\ UNCHANGED page
\* Something is loaded again.  The administrators' data are refreshed as a
\* whole, the users are not asked for alone.
Refresh(k) ==
  /\ k \in (open \cap Kinds) \ {"users"} /\ (k \in Public \/ me # None) /\ Acts
  /\ LET ks == IF k = "lists" THEN AdminData \cap open ELSE {k}
     IN  Room(Loads(ks, "asked", busy)) /\ Load(ks, "asked", requests)
  /\ UNCHANGED <<cookie, me, overtaken, query, shown, dialog, tracked>>
\* Another filter, or another page.
Filter(k) ==
  /\ k \in open \cap Queried /\ me # None /\ Acts
  /\ query' = [query EXCEPT ![k] = @ + 1]
  /\ LET R == {[r EXCEPT !.query = query'[k]] : r \in Loads({k}, "asked", busy)}
     IN  Room(R) /\ requests' = Sending(R, Numbers({k}), requests)
  /\ busy' = busy \cup Keys({k}, "asked")
  /\ UNCHANGED <<cookie, me, overtaken, shown, dialog, tracked>>
Run ==
  /\ "job" \in open /\ job = "none" /\ ~Pending("run") /\ me # None /\ Acts
  /\ Sends(Request("run", "lists", "change", {})) /\ UNCHANGED page
CloseDialog ==
  /\ dialog # "none" /\ dialog' = "none" /\ Acts
  /\ UNCHANGED <<cookie, me, overtaken, query, busy, shown, tracked, requests>>

\* Every five seconds; not while an answer to the last poll is missing, nor the
\* updates during an operation on them.
Operating == \E r \in requests :
  ~r.aborted /\ r.kind = "updates" /\ r.why \in {"task", "change"}
PollPublic ==
  /\ \A r \in requests : r.why # "poll"
  /\ LET ks == (open \cap Public)
                 \cup (IF me # None /\ ~Operating THEN open \cap {"updates"} ELSE {})
     IN  ks # {} /\ Room(Loads(ks, "poll", {})) /\ Load(ks, "poll", requests)
  /\ UNCHANGED <<open, server, cookie, me, overtaken, query, shown, dialog, tracked, acts, faults, failed>>
\* The next poll of the alerts does not wait for the answer to the last one;
\* that the answer comes within the five seconds is an assumption.
PollAlerts ==
  /\ me # None /\ "events" \in open
  /\ \A r \in requests : r.why # "quiet"
  /\ Room(Loads({"events"}, "quiet", {})) /\ Load({"events"}, "quiet", requests)
  /\ UNCHANGED <<open, server, cookie, me, overtaken, query, shown, dialog, tracked, acts, faults, failed>>
AskJob ==
  /\ tracked = "waiting" /\ tracked' = "asking"
  /\ Sends(Request("job", "lists", "job", {}))
  /\ UNCHANGED <<open, server, cookie, me, overtaken, query, busy, shown, dialog, acts, faults, failed>>

Timer == PollPublic \/ PollAlerts \/ AskJob

Next ==
  \/ \E r \in requests : Serve(r) \/ Arrive(r) \/ Lost(r)
  \/ \E s \in Logins : SessionEnds(s)
  \/ \E k \in Kinds : Happens(k) \/ Refresh(k) \/ Filter(k)
  \/ ChangeLists \/ ChangeUsers \/ ChangeUpdates \/ ChangeRules \/ ChangeChannels
  \/ ChangeDeliveries
  \/ JobFinishes \/ Login \/ Logout \/ Confirm \/ Run \/ CloseDialog \/ Timer

\* Every request is answered, whatever else is asked; only the polls go on for ever.
Polls == {"poll", "quiet", "job"}
Answered(whys) == \E r \in requests : r.why \in whys /\ (Serve(r) \/ Arrive(r))
Asked == Answered({"asked", "task", "change", "check", "login", "logout"})

-----------------------------------------------------------------------------
(* Properties *)

\* What the page shows of the data that it empties (clearAdminState, clearState;
\* not the candidates of a roll-out) was answered to the session the page believes
\* in: nothing after a logout, and nothing of an earlier login but one that it was
\* still checking when the next one was sent
\* (useMonitoringConsole.ts:306, useAlertingConsole.ts:248).
ShownIsOurs ==
  /\ \A k \in Forgotten :
       shown[k] # None => me # None /\ shown[k].by \in {me} \cup overtaken
  /\ dialog # "none" \/ tracked # "no" => me # None

\* What is shown of k is what the server holds, for the query of the page.
UpToDate(k) ==
  shown[k] # None /\ shown[k].version = truth[k] /\ shown[k].query = query[k]
\* The kinds whose answers cannot stay behind: a load that was skipped or lost
\* is made up for by the polling.
MadeUpFor == {"instances", "updates", "events"}
InOrder == {"lists", "audit"} \cup (IF "confirm" \in open THEN {} ELSE {"users"})
Followed == open \cap (MadeUpFor \cup (IF failed \/ overtaken # {} THEN {} ELSE InOrder))
Settled ==
  /\ \A k \in Followed : k \in Public \/ me # None => UpToDate(k)
  /\ "updates" \in open /\ me # None => me \in live
  /\ ~(dialog = "running" /\ job = "finished" /\ me \in live /\ overtaken = {})

\* When the administrator rests, the page comes to show what the server holds,
\* for the filter that is set, and no session that is over.  A login that overtakes
\* an earlier session aborts the polling of its job, and what that session had asked
\* for may still be done: what is not polled may stay behind then
\* (useMonitoringConsole.ts:453, useAlertingConsole.ts:341).
PageSettles == <>[]Settled

=============================================================================
