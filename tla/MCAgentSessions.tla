--------------------------- MODULE MCAgentSessions ---------------------------
(***************************************************************************)
(* AgentSessions on small instances: in each case one part is used, the    *)
(* others are over.                                                        *)
(***************************************************************************)
EXTENDS AgentSessions, TLC

CONSTANTS t1, t2, a1, r1, r2, l1, x1, d1, d2

MCTerms == {t1, t2}
MCAsks == {a1}
MCRequests == {r1, r2}
MCLogs == {l1}
MCExecs == {x1}
MCDesks == {d1, d2}

\* A connection that was never there, or one that nobody gives up; the instance
\* may be revoked in the meantime, or was before.
Fresh(g) ==
  /\ conn = 0 /\ on = 0 /\ link = [c \in Conns |-> "new"]
  /\ grant = g /\ cutting = FALSE /\ broken = FALSE
Steady ==
  /\ conn = 1 /\ on = 1 /\ link = [c \in Conns |-> IF c = 1 THEN "up" ELSE "new"]
  /\ grant = "again" /\ cutting = FALSE /\ broken = FALSE

Running(things, at) == {x \in DOMAIN things : things[x].at = at}

\* The tabs in the states given, with n requests for the shells to come.
NoTab == [T!NoTab EXCEPT !.at = "done", !.inputs = MaxInputs]
Tabs(tabs, asks) ==
  /\ tab = tabs
  /\ sessions = Running(tabs, "running")
  /\ events = [t \in Terms |-> <<>>]
  /\ tabAudit = [t \in Terms |-> IF tabs[t].conn = 1 THEN "running" ELSE "none"]
  /\ tabDown = <<>> /\ tabUp = <<>> /\ tabStream = <<>>
  /\ terminals = sessions
  /\ shell = [t \in Terms |-> IF t \in sessions THEN "running" ELSE "none"]
  /\ outputs = [t \in Terms |-> IF t \in sessions THEN MaxOutputs ELSE 0]
  /\ ask = [a \in Asks |-> [T!NoAsk EXCEPT !.at = IF a \in asks THEN "idle" ELSE "over"]]
  /\ asked = {}
NoTabs == Tabs([t \in Terms |-> NoTab], {})

Calls(rs, busy) ==
  /\ call = [r \in Requests |->
       [at |-> IF r \in busy THEN "waiting" ELSE IF r \in rs THEN "idle" ELSE "over",
        conn |-> IF r \in busy THEN 1 ELSE 0]]
  /\ cleanup = [r \in Requests |-> "none"] /\ pending = busy /\ permits = busy
  /\ callAudit = [r \in Requests |-> IF r \in busy THEN "running" ELSE "none"]
  /\ finish = [r \in Requests |-> "none"] /\ told = [r \in Requests |-> "nothing"]
  /\ orders = <<>> /\ answers = <<>>
  /\ task = [r \in Requests |-> IF r \in busy THEN "running" ELSE "none"]
NoCalls == Calls({}, {})

Views(ss, busy, left) ==
  /\ view = [s \in S!Streams |->
       [at |-> IF s \in busy THEN "running" ELSE IF s \in ss THEN "idle" ELSE "over",
        conn |-> IF s \in busy THEN 1 ELSE 0, end |-> "none"]]
  /\ table = busy /\ chunks = [s \in S!Streams |-> <<>>]
  /\ final = [s \in S!Streams |-> "none"]
  /\ viewAudit = [s \in S!Streams |-> IF s \in busy THEN "running" ELSE "none"]
  /\ viewOrders = <<>> /\ feed = <<>>
  /\ job = [s \in S!Streams |-> IF s \in busy THEN "running" ELSE "none"]
  /\ jobs = busy /\ astray = {}
  /\ sent = [s \in S!Streams |-> MaxChunks - left[s]]
NoViews == Views({}, {}, l1 :> 0 @@ x1 :> 0)

\* A browser comes when there is no desktop, when another one has it, or when
\* another one has just left it.
Visits(ds, busy, ended) ==
  /\ visit = [d \in Desks |->
       [at |-> IF d \in busy \ ended THEN "running" ELSE IF d \in ds THEN "idle" ELSE "over",
        conn |-> IF d \in busy THEN 1 ELSE 0]]
  /\ desks = busy \ ended /\ joined = busy
  /\ ending = [d \in Desks |-> IF d \in ended THEN "removed" ELSE "no"]
  /\ record = [d \in Desks |-> IF d \in busy THEN "running" ELSE "none"]
  /\ attention = [d \in Desks |-> IF d \in ds /\ busy = {} THEN "none" ELSE "over"]
  /\ channel = [d \in Desks |-> IF d \in busy THEN "joined" ELSE "none"]
  /\ toAgent = <<>> /\ fromAgent = <<>>
  /\ managed = busy /\ signalled = {}
  /\ relay = [d \in Desks |-> IF d \in busy THEN "relaying" ELSE "none"]
NoVisits == Visits({}, {}, {})

Cases ==
  \/ /\ NoCalls /\ NoViews /\ NoVisits
     /\ \/ Fresh("again") /\ losses = 0 /\ Tabs(t1 :> T!NoTab @@ t2 :> NoTab, {})
        \/ Fresh("again") /\ losses = 0 /\ Tabs(t1 :> NoTab @@ t2 :> NoTab, Asks)
        \/ Steady /\ losses = MaxLosses /\ Tabs(t1 :> [T!NoTab EXCEPT !.at = "audited", !.conn = 1]
                       @@ t2 :> [NoTab EXCEPT !.at = "running", !.conn = 1], {})
  \/ /\ NoTabs /\ NoViews /\ NoVisits
     /\ \/ Fresh("first") /\ losses = 0 /\ Calls({r1}, {})
        \/ Steady /\ losses = MaxLosses /\ Calls({r1, r2}, {r1})
  \/ /\ NoTabs /\ NoCalls /\ NoVisits
     /\ \/ \E s \in S!Streams :
             \/ Fresh("again") /\ losses = 0 /\ Views({s}, {}, l1 :> 2 @@ x1 :> 2)
             \/ Fresh("first") /\ losses = MaxLosses /\ Views({s}, {}, l1 :> 1 @@ x1 :> 0)
        \/ Steady /\ losses = MaxLosses /\ Views({l1, x1}, {l1}, l1 :> 1 @@ x1 :> 0)
  \/ /\ NoTabs /\ NoCalls /\ NoViews
     /\ \/ Fresh("again") /\ losses = 0 /\ Visits({d1}, {}, {})
        \/ Steady /\ losses = MaxLosses /\ Visits({d2}, {d1}, {})
        \/ Steady /\ losses = 0 /\ Visits({d2}, {d1}, {d1})
CasesSpec == Cases /\ [][Next]_vars /\ Fairness
=============================================================================
