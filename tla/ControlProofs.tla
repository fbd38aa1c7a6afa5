---------------------------- MODULE ControlProofs ----------------------------
(***************************************************************************)
(* Theorems about CommandJobs for any set of jobs, connections and         *)
(* administrators and any bounds; about the sessions of administrators,    *)
(* for any accounts, devices, tokens and requests and any length of the    *)
(* clock; and about the page that shows them their data, for any sessions  *)
(* and any number of requests, actions and failures.                       *)
(***************************************************************************)
EXTENDS MCControl, FiniteSetTheorems, TLAPS

(***************************************************************************)
(* CommandJobs.                                                            *)
(***************************************************************************)
\* Membership in a queue after it was appended to or popped.
LEMMA AppendElements ==
  ASSUME NEW S, NEW s \in Seq(S), NEW x \in S
  PROVE  /\ Append(s, x) \in Seq(S)
         /\ \A y \in ToSet(Append(s, x)) : y \in ToSet(s) \/ y = x
  BY DEF ToSet

LEMMA TailElements ==
  ASSUME NEW S, NEW s \in Seq(S), s # <<>>
  PROVE  /\ Head(s) \in S /\ Head(s) \in ToSet(s)
         /\ Tail(s) \in Seq(S)
         /\ \A y \in ToSet(Tail(s)) : y \in ToSet(s)
  BY DEF ToSet

(***************************************************************************)
(* Type correctness                                                        *)
(***************************************************************************)
LEMMA TypeInit == Init => TypeOK /\ HandlesHeld
  BY DEF Init, TypeOK, HandlesHeld, Statuses, HandlerPoints, SocketPoints, RevokePoints,
         MaybeConn, Messages

\* The two ways in which the agent's queue grows keep its type.
LEMMA UpAppend ==
  ASSUME TypeOK, NEW c \in Conns, NEW m \in Messages
  PROVE  Append(up[c], m) \in Seq(Messages)
  BY DEF TypeOK

LEMMA ReportType ==
  ASSUME TypeOK, NEW c \in Conns, NEW m \in Messages, Report(c, m)
  PROVE  up' \in [Conns -> Seq(Messages)] /\ agentConn' \in MaybeConn
<1>1. Append(up[c], m) \in Seq(Messages)
  BY UpAppend
<1>2. QED
  BY <1>1 DEF TypeOK, Report, MaybeConn

LEMMA TypeStep == TypeOK /\ HandlesHeld /\ [Next]_vars => (TypeOK /\ HandlesHeld)'
<1> SUFFICES ASSUME TypeOK, HandlesHeld, [Next]_vars PROVE (TypeOK /\ HandlesHeld)'
  OBVIOUS
<1> USE DEF TypeOK, HandlesHeld, Statuses, HandlerPoints, SocketPoints, RevokePoints, MaybeConn,
            Messages, db, memory, agent
<1>1. ASSUME NEW j \in Jobs, CreateJob(j)
      PROVE  (TypeOK /\ HandlesHeld)'
  BY <1>1 DEF CreateJob
<1>2. ASSUME NEW j \in Jobs, PickConnection(j)
      PROVE  (TypeOK /\ HandlesHeld)'
  BY <1>2 DEF PickConnection
<1>3. ASSUME NEW j \in Jobs, FailOffline(j)
      PROVE  (TypeOK /\ HandlesHeld)'
  BY <1>3 DEF FailOffline, FailRows
<1>4. ASSUME NEW j \in Jobs, MarkRunning(j)
      PROVE  (TypeOK /\ HandlesHeld)'
  BY <1>4, ZenonT(60) DEF MarkRunning
<1>5. ASSUME NEW j \in Jobs, SendCommand(j)
      PROVE  (TypeOK /\ HandlesHeld)'
  <2>1. picked[j] \in Conns
    BY <1>5 DEF SendCommand
  <2>2. Append(down[picked[j]], j) \in Seq(Jobs)
    BY <2>1
  <2>3. QED
    BY <1>5, <2>1, <2>2, ZenonT(60) DEF SendCommand
<1>6. ASSUME NEW j \in Jobs, FailUnsent(j)
      PROVE  (TypeOK /\ HandlesHeld)'
  BY <1>6 DEF FailUnsent, FailRows
<1>7. ASSUME NEW j \in Jobs, DropHandler(j)
      PROVE  (TypeOK /\ HandlesHeld)'
  BY <1>7 DEF DropHandler
<1>8. ASSUME NEW j \in Jobs, BecomeOverdue(j)
      PROVE  (TypeOK /\ HandlesHeld)'
  BY <1>8 DEF BecomeOverdue
<1>9. ASSUME ExpireJobs
      PROVE  (TypeOK /\ HandlesHeld)'
  BY <1>9 DEF ExpireJobs, FailRows, Expired
<1>10. ASSUME NEW c \in Conns, Upgrade(c)
      PROVE  (TypeOK /\ HandlesHeld)'
  BY <1>10 DEF Upgrade
<1>11. ASSUME NEW c \in Conns, RegisterSocket(c)
      PROVE  (TypeOK /\ HandlesHeld)'
  <2>1. CASE registry = None
    BY <1>11, <2>1 DEF RegisterSocket
  <2>2. CASE registry # None
    <3>1. shutdown' \subseteq Conns
      BY <1>11, <2>2 DEF RegisterSocket
    <3>2. socket' \in [Conns -> SocketPoints] /\ victim' \in [Conns -> MaybeConn]
      BY <1>11, <2>2 DEF RegisterSocket
    <3>3. QED
      BY <1>11, <3>1, <3>2 DEF RegisterSocket
  <2>3. QED
    BY <2>1, <2>2
<1>12. ASSUME NEW c \in Conns, FailReplaced(c)
      PROVE  (TypeOK /\ HandlesHeld)'
  BY <1>12 DEF FailReplaced, FailConnectionJobs, RunningOn, FailRows
<1>13. ASSUME NEW c \in Conns, Authorize(c)
      PROVE  (TypeOK /\ HandlesHeld)'
  BY <1>13 DEF Authorize
<1>14. ASSUME NEW c \in Conns, RejectSocket(c)
      PROVE  (TypeOK /\ HandlesHeld)'
  <2>1. <<>> \in Seq(Jobs) /\ <<>> \in Seq(Messages)
    OBVIOUS
  <2>2. QED
    BY <1>14, <2>1 DEF RejectSocket, RemoveCurrent
<1>15. ASSUME NEW c \in Conns, Unregister(c)
      PROVE  (TypeOK /\ HandlesHeld)'
  <2>1. <<>> \in Seq(Jobs) /\ <<>> \in Seq(Messages)
    OBVIOUS
  <2>2. QED
    BY <1>15, <2>1 DEF Unregister, RemoveCurrent
<1>16. ASSUME NEW c \in Conns, FailOnExit(c)
      PROVE  (TypeOK /\ HandlesHeld)'
  BY <1>16 DEF FailOnExit, FailConnectionJobs, RunningOn, FailRows
<1>17. ASSUME NEW c \in Conns, LeaveLoop(c)
      PROVE  (TypeOK /\ HandlesHeld)'
  BY <1>17 DEF LeaveLoop
<1>18. ASSUME NEW c \in Conns, ReceiveMessage(c)
      PROVE  (TypeOK /\ HandlesHeld)'
  <2>1. up[c] \in Seq(Messages) /\ up[c] # <<>>
    BY <1>18 DEF ReceiveMessage
  <2>2. Head(up[c]) \in Messages /\ Tail(up[c]) \in Seq(Messages)
    BY <2>1, TailElements
  <2>3. Head(up[c]).job \in Jobs
    BY <2>2
  <2>4. output' \in [Jobs -> {"empty", "partial", "result", "notice"}]
    BY <1>18, <2>3, ZenonT(60) DEF ReceiveMessage
  <2>5. status' \in [Jobs -> Statuses]
    BY <1>18, <2>3 DEF ReceiveMessage
  <2>6. up' \in [Conns -> Seq(Messages)]
    BY <1>18, <2>2 DEF ReceiveMessage
  <2>7. QED
    BY <1>18, <2>4, <2>5, <2>6 DEF ReceiveMessage
<1>19. ASSUME NEW c \in Conns, NEW refused \in BOOLEAN, DeliverCommand(c, refused)
      PROVE  (TypeOK /\ HandlesHeld)'
  <2>1. down[c] \in Seq(Jobs) /\ down[c] # <<>>
    BY <1>19 DEF DeliverCommand
  <2>2. Head(down[c]) \in Jobs /\ Tail(down[c]) \in Seq(Jobs)
    BY <2>1, TailElements
  <2>3. down' \in [Conns -> Seq(Jobs)]
    BY <1>19, <2>2 DEF DeliverCommand
  <2>4. executing' \subseteq [job : Jobs, conn : Conns]
    BY <1>19, <2>2 DEF DeliverCommand
  <2>5. [kind |-> "error", job |-> Head(down[c])] \in Messages
    BY <2>2
  <2>6. Append(up[c], [kind |-> "error", job |-> Head(down[c])]) \in Seq(Messages)
    BY <2>5, UpAppend
  <2>7. up' \in [Conns -> Seq(Messages)]
    BY <1>19, <2>6 DEF DeliverCommand
  <2>8. agentConn' \in {agentConn, None}
    BY <1>19 DEF DeliverCommand
  <2>9. QED
    BY <1>19, <2>3, <2>4, <2>7, <2>8 DEF DeliverCommand
<1>20. ASSUME NEW run \in executing, StreamOutput(run)
      PROVE  (TypeOK /\ HandlesHeld)'
  <2>1. [kind |-> "output", job |-> run.job] \in Messages /\ run.conn \in Conns
    BY <1>20
  <2>2. up' \in [Conns -> Seq(Messages)] /\ agentConn' \in MaybeConn
    BY <1>20, <2>1, ReportType DEF StreamOutput
  <2>3. QED
    BY <1>20, <2>2 DEF StreamOutput
<1>21. ASSUME NEW run \in executing, NEW kind \in {"ok", "error"}, FinishCommand(run, kind)
      PROVE  (TypeOK /\ HandlesHeld)'
  <2>1. [kind |-> kind, job |-> run.job] \in Messages /\ run.conn \in Conns
    BY <1>21
  <2>2. up' \in [Conns -> Seq(Messages)] /\ agentConn' \in MaybeConn
    BY <1>21, <2>1, ReportType DEF FinishCommand
  <2>3. QED
    BY <1>21, <2>2 DEF FinishCommand
<1>22. ASSUME AgentDisconnect
      PROVE  (TypeOK /\ HandlesHeld)'
  BY <1>22 DEF AgentDisconnect
<1>23. ASSUME AgentCrash
      PROVE  (TypeOK /\ HandlesHeld)'
  BY <1>23 DEF AgentCrash
<1>24. ASSUME NEW a \in Admins, DisableInstance(a)
      PROVE  (TypeOK /\ HandlesHeld)'
  BY <1>24 DEF DisableInstance, Revoking
<1>25. ASSUME NEW a \in Admins, DeleteInstance(a)
      PROVE  (TypeOK /\ HandlesHeld)'
  BY <1>25 DEF DeleteInstance, Revoking
<1>26. ASSUME NEW a \in Admins, RevokeRemove(a)
      PROVE  (TypeOK /\ HandlesHeld)'
  <2>1. /\ \/ revoke' = [revoke EXCEPT ![a] = "idle"] /\ target' = [target EXCEPT ![a] = None]
           \/ /\ registry # None /\ revoke' = [revoke EXCEPT ![a] = "removed"]
              /\ target' = [target EXCEPT ![a] = registry]
        /\ registry' = None
        /\ UNCHANGED <<instance, status, owner, output, overdue, handler, picked, socket, victim,
                       shutdown, down, agentConn, executing, up>>
    BY <1>26 DEF RevokeRemove, Revoking
  <2>2. revoke' \in [Admins -> RevokePoints] /\ target' \in [Admins -> MaybeConn]
    <3>1. PICK p \in RevokePoints, c \in MaybeConn :
            revoke' = [revoke EXCEPT ![a] = p] /\ target' = [target EXCEPT ![a] = c]
      BY <2>1
    <3>2. QED
      BY <3>1
  <2>3. \A b \in Admins : revoke'[b] \in {"removed", "failing"} => target'[b] # None
    BY <2>1
  <2>4. QED
    BY <2>1, <2>2, <2>3
<1>27. ASSUME NEW a \in Admins, RevokeShutdown(a)
      PROVE  (TypeOK /\ HandlesHeld)'
  BY <1>27 DEF RevokeShutdown, Revoking
<1>28. ASSUME NEW a \in Admins, RevokeFail(a)
      PROVE  (TypeOK /\ HandlesHeld)'
  BY <1>28 DEF RevokeFail, Revoking, FailConnectionJobs, RunningOn, FailRows
<1>29. ASSUME NEW a \in Admins, DropRevoke(a)
      PROVE  (TypeOK /\ HandlesHeld)'
  BY <1>29, ZenonT(60) DEF DropRevoke, Revoking
<1>30. ASSUME ApproveInstance
      PROVE  (TypeOK /\ HandlesHeld)'
  BY <1>30 DEF ApproveInstance
<1>31. ASSUME RestartBackend
      PROVE  (TypeOK /\ HandlesHeld)'
  BY <1>31 DEF RestartBackend, FailRows, Inflight
<1>32. CASE UNCHANGED vars
  BY <1>32 DEF vars
<1>33. QED
  BY <1>1, <1>2, <1>3, <1>4, <1>5, <1>6, <1>7, <1>8, <1>9, <1>10, <1>11,
     <1>12, <1>13, <1>14, <1>15, <1>16, <1>17, <1>18, <1>19, <1>20,
     <1>21, <1>22, <1>23, <1>24, <1>25, <1>26, <1>27, <1>28, <1>29,
     <1>30, <1>31, <1>32
  DEF Next, HandlerStep, SocketStep, RevokeStep

(***************************************************************************)
(* The registry and the socket tasks                                       *)
(***************************************************************************)
\* The actions that touch the registry or the program point of a socket.
LEMMA SocketActions ==
  ASSUME [Next]_vars
  PROVE  \/ UNCHANGED <<registry, socket>>
         \/ \E c \in Conns : Upgrade(c) \/ SocketStep(c) \/ LeaveLoop(c)
         \/ \E a \in Admins : RevokeRemove(a)
         \/ RestartBackend
<1>1. CASE \E j \in Jobs : CreateJob(j) \/ HandlerStep(j) \/ DropHandler(j) \/ BecomeOverdue(j)
  BY <1>1 DEF HandlerStep, CreateJob, PickConnection, FailOffline, MarkRunning, SendCommand,
              FailUnsent, DropHandler, BecomeOverdue, memory
<1>2. CASE ExpireJobs \/ AgentDisconnect \/ AgentCrash \/ ApproveInstance
  BY <1>2 DEF ExpireJobs, AgentDisconnect, AgentCrash, ApproveInstance, memory
<1>3. CASE \E c \in Conns : \/ ReceiveMessage(c)
                           \/ \E refused \in BOOLEAN : DeliverCommand(c, refused)
  BY <1>3 DEF ReceiveMessage, DeliverCommand, memory
<1>4. CASE \E run \in executing : \/ StreamOutput(run)
                                 \/ \E kind \in {"ok", "error"} : FinishCommand(run, kind)
  BY <1>4 DEF StreamOutput, FinishCommand, memory
<1>5. CASE \E a \in Admins : \/ DisableInstance(a) \/ DeleteInstance(a) \/ RevokeShutdown(a)
                            \/ RevokeFail(a) \/ DropRevoke(a)
  BY <1>5 DEF DisableInstance, DeleteInstance, RevokeShutdown, RevokeFail, DropRevoke
<1>6. CASE UNCHANGED vars
  BY <1>6 DEF vars, memory
<1>7. QED
  BY <1>1, <1>2, <1>3, <1>4, <1>5, <1>6 DEF Next, RevokeStep

LEMMA RegistryStep == TypeOK /\ RegistryIsLive /\ [Next]_vars => RegistryIsLive'
<1> SUFFICES ASSUME TypeOK, RegistryIsLive, [Next]_vars PROVE RegistryIsLive'
  OBVIOUS
<1> USE DEF TypeOK, RegistryIsLive, Registered, MaybeConn
<1>1. CASE UNCHANGED <<registry, socket>>
  BY <1>1
<1>2. ASSUME NEW c \in Conns, Upgrade(c) \/ LeaveLoop(c) PROVE RegistryIsLive'
  BY <1>2 DEF Upgrade, LeaveLoop
<1>3. ASSUME NEW c \in Conns, RegisterSocket(c) PROVE RegistryIsLive'
  BY <1>3 DEF RegisterSocket
<1>4. ASSUME NEW c \in Conns, FailReplaced(c) \/ Authorize(c) PROVE RegistryIsLive'
  BY <1>4 DEF FailReplaced, Authorize
<1>5. ASSUME NEW c \in Conns, RejectSocket(c) \/ Unregister(c) PROVE RegistryIsLive'
  BY <1>5 DEF RejectSocket, Unregister, RemoveCurrent
<1>6. ASSUME NEW c \in Conns, FailOnExit(c) PROVE RegistryIsLive'
  BY <1>6 DEF FailOnExit
<1>7. ASSUME NEW a \in Admins, RevokeRemove(a) PROVE RegistryIsLive'
  BY <1>7 DEF RevokeRemove
<1>8. CASE RestartBackend
  BY <1>8 DEF RestartBackend
<1>9. QED
  BY <1>1, <1>2, <1>3, <1>4, <1>5, <1>6, <1>7, <1>8, SocketActions DEF SocketStep

(***************************************************************************)
(* Disabled instances                                                      *)
(***************************************************************************)
LEMMA CutStep ==
  TypeOK /\ RegistryIsLive /\ DisabledIsCut /\ [Next]_vars => DisabledIsCut'
<1> SUFFICES ASSUME TypeOK, RegistryIsLive, DisabledIsCut, [Next]_vars PROVE DisabledIsCut'
  OBVIOUS
<1> USE DEF TypeOK, RegistryIsLive, Registered, DisabledIsCut, MaybeConn, RevokePoints
<1>1. CASE UNCHANGED <<registry, socket, instance, revoke>>
  BY <1>1
<1>2. ASSUME NEW c \in Conns, Upgrade(c) \/ LeaveLoop(c) PROVE DisabledIsCut'
  BY <1>2 DEF Upgrade, LeaveLoop, db
<1>3. ASSUME NEW c \in Conns, RegisterSocket(c) PROVE DisabledIsCut'
  BY <1>3 DEF RegisterSocket, db
<1>4. ASSUME NEW c \in Conns, FailReplaced(c) \/ Authorize(c) PROVE DisabledIsCut'
  BY <1>4 DEF FailReplaced, Authorize, db
<1>5. ASSUME NEW c \in Conns, RejectSocket(c) \/ Unregister(c) PROVE DisabledIsCut'
  BY <1>5 DEF RejectSocket, Unregister, RemoveCurrent, db
<1>6. ASSUME NEW c \in Conns, FailOnExit(c) PROVE DisabledIsCut'
  BY <1>6 DEF FailOnExit
<1>7. ASSUME NEW a \in Admins, DisableInstance(a) \/ DeleteInstance(a) PROVE DisabledIsCut'
  BY <1>7 DEF DisableInstance, DeleteInstance, Revoking
<1>8. ASSUME NEW a \in Admins, RevokeRemove(a) PROVE DisabledIsCut'
  BY <1>8 DEF RevokeRemove
<1>9. ASSUME NEW a \in Admins, RevokeShutdown(a) \/ RevokeFail(a) \/ DropRevoke(a)
      PROVE  DisabledIsCut'
  BY <1>9 DEF RevokeShutdown, RevokeFail, DropRevoke, Revoking, db
<1>10. CASE ApproveInstance
  BY <1>10 DEF ApproveInstance
<1>11. CASE RestartBackend
  BY <1>11 DEF RestartBackend
<1>12. CASE \/ \E j \in Jobs : CreateJob(j) \/ HandlerStep(j) \/ DropHandler(j) \/ BecomeOverdue(j)
            \/ ExpireJobs
  BY <1>1, <1>12 DEF HandlerStep, CreateJob, PickConnection, FailOffline, MarkRunning, SendCommand,
                     FailUnsent, DropHandler, BecomeOverdue, ExpireJobs, memory, db
<1>13. CASE \/ \E c \in Conns : \/ ReceiveMessage(c)
                               \/ \E refused \in BOOLEAN : DeliverCommand(c, refused)
            \/ \E run \in executing : \/ StreamOutput(run)
                                     \/ \E kind \in {"ok", "error"} : FinishCommand(run, kind)
            \/ AgentDisconnect \/ AgentCrash
  BY <1>1, <1>13 DEF ReceiveMessage, DeliverCommand, StreamOutput, FinishCommand, AgentDisconnect,
                     AgentCrash, memory, db
<1>14. CASE UNCHANGED vars
  BY <1>1, <1>14 DEF vars, memory, db
<1>15. QED
  BY <1>2, <1>3, <1>4, <1>5, <1>6, <1>7, <1>8, <1>9, <1>10, <1>11, <1>12, <1>13, <1>14
  DEF Next, SocketStep, RevokeStep

(***************************************************************************)
(* Rows, and the commands sent for them                                    *)
(***************************************************************************)
\* What an action that only fails running or queued rows leaves true.
LEMMA FailingRows ==
  ASSUME TypeOK, OwnerAgrees, NEW rows, rows \subseteq Inflight, FailRows(rows),
         UNCHANGED <<owner, picked>>,
         \A j \in Jobs : handler'[j] \in {"marked", "unsent"} => handler[j] = handler'[j]
  PROVE  OwnerAgrees'
  BY DEF TypeOK, OwnerAgrees, FailRows, Inflight

LEMMA OwnerStep == TypeOK /\ HandlesHeld /\ OwnerAgrees /\ [Next]_vars => OwnerAgrees'
<1> SUFFICES ASSUME TypeOK, HandlesHeld, OwnerAgrees, [Next]_vars PROVE OwnerAgrees'
  OBVIOUS
<1>1. CASE UNCHANGED <<status, owner, handler, picked>>
  BY <1>1 DEF OwnerAgrees
<1>2. ASSUME NEW j \in Jobs, CreateJob(j) PROVE OwnerAgrees'
  BY <1>2 DEF CreateJob, TypeOK, OwnerAgrees
<1>3. ASSUME NEW j \in Jobs, PickConnection(j) PROVE OwnerAgrees'
  BY <1>3 DEF PickConnection, db, TypeOK, OwnerAgrees
<1>4. ASSUME NEW j \in Jobs, FailOffline(j) PROVE OwnerAgrees'
  BY <1>4, FailingRows DEF FailOffline, Inflight, TypeOK
<1>5. ASSUME NEW j \in Jobs, MarkRunning(j) PROVE OwnerAgrees'
  BY <1>5 DEF MarkRunning, TypeOK, HandlesHeld, OwnerAgrees
<1>6. ASSUME NEW j \in Jobs, SendCommand(j) PROVE OwnerAgrees'
  BY <1>6 DEF SendCommand, db, TypeOK, OwnerAgrees
<1>7. ASSUME NEW j \in Jobs, FailUnsent(j) PROVE OwnerAgrees'
  BY <1>7, FailingRows DEF FailUnsent, Inflight, TypeOK
<1>8. ASSUME NEW j \in Jobs, DropHandler(j) PROVE OwnerAgrees'
  BY <1>8 DEF DropHandler, db, TypeOK, OwnerAgrees
<1>9. CASE ExpireJobs
  BY <1>9, FailingRows DEF ExpireJobs, Expired, Inflight, TypeOK, memory
<1>10. ASSUME NEW c \in Conns, FailReplaced(c) \/ FailOnExit(c) PROVE OwnerAgrees'
  BY <1>10, FailingRows DEF FailReplaced, FailOnExit, FailConnectionJobs, RunningOn, Inflight
<1>11. ASSUME NEW c \in Conns, ReceiveMessage(c) PROVE OwnerAgrees'
  <2>1. \A j \in Jobs : status'[j] = status[j]
                       \/ (status[j] = "running" /\ status'[j] \in {"completed", "failed"})
    BY <1>11 DEF ReceiveMessage, Accepts, TypeOK
  <2>2. QED
    BY <1>11, <2>1 DEF ReceiveMessage, memory, OwnerAgrees
<1>12. ASSUME NEW a \in Admins, DeleteInstance(a) PROVE OwnerAgrees'
  BY <1>12 DEF DeleteInstance, TypeOK, OwnerAgrees
<1>13. ASSUME NEW a \in Admins, RevokeFail(a) PROVE OwnerAgrees'
  BY <1>13, FailingRows DEF RevokeFail, FailConnectionJobs, RunningOn, Inflight
<1>14. CASE RestartBackend
  BY <1>14, FailingRows DEF RestartBackend, Inflight, TypeOK
<1>15. ASSUME NEW j \in Jobs, BecomeOverdue(j) PROVE OwnerAgrees'
  BY <1>1, <1>15 DEF BecomeOverdue, memory
<1>16. ASSUME NEW c \in Conns,
              \/ Upgrade(c) \/ RegisterSocket(c) \/ Authorize(c) \/ RejectSocket(c)
              \/ Unregister(c) \/ LeaveLoop(c)
              \/ \E refused \in BOOLEAN : DeliverCommand(c, refused)
       PROVE  OwnerAgrees'
  BY <1>1, <1>16 DEF Upgrade, RegisterSocket, Authorize, RejectSocket, Unregister, LeaveLoop,
                     DeliverCommand, db
<1>17. CASE \/ \E run \in executing : \/ StreamOutput(run)
                                     \/ \E kind \in {"ok", "error"} : FinishCommand(run, kind)
            \/ AgentDisconnect \/ AgentCrash \/ ApproveInstance
  BY <1>1, <1>17 DEF StreamOutput, FinishCommand, AgentDisconnect, AgentCrash, ApproveInstance,
                     db, memory
<1>18. ASSUME NEW a \in Admins,
              DisableInstance(a) \/ RevokeRemove(a) \/ RevokeShutdown(a) \/ DropRevoke(a)
       PROVE  OwnerAgrees'
  BY <1>1, <1>18 DEF DisableInstance, RevokeRemove, RevokeShutdown, DropRevoke, db
<1>19. CASE UNCHANGED vars
  BY <1>1, <1>19 DEF vars, db, memory
<1>20. QED
  BY <1>2, <1>3, <1>4, <1>5, <1>6, <1>7, <1>8, <1>9, <1>10, <1>11, <1>12, <1>13, <1>14, <1>15,
     <1>16, <1>17, <1>18, <1>19
  DEF Next, HandlerStep, SocketStep, RevokeStep

LEMMA FollowStep ==
  TypeOK /\ HandlesHeld /\ OwnerAgrees /\ CommandFollowsRow /\ [Next]_vars => CommandFollowsRow'
<1> SUFFICES ASSUME TypeOK, HandlesHeld, OwnerAgrees, CommandFollowsRow, [Next]_vars
             PROVE  CommandFollowsRow'
  OBVIOUS
<1> USE DEF TypeOK, CommandFollowsRow
<1>1. CASE UNCHANGED <<owner, down, executing>>
  BY <1>1
<1>2. ASSUME NEW j \in Jobs, MarkRunning(j) PROVE CommandFollowsRow'
  <2>1. CASE status[j] # "queued"
    BY <1>1, <1>2, <2>1 DEF MarkRunning, agent
  <2>2. CASE status[j] = "queued"
    <3>1. owner[j] = None
      BY <2>2 DEF OwnerAgrees
    <3>2. \A c \in Conns : j \notin ToSet(down[c])
      BY <3>1, NoneAssumption
    <3>3. \A run \in executing : run.job # j /\ run.conn \in Conns
      BY <3>1, NoneAssumption
    <3>4. \A i \in Jobs : i # j => owner'[i] = owner[i]
      BY <1>2 DEF MarkRunning
    <3>5. \A c \in Conns : \A i \in ToSet(down[c]) : i \in Jobs
      BY DEF ToSet
    <3>6. UNCHANGED <<down, executing>>
      BY <1>2 DEF MarkRunning, agent
    <3>7. QED
      BY <3>2, <3>3, <3>4, <3>5, <3>6
  <2>3. QED
    BY <2>1, <2>2
<1>3. ASSUME NEW j \in Jobs, SendCommand(j) PROVE CommandFollowsRow'
  <2>1. CASE UNCHANGED down
    BY <1>1, <1>3, <2>1 DEF SendCommand, db, agent
  <2>2. CASE down' = [down EXCEPT ![picked[j]] = Append(@, j)]
    <3>1. owner[j] = picked[j] /\ picked[j] \in Conns
      BY <1>3 DEF SendCommand, OwnerAgrees, HandlesHeld, MaybeConn
    <3>2. \A i \in ToSet(down'[picked[j]]) : i \in ToSet(down[picked[j]]) \/ i = j
      BY <2>2, <3>1, AppendElements
    <3>3. \A c \in Conns : c # picked[j] => down'[c] = down[c]
      BY <2>2
    <3>4. UNCHANGED <<owner, executing>>
      BY <1>3 DEF SendCommand, db, agent
    <3>5. QED
      BY <3>1, <3>2, <3>3, <3>4
  <2>3. QED
    BY <1>3, <2>1, <2>2 DEF SendCommand
<1>4. ASSUME NEW c \in Conns, RejectSocket(c) \/ Unregister(c) PROVE CommandFollowsRow'
  <2>1. \A d \in Conns : down'[d] = IF d = c THEN <<>> ELSE down[d]
    BY <1>4 DEF RejectSocket, Unregister
  <2>2. ToSet(<<>>) = {}
    BY DEF ToSet
  <2>3. UNCHANGED <<owner, executing>>
    BY <1>4 DEF RejectSocket, Unregister, db
  <2>4. QED
    BY <2>1, <2>2, <2>3
<1>5. ASSUME NEW c \in Conns, NEW refused \in BOOLEAN, DeliverCommand(c, refused)
      PROVE  CommandFollowsRow'
  <2>1. /\ Head(down[c]) \in ToSet(down[c])
        /\ \A i \in ToSet(Tail(down[c])) : i \in ToSet(down[c])
    BY <1>5, TailElements DEF DeliverCommand
  <2>2. \A d \in Conns : down'[d] = IF d = c THEN Tail(down[c]) ELSE down[d]
    BY <1>5 DEF DeliverCommand
  <2>3. UNCHANGED owner
    BY <1>5 DEF DeliverCommand, db
  <2>4. executing' \subseteq executing \cup {[job |-> Head(down[c]), conn |-> c]}
    BY <1>5 DEF DeliverCommand
  <2>5. \A run \in executing' : owner[run.job] = run.conn
    BY <2>1, <2>4
  <2>6. QED
    BY <2>1, <2>2, <2>3, <2>5
<1>6. ASSUME NEW run \in executing, NEW kind \in {"ok", "error"}, FinishCommand(run, kind)
      PROVE  CommandFollowsRow'
  BY <1>6 DEF FinishCommand, db, memory
<1>7. CASE AgentCrash
  BY <1>7 DEF AgentCrash, db, memory
<1>8. CASE RestartBackend
  <2>1. \A d \in Conns : down'[d] = <<>>
    BY <1>8 DEF RestartBackend
  <2>2. ToSet(<<>>) = {}
    BY DEF ToSet
  <2>3. UNCHANGED <<owner, executing>>
    BY <1>8 DEF RestartBackend
  <2>4. QED
    BY <2>1, <2>2, <2>3
<1>9. ASSUME NEW j \in Jobs,
             \/ CreateJob(j) \/ PickConnection(j) \/ FailOffline(j) \/ FailUnsent(j)
             \/ DropHandler(j) \/ BecomeOverdue(j)
      PROVE  CommandFollowsRow'
  BY <1>1, <1>9 DEF CreateJob, PickConnection, FailOffline, FailUnsent, DropHandler,
                    BecomeOverdue, db, memory, agent
<1>10. ASSUME NEW c \in Conns,
              \/ Upgrade(c) \/ RegisterSocket(c) \/ FailReplaced(c) \/ Authorize(c)
              \/ LeaveLoop(c) \/ FailOnExit(c) \/ ReceiveMessage(c)
       PROVE  CommandFollowsRow'
  BY <1>1, <1>10 DEF Upgrade, RegisterSocket, FailReplaced, Authorize, LeaveLoop, FailOnExit,
                     ReceiveMessage, db, memory, agent
<1>11. CASE \/ \E run \in executing : StreamOutput(run)
            \/ ExpireJobs \/ AgentDisconnect \/ ApproveInstance
  BY <1>1, <1>11 DEF StreamOutput, ExpireJobs, AgentDisconnect, ApproveInstance, db, memory, agent
<1>12. ASSUME NEW a \in Admins,
              DisableInstance(a) \/ DeleteInstance(a) \/ RevokeStep(a) \/ DropRevoke(a)
       PROVE  CommandFollowsRow'
  BY <1>1, <1>12 DEF DisableInstance, DeleteInstance, RevokeStep, RevokeRemove, RevokeShutdown,
                     RevokeFail, DropRevoke, db, agent
<1>13. CASE UNCHANGED vars
  BY <1>1, <1>13 DEF vars, db, memory, agent
<1>14. QED
  BY <1>2, <1>3, <1>4, <1>5, <1>6, <1>7, <1>8, <1>9, <1>10, <1>11, <1>12, <1>13
  DEF Next, HandlerStep, SocketStep

(***************************************************************************)
(* No running job is forgotten                                             *)
(***************************************************************************)
LEMMA WatchStep ==
  TypeOK /\ HandlesHeld /\ OwnerAgrees /\ RegistryIsLive /\ RunningIsWatched /\ [Next]_vars
    => RunningIsWatched'
<1> SUFFICES ASSUME TypeOK, HandlesHeld, OwnerAgrees, RegistryIsLive, RunningIsWatched, [Next]_vars
             PROVE  RunningIsWatched'
  OBVIOUS
<1> USE DEF RunningIsWatched, TaskWillFail, Abandoned
<1>1. CASE UNCHANGED <<status, owner, handler, socket>>
  BY <1>1
<1>2. ASSUME NEW j \in Jobs,
             CreateJob(j) \/ PickConnection(j) \/ FailOffline(j) \/ DropHandler(j)
      PROVE  RunningIsWatched'
  BY <1>2 DEF CreateJob, PickConnection, FailOffline, DropHandler, FailRows, db, TypeOK
<1>3. ASSUME NEW j \in Jobs, MarkRunning(j) PROVE RunningIsWatched'
  <2>1. CASE status[j] = "queued"
    <3>1. /\ handler'[j] = "marked" /\ UNCHANGED socket
          /\ \A k \in Jobs \ {j} : UNCHANGED <<status[k], owner[k], handler[k]>>
      BY <1>3, <2>1 DEF MarkRunning, TypeOK
    <3>2. QED
      BY <3>1
  <2>2. CASE status[j] # "queued"
    <3>1. UNCHANGED <<status, owner, socket>>
      BY <1>3, <2>2 DEF MarkRunning
    <3>2. handler[j] = "picked" /\ \A k \in Jobs \ {j} : handler'[k] = handler[k]
      BY <1>3, <2>2 DEF MarkRunning, TypeOK
    <3>3. QED
      BY <3>1, <3>2
  <2>3. QED
    BY <2>1, <2>2
<1>4. ASSUME NEW j \in Jobs, SendCommand(j) PROVE RunningIsWatched'
  <2>1. UNCHANGED <<status, owner, socket>>
    BY <1>4 DEF SendCommand, db
  <2>2. \A i \in Jobs : i # j => handler'[i] = handler[i]
    BY <1>4 DEF SendCommand, TypeOK
  <2>3. CASE registry = picked[j]
    <3>1. owner[j] = registry /\ registry # None
      BY <1>4, <2>3 DEF SendCommand, OwnerAgrees, HandlesHeld
    <3>2. TaskWillFail(owner[j]) \/ socket[owner[j]] = "rejecting"
      BY <3>1 DEF RegistryIsLive, Registered
    <3>3. QED
      BY <2>1, <2>2, <3>2
  <2>4. CASE registry # picked[j]
    <3>1. handler'[j] = "unsent"
      BY <1>4, <2>4 DEF SendCommand, TypeOK
    <3>2. QED
      BY <2>1, <2>2, <3>1
  <2>5. QED
    BY <2>3, <2>4
<1>5. ASSUME NEW j \in Jobs, FailUnsent(j) PROVE RunningIsWatched'
  BY <1>5 DEF FailUnsent, FailRows, TypeOK, OwnerAgrees
<1>6. CASE ExpireJobs
  BY <1>6 DEF ExpireJobs, FailRows, memory
<1>7. ASSUME NEW c \in Conns,
             \/ Upgrade(c) \/ RegisterSocket(c) \/ Authorize(c) \/ RejectSocket(c)
             \/ LeaveLoop(c) \/ Unregister(c)
      PROVE  RunningIsWatched'
  <2>1. UNCHANGED <<status, owner, handler>>
    BY <1>7 DEF Upgrade, RegisterSocket, Authorize, RejectSocket, LeaveLoop, Unregister, db
  <2>2. \A d \in Conns : d # c => socket'[d] = socket[d]
    BY <1>7 DEF Upgrade, RegisterSocket, Authorize, RejectSocket, LeaveLoop, Unregister, TypeOK
  <2>3. TaskWillFail(c) \/ socket[c] \in {"rejecting", "rejected"}
          => TaskWillFail(c)' \/ socket'[c] \in {"rejecting", "rejected"}
    BY <1>7 DEF Upgrade, RegisterSocket, Authorize, RejectSocket, LeaveLoop, Unregister, TypeOK
  <2>4. \A j \in Jobs : status[j] = "running" => owner[j] \in Conns
    BY DEF TypeOK, OwnerAgrees, MaybeConn
  <2>5. QED
    BY <2>1, <2>2, <2>3, <2>4
<1>8. ASSUME NEW c \in Conns, FailReplaced(c) PROVE RunningIsWatched'
  BY <1>8 DEF FailReplaced, FailConnectionJobs, FailRows, TypeOK, OwnerAgrees, MaybeConn
<1>9. ASSUME NEW c \in Conns, FailOnExit(c) PROVE RunningIsWatched'
  <2>1. \A j \in Jobs : status'[j] = "running" => status[j] = "running" /\ owner[j] # c
    BY <1>9 DEF FailOnExit, FailConnectionJobs, FailRows, RunningOn
  <2>2. \A j \in Jobs : owner[j] # c => socket'[owner[j]] = socket[owner[j]]
    BY <1>9 DEF FailOnExit, TypeOK
  <2>3. QED
    BY <1>9, <2>1, <2>2 DEF FailOnExit
<1>10. ASSUME NEW c \in Conns, ReceiveMessage(c) PROVE RunningIsWatched'
  BY <1>10 DEF ReceiveMessage, Accepts, memory, TypeOK
<1>11. ASSUME NEW a \in Admins, DeleteInstance(a) \/ RevokeFail(a) PROVE RunningIsWatched'
  BY <1>11 DEF DeleteInstance, RevokeFail, FailConnectionJobs, FailRows
<1>12. CASE RestartBackend
  BY <1>12 DEF RestartBackend, FailRows, Inflight
<1>13. ASSUME NEW j \in Jobs, BecomeOverdue(j) PROVE RunningIsWatched'
  BY <1>1, <1>13 DEF BecomeOverdue, memory
<1>14. CASE \/ \E c \in Conns : \E refused \in BOOLEAN : DeliverCommand(c, refused)
            \/ \E run \in executing : \/ StreamOutput(run)
                                     \/ \E kind \in {"ok", "error"} : FinishCommand(run, kind)
            \/ AgentDisconnect \/ AgentCrash \/ ApproveInstance
  BY <1>1, <1>14 DEF DeliverCommand, StreamOutput, FinishCommand, AgentDisconnect, AgentCrash,
                     ApproveInstance, db, memory
<1>15. ASSUME NEW a \in Admins,
              DisableInstance(a) \/ RevokeRemove(a) \/ RevokeShutdown(a) \/ DropRevoke(a)
       PROVE  RunningIsWatched'
  BY <1>1, <1>15 DEF DisableInstance, RevokeRemove, RevokeShutdown, DropRevoke, db
<1>16. CASE UNCHANGED vars
  BY <1>1, <1>16 DEF vars, db, memory
<1>17. QED
  BY <1>2, <1>3, <1>4, <1>5, <1>6, <1>7, <1>8, <1>9, <1>10, <1>11, <1>12, <1>13, <1>14, <1>15, <1>16
  DEF Next, HandlerStep, SocketStep, RevokeStep

(***************************************************************************)
(* The theorems                                                            *)
(***************************************************************************)
LEMMA InvInit == Init => IInv
<1> SUFFICES ASSUME Init PROVE IInv
  OBVIOUS
<1>1. TypeOK /\ HandlesHeld
  BY TypeInit
<1>2. CommandFollowsRow
  BY DEF Init, CommandFollowsRow, ToSet
<1>3. OwnerAgrees /\ RegistryIsLive /\ RunningIsWatched /\ DisabledIsCut
  BY DEF Init, OwnerAgrees, RegistryIsLive, RunningIsWatched, DisabledIsCut
<1>4. QED
  BY <1>1, <1>2, <1>3 DEF IInv

LEMMA InvStep == IInv /\ [Next]_vars => IInv'
  BY TypeStep, OwnerStep, RegistryStep, FollowStep, WatchStep, CutStep DEF IInv

THEOREM Invariance == Spec => []IInv
  BY InvInit, InvStep, PTL DEF Spec

\* Every variable keeps its type, for any jobs, connections and limits.
THEOREM TypeCorrect == Spec => []TypeOK
  BY Invariance, PTL DEF IInv

\* No interleaving of dispatch, replacement, revocation and loss of the
\* connection leaves a running job to nobody but the timeout, outside the two
\* cases Abandoned names.
THEOREM NoJobForgotten == Spec => []RunningIsWatched
  BY Invariance, PTL DEF IInv

\* A disabled instance keeps no usable connection, however many times it
\* reconnects while the request that disables it is under way.
THEOREM DisabledStaysCut == Spec => []DisabledIsCut
  BY Invariance, PTL DEF IInv

\* The agent only ever holds commands whose row names its connection.
THEOREM CommandsFollowRows == Spec => []CommandFollowsRow
  BY Invariance, PTL DEF IInv

\* The connection found in the registry has a task that will remove it.
THEOREM RegistryStaysLive == Spec => []RegistryIsLive
  BY Invariance, PTL DEF IInv

(***************************************************************************)
(* The ledger                                                              *)
(***************************************************************************)
\* Which rows change status in a step: only those these actions touch.
LEMMA StatusActions ==
  ASSUME [Next]_vars
  PROVE  \/ UNCHANGED <<status, output>>
         \/ \E j \in Jobs : CreateJob(j) \/ FailOffline(j) \/ MarkRunning(j) \/ FailUnsent(j)
         \/ ExpireJobs
         \/ \E c \in Conns : FailReplaced(c) \/ FailOnExit(c) \/ ReceiveMessage(c)
         \/ \E a \in Admins : DeleteInstance(a) \/ RevokeFail(a)
         \/ RestartBackend
<1>1. CASE \E j \in Jobs : PickConnection(j) \/ SendCommand(j) \/ DropHandler(j) \/ BecomeOverdue(j)
  BY <1>1 DEF PickConnection, SendCommand, DropHandler, BecomeOverdue, db
<1>2. CASE \E c \in Conns : \/ Upgrade(c) \/ RegisterSocket(c) \/ Authorize(c) \/ RejectSocket(c)
                           \/ Unregister(c) \/ LeaveLoop(c)
                           \/ \E refused \in BOOLEAN : DeliverCommand(c, refused)
  BY <1>2 DEF Upgrade, RegisterSocket, Authorize, RejectSocket, Unregister, LeaveLoop,
              DeliverCommand, db
<1>3. CASE \/ \E run \in executing : \/ StreamOutput(run)
                                     \/ \E kind \in {"ok", "error"} : FinishCommand(run, kind)
           \/ AgentDisconnect \/ AgentCrash \/ ApproveInstance
  BY <1>3 DEF StreamOutput, FinishCommand, AgentDisconnect, AgentCrash, ApproveInstance, db
<1>4. CASE \E a \in Admins : \/ DisableInstance(a) \/ RevokeRemove(a) \/ RevokeShutdown(a)
                            \/ DropRevoke(a)
  BY <1>4 DEF DisableInstance, RevokeRemove, RevokeShutdown, DropRevoke, db
<1>5. CASE UNCHANGED vars
  BY <1>5 DEF vars, db
<1>6. QED
  BY <1>1, <1>2, <1>3, <1>4, <1>5 DEF Next, HandlerStep, SocketStep, RevokeStep

\* Every failing statement only reaches rows that are queued or running.
LEMMA FailingActions ==
  ASSUME TypeOK,
         \/ \E j \in Jobs : FailOffline(j) \/ FailUnsent(j)
         \/ ExpireJobs
         \/ \E c \in Conns : FailReplaced(c) \/ FailOnExit(c)
         \/ \E a \in Admins : RevokeFail(a)
         \/ RestartBackend
  PROVE  \E rows \in SUBSET Inflight : FailRows(rows)
<1>1. ASSUME NEW j \in Jobs, FailOffline(j) PROVE \E rows \in SUBSET Inflight : FailRows(rows)
  BY <1>1 DEF FailOffline, Inflight
<1>2. ASSUME NEW j \in Jobs, FailUnsent(j) PROVE \E rows \in SUBSET Inflight : FailRows(rows)
  BY <1>2 DEF FailUnsent, Inflight
<1>3. CASE ExpireJobs
  BY <1>3 DEF ExpireJobs, Expired, Inflight, TypeOK
<1>4. \A c : RunningOn(c) \in SUBSET Inflight
  BY DEF RunningOn, Inflight
<1>5. ASSUME NEW c \in Conns, FailReplaced(c) \/ FailOnExit(c)
      PROVE  \E rows \in SUBSET Inflight : FailRows(rows)
  BY <1>4, <1>5 DEF FailReplaced, FailOnExit, FailConnectionJobs
<1>6. ASSUME NEW a \in Admins, RevokeFail(a) PROVE \E rows \in SUBSET Inflight : FailRows(rows)
  BY <1>4, <1>6 DEF RevokeFail, FailConnectionJobs
<1>7. CASE RestartBackend
  BY <1>7 DEF RestartBackend
<1>8. QED
  BY <1>1, <1>2, <1>3, <1>5, <1>6, <1>7

LEMMA LedgerStep == TypeOK /\ [Next]_vars => [Ledger!Next]_status
<1> SUFFICES ASSUME TypeOK, [Next]_vars PROVE [Ledger!Next]_status
  OBVIOUS
<1>1. CASE UNCHANGED <<status, output>>
  BY <1>1
<1>2. ASSUME NEW j \in Jobs, CreateJob(j) PROVE [Ledger!Next]_status
  <2>1. Inflight = Ledger!Inflight
    BY DEF Inflight, Ledger!Inflight
  <2>2. Cardinality(Inflight) = Ledger!Cardinality(Ledger!Inflight)
    BY <2>1, Zenon DEF Cardinality, Ledger!Cardinality
  <2>3. Ledger!Queue(j)
    BY <1>2, <2>2 DEF CreateJob, Ledger!Queue
  <2>4. QED
    BY <2>3 DEF Ledger!Next
<1> USE DEF Ledger!Next, Ledger!Inflight
<1>3. ASSUME NEW j \in Jobs, MarkRunning(j) PROVE [Ledger!Next]_status
  BY <1>3 DEF MarkRunning, Ledger!Start
<1>4. ASSUME NEW rows \in SUBSET Inflight, FailRows(rows) PROVE [Ledger!Next]_status
  BY <1>4 DEF FailRows, Inflight, Ledger!Fail
<1>5. ASSUME NEW c \in Conns, ReceiveMessage(c) PROVE [Ledger!Next]_status
  <2> DEFINE j == Head(up[c]).job
  <2>1. j \in Jobs
    <3>1. Head(up[c]) \in Messages
      BY <1>5, TailElements DEF ReceiveMessage, TypeOK
    <3>2. QED
      BY <3>1 DEF Messages
  <2>2. CASE UNCHANGED status
    BY <2>2
  <2>3. CASE status[j] = "running" /\ status' = [status EXCEPT ![j] = "completed"]
    BY <2>1, <2>3 DEF Ledger!Complete
  <2>4. CASE status[j] = "running" /\ status' = [status EXCEPT ![j] = "failed"]
    <3>1. status' = [i \in Jobs |-> IF i \in {j} THEN "failed" ELSE status[i]]
      BY <2>1, <2>4 DEF TypeOK
    <3>2. {j} \in SUBSET Ledger!Inflight
      BY <2>1, <2>4
    <3>3. QED
      BY <3>1, <3>2 DEF Ledger!Fail
  <2>5. QED
    BY <1>5, <2>2, <2>3, <2>4 DEF ReceiveMessage, Accepts
<1>6. ASSUME NEW a \in Admins, DeleteInstance(a) PROVE [Ledger!Next]_status
  BY <1>6 DEF DeleteInstance, Ledger!DeleteRows
<1>7. QED
  BY <1>1, <1>2, <1>3, <1>4, <1>5, <1>6, StatusActions, FailingActions

\* The rows of command_jobs behave as the ledger says: the job handlers, the
\* socket tasks, the timeout loop, deletion and restart implement it together.
THEOREM LedgerImplemented == Spec => ImplementsLedger
<1>1. Init => Ledger!Init
  BY DEF Init, Ledger!Init
<1>2. TypeOK /\ [Next]_vars => [Ledger!Next]_status
  BY LedgerStep
<1>3. QED
  BY <1>1, <1>2, TypeCorrect, PTL DEF Spec, ImplementsLedger, Ledger!Spec

\* A finished row keeps its status and its output until it is deleted.
THEOREM FinishedStaysFrozen == Spec => FinishedIsFrozen
<1> DEFINE Frozen == \A j \in Jobs : status[j] \in {"completed", "failed"} =>
                       \/ status'[j] = status[j] /\ output'[j] = output[j]
                       \/ status'[j] = "deleted"
<1>1. TypeOK /\ [Next]_vars => Frozen
  <2> SUFFICES ASSUME TypeOK, [Next]_vars PROVE Frozen
    OBVIOUS
  <2>1. CASE UNCHANGED <<status, output>>
    BY <2>1
  <2>2. ASSUME NEW j \in Jobs, CreateJob(j) \/ MarkRunning(j) PROVE Frozen
    BY <2>2 DEF CreateJob, MarkRunning, TypeOK
  <2>3. ASSUME NEW rows \in SUBSET Inflight, FailRows(rows) PROVE Frozen
    BY <2>3 DEF FailRows, Inflight
  <2>4. ASSUME NEW c \in Conns, ReceiveMessage(c) PROVE Frozen
    BY <2>4 DEF ReceiveMessage, Accepts, TypeOK
  <2>5. ASSUME NEW a \in Admins, DeleteInstance(a) PROVE Frozen
    BY <2>5 DEF DeleteInstance, TypeOK
  <2>6. QED
    BY <2>1, <2>2, <2>3, <2>4, <2>5, StatusActions, FailingActions
<1>2. TypeOK /\ [Next]_vars => [Frozen]_vars
  BY <1>1
<1>3. QED
  BY <1>2, TypeCorrect, PTL DEF Spec, FinishedIsFrozen

(***************************************************************************)
(* The limit                                                               *)
(***************************************************************************)
\* Only the creation of a job adds to the unfinished jobs.
LEMMA InflightGrows ==
  ASSUME TypeOK, [Next]_vars
  PROVE  Inflight' \subseteq Inflight \/ \E j \in Jobs : CreateJob(j)
<1>1. CASE UNCHANGED <<status, output>>
  BY <1>1 DEF Inflight
<1>2. ASSUME NEW j \in Jobs, MarkRunning(j) PROVE Inflight' \subseteq Inflight
  BY <1>2 DEF MarkRunning, Inflight, TypeOK
<1>3. ASSUME NEW rows \in SUBSET Inflight, FailRows(rows) PROVE Inflight' \subseteq Inflight
  BY <1>3 DEF FailRows, Inflight
<1>4. ASSUME NEW c \in Conns, ReceiveMessage(c) PROVE Inflight' \subseteq Inflight
  BY <1>4 DEF ReceiveMessage, Inflight, TypeOK
<1>5. ASSUME NEW a \in Admins, DeleteInstance(a) PROVE Inflight' \subseteq Inflight
  BY <1>5 DEF DeleteInstance, Inflight
<1>6. QED
  BY <1>1, <1>2, <1>3, <1>4, <1>5, StatusActions, FailingActions

\* However requests interleave, no more than MaxInflight jobs are unfinished.
THEOREM LimitRespected == Spec => []InflightBounded
<1>1. Init => InflightBounded
  <2> SUFFICES ASSUME Init PROVE InflightBounded
    OBVIOUS
  <2>1. Inflight = {}
    BY DEF Init, Inflight
  <2>2. QED
    BY <2>1, FS_EmptySet, BoundAssumption DEF InflightBounded
<1>2. TypeOK /\ InflightBounded /\ [Next]_vars => InflightBounded'
  <2> SUFFICES ASSUME TypeOK, InflightBounded, [Next]_vars PROVE InflightBounded'
    OBVIOUS
  <2>1. IsFiniteSet(Inflight) /\ Cardinality(Inflight) \in Nat
    BY JobsAssumption, FS_Subset, FS_CardinalityType DEF Inflight
  <2>2. CASE Inflight' \subseteq Inflight
    <3>1. Cardinality(Inflight') <= Cardinality(Inflight) /\ Cardinality(Inflight') \in Nat
      BY <2>1, <2>2, FS_Subset, FS_CardinalityType
    <3>2. QED
      BY <2>1, <3>1, BoundAssumption DEF InflightBounded
  <2>3. ASSUME NEW j \in Jobs, CreateJob(j) PROVE InflightBounded'
    <3>1. Inflight' = Inflight \cup {j} /\ j \notin Inflight
      BY <2>3 DEF CreateJob, Inflight, TypeOK
    <3>2. Cardinality(Inflight') = Cardinality(Inflight) + 1
      BY <2>1, <3>1, FS_AddElement
    <3>3. Cardinality(Inflight) < MaxInflight
      BY <2>3 DEF CreateJob
    <3>4. QED
      BY <2>1, <3>2, <3>3, BoundAssumption DEF InflightBounded
  <2>4. QED
    BY <2>2, <2>3, InflightGrows
<1>3. QED
  BY <1>1, <1>2, TypeCorrect, PTL DEF Spec

(***************************************************************************)
(* AdminSessions.                                                          *)
(***************************************************************************)
Points == {"idle", "required", "admitted", "code", "use", "stale", "reuse", "clear", "act",
           "log", "write", "revoke", "enable"}
Ops == {"disable", "delete", "revoke"}
AnyCode     == A!Codes \cup {A!NoCode}
CallType    == [at : Points, token : Tokens \cup {None}, user : Accounts \cup {None},
                device : Devices \cup {None}, code : AnyCode, op : Ops \cup {None},
                target : Accounts \cup Devices \cup {None}]
SessionType == [at : {"unused", "live", "gone"}, user : Accounts \cup {None},
                device : Devices \cup {None}, code : AnyCode, expired : BOOLEAN]
DeviceType  == [user : Accounts \cup {None}, last : AnyCode, gone : BOOLEAN]
EnrolType   == [user : Accounts, fresh : BOOLEAN, by : Accounts \cup {None}]
Uses        == [Devices \X A!Codes -> Nat]

RowsOK ==
  /\ clock \in 0 .. MaxClock
  /\ account \in [Accounts -> {"none", "enabled", "disabled", "deleted"}]
  /\ device \in [Devices -> DeviceType]
  /\ enrolment \in [Devices -> EnrolType \cup {None}]
  /\ channel \in [Tokens -> {"none", "open", "closed"}]
  /\ locked \in Calls \cup {None}
MemoryOK ==
  /\ session \in [Tokens -> SessionType] /\ call \in [Calls -> CallType]
  /\ firstUse \in Uses /\ reuse \in Uses
\* A code that is presented is one of a device; it is accepted again for a session.
Owning == {"required", "admitted", "stale", "reuse"}
Presented == \A r \in Calls :
  /\ call[r].at = "use" => call[r].target \in Devices /\ call[r].code \in A!Codes
  /\ call[r].at \in Owning => call[r].token \in Tokens

\* A device is enrolled once.
EnrolsOnce == \A d \in Devices : enrolment[d] # None => device[d] = A!Never

\* A removal holds the table lock from the count of what remains to its commit,
\* and what it counted remains meanwhile.
RemovalsCounted ==
  \A r \in Calls :
    call[r].at = "write" =>
      /\ locked = r /\ A!OtherLoginPath(call[r].op, call[r].target)
      /\ call[r].op = "revoke" => call[r].target \in Devices /\ A!Exists(call[r].target)

\* A code that was accepted is not newer than the last one of its device, and was
\* accepted again only if it had been accepted.
UsesCounted ==
  \A d \in Devices, c \in A!Codes :
    /\ firstUse[<<d, c>>] <= 1 /\ reuse[<<d, c>>] <= firstUse[<<d, c>>]
    /\ firstUse[<<d, c>>] = 1 => device[d].user # None /\ c <= device[d].last

\* Who may present a code again: a login before it has its session, and the session.
LogHolds(r, d, c)     == call[r].at = "log" /\ call[r].device = d /\ call[r].code = c
SessionHolds(t, d, c) == session[t].at = "live" /\ session[t].device = d /\ session[t].code = c

\* That is one at most, and none after the code was accepted again.
HeldOnce ==
  \A d \in Devices, c \in A!Codes :
    /\ \A r \in Calls : LogHolds(r, d, c) =>
         /\ firstUse[<<d, c>>] = 1 /\ reuse[<<d, c>>] = 0
         /\ \A q \in Calls \ {r} : ~LogHolds(q, d, c)
         /\ \A t \in Tokens : ~SessionHolds(t, d, c)
    /\ \A t \in Tokens : SessionHolds(t, d, c) =>
         /\ firstUse[<<d, c>>] = 1 /\ reuse[<<d, c>>] = 0
         /\ \A s \in Tokens \ {t} : ~SessionHolds(s, d, c)
LoginsKept == EnrolsOnce /\ RemovalsCounted /\ A!LoginRemains
CodesHeld  == UsesCounted /\ HeldOnce
IAccess == RowsOK /\ MemoryOK /\ Presented /\ LoginsKept /\ CodesHeld

LEMMA IdleType == IAccess => A!Idle \in CallType
BY DEF A!Idle, CallType, Points, AnyCode

LEMMA InitAccess == ASSUME A!Init PROVE IAccess
<1>1. RowsOK
  BY AccessAssumption DEF A!Init, RowsOK, A!Never, DeviceType, AnyCode
<1>2. MemoryOK
  <2>1. firstUse \in Uses /\ reuse \in Uses
    BY DEF A!Init, Uses
  <2>2. session \in [Tokens -> SessionType]
    BY DEF A!Init, A!Unused, SessionType, AnyCode
  <2>3. call \in [Calls -> CallType]
    BY DEF A!Init, A!Idle, CallType, AnyCode, Points
  <2>4. QED
    BY <2>1, <2>2, <2>3 DEF MemoryOK
<1>3. LoginsKept
  BY DEF A!Init, LoginsKept, EnrolsOnce, RemovalsCounted, A!LoginRemains, A!Initialized,
     A!Row, A!Idle
<1>4. UsesCounted
  BY DEF A!Init, UsesCounted
<1>5. HeldOnce
  BY DEF A!Init, HeldOnce, LogHolds, SessionHolds, A!Idle, A!Unused
<1>6. Presented
  BY DEF A!Init, Presented, A!Idle, Owning
<1>7. QED
  BY <1>1, <1>2, <1>3, <1>4, <1>5, <1>6 DEF IAccess, CodesHeld

\* The invariant says what is claimed.
LEMMA AccessFollows == ASSUME IAccess PROVE A!AccessHolds
<1>1. A!TypeOK
  BY DEF IAccess, RowsOK, A!TypeOK, DeviceType, AnyCode
<1>2. A!CodesAreSpent
  <2> SUFFICES ASSUME NEW d \in Devices, NEW c \in A!Codes
               PROVE  firstUse[<<d, c>>] <= 1 /\ reuse[<<d, c>>] <= 1
    BY DEF A!CodesAreSpent
  <2>1. firstUse[<<d, c>>] \in Nat /\ reuse[<<d, c>>] \in Nat
    BY DEF IAccess, MemoryOK, Uses
  <2>2. QED
    BY <2>1 DEF IAccess, CodesHeld, UsesCounted
<1>3. QED
  BY <1>1, <1>2 DEF A!AccessHolds, IAccess, LoginsKept

-----------------------------------------------------------------------------
\* No one comes to hold a code, and removals that run were already counted.
CallsRest ==
  /\ call' \in [Calls -> CallType]
  /\ \A q \in Calls :
       /\ call'[q].at = "log" => /\ call[q].at = "log" /\ call'[q].device = call[q].device
                                 /\ call'[q].code = call[q].code
       /\ call'[q].at = "write" => call'[q] = call[q]
       /\ call'[q].at = "use" => call'[q].target \in Devices /\ call'[q].code \in A!Codes
       /\ call'[q].at \in Owning => call'[q].token \in Tokens
SessionsRest ==
  /\ session' \in [Tokens -> SessionType]
  /\ \A t \in Tokens : session'[t].at = "live" =>
       /\ session[t].at = "live" /\ session'[t].device = session[t].device
       /\ session'[t].code \in {session[t].code, A!NoCode}

LEMMA CodesAreNatural == A!NoCode \notin A!Codes /\ A!Codes \subseteq Nat
BY AccessAssumption DEF A!NoCode, A!Codes

LEMMA HeldRests ==
  ASSUME IAccess, CallsRest, SessionsRest, UNCHANGED <<firstUse, reuse>>,
         \A d \in Devices : /\ device[d].user # None => device'[d].user # None
                            /\ \A c \in A!Codes : c <= device[d].last => c <= device'[d].last
  PROVE  CodesHeld'
<1>1. UsesCounted'
  BY DEF IAccess, CodesHeld, UsesCounted
<1>2. HeldOnce'
  <2>1. ASSUME NEW d \in Devices, NEW c \in A!Codes, NEW r \in Calls, LogHolds(r, d, c)'
        PROVE  LogHolds(r, d, c)
    BY <2>1 DEF CallsRest, LogHolds
  <2>2. ASSUME NEW d \in Devices, NEW c \in A!Codes, NEW t \in Tokens, SessionHolds(t, d, c)'
        PROVE  SessionHolds(t, d, c)
    BY <2>2, CodesAreNatural DEF SessionsRest, SessionHolds
  <2>3. QED
    BY <2>1, <2>2 DEF IAccess, CodesHeld, HeldOnce
<1>3. QED
  BY <1>1, <1>2 DEF CodesHeld

LEMMA LoginsRest ==
  ASSUME IAccess, CallsRest, UNCHANGED <<account, device, enrolment, locked>>
  PROVE  LoginsKept'
BY DEF IAccess, CallsRest, LoginsKept, EnrolsOnce, RemovalsCounted, A!LoginRemains,
   A!Initialized, A!Row, A!OtherLoginPath, A!Exists

\* Steps that touch neither rows nor counts.
LEMMA RequestsOnly ==
  ASSUME IAccess, CallsRest, SessionsRest,
         UNCHANGED <<account, device, enrolment, locked, firstUse, reuse>>,
         clock' \in 0 .. MaxClock, channel' \in [Tokens -> {"none", "open", "closed"}]
  PROVE  IAccess'
<1>1. RowsOK' /\ MemoryOK' /\ Presented'
  BY DEF IAccess, RowsOK, MemoryOK, Presented, CallsRest, SessionsRest
<1>2. QED
  BY <1>1, HeldRests, LoginsRest DEF IAccess

-----------------------------------------------------------------------------
(* The requests that only go on. *)

\* Request r goes on, and is neither logged in nor removes something.
LEMMA OneCall ==
  ASSUME IAccess, NEW r \in Calls, call' \in [Calls -> CallType],
         \A q \in Calls \ {r} : call'[q] = call[q], call'[r].at \notin {"log", "write", "use"},
         call'[r].at \in Owning => call'[r].token \in Tokens
  PROVE  CallsRest
BY DEF CallsRest, IAccess, Presented

\* A call whose fields change remains one.
LEMMA CallChanges ==
  ASSUME NEW x \in CallType, NEW p \in Points
  PROVE  /\ \A c \in AnyCode : [x EXCEPT !.at = p, !.code = c] \in CallType
         /\ \A z \in Accounts \cup Devices \cup {None} :
              /\ [x EXCEPT !.at = p, !.target = z] \in CallType
              /\ \A c \in AnyCode : /\ [x EXCEPT !.at = p, !.target = z, !.code = c] \in CallType
                                    /\ [x EXCEPT !.at = p, !.code = c, !.target = z] \in CallType
              /\ \A op \in Ops : [x EXCEPT !.at = p, !.op = op, !.target = z] \in CallType
<1> DEFINE Targets == Accounts \cup Devices \cup {None}
           Codes0  == AnyCode
           Ops0    == Ops \cup {None}
           Users0  == Accounts \cup {None}
           Owners0 == Devices \cup {None}
           Tokens0 == Tokens \cup {None}
<1>1. CallType = [at : Points, token : Tokens0, user : Users0, device : Owners0, code : Codes0,
                  op : Ops0, target : Targets]
  BY DEF CallType
<1>2. /\ AnyCode = Codes0 /\ Ops \subseteq Ops0
      /\ Accounts \cup Devices \cup {None} = Targets
  OBVIOUS
<1> HIDE DEF Targets, Codes0, Ops0, Users0, Owners0, Tokens0
<1>3. QED  BY <1>1, <1>2

LEMMA CallPut ==
  ASSUME call \in [Calls -> CallType], NEW r \in Calls, NEW x \in CallType,
         call' = [call EXCEPT ![r] = x]
  PROVE  call' \in [Calls -> CallType]
<1> DEFINE T == CallType
<1> HIDE DEF T
<1>1. ASSUME call \in [Calls -> T], x \in T PROVE [call EXCEPT ![r] = x] \in [Calls -> T]
  BY <1>1
<1>2. QED  BY <1>1 DEF T

LEMMA Kinds ==
  /\ A!Codes \subseteq AnyCode /\ A!NoCode \in AnyCode
  /\ "required" \in Points /\ "admitted" \in Points /\ "code" \in Points /\ "use" \in Points
  /\ "stale" \in Points /\ "reuse" \in Points /\ "clear" \in Points /\ "act" \in Points
  /\ "log" \in Points /\ "write" \in Points /\ "revoke" \in Points /\ "enable" \in Points
BY DEF AnyCode, Points

LEMMA CallRests == ASSUME IAccess, UNCHANGED call PROVE CallsRest
BY DEF IAccess, MemoryOK, CallsRest, Presented

LEMMA SessionRests == ASSUME IAccess, UNCHANGED session PROVE SessionsRest
BY DEF IAccess, MemoryOK, SessionsRest

LEMMA CallEnds == ASSUME IAccess, NEW r \in Calls, A!Ends(r) PROVE CallsRest
<1>1. call' \in [Calls -> CallType] /\ \A q \in Calls \ {r} : call'[q] = call[q]
  BY IdleType DEF IAccess, MemoryOK, A!Ends
<1>2. call'[r].at = "idle"
  BY DEF IAccess, MemoryOK, A!Ends, A!Idle
<1>3. QED
  BY <1>1, <1>2, OneCall DEF Owning

LEMMA CallGoes ==
  ASSUME IAccess, NEW r \in Calls, call[r].at \in Owning,
         NEW p \in Points \ {"log", "write", "use"}, A!Goes(r, p)
  PROVE  CallsRest
<1>1. call' \in [Calls -> CallType] /\ \A q \in Calls \ {r} : call'[q] = call[q]
  BY DEF IAccess, MemoryOK, A!Goes, CallType
<1>2. call'[r].at \notin {"log", "write", "use"} /\ call'[r].token = call[r].token
  BY DEF IAccess, MemoryOK, A!Goes, CallType
<1>3. QED
  BY <1>1, <1>2, OneCall DEF IAccess, Presented


LEMMA LoginKeeps ==
  ASSUME IAccess, NEW r \in Calls, NEW u \in Accounts,
         A!Login(r, u)
  PROVE  IAccess'
<1>1. CallsRest
  <2>1. call' \in [Calls -> CallType]
    BY IdleType, CodesAreNatural DEF IAccess, MemoryOK, CallType, Points, AnyCode, A!Login
  <2>2. \A q \in Calls \ {r} : call'[q] = call[q]
    BY DEF IAccess, MemoryOK, A!Login
  <2>3. call'[r].at = "code"
    BY IdleType DEF IAccess, MemoryOK, CallType, A!Idle, A!Login
  <2>4. QED
    BY <2>1, <2>2, <2>3, OneCall DEF Owning
<1>2. SessionsRest
  BY SessionRests DEF A!Login
<1>3. QED
  BY <1>1, <1>2, RequestsOnly DEF A!Login, IAccess, RowsOK

LEMMA RequireAdminKeeps ==
  ASSUME IAccess, NEW r \in Calls, NEW t \in Tokens,
         A!RequireAdmin(r, t)
  PROVE  IAccess'
<1>1. CallsRest
  <2>1. call' \in [Calls -> CallType]
    BY IdleType, CodesAreNatural DEF IAccess, MemoryOK, CallType, Points, AnyCode,
                                     A!RequireAdmin, SessionType
  <2>2. \A q \in Calls \ {r} : call'[q] = call[q]
    BY DEF IAccess, MemoryOK, A!RequireAdmin, SessionType
  <2>3. call'[r].at = "required" /\ call'[r].token = t
    BY IdleType DEF IAccess, MemoryOK, CallType, A!Idle, A!RequireAdmin, SessionType
  <2>4. QED
    BY <2>1, <2>2, <2>3, OneCall DEF Owning
<1>2. SessionsRest
  BY CodesAreNatural DEF IAccess, MemoryOK, SessionsRest, SessionType, AnyCode,
     A!RequireAdmin, A!Revoked, A!Live, A!Unused
<1>3. QED
  BY <1>1, <1>2, RequestsOnly DEF A!RequireAdmin, IAccess, RowsOK

LEMMA AdmitPrincipalKeeps ==
  ASSUME IAccess, NEW r \in Calls,
         A!AdmitPrincipal(r)
  PROVE  IAccess'
<1>1. CallsRest
  BY CallEnds, CallGoes DEF A!AdmitPrincipal, Points, Owning
<1>2. SessionsRest
  <2>1. CASE A!PrincipalBacked(r)
    BY <2>1, SessionRests DEF A!AdmitPrincipal
  <2>2. CASE ~A!PrincipalBacked(r)
    <3>1. session' = [t \in Tokens |-> IF A!Live(t) /\ t = call[r].token
                                       THEN [A!Unused EXCEPT !.at = "gone"] ELSE session[t]]
      BY <2>2 DEF A!AdmitPrincipal, A!Revoked
    <3>2. session \in [Tokens -> SessionType]
      BY DEF IAccess, MemoryOK
    <3>3. QED
      BY <3>1, <3>2 DEF SessionsRest, SessionType, AnyCode, A!Live, A!Unused
  <2>3. QED
    BY <2>1, <2>2
<1>3. QED
  BY <1>1, <1>2, RequestsOnly DEF A!AdmitPrincipal, IAccess, RowsOK

LEMMA LogoutKeeps == ASSUME IAccess, NEW r \in Calls, A!Logout(r) PROVE IAccess'
<1>1. CallsRest
  BY CallEnds DEF A!Logout
<1>2. SessionsRest
  BY CodesAreNatural DEF IAccess, MemoryOK, SessionsRest, SessionType, AnyCode, A!Logout,
     A!Revoked, A!Live, A!Unused
<1>3. QED
  BY <1>1, <1>2, RequestsOnly DEF A!Logout, IAccess, RowsOK

LEMMA OpenSocketKeeps ==
  ASSUME IAccess, NEW r \in Calls,
         A!OpenSocket(r)
  PROVE  IAccess'
<1>1. CallsRest
  BY CallEnds DEF A!OpenSocket
<1>2. SessionsRest
  BY SessionRests DEF A!OpenSocket
<1>3. QED
  BY <1>1, <1>2, RequestsOnly DEF A!OpenSocket, IAccess, RowsOK

LEMMA PresentCodeKeeps ==
  ASSUME IAccess, NEW r \in Calls, NEW d \in Devices, NEW c \in A!Codes,
         A!PresentCode(r, d, c)
  PROVE  IAccess'
<1>1. CallsRest
  <2>1. call' \in [Calls -> CallType]
    <3> DEFINE x == [call[r] EXCEPT !.at = "use", !.target = d, !.code = c]
    <3>1. call' = [call EXCEPT ![r] = x] /\ call \in [Calls -> CallType]
      BY DEF A!PresentCode, IAccess, MemoryOK
    <3>2. x \in CallType
      BY <3>1, CallChanges DEF Points, AnyCode
    <3> HIDE DEF x
    <3>3. QED  BY <3>1, <3>2, CallPut
  <2>2. \A q \in Calls \ {r} : call'[q] = call[q]
    BY DEF IAccess, MemoryOK, A!PresentCode
  <2>3. call'[r].at = "use" /\ call'[r].target = d /\ call'[r].code = c
    BY DEF IAccess, MemoryOK, CallType, A!PresentCode
  <2>4. QED
    BY <2>1, <2>2, <2>3 DEF CallsRest, IAccess, Presented, Owning
<1>2. SessionsRest
  BY SessionRests DEF A!PresentCode
<1>3. QED
  BY <1>1, <1>2, RequestsOnly DEF A!PresentCode, IAccess, RowsOK

LEMMA PresentOldCodeKeeps ==
  ASSUME IAccess, NEW r \in Calls, NEW d \in Devices, NEW c \in A!Codes,
         A!PresentOldCode(r, d, c)
  PROVE  IAccess'
<1>1. CallsRest
  <2>1. call' \in [Calls -> CallType]
    <3> DEFINE x == [call[r] EXCEPT !.at = "stale", !.target = d, !.code = c]
    <3>1. call' = [call EXCEPT ![r] = x] /\ call \in [Calls -> CallType]
      BY DEF A!PresentOldCode, IAccess, MemoryOK
    <3>2. x \in CallType
      BY <3>1, CallChanges DEF Points, AnyCode
    <3> HIDE DEF x
    <3>3. QED  BY <3>1, <3>2, CallPut
  <2>2. \A q \in Calls \ {r} : call'[q] = call[q]
    BY DEF IAccess, MemoryOK, A!PresentOldCode
  <2>3. call'[r].at = "stale" /\ call'[r].token = call[r].token
    BY IdleType DEF IAccess, MemoryOK, CallType, A!Idle, A!PresentOldCode
  <2>4. QED
    BY <2>1, <2>2, <2>3, OneCall DEF A!PresentOldCode, IAccess, Presented, Owning
<1>2. SessionsRest
  BY SessionRests DEF A!PresentOldCode
<1>3. QED
  BY <1>1, <1>2, RequestsOnly DEF A!PresentOldCode, IAccess, RowsOK

LEMMA ClearLoginCounterKeeps ==
  ASSUME IAccess, NEW r \in Calls,
         A!ClearLoginCounter(r)
  PROVE  IAccess'
<1>1. CallsRest
  <2>1. call' \in [Calls -> CallType]
    <3> DEFINE x == [call[r] EXCEPT !.at = "act", !.code = A!NoCode]
    <3>1. call' = [call EXCEPT ![r] = x] /\ call \in [Calls -> CallType]
      BY DEF A!ClearLoginCounter, IAccess, MemoryOK
    <3>2. x \in CallType
      BY <3>1, CallChanges DEF Points, AnyCode
    <3> HIDE DEF x
    <3>3. QED  BY <3>1, <3>2, CallPut
  <2>2. \A q \in Calls \ {r} : call'[q] = call[q]
    BY DEF IAccess, MemoryOK, A!ClearLoginCounter
  <2>3. call'[r].at = "act"
    BY IdleType DEF IAccess, MemoryOK, CallType, A!Idle, A!ClearLoginCounter
  <2>4. QED
    BY <2>1, <2>2, <2>3, OneCall DEF Owning
<1>2. SessionsRest
  <2>1. session \in [Tokens -> SessionType] /\ A!NoCode \in AnyCode
    BY Kinds DEF IAccess, MemoryOK
  <2>2. \/ session' = session
        \/ session' = [session EXCEPT ![call[r].token].code = A!NoCode]
    BY DEF A!ClearLoginCounter
  <2>3. QED
    BY <2>1, <2>2 DEF SessionsRest, SessionType
<1>3. QED
  BY <1>1, <1>2, RequestsOnly DEF A!ClearLoginCounter, IAccess, RowsOK

LEMMA FindLoginCounterKeeps ==
  ASSUME IAccess, NEW r \in Calls,
         A!FindLoginCounter(r)
  PROVE  IAccess'
<1>1. CallsRest
  BY CallEnds, CallGoes DEF A!FindLoginCounter, Points, Owning
<1>2. SessionsRest
  BY SessionRests DEF A!FindLoginCounter
<1>3. QED
  BY <1>1, <1>2, RequestsOnly DEF A!FindLoginCounter, IAccess, RowsOK

LEMMA RevokeSessionsKeeps ==
  ASSUME IAccess, NEW r \in Calls,
         A!RevokeSessions(r)
  PROVE  IAccess'
<1>1. CallsRest
  BY CallEnds DEF A!RevokeSessions
<1>2. SessionsRest
  BY CodesAreNatural DEF IAccess, MemoryOK, SessionsRest, SessionType, AnyCode,
     A!RevokeSessions, A!Revoked, A!Live, A!Unused
<1>3. QED
  BY <1>1, <1>2, RequestsOnly DEF A!RevokeSessions, IAccess, RowsOK

LEMMA BeginEnableKeeps ==
  ASSUME IAccess, NEW r \in Calls, NEW u \in Accounts,
         A!BeginEnable(r, u)
  PROVE  IAccess'
<1>1. CallsRest
  <2>1. call' \in [Calls -> CallType]
    <3> DEFINE x == [call[r] EXCEPT !.at = "enable", !.target = u]
    <3>1. call' = [call EXCEPT ![r] = x] /\ call \in [Calls -> CallType]
      BY DEF A!BeginEnable, IAccess, MemoryOK
    <3>2. x \in CallType
      BY <3>1, CallChanges DEF Points
    <3> HIDE DEF x
    <3>3. QED  BY <3>1, <3>2, CallPut
  <2>2. \A q \in Calls \ {r} : call'[q] = call[q]
    BY DEF IAccess, MemoryOK, A!BeginEnable
  <2>3. call'[r].at = "enable"
    BY IdleType DEF IAccess, MemoryOK, CallType, A!Idle, A!BeginEnable
  <2>4. QED
    BY <2>1, <2>2, <2>3, OneCall DEF Owning
<1>2. SessionsRest
  BY SessionRests DEF A!BeginEnable
<1>3. QED
  BY <1>1, <1>2, RequestsOnly DEF A!BeginEnable, IAccess, RowsOK

LEMMA TickKeeps == ASSUME IAccess, A!Tick PROVE IAccess'
<1>1. CallsRest
  BY CallRests DEF A!Tick
<1>2. SessionsRest
  BY SessionRests DEF A!Tick
<1>3. QED
  BY <1>1, <1>2, RequestsOnly, AccessAssumption DEF A!Tick, IAccess, RowsOK

LEMMA SessionExpiresKeeps ==
  ASSUME IAccess, NEW t \in Tokens,
         A!SessionExpires(t)
  PROVE  IAccess'
<1>1. CallsRest
  BY CallRests DEF A!SessionExpires
<1>2. SessionsRest
  BY CodesAreNatural DEF IAccess, MemoryOK, SessionsRest, SessionType, AnyCode,
     A!SessionExpires, A!Revoked, A!Live, A!Unused
<1>3. QED
  BY <1>1, <1>2, RequestsOnly DEF A!SessionExpires, IAccess, RowsOK

LEMMA RevalidateKeeps ==
  ASSUME IAccess, NEW t \in Tokens,
         A!Revalidate(t)
  PROVE  IAccess'
<1>1. CallsRest
  BY CallRests DEF A!Revalidate, A!GuardEnds
<1>2. SessionsRest
  BY CodesAreNatural DEF IAccess, MemoryOK, SessionsRest, SessionType, AnyCode,
     A!Revalidate, A!GuardEnds, A!Revoked, A!Live, A!Unused
<1>3. QED
  BY <1>1, <1>2, RequestsOnly DEF A!Revalidate, A!GuardEnds, IAccess, RowsOK

-----------------------------------------------------------------------------
(* Enrolments, before they are confirmed. *)

LEMMA EnrolmentsOnly ==
  ASSUME IAccess, CallsRest, UNCHANGED <<clock, account, device, session, channel,
         locked, firstUse, reuse>>, enrolment' \in [Devices -> EnrolType \cup {None}],
         \A d \in Devices : enrolment'[d] # None => device[d] = A!Never
  PROVE  IAccess'
<1>1. RowsOK' /\ MemoryOK' /\ Presented'
  BY DEF IAccess, RowsOK, MemoryOK, Presented, CallsRest
<1>2. CodesHeld'
  BY SessionRests, HeldRests
<1>3. LoginsKept'
  BY DEF IAccess, CallsRest, LoginsKept, EnrolsOnce, RemovalsCounted, A!LoginRemains,
     A!Initialized, A!Row, A!OtherLoginPath, A!Exists
<1>4. QED
  BY <1>1, <1>2, <1>3 DEF IAccess

LEMMA BootstrapStartKeeps ==
  ASSUME IAccess, NEW u \in Accounts, NEW d \in Devices, A!BootstrapStart(u, d)
  PROVE  IAccess'
<1>1. enrolment' \in [Devices -> EnrolType \cup {None}]
  BY DEF A!BootstrapStart, IAccess, RowsOK, EnrolType
<1>2. \A e \in Devices : enrolment'[e] # None => device[e] = A!Never
  BY DEF A!BootstrapStart, IAccess, LoginsKept, EnrolsOnce
<1>3. QED
  BY <1>1, <1>2, CallRests, EnrolmentsOnly DEF A!BootstrapStart

LEMMA CreateEnrolmentKeeps ==
  ASSUME IAccess, NEW r \in Calls, NEW u \in Accounts, NEW d \in Devices,
         A!CreateEnrolment(r, u, d)
  PROVE  IAccess'
<1>1. call[r].user \in Accounts \cup {None}
  BY DEF IAccess, MemoryOK, CallType
<1>2. enrolment' \in [Devices -> EnrolType \cup {None}]
  BY <1>1 DEF A!CreateEnrolment, IAccess, RowsOK, EnrolType, A!Row
<1>3. \A e \in Devices : enrolment'[e] # None => device[e] = A!Never
  BY DEF A!CreateEnrolment, IAccess, RowsOK, LoginsKept, EnrolsOnce
<1>4. QED
  BY <1>2, <1>3, CallEnds, EnrolmentsOnly DEF A!CreateEnrolment

LEMMA DropsKeeps ==
  ASSUME IAccess, NEW d \in Devices, A!DropsEnrolment(d), CallsRest
  PROVE  IAccess'
<1>1. enrolment' \in [Devices -> EnrolType \cup {None}]
  BY DEF A!DropsEnrolment, IAccess, RowsOK
<1>2. \A e \in Devices : enrolment'[e] # None => device[e] = A!Never
  BY DEF A!DropsEnrolment, IAccess, RowsOK, LoginsKept, EnrolsOnce
<1>3. QED
  BY <1>1, <1>2, EnrolmentsOnly DEF A!DropsEnrolment

-----------------------------------------------------------------------------
(* Codes that are accepted. *)

\* A new login does not hold a code someone holds.
LEMMA InsertSessionKeeps ==
  ASSUME IAccess, NEW r \in Calls, NEW t \in Tokens, A!InsertSession(r, t)
  PROVE  IAccess'
<1>1. CallsRest
  BY CallEnds DEF A!InsertSession
<1>2. call'[r].at = "idle"
  BY DEF A!InsertSession, A!Ends, A!Idle, IAccess, MemoryOK
<1>3. /\ session'[t] = [at |-> "live", user |-> call[r].user, device |-> call[r].device,
                        code |-> call[r].code, expired |-> FALSE]
      /\ \A s \in Tokens \ {t} : session'[s] = session[s]
      /\ session[t].at = "unused"
  BY DEF A!InsertSession, A!Unused, IAccess, MemoryOK
<1>4. session' \in [Tokens -> SessionType]
  BY <1>3 DEF A!InsertSession, IAccess, MemoryOK, SessionType, CallType
<1>5. RowsOK' /\ MemoryOK' /\ Presented'
  BY <1>1, <1>4 DEF IAccess, RowsOK, MemoryOK, Presented, CallsRest, A!InsertSession
<1>6. LoginsKept'
  BY <1>1, LoginsRest DEF A!InsertSession
<1>7. UsesCounted'
  BY DEF A!InsertSession, IAccess, CodesHeld, UsesCounted
<1>8. HeldOnce'
  <2>1. ASSUME NEW d \in Devices, NEW c \in A!Codes, NEW q \in Calls, LogHolds(q, d, c)'
        PROVE  LogHolds(q, d, c) /\ q # r
    BY <1>1, <1>2, <2>1 DEF CallsRest, LogHolds
  <2>2. ASSUME NEW d \in Devices, NEW c \in A!Codes, NEW s \in Tokens, SessionHolds(s, d, c)'
        PROVE  IF s = t THEN LogHolds(r, d, c) ELSE SessionHolds(s, d, c)
    BY <1>3, <2>2 DEF SessionHolds, LogHolds, A!InsertSession
  <2>3. firstUse' = firstUse /\ reuse' = reuse
    BY DEF A!InsertSession
  <2>4. HeldOnce
    BY DEF IAccess, CodesHeld
  <2>5. QED
    BY <2>1, <2>2, <2>3, <2>4 DEF HeldOnce
<1>9. QED
  BY <1>5, <1>6, <1>7, <1>8 DEF IAccess, CodesHeld

\* A code newer than the last one of its device was never accepted.
LEMMA NewCode ==
  ASSUME IAccess, NEW d \in Devices, NEW c \in A!Codes,
         device[d].user = None \/ device[d].last < c
  PROVE  firstUse[<<d, c>>] = 0 /\ reuse[<<d, c>>] = 0
<1>1. firstUse[<<d, c>>] \in Nat /\ reuse[<<d, c>>] \in Nat /\ c \in Nat
  BY CodesAreNatural DEF IAccess, MemoryOK, Uses
<1>2. device[d].last \in Nat \cup {A!NoCode}
  BY CodesAreNatural DEF IAccess, RowsOK, DeviceType, AnyCode
<1>3. ~(c <= device[d].last) \/ device[d].user = None
  BY <1>1, <1>2 DEF A!NoCode
<1>4. QED
  BY <1>1, <1>3 DEF IAccess, CodesHeld, UsesCounted

LEMMA AcceptedOnce ==
  ASSUME IAccess, NEW d \in Devices, NEW c \in A!Codes,
         firstUse[<<d, c>>] = 0, reuse[<<d, c>>] = 0,
         firstUse' = A!Counted(firstUse, d, c), reuse' = reuse,
         device[d].user = None \/ device[d].last < c,
         \A e \in Devices \ {d} : device'[e] = device[e],
         device'[d].user # None, device'[d].last = c
  PROVE  UsesCounted' /\ firstUse' \in Uses
<1>1. firstUse' = [firstUse EXCEPT ![<<d, c>>] = firstUse[<<d, c>>] + 1] /\ firstUse \in Uses
  BY DEF A!Counted, IAccess, MemoryOK
<1>2. firstUse' \in Uses
  BY <1>1 DEF Uses
<1>3. \A e \in Devices, k \in A!Codes :
        firstUse'[<<e, k>>] = IF e = d /\ k = c THEN 1 ELSE firstUse[<<e, k>>]
  BY <1>1 DEF Uses
<1>4. \A e \in Devices : device[e].last \in Nat \cup {A!NoCode}
  BY CodesAreNatural DEF IAccess, RowsOK, DeviceType, AnyCode
<1>5. ASSUME NEW e \in Devices, NEW k \in A!Codes
      PROVE  /\ firstUse'[<<e, k>>] <= 1 /\ reuse'[<<e, k>>] <= firstUse'[<<e, k>>]
             /\ firstUse'[<<e, k>>] = 1 => device'[e].user # None /\ k <= device'[e].last
  <2>1. UsesCounted /\ k \in Nat /\ c \in Nat
    BY CodesAreNatural DEF IAccess, CodesHeld
  <2>2. CASE e = d /\ k = c
    BY <1>3, <2>1, <2>2
  <2>3. CASE e = d /\ k # c
    <3>1. firstUse'[<<e, k>>] = firstUse[<<e, k>>]
      BY <1>3, <2>3
    <3>2. firstUse[<<e, k>>] = 1 => device[d].user # None /\ k <= device[d].last
      BY <2>1, <2>3 DEF UsesCounted
    <3>3. firstUse[<<e, k>>] = 1 => k <= c
      BY <1>4, <2>1, <3>2 DEF A!NoCode
    <3>4. QED
      BY <2>1, <2>3, <3>1, <3>3 DEF UsesCounted
  <2>4. CASE e # d
    BY <1>3, <2>1, <2>4 DEF UsesCounted
  <2>5. QED
    BY <2>2, <2>3, <2>4
<1>6. QED
  BY <1>2, <1>5 DEF UsesCounted

\* The request whose code was accepted is the only one that may hold it.
LEMMA AcceptedHeld ==
  ASSUME IAccess, NEW d \in Devices, NEW c \in A!Codes, NEW r \in Calls,
         firstUse[<<d, c>>] = 0, reuse[<<d, c>>] = 0,
         firstUse' = A!Counted(firstUse, d, c), reuse' = reuse, session' = session,
         \A q \in Calls \ {r} : call'[q] = call[q],
         call'[r].at = "log" => call'[r].device = d /\ call'[r].code = c
  PROVE  HeldOnce'
<1>1. firstUse' = [firstUse EXCEPT ![<<d, c>>] = firstUse[<<d, c>>] + 1] /\ firstUse \in Uses
  BY DEF A!Counted, IAccess, MemoryOK
<1>2. \A e \in Devices, k \in A!Codes :
        firstUse'[<<e, k>>] = IF e = d /\ k = c THEN 1 ELSE firstUse[<<e, k>>]
  BY <1>1 DEF Uses
<1>3. HeldOnce
  BY DEF IAccess, CodesHeld
<1>4. (\A q \in Calls : ~LogHolds(q, d, c)) /\ (\A t \in Tokens : ~SessionHolds(t, d, c))
  BY <1>3 DEF HeldOnce
<1>5. \A e \in Devices, k \in A!Codes, q \in Calls :
        LogHolds(q, e, k)' => (q = r /\ e = d /\ k = c) \/ (q # r /\ LogHolds(q, e, k))
  BY DEF LogHolds
<1>6. \A e \in Devices, k \in A!Codes, t \in Tokens :
        SessionHolds(t, e, k)' = SessionHolds(t, e, k)
  BY DEF SessionHolds
<1>7. ASSUME NEW e \in Devices, NEW k \in A!Codes, NEW q \in Calls, LogHolds(q, e, k)'
      PROVE  /\ firstUse'[<<e, k>>] = 1 /\ reuse'[<<e, k>>] = 0
             /\ \A p \in Calls \ {q} : ~LogHolds(p, e, k)'
             /\ \A t \in Tokens : ~SessionHolds(t, e, k)'
  <2>1. CASE q = r /\ e = d /\ k = c
    BY <1>2, <1>4, <1>5, <1>6, <2>1
  <2>2. CASE q # r /\ LogHolds(q, e, k)
    BY <1>2, <1>3, <1>4, <1>5, <1>6, <2>2 DEF HeldOnce
  <2>3. QED
    BY <1>5, <1>7, <2>1, <2>2
<1>8. ASSUME NEW e \in Devices, NEW k \in A!Codes, NEW t \in Tokens, SessionHolds(t, e, k)'
      PROVE  /\ firstUse'[<<e, k>>] = 1 /\ reuse'[<<e, k>>] = 0
             /\ \A s \in Tokens \ {t} : ~SessionHolds(s, e, k)'
  BY <1>2, <1>3, <1>4, <1>6, <1>8 DEF HeldOnce
<1>9. QED
  BY <1>7, <1>8 DEF HeldOnce

\* A login or a step-up whose code is accepted, or is not.
LEMMA UseCodeKeeps ==
  ASSUME IAccess, NEW r \in Calls, A!UseCode(r)
  PROVE  IAccess'
<1> DEFINE d == call[r].target
           c == call[r].code
           newer == A!Exists(d) /\ device[d].last < c
<1>0. UNCHANGED <<clock, account, enrolment, session, channel, locked, calls, reuse>>
  BY DEF A!UseCode, A!UseCodeIf
<1>1. CASE ~newer
  <2>1. UNCHANGED <<device, firstUse>>
    BY <1>1 DEF A!UseCode, A!UseCodeIf
  <2>2. call' = [call EXCEPT ![r] = IF call[r].token = None THEN A!Idle
                                    ELSE [call[r] EXCEPT !.at = "stale"]]
    BY <1>1 DEF A!UseCode, A!UseCodeIf
  <2>3. call[r] \in CallType /\ call \in [Calls -> CallType]
    BY DEF IAccess, MemoryOK
  <2>4. /\ [call[r] EXCEPT !.at = "stale"] \in CallType
        /\ [call[r] EXCEPT !.at = "stale"].at = "stale"
        /\ [call[r] EXCEPT !.at = "stale"].token = call[r].token
    BY <2>3, Kinds DEF CallType
  <2>5. /\ call' \in [Calls -> CallType] /\ call'[r].at \notin {"log", "write", "use"}
        /\ \A q \in Calls \ {r} : call'[q] = call[q]
        /\ call'[r].at \in Owning => call'[r].token = call[r].token /\ call[r].token # None
    BY <2>2, <2>3, <2>4, IdleType DEF A!Idle, Owning
  <2>6. call[r].token \in Tokens \cup {None}
    BY <2>3 DEF CallType
  <2>7. CallsRest
    BY <2>5, <2>6, OneCall
  <2>8. QED
    BY <1>0, <2>1, <2>7, SessionRests, RequestsOnly DEF IAccess, RowsOK
<1>2. CASE newer
  <2>1. /\ call[r].at = "use" /\ locked = None
        /\ device' = [device EXCEPT ![d].last = c] /\ firstUse' = A!Counted(firstUse, d, c)
        /\ call' = [call EXCEPT ![r].at = IF call[r].token = None THEN "log" ELSE "clear",
                                ![r].device = IF call[r].token = None THEN d ELSE @,
                                ![r].target = None]
    BY <1>2 DEF A!UseCode, A!UseCodeIf
  <2>2. call \in [Calls -> CallType] /\ call[r] \in CallType
    BY DEF IAccess, MemoryOK
  <2>3. d \in Devices /\ c \in A!Codes /\ device[d].last < c /\ device[d].user # None
    BY <1>2, <2>1 DEF A!Exists, IAccess, Presented
  <2>4. call[r].token # None \/ d \in Devices
    BY <2>3
  <2>5. /\ call' \in [Calls -> CallType] /\ \A q \in Calls \ {r} : call'[q] = call[q]
        /\ call'[r].at \in {"log", "clear"} /\ call'[r].code = c
        /\ call'[r].at = "log" => call'[r].device = d
    <3> HIDE DEF d, c
    <3>1. CASE call[r].token = None
      <4>1. call' = [call EXCEPT ![r].at = "log", ![r].device = d, ![r].target = None]
        BY <2>1, <3>1
      <4>2. QED
        BY <2>2, <2>3, <4>1, Kinds DEF CallType, c
    <3>2. CASE call[r].token # None
      <4>1. call' = [call EXCEPT ![r].at = "clear", ![r].device = @, ![r].target = None]
        BY <2>1, <3>2
      <4>2. QED
        BY <2>2, <4>1, Kinds DEF CallType, c
    <3>3. QED
      BY <3>1, <3>2
  <2>6. device \in [Devices -> DeviceType] /\ device[d] \in DeviceType
    BY <2>3 DEF IAccess, RowsOK
  <2>7. /\ device' \in [Devices -> DeviceType] /\ \A e \in Devices \ {d} : device'[e] = device[e]
        /\ device'[d].user = device[d].user /\ device'[d].gone = device[d].gone
        /\ device'[d].last = c
    <3> HIDE DEF d, c
    <3>1. QED
      BY <2>1, <2>3, <2>6 DEF DeviceType, AnyCode
  <2>8. firstUse[<<d, c>>] = 0 /\ reuse[<<d, c>>] = 0
    BY <2>3, NewCode
  <2>9. UsesCounted' /\ firstUse' \in Uses
    BY <1>0, <2>1, <2>3, <2>7, <2>8, AcceptedOnce
  <2>10. HeldOnce'
    BY <1>0, <2>1, <2>3, <2>5, <2>8, AcceptedHeld
  <2>11. RowsOK' /\ MemoryOK' /\ Presented'
    BY <1>0, <2>1, <2>5, <2>7, <2>9 DEF IAccess, RowsOK, MemoryOK, Presented, Owning
  <2>12. EnrolsOnce'
    BY <1>0, <2>3, <2>7 DEF IAccess, LoginsKept, EnrolsOnce, A!Never
  <2>13. RemovalsCounted'
    BY <2>1, <2>5, AccessAssumption DEF IAccess, LoginsKept, RemovalsCounted
  <2>14. A!LoginRemains'
    BY <1>0, <2>7 DEF IAccess, LoginsKept, A!LoginRemains, A!Initialized, A!Row, A!Exists
  <2>15. QED
    BY <2>9, <2>10, <2>11, <2>12, <2>13, <2>14 DEF IAccess, LoginsKept, CodesHeld
<1>3. QED
  BY <1>1, <1>2

LEMMA CountedUses ==
  ASSUME NEW f \in Uses, NEW d, NEW c
  PROVE  /\ A!Counted(f, d, c) \in Uses
         /\ \A y \in Devices \X A!Codes :
              A!Counted(f, d, c)[y] = IF y = <<d, c>> THEN f[y] + 1 ELSE f[y]
<1> DEFINE x == <<d, c>>
<1>1. A!Counted(f, d, c) = [f EXCEPT ![x] = f[x] + 1]
  BY DEF A!Counted
<1> HIDE DEF x
<1>3. A!Counted(f, d, c) \in Uses
  <2>1. CASE x \in Devices \X A!Codes
    <3>1. f[x] + 1 \in Nat
      BY <2>1 DEF Uses
    <3>2. QED
      BY <1>1, <3>1 DEF Uses
  <2>2. CASE x \notin Devices \X A!Codes
    <3>1. A!Counted(f, d, c) = f
      BY <1>1, <2>2 DEF Uses
    <3>2. QED
      BY <3>1
  <2>3. QED
    BY <2>1, <2>2
<1>4. \A y \in Devices \X A!Codes : A!Counted(f, d, c)[y] = IF y = x THEN f[y] + 1 ELSE f[y]
  BY <1>1 DEF Uses
<1>5. QED
  BY <1>3, <1>4 DEF x

\* The session gives up the code with which it is accepted again.
LEMMA SpendLoginCounterKeeps ==
  ASSUME IAccess, NEW r \in Calls, A!SpendLoginCounter(r)
  PROVE  IAccess'
<1> DEFINE t == call[r].token
           d == call[r].device
           c == call[r].code
<1>0. UNCHANGED <<clock, account, device, enrolment, channel, locked, calls, firstUse>>
  BY DEF A!SpendLoginCounter, A!SpendLoginCounterIf
<1>1. CASE ~(A!OwnSession(r) /\ session[t].code = c)
  <2>1. A!Ends(r) /\ UNCHANGED <<session, reuse>>
    BY <1>1 DEF A!SpendLoginCounter, A!SpendLoginCounterIf
  <2>2. QED
    BY <1>0, <2>1, CallEnds, SessionRests, RequestsOnly DEF IAccess, RowsOK
<1>2. CASE A!OwnSession(r) /\ session[t].code = c
  <2>1. /\ session' = [session EXCEPT ![t].code = A!NoCode] /\ reuse' = A!Counted(reuse, d, c)
        /\ call' = [call EXCEPT ![r].at = "act", ![r].code = A!NoCode, ![r].target = None]
    BY <1>2 DEF A!SpendLoginCounter, A!SpendLoginCounterIf
  <2>2. session[t].at = "live" /\ session[t].device = d /\ session[t].code = c
    BY <1>2 DEF A!OwnSession
  <2>3. /\ session \in [Tokens -> SessionType] /\ call \in [Calls -> CallType]
        /\ call[r] \in CallType /\ reuse \in Uses
    BY DEF IAccess, MemoryOK
  <2>4. /\ call' \in [Calls -> CallType] /\ \A q \in Calls \ {r} : call'[q] = call[q]
        /\ call'[r].at = "act"
    <3> DEFINE x == [call[r] EXCEPT !.at = "act", !.code = A!NoCode, !.target = None]
    <3>1. call' = [call EXCEPT ![r] = x] /\ \A q \in Calls \ {r} : call'[q] = call[q]
      BY <2>1, <2>3
    <3>2. x \in CallType
      BY <2>3, CallChanges DEF Points, AnyCode
    <3>3. x.at = "act"
      BY <2>3 DEF CallType
    <3> HIDE DEF x
    <3>4. call'[r] = x
      BY <2>3, <3>1
    <3>5. QED  BY <2>3, <3>1, <3>2, <3>3, <3>4, CallPut
  <2>5. CallsRest
    BY <2>4, OneCall DEF Owning
  <2>6. /\ session' \in [Tokens -> SessionType]
        /\ \A s \in Tokens : /\ session'[s].at = session[s].at
                             /\ session'[s].device = session[s].device
        /\ \A s \in Tokens \ {t} : session'[s] = session[s]
        /\ t \in Tokens => session'[t].code = A!NoCode
    <3> DEFINE x == [session[t] EXCEPT !.code = A!NoCode]
    <3>1. session' = [session EXCEPT ![t] = x]
      BY <2>1, <2>3
    <3>2. session[t] \in SessionType => /\ x \in SessionType /\ x.at = session[t].at
                                        /\ x.device = session[t].device /\ x.code = A!NoCode
      <4>1. A!NoCode \in AnyCode
        BY DEF AnyCode
      <4>2. QED  BY <4>1 DEF SessionType
    <3> HIDE DEF x
    <3> DEFINE T == SessionType
    <3>3. session \in [Tokens -> T] /\ (session[t] \in T => x \in T)
      BY <2>3, <3>2
    <3> HIDE DEF T
    <3>4. session' \in [Tokens -> T]
      BY <3>1, <3>3
    <3>5. QED  BY <2>3, <3>1, <3>2, <3>4 DEF T
  <2>7. t \in Tokens
    BY DEF A!SpendLoginCounter, A!SpendLoginCounterIf, IAccess, Presented, Owning
  <2>8. SessionsRest
    BY <2>6, <2>7 DEF SessionsRest
  <2>9. reuse' \in Uses
    BY <2>1, <2>3, CountedUses
  <2>10. RowsOK' /\ MemoryOK' /\ Presented'
    BY <1>0, <2>5, <2>8, <2>9 DEF IAccess, RowsOK, MemoryOK, Presented, CallsRest,
       SessionsRest
  <2>11. LoginsKept'
    BY <1>0, <2>5, LoginsRest
  <2>12. \A e \in Devices, k \in A!Codes :
           reuse'[<<e, k>>] = IF e = d /\ k = c THEN reuse[<<e, k>>] + 1 ELSE reuse[<<e, k>>]
    <3> SUFFICES ASSUME NEW e \in Devices, NEW k \in A!Codes
                 PROVE  reuse'[<<e, k>>] = IF e = d /\ k = c THEN reuse[<<e, k>>] + 1
                                           ELSE reuse[<<e, k>>]
      OBVIOUS
    <3> DEFINE y == <<e, k>>
    <3>1. y \in Devices \X A!Codes /\ (y = <<d, c>> <=> e = d /\ k = c)
      OBVIOUS
    <3> HIDE DEF y
    <3>2. A!Counted(reuse, d, c)[y] = IF y = <<d, c>> THEN reuse[y] + 1 ELSE reuse[y]
      BY <2>3, <3>1, CountedUses
    <3>3. QED
      BY <2>1, <3>1, <3>2 DEF y
  <2>13. ASSUME d \in Devices, c \in A!Codes
         PROVE  SessionHolds(t, d, c) /\ firstUse[<<d, c>>] = 1 /\ reuse[<<d, c>>] = 0
    BY <2>2, <2>7, <2>13 DEF SessionHolds, IAccess, CodesHeld, HeldOnce
  <2>14. UsesCounted'
    <3> HIDE DEF d, c, t
    <3>1. UsesCounted
      BY DEF IAccess, CodesHeld
    <3>2. ASSUME NEW e \in Devices, NEW k \in A!Codes
          PROVE  reuse'[<<e, k>>] <= firstUse'[<<e, k>>]
      <4>1. CASE e = d /\ k = c
        BY <1>0, <2>12, <2>13, <4>1
      <4>2. CASE ~(e = d /\ k = c)
        BY <1>0, <2>12, <3>1, <4>2 DEF UsesCounted
      <4>3. QED
        BY <4>1, <4>2
    <3>3. QED
      BY <1>0, <3>1, <3>2 DEF UsesCounted
  <2>15. HeldOnce'
    <3> HIDE DEF d, c, t
    <3>1. HeldOnce
      BY DEF IAccess, CodesHeld
    <3>2. ASSUME NEW e \in Devices, NEW k \in A!Codes, NEW q \in Calls, LogHolds(q, e, k)'
          PROVE  LogHolds(q, e, k) /\ ~(e = d /\ k = c)
      BY <2>5, <2>7, <2>13, <3>1, <3>2 DEF CallsRest, LogHolds, HeldOnce
    <3>3. ASSUME NEW e \in Devices, NEW k \in A!Codes, NEW s \in Tokens, SessionHolds(s, e, k)'
          PROVE  SessionHolds(s, e, k) /\ s # t
      BY <2>6, <2>7, <3>3, CodesAreNatural DEF SessionHolds
    <3>4. ASSUME NEW e \in Devices, NEW k \in A!Codes, NEW s \in Tokens, SessionHolds(s, e, k)'
          PROVE  ~(e = d /\ k = c)
      BY <2>7, <2>13, <3>1, <3>3, <3>4 DEF HeldOnce
    <3>5. \A e \in Devices, k \in A!Codes :
            \/ e = d /\ k = c
            \/ /\ reuse'[<<e, k>>] = reuse[<<e, k>>]
               /\ firstUse'[<<e, k>>] = firstUse[<<e, k>>]
      BY <1>0, <2>12
    <3>6. ASSUME NEW e \in Devices, NEW k \in A!Codes, NEW q \in Calls, LogHolds(q, e, k)'
          PROVE  /\ firstUse'[<<e, k>>] = 1 /\ reuse'[<<e, k>>] = 0
                 /\ \A p \in Calls \ {q} : ~LogHolds(p, e, k)'
                 /\ \A s \in Tokens : ~SessionHolds(s, e, k)'
      BY <3>1, <3>2, <3>3, <3>5, <3>6 DEF HeldOnce
    <3>7. ASSUME NEW e \in Devices, NEW k \in A!Codes, NEW s \in Tokens, SessionHolds(s, e, k)'
          PROVE  /\ firstUse'[<<e, k>>] = 1 /\ reuse'[<<e, k>>] = 0
                 /\ \A p \in Tokens \ {s} : ~SessionHolds(p, e, k)'
      BY <3>1, <3>3, <3>4, <3>5, <3>7 DEF HeldOnce
    <3>8. QED
      BY <3>6, <3>7 DEF HeldOnce
  <2>16. QED
    BY <2>10, <2>11, <2>14, <2>15 DEF IAccess, CodesHeld
<1>3. QED
  BY <1>1, <1>2

-----------------------------------------------------------------------------
(* Steps that need the table lock to be free. *)

\* While it is free nothing is being removed.
LEMMA NothingRemoved ==
  ASSUME IAccess, locked = None
  PROVE  \A r \in Calls : call[r].at # "write"
BY AccessAssumption DEF IAccess, LoginsKept, RemovalsCounted

\* A device that is confirmed was none before, so no way to log in is lost.
LEMMA EnrolsKeep ==
  ASSUME IAccess, NEW r \in Calls, NEW d \in Devices, NEW c \in A!Codes, A!Enrols(d, c),
         enrolment' \in [Devices -> EnrolType \cup {None}], enrolment'[d] = None,
         \A e \in Devices : enrolment'[e] # None => enrolment[e] # None,
         call' \in [Calls -> CallType], \A q \in Calls \ {r} : call'[q] = call[q],
         \/ call'[r].at = "idle"
         \/ call'[r].at = "log" /\ call'[r].device = d /\ call'[r].code = c,
         A!Initialized \/ enrolment[d].fresh,
         UNCHANGED <<clock, session, channel, locked, reuse>>
  PROVE  IAccess'
<1> DEFINE u == enrolment[d].user
           new == [user |-> u, last |-> c, gone |-> FALSE]
<1>1. /\ device[d] = A!Never /\ enrolment[d] \in EnrolType /\ u \in Accounts
      /\ device \in [Devices -> DeviceType] /\ locked = None /\ u # None
  BY AccessAssumption DEF A!Enrols, IAccess, LoginsKept, EnrolsOnce, RowsOK, EnrolType
<1>2. new \in DeviceType
  BY <1>1 DEF DeviceType, AnyCode
<1>3. device' = [device EXCEPT ![d] = new]
  BY DEF A!Enrols
<1> HIDE DEF u
<1>4. /\ device' \in [Devices -> DeviceType] /\ \A e \in Devices \ {d} : device'[e] = device[e]
      /\ device'[d].user = u /\ device'[d].last = c /\ device'[d].gone = FALSE
  BY <1>1, <1>2, <1>3
<1>5. /\ account' \in [Accounts -> {"none", "enabled", "disabled", "deleted"}]
      /\ account'[u] = IF enrolment[d].fresh THEN "enabled" ELSE account[u]
      /\ \A v \in Accounts \ {u} : account'[v] = account[v]
  BY <1>1 DEF A!Enrols, IAccess, RowsOK, u
<1>6. device[d].user = None /\ device[d].last = A!NoCode
  BY <1>1 DEF A!Never
<1>7. firstUse[<<d, c>>] = 0 /\ reuse[<<d, c>>] = 0
  BY <1>6, NewCode
<1>8. firstUse' = A!Counted(firstUse, d, c) /\ reuse' = reuse /\ session' = session
  BY DEF A!Enrols
<1>9. UsesCounted' /\ firstUse' \in Uses
  BY <1>1, <1>4, <1>6, <1>7, <1>8, AcceptedOnce
<1>10. HeldOnce'
  BY <1>7, <1>8, AcceptedHeld
<1>11. RowsOK' /\ MemoryOK' /\ Presented'
  BY <1>4, <1>5, <1>8, <1>9 DEF IAccess, RowsOK, MemoryOK, Presented, Owning
<1>12. EnrolsOnce'
  BY <1>4 DEF IAccess, LoginsKept, EnrolsOnce
<1>13. RemovalsCounted'
  BY <1>1, NothingRemoved DEF RemovalsCounted
<1>14. A!LoginRemains'
  <2>1. CASE A!Initialized
    <3>1. PICK e \in Devices : A!Exists(e) /\ account[device[e].user] = "enabled"
      BY <2>1 DEF IAccess, LoginsKept, A!LoginRemains
    <3>2. e # d /\ device[e].user \in Accounts
      BY <1>1, <1>6, <3>1 DEF A!Exists, DeviceType
    <3>3. A!Exists(e)' /\ account'[device'[e].user] = "enabled"
      BY <1>4, <1>5, <3>1, <3>2 DEF A!Exists
    <3>4. QED
      BY <3>3 DEF A!LoginRemains
  <2>2. CASE enrolment[d].fresh
    BY <1>1, <1>4, <1>5, <2>2 DEF A!LoginRemains, A!Exists
  <2>3. QED
    BY <2>1, <2>2
<1>15. QED
  BY <1>9, <1>10, <1>11, <1>12, <1>13, <1>14 DEF IAccess, LoginsKept, CodesHeld

LEMMA BootstrapConfirmKeeps ==
  ASSUME IAccess, NEW r \in Calls, NEW d \in Devices, NEW c \in A!Codes,
         A!BootstrapConfirm(r, d, c)
  PROVE  IAccess'
<1> DEFINE new == [A!Idle EXCEPT !.at = "log", !.user = enrolment[d].user,
                                 !.device = d, !.code = c]
<1>1. enrolment[d].user \in Accounts
  BY DEF A!BootstrapConfirm, A!Enrols, IAccess, RowsOK, EnrolType
<1>2. A!Idle \in CallType
  BY IdleType
<1>3. new \in CallType /\ new.at = "log" /\ new.device = d /\ new.code = c
  BY <1>1, <1>2, Kinds DEF CallType
<1>4. call' = [call EXCEPT ![r] = new] /\ call \in [Calls -> CallType]
  BY DEF A!BootstrapConfirm, IAccess, MemoryOK
<1> HIDE DEF new
<1>5. /\ call' \in [Calls -> CallType] /\ \A q \in Calls \ {r} : call'[q] = call[q]
      /\ call'[r].at = "log" /\ call'[r].device = d /\ call'[r].code = c
  BY <1>3, <1>4
<1>6. /\ A!Enrols(d, c) /\ enrolment[d].fresh /\ enrolment' = [e \in Devices |-> None]
      /\ UNCHANGED <<clock, session, channel, locked, reuse>>
  BY DEF A!BootstrapConfirm
<1>7. QED
  BY <1>5, <1>6, EnrolsKeep

LEMMA ConfirmEnrolmentKeeps ==
  ASSUME IAccess, NEW r \in Calls, NEW d \in Devices, NEW c \in A!Codes,
         A!ConfirmEnrolment(r, d, c)
  PROVE  IAccess'
<1>1. /\ call' \in [Calls -> CallType] /\ \A q \in Calls \ {r} : call'[q] = call[q]
      /\ call'[r].at = "idle"
  BY IdleType DEF A!ConfirmEnrolment, A!Ends, A!Idle, IAccess, MemoryOK
<1>2. /\ enrolment' \in [Devices -> EnrolType \cup {None}] /\ enrolment'[d] = None
      /\ \A e \in Devices : enrolment'[e] # None => enrolment[e] # None
  BY DEF A!ConfirmEnrolment, IAccess, RowsOK
<1>3. A!Initialized \/ enrolment[d].fresh
  <2>1. CASE enrolment[d].fresh
    BY <2>1
  <2>2. CASE ~enrolment[d].fresh
    <3>1. A!Row(enrolment[d].user) /\ enrolment[d].user \in Accounts
      BY <2>2 DEF A!ConfirmEnrolment, A!Enrols, IAccess, RowsOK, EnrolType
    <3>2. QED
      BY <3>1 DEF A!Initialized
  <2>3. QED
    BY <2>1, <2>2
<1>4. A!Enrols(d, c) /\ UNCHANGED <<clock, session, channel, locked, reuse>>
  BY DEF A!ConfirmEnrolment
<1>5. QED
  BY <1>1, <1>2, <1>3, <1>4, EnrolsKeep

\* The reset leaves no account.
LEMMA ResetAuthKeeps == ASSUME IAccess, A!ResetAuth PROVE IAccess'
<1>1. /\ account' \in [Accounts -> {"none", "enabled", "disabled", "deleted"}]
      /\ \A u \in Accounts : account'[u] \notin {"enabled", "disabled"}
  BY DEF A!ResetAuth, A!Row, IAccess, RowsOK
<1>2. /\ device' \in [Devices -> DeviceType]
      /\ \A d \in Devices : device'[d].user = device[d].user /\ device'[d].last = device[d].last
  BY DEF A!ResetAuth, IAccess, RowsOK, DeviceType
<1>3. enrolment' = [d \in Devices |-> None]
  BY DEF A!ResetAuth
<1>4. CallsRest /\ SessionsRest
  BY CallRests, SessionRests DEF A!ResetAuth
<1>5. CodesHeld'
  BY <1>2, <1>4, HeldRests DEF A!ResetAuth
<1>6. RowsOK' /\ MemoryOK' /\ Presented'
  BY <1>1, <1>2, <1>3 DEF A!ResetAuth, IAccess, RowsOK, MemoryOK, Presented
<1>7. EnrolsOnce'
  BY <1>3 DEF EnrolsOnce
<1>8. RemovalsCounted'
  BY NothingRemoved DEF A!ResetAuth, RemovalsCounted
<1>9. A!LoginRemains'
  BY <1>1 DEF A!LoginRemains, A!Initialized, A!Row
<1>10. QED
  BY <1>5, <1>6, <1>7, <1>8, <1>9 DEF IAccess, LoginsKept

LEMMA CommitEnableKeeps ==
  ASSUME IAccess, NEW r \in Calls, A!CommitEnable(r)
  PROVE  IAccess'
<1> DEFINE u == call[r].target
<1>1. /\ account \in [Accounts -> {"none", "enabled", "disabled", "deleted"}]
      /\ account' = [account EXCEPT ![u] = IF A!Row(u) THEN "enabled" ELSE @]
  BY DEF A!CommitEnable, IAccess, RowsOK
<1>2. /\ account' \in [Accounts -> {"none", "enabled", "disabled", "deleted"}]
      /\ \A v \in Accounts : account'[v] = IF v = u /\ A!Row(u) THEN "enabled" ELSE account[v]
  BY <1>1
<1>3. CallsRest /\ SessionsRest
  BY CallEnds, SessionRests DEF A!CommitEnable
<1>4. CodesHeld'
  BY <1>3, HeldRests DEF A!CommitEnable
<1>5. RowsOK' /\ MemoryOK' /\ Presented'
  BY <1>2, <1>3 DEF A!CommitEnable, IAccess, RowsOK, MemoryOK, Presented, CallsRest
<1>6. EnrolsOnce'
  BY DEF A!CommitEnable, IAccess, LoginsKept, EnrolsOnce
<1>7. RemovalsCounted'
  BY <1>3, NothingRemoved DEF A!CommitEnable, RemovalsCounted, CallsRest
<1>8. A!LoginRemains'
  <2> SUFFICES ASSUME A!Initialized'
               PROVE  \E d \in Devices : (A!Exists(d) /\ account[device[d].user] = "enabled")'
    BY DEF A!LoginRemains
  <2>1. A!Initialized
    BY <1>2 DEF A!Initialized, A!Row
  <2>2. PICK d \in Devices : A!Exists(d) /\ account[device[d].user] = "enabled"
    BY <2>1 DEF IAccess, LoginsKept, A!LoginRemains
  <2>3. device[d].user \in Accounts
    BY <2>2 DEF A!Exists, IAccess, RowsOK, DeviceType
  <2>4. QED
    BY <1>2, <2>2, <2>3 DEF A!CommitEnable, A!Exists
<1>9. QED
  BY <1>4, <1>5, <1>6, <1>7, <1>8 DEF IAccess, LoginsKept

-----------------------------------------------------------------------------
(* Removals. *)

\* What is counted under the lock goes with the request to its commit.
LEMMA BeginRemovalKeeps ==
  ASSUME IAccess, NEW r \in Calls, NEW op \in Ops, NEW x \in Accounts \cup Devices,
         A!BeginRemoval(r, op, x)
  PROVE  IAccess'
<1>0. UNCHANGED <<clock, account, device, enrolment, session, channel, calls, firstUse, reuse>>
  BY DEF A!BeginRemoval, A!BeginRemovalIf
<1>1. CASE ~A!OtherLoginPath(op, x)
  <2>1. A!Ends(r) /\ UNCHANGED locked
    BY <1>1 DEF A!BeginRemoval, A!BeginRemovalIf
  <2>2. QED
    BY <1>0, <2>1, CallEnds, SessionRests, RequestsOnly DEF IAccess, RowsOK
<1>2. CASE A!OtherLoginPath(op, x)
  <2>1. /\ locked = None /\ locked' = r
        /\ call' = [call EXCEPT ![r].at = "write", ![r].op = op, ![r].target = x]
        /\ op = "revoke" => x \in Devices /\ A!Exists(x)
    BY <1>2 DEF A!BeginRemoval, A!BeginRemovalIf, A!Removable
  <2>2. call \in [Calls -> CallType]
    BY DEF IAccess, MemoryOK
  <2>3. /\ call' \in [Calls -> CallType] /\ \A q \in Calls \ {r} : call'[q] = call[q]
        /\ call'[r].at = "write" /\ call'[r].op = op /\ call'[r].target = x
    <3> DEFINE y == [call[r] EXCEPT !.at = "write", !.op = op, !.target = x]
    <3>1. call' = [call EXCEPT ![r] = y] /\ \A q \in Calls \ {r} : call'[q] = call[q]
      BY <2>1, <2>2
    <3>2. y \in CallType
      BY <2>2, CallChanges DEF Points
    <3>3. y.at = "write" /\ y.op = op /\ y.target = x
      BY <2>2 DEF CallType
    <3> HIDE DEF y
    <3>4. call'[r] = y
      BY <2>2, <3>1
    <3>5. QED  BY <2>2, <3>1, <3>2, <3>3, <3>4, CallPut
  <2>4. RowsOK' /\ MemoryOK' /\ Presented'
    BY <1>0, <2>1, <2>3 DEF IAccess, RowsOK, MemoryOK, Presented, Owning
  <2>5. EnrolsOnce' /\ A!LoginRemains'
    BY <1>0 DEF IAccess, LoginsKept, EnrolsOnce, A!LoginRemains, A!Initialized, A!Row,
       A!Exists
  <2>6. RemovalsCounted'
    <3>1. \A q \in Calls \ {r} : call'[q].at # "write"
      BY <2>1, <2>3, NothingRemoved
    <3>2. A!OtherLoginPath(op, x)' /\ (op = "revoke" => x \in Devices /\ A!Exists(x)')
      BY <1>0, <1>2, <2>1 DEF A!OtherLoginPath, A!Exists
    <3>3. A!OtherLoginPath(call[r].op, call[r].target)'
      BY <1>0, <1>2, <2>3 DEF A!OtherLoginPath, A!Exists
    <3>4. QED
      BY <2>1, <2>3, <3>1, <3>2, <3>3 DEF RemovalsCounted, A!Exists
  <2>7. UsesCounted'
    BY <1>0 DEF IAccess, CodesHeld, UsesCounted
  <2>8. HeldOnce'
    <3>1. \A d \in Devices, c \in A!Codes, q \in Calls : LogHolds(q, d, c)' => LogHolds(q, d, c)
      BY <2>3 DEF LogHolds
    <3>2. \A d \in Devices, c \in A!Codes, t \in Tokens :
              SessionHolds(t, d, c)' <=> SessionHolds(t, d, c)
      BY <1>0 DEF SessionHolds
    <3>3. QED
      BY <1>0, <3>1, <3>2 DEF IAccess, CodesHeld, HeldOnce
  <2>9. QED
    BY <2>4, <2>5, <2>6, <2>7, <2>8 DEF IAccess, LoginsKept, CodesHeld
<1>3. QED
  BY <1>1, <1>2

\* The way to log in that was counted remains after the commit.
LEMMA CommitRemovalKeeps ==
  ASSUME IAccess, NEW r \in Calls, A!CommitRemoval(r)
  PROVE  IAccess'
<1> DEFINE op == call[r].op
           x == call[r].target
<1>1. /\ call[r].at = "write" /\ locked = r /\ A!OtherLoginPath(op, x)
      /\ op = "revoke" => x \in Devices /\ A!Exists(x)
  BY DEF A!CommitRemoval, IAccess, LoginsKept, RemovalsCounted
<1>2. /\ account' = IF op = "revoke" THEN account
                    ELSE [account EXCEPT ![x] = IF op = "disable" THEN "disabled" ELSE "deleted"]
      /\ account \in [Accounts -> {"none", "enabled", "disabled", "deleted"}]
  BY DEF A!CommitRemoval, IAccess, RowsOK
<1>3. /\ account' \in [Accounts -> {"none", "enabled", "disabled", "deleted"}]
      /\ \A u \in Accounts : account'[u] = account[u] \/ (op # "revoke" /\ u = x)
  <2> HIDE DEF op, x
  <2>1. QED
    BY <1>2
<1>4. /\ device' \in [Devices -> DeviceType]
      /\ \A d \in Devices :
           /\ device'[d].user = device[d].user /\ device'[d].last = device[d].last
           /\ \/ device'[d] = device[d]
              \/ A!Exists(d) /\ (op = "revoke" => d = x) /\ (op # "revoke" => device[d].user = x)
  <2>1. device \in [Devices -> DeviceType]
    BY DEF IAccess, RowsOK
  <2>2. \A d \in Devices :
          /\ [device[d] EXCEPT !.gone = TRUE] \in DeviceType
          /\ [device[d] EXCEPT !.gone = TRUE].user = device[d].user
          /\ [device[d] EXCEPT !.gone = TRUE].last = device[d].last
    BY <2>1 DEF DeviceType
  <2>3. device' = [d \in Devices |->
              IF (op = "revoke" /\ d = x) \/ (op = "delete" /\ A!Exists(d) /\ device[d].user = x)
              THEN [device[d] EXCEPT !.gone = TRUE] ELSE device[d]]
    BY DEF A!CommitRemoval
  <2> HIDE DEF op, x
  <2>4. QED
    BY <1>1, <2>1, <2>2, <2>3
<1>5. /\ enrolment' \in [Devices -> EnrolType \cup {None}]
      /\ \A d \in Devices : enrolment'[d] # None => enrolment[d] # None
  <2>1. enrolment \in [Devices -> EnrolType \cup {None}]
    BY DEF IAccess, RowsOK
  <2>2. enrolment' = [d \in Devices |->
              IF op # "delete" \/ enrolment[d] = None THEN enrolment[d]
              ELSE IF ~enrolment[d].fresh /\ enrolment[d].user = x THEN None
              ELSE [enrolment[d] EXCEPT !.by = IF @ = x THEN None ELSE @]]
    BY DEF A!CommitRemoval
  <2>3. \A d \in Devices : enrolment[d] # None =>
          [enrolment[d] EXCEPT !.by = IF @ = x THEN None ELSE @] \in EnrolType
    BY <2>1 DEF EnrolType
  <2> HIDE DEF op, x
  <2>4. QED
    BY <2>1, <2>2, <2>3
<1>6. /\ call' \in [Calls -> CallType] /\ \A q \in Calls \ {r} : call'[q] = call[q]
      /\ call'[r].at = "revoke"
  BY Kinds DEF A!CommitRemoval, A!Goes, IAccess, MemoryOK, CallType
<1>7. CallsRest
  BY <1>6, OneCall DEF Owning
<1>8. SessionsRest /\ locked' = None /\ UNCHANGED <<clock, session, channel, firstUse, reuse>>
  BY SessionRests DEF A!CommitRemoval
<1>9. CodesHeld'
  BY <1>4, <1>7, <1>8, HeldRests
<1>10. RowsOK' /\ MemoryOK' /\ Presented'
  BY <1>3, <1>4, <1>5, <1>7, <1>8 DEF IAccess, RowsOK, MemoryOK, Presented, CallsRest
<1>11. EnrolsOnce'
  <2> SUFFICES ASSUME NEW d \in Devices, enrolment'[d] # None PROVE device'[d] = A!Never
    BY DEF EnrolsOnce
  <2>1. device[d] = A!Never /\ ~A!Exists(d)
    <3>1. device[d] = A!Never
      BY <1>5 DEF IAccess, LoginsKept, EnrolsOnce
    <3>2. QED
      BY <3>1 DEF A!Exists, A!Never
  <2>2. QED
    BY <1>4, <2>1
<1>12. RemovalsCounted'
  <2>1. \A q \in Calls \ {r} : call[q].at # "write"
    BY <1>1 DEF IAccess, LoginsKept, RemovalsCounted
  <2>2. QED
    BY <1>6, <2>1 DEF RemovalsCounted
<1>13. A!LoginRemains'
  <2>1. PICK d \in Devices :
          /\ A!Exists(d) /\ account[device[d].user] = "enabled"
          /\ IF op = "revoke" THEN d # x ELSE device[d].user # x
    BY <1>1 DEF A!OtherLoginPath
  <2>2. device[d].user \in Accounts
    BY <2>1 DEF A!Exists, IAccess, RowsOK, DeviceType
  <2>3. device'[d] = device[d] /\ account'[device[d].user] = "enabled"
    BY <1>3, <1>4, <2>1, <2>2
  <2>4. QED
    BY <2>1, <2>3 DEF A!LoginRemains, A!Exists
<1>14. QED
  BY <1>9, <1>10, <1>11, <1>12, <1>13 DEF IAccess, LoginsKept

-----------------------------------------------------------------------------
LEMMA StepAccess == ASSUME IAccess, [A!Next]_A!vars PROVE IAccess'
<1>1. ASSUME NEW r \in Calls, A!RequestStep(r) PROVE IAccess'
  BY <1>1, AdmitPrincipalKeeps, UseCodeKeeps, ClearLoginCounterKeeps, FindLoginCounterKeeps,
     SpendLoginCounterKeeps, CommitRemovalKeeps, RevokeSessionsKeeps, CommitEnableKeeps,
     InsertSessionKeeps DEF A!RequestStep
<1>2. ASSUME NEW r \in Calls, A!RequestInput(r) PROVE IAccess'
  <2>1. CASE \E d \in Devices, c \in A!Codes :
               \/ A!BootstrapConfirm(r, d, c) \/ A!PresentCode(r, d, c)
               \/ A!PresentOldCode(r, d, c) \/ A!ConfirmEnrolment(r, d, c)
    BY <2>1, BootstrapConfirmKeeps, PresentCodeKeeps, PresentOldCodeKeeps,
       ConfirmEnrolmentKeeps
  <2>2. CASE \E u \in Accounts : A!Login(r, u) \/ A!BeginEnable(r, u)
    BY <2>2, LoginKeeps, BeginEnableKeeps
  <2>3. CASE \E t \in Tokens : A!RequireAdmin(r, t)
    BY <2>3, RequireAdminKeeps
  <2>4. CASE \E u \in Accounts, d \in Devices : A!CreateEnrolment(r, u, d)
    BY <2>4, CreateEnrolmentKeeps
  <2>5. CASE \E d \in Devices : A!CancelEnrolment(r, d)
    BY <2>5, CallEnds, DropsKeeps DEF A!CancelEnrolment
  <2>6. CASE \E op \in {"disable", "delete", "revoke"}, x \in Accounts \cup Devices :
               A!BeginRemoval(r, op, x)
    BY <2>6, BeginRemovalKeeps DEF Ops
  <2>7. CASE A!Logout(r) \/ A!OpenSocket(r)
    BY <2>7, LogoutKeeps, OpenSocketKeeps
  <2>8. QED
    BY <1>2, <2>1, <2>2, <2>3, <2>4, <2>5, <2>6, <2>7 DEF A!RequestInput
<1>3. CASE \E u \in Accounts, d \in Devices : A!BootstrapStart(u, d)
  BY <1>3, BootstrapStartKeeps
<1>4. CASE \E d \in Devices : A!EnrolmentExpires(d)
  BY <1>4, CallRests, DropsKeeps DEF A!EnrolmentExpires
<1>5. CASE \E t \in Tokens : A!SessionExpires(t) \/ A!Revalidate(t)
  BY <1>5, SessionExpiresKeeps, RevalidateKeeps
<1>6. CASE A!ResetAuth \/ A!Tick
  BY <1>6, ResetAuthKeeps, TickKeeps
<1>7. CASE UNCHANGED A!vars
  BY <1>7, CallRests, SessionRests, RequestsOnly DEF A!vars, IAccess, RowsOK
<1>8. QED
  BY <1>1, <1>2, <1>3, <1>4, <1>5, <1>6, <1>7 DEF A!Next

\* The invariant holds of accounts that are already in service.
LEMMA ServiceAccess == ASSUME InService PROVE IAccess
<1> DEFINE on == {d \in Devices : device[d] # A!Never}
<1>1. /\ account \in [Accounts -> {"none", "enabled"}]
      /\ device \in [Devices -> {A!Never} \cup {Enrolled(u) : u \in {u1, u2}}]
      /\ enrolment \in [Devices -> {None, [user |-> u2, fresh |-> TRUE, by |-> u1]}]
      /\ \A d \in Devices : enrolment[d] # None => device[d] = A!Never
      /\ firstUse = Accepted(on)
  <2>1. ASSUME OneSession
        PROVE  /\ account \in [Accounts -> {"none", "enabled"}]
               /\ device \in [Devices -> {A!Never} \cup {Enrolled(u) : u \in {u1, u2}}]
               /\ enrolment \in [Devices -> {None, [user |-> u2, fresh |-> TRUE, by |-> u1]}]
               /\ \A d \in Devices : enrolment[d] # None => device[d] = A!Never
               /\ on = {d1}
    BY <2>1, AccessAssumption DEF OneSession, Enrolled, A!Never
  <2>2. ASSUME TwoSessions
        PROVE  /\ account \in [Accounts -> {"none", "enabled"}]
               /\ device \in [Devices -> {A!Never} \cup {Enrolled(u) : u \in {u1, u2}}]
               /\ enrolment \in [Devices -> {None, [user |-> u2, fresh |-> TRUE, by |-> u1]}]
               /\ \A d \in Devices : enrolment[d] # None => device[d] = A!Never
               /\ on = {d1, d2}
    BY <2>2, AccessAssumption DEF TwoSessions, Enrolled, A!Never
  <2>3. QED  BY <2>1, <2>2 DEF InService, OneSession, TwoSessions
<1>2. /\ \A u \in {u1, u2} : Enrolled(u) \in DeviceType /\ A!Never \in DeviceType
      /\ [user |-> u2, fresh |-> TRUE, by |-> u1] \in EnrolType
  BY AccessAssumption DEF DeviceType, EnrolType, AnyCode, A!Codes, Enrolled, A!Never,
     A!NoCode
<1>3. RowsOK
  <2>1. clock \in 0 .. MaxClock
    BY AccessAssumption DEF InService
  <2>2. device \in [Devices -> DeviceType]
    BY <1>1, <1>2
  <2>3. enrolment \in [Devices -> EnrolType \cup {None}]
    BY <1>1, <1>2
  <2>4. account \in [Accounts -> {"none", "enabled", "disabled", "deleted"}]
    BY <1>1
  <2>5. /\ channel \in [Tokens -> {"none", "open", "closed"}]
        /\ locked \in Calls \cup {None}
    BY DEF InService
  <2>6. QED  BY <2>1, <2>2, <2>3, <2>4, <2>5 DEF RowsOK
<1>4. MemoryOK /\ A!Codes # {} /\ 0 \in A!Codes
  <2>1. firstUse \in Uses /\ reuse \in Uses
    BY <1>1 DEF InService, Uses, Accepted
  <2>2. call \in [Calls -> CallType]
    BY DEF InService, A!Idle, CallType, AnyCode, Points
  <2>3. /\ \A u \in {u1, u2}, d \in {d1, d2} : Served(u, d) \in SessionType
        /\ A!Unused \in SessionType
    BY AccessAssumption DEF Served, SessionType, AnyCode, A!Codes, A!Unused
  <2>4. session \in [Tokens -> SessionType]
    <3>1. CASE OneSession  BY <3>1, <2>3 DEF OneSession
    <3>2. CASE TwoSessions  BY <3>2, <2>3 DEF TwoSessions
    <3>3. QED  BY <3>1, <3>2 DEF InService
  <2>5. 0 \in A!Codes
    BY AccessAssumption DEF A!Codes
  <2>6. QED  BY <2>1, <2>2, <2>4, <2>5 DEF MemoryOK
<1>5. Presented
  BY DEF InService, Presented, A!Idle, Owning
<1>6. LoginsKept
  <2>1. account[u1] = "enabled" /\ device[d1] = Enrolled(u1)
    BY AccessAssumption DEF InService, OneSession, TwoSessions
  <2>2. A!LoginRemains
    BY <2>1, AccessAssumption DEF A!LoginRemains, A!Exists, Enrolled
  <2>3. RemovalsCounted
    BY DEF InService, RemovalsCounted, A!Idle
  <2>4. QED  BY <1>1, <2>2, <2>3 DEF LoginsKept, EnrolsOnce
<1>7. UsesCounted
  <2> SUFFICES ASSUME NEW d \in Devices, NEW c \in A!Codes
               PROVE  /\ firstUse[<<d, c>>] <= 1 /\ reuse[<<d, c>>] <= firstUse[<<d, c>>]
                      /\ firstUse[<<d, c>>] = 1 => device[d].user # None /\ c <= device[d].last
    BY DEF UsesCounted
  <2>1. firstUse[<<d, c>>] = (IF d \in on /\ c = 0 THEN 1 ELSE 0) /\ reuse[<<d, c>>] = 0
    BY <1>1 DEF InService, Accepted
  <2>2. d \in on => device[d].user # None /\ device[d].last = 0
    BY <1>1, AccessAssumption DEF Enrolled
  <2>3. QED  BY <2>1, <2>2
<1>8. HeldOnce
  <2>1. \A r \in Calls : call[r].at # "log"
    BY DEF InService, A!Idle
  <2>2. ASSUME NEW d \in Devices, NEW c \in A!Codes, NEW t \in Tokens, SessionHolds(t, d, c)
        PROVE  /\ firstUse[<<d, c>>] = 1 /\ reuse[<<d, c>>] = 0
               /\ \A s \in Tokens \ {t} : ~SessionHolds(s, d, c)
    <3>1. CASE OneSession
      BY <2>2, <3>1, AccessAssumption DEF InService, OneSession, SessionHolds, Served,
         Accepted, A!Unused
    <3>2. CASE TwoSessions
      BY <2>2, <3>2, AccessAssumption DEF InService, TwoSessions, SessionHolds, Served,
         Accepted, A!Unused
    <3>3. QED  BY <3>1, <3>2 DEF InService
  <2>3. QED  BY <2>1, <2>2 DEF HeldOnce, LogHolds
<1>9. QED  BY <1>3, <1>4, <1>5, <1>6, <1>7, <1>8 DEF IAccess, CodesHeld

\* A one-time code is accepted once, and once more at most by the session of its login;
\* whatever removals, enrolments and logins interleave, an account that can log in
\* remains (admin_auth.rs: verify_step_up, ensure_other_login_path).
THEOREM CodesStaySpent == A!Spec => []A!AccessHolds
<1>1. A!Init => IAccess
  BY InitAccess
<1>2. IAccess /\ [A!Next]_A!vars => IAccess'
  BY StepAccess
<1>3. IAccess => A!AccessHolds
  BY AccessFollows
<1>4. QED
  BY <1>1, <1>2, <1>3, PTL DEF A!Spec

-----------------------------------------------------------------------------
(***************************************************************************)
(* Console.  An administrator's request that was not aborted was made by   *)
(* the session the page believes in, and nobody logs out before the page   *)
(* knows who is logged in.                                                 *)
(***************************************************************************)
PageOps  == {"load", "check", "verify", "change", "confirm", "run", "job", "login", "logout"}
Whys     == {"check", "asked", "task", "quiet", "poll", "change", "job", "login", "logout"}
Replies  == [by : Logins \cup {None}, version : Nat, query : Nat]
Requests ==
  [op : PageOps, kind : P!Kinds, why : Whys, tickets : SUBSET P!Kinds, newest : BOOLEAN,
   sent : Logins \cup {None}, query : Nat, aborted : BOOLEAN, at : {"sent", "served"},
   reply : Logins \cup {None} \cup Replies]
PageTypes ==
  /\ requests \subseteq Requests /\ query \in [P!Kinds -> Nat] /\ truth \in [P!Kinds -> Nat]
  /\ cookie \in Logins \cup {None} /\ me \in Logins \cup {None}
  /\ shown \in [P!Kinds -> {None} \cup Replies]

\* What an answer says, and when a request may be about.
Ours == {"change", "confirm", "run", "job"}
Private(r) == r.op \in Ours \/ (r.op = "load" /\ r.kind \notin P!Public)
Answers(r) ==
  /\ r.op \in Ours \cup {"login", "check"} => r.kind \notin P!Public
  /\ r.op \in Ours \cup {"load"} /\ r.reply # None => r.reply \in Replies /\ r.reply.by = r.sent
  /\ r.op \in {"login", "check", "verify"} => r.reply \in Logins \cup {None}
  /\ r.op = "check" => r.reply \in {None, r.sent} /\ r.tickets = {}
  /\ r.op = "login" /\ r.at = "served" => r.reply # None
  /\ r.aborted => r.op \in P!Effects /\ r.at = "sent"
Timely(r, m, c) ==
  /\ Private(r) /\ ~r.aborted => m # None /\ r.sent = m
  /\ r.op = "check" => m = None /\ r.sent = c
RequestsFit  == \A r \in requests : Answers(r) /\ Timely(r, me, cookie)
CheckedFirst ==
  \A r, x \in requests : r.op = "check" /\ x # r => x.op \notin {"check", "logout"}
IPage == /\ PageTypes /\ RequestsFit /\ CheckedFirst /\ (me # None => cookie = me)
         /\ P!ShownIsOurs

LEMMA InitPage ==
  ASSUME NEW ks, NEW s \in Logins \cup {None}, NEW work, NEW losses, P!Init(ks, s, work, losses)
  PROVE  IPage
<1>1. \A r \in requests : /\ r \in Requests /\ r.op = "check" /\ r.sent = cookie /\ ~r.aborted
                          /\ r.kind = "lists" /\ r.reply = None /\ r.tickets = {}
  <2>1. ASSUME NEW r \in requests
        PROVE  r = [op |-> "check", kind |-> "lists", why |-> "check", tickets |-> {},
                    newest |-> TRUE, sent |-> s, query |-> 0, aborted |-> FALSE, at |-> "sent",
                    reply |-> None]
    BY DEF P!Init, P!Opened
  <2>2. ASSUME NEW r \in requests
        PROVE  /\ r.op = "check" /\ r.sent = cookie /\ ~r.aborted
               /\ r.kind = "lists" /\ r.reply = None /\ r.tickets = {}
    BY <2>1 DEF P!Init
  <2>3. {"check"} \subseteq PageOps \cap Whys /\ "lists" \in P!Kinds
    BY DEF PageOps, Whys, P!Kinds
  <2>4. requests \subseteq Requests
    <3>1. [op |-> "check", kind |-> "lists", why |-> "check", tickets |-> {},
           newest |-> TRUE, sent |-> s, query |-> 0, aborted |-> FALSE, at |-> "sent",
           reply |-> None] \in Requests
      BY <2>3 DEF Requests
    <3>2. QED  BY <2>1, <3>1
  <2>5. QED  BY <2>2, <2>4
<1>2. PageTypes
  BY <1>1 DEF P!Init, PageTypes
<1>3. RequestsFit
  BY <1>1 DEF P!Init, RequestsFit, Answers, Timely, Private, Ours, P!Public
<1>4. CheckedFirst
  BY DEF P!Init, P!Opened, CheckedFirst
<1>5. P!ShownIsOurs
  BY DEF P!Init, P!ShownIsOurs, P!Forgotten
<1>6. QED  BY <1>2, <1>3, <1>4, <1>5 DEF IPage, P!Init

-----------------------------------------------------------------------------
(* Requests *)

\* X is r, but for its numbers.
Alike(x, r) == /\ x.op = r.op /\ x.kind = r.kind /\ x.sent = r.sent
               /\ x.aborted = r.aborted /\ x.at = r.at /\ x.reply = r.reply
\* X is new, and made by the session s.
New(x, s) == /\ x \in Requests /\ x.sent = s /\ ~x.aborted /\ x.at = "sent" /\ x.reply = None

LEMMA RequestIs ==
  ASSUME PageTypes, NEW op \in PageOps, NEW k \in P!Kinds, NEW why \in Whys,
         NEW tickets \in SUBSET P!Kinds
  PROVE  LET x == P!Request(op, k, why, tickets)
         IN  New(x, cookie) /\ x.op = op /\ x.kind = k
BY DEF PageTypes, P!Request, New, Requests

LEMMA WinsIs ==
  ASSUME NEW r \in Requests, NEW taken
  PROVE  /\ P!Wins(r, taken) \in Requests /\ Alike(P!Wins(r, taken), r)
         /\ r.tickets = {} => P!Wins(r, taken) = r
BY DEF P!Wins, Alike, Requests

LEMMA LoadsAre ==
  ASSUME PageTypes, NEW ks \in SUBSET P!Kinds, NEW why \in Whys, NEW held,
         NEW x \in P!Loads(ks, why, held)
  PROVE  New(x, cookie) /\ x.op = "load" /\ x.kind \in ks
<1>1. PICK k \in ks : x = P!Request("load", k, why, P!TicketsOf(k, ks))
  BY DEF P!Loads
<1>2. P!TicketsOf(k, ks) \subseteq P!Kinds
  BY DEF P!TicketsOf, P!Ticketed, P!Kinds
<1>3. "load" \in PageOps
  BY DEF PageOps
<1>4. QED  BY <1>1, <1>2, <1>3, RequestIs

\* The requests after a step that keeps some, sends some, and leaves the session alone.
LEMMA RequestsGoOn ==
  ASSUME IPage, UNCHANGED <<me, overtaken, cookie>>,
         \A x \in requests' :
           \/ x \in requests
           \/ \E r \in requests : x \in Requests /\ Alike(x, r) /\ r.op # "check"
           \/ /\ x \in Requests /\ Answers(x) /\ Timely(x, me, cookie) /\ x.op # "check"
              /\ x.op = "logout" => \A r \in requests : r.op # "check"
  PROVE  requests' \subseteq Requests /\ RequestsFit' /\ CheckedFirst'
<1>1. requests' \subseteq Requests
  BY DEF IPage, PageTypes
<1>2. ASSUME NEW x \in requests'
      PROVE  Answers(x) /\ Timely(x, me', cookie')
  <2>1. CASE \E r \in requests : x \in Requests /\ Alike(x, r) /\ r.op # "check"
    BY <2>1 DEF IPage, RequestsFit, Answers, Timely, Private, Alike
  <2>2. CASE x \in requests
    BY <2>2 DEF IPage, RequestsFit
  <2>3. QED  BY <2>1, <2>2
<1>3. ASSUME NEW x \in requests', NEW y \in requests', x.op = "check", y # x
      PROVE  y.op \notin {"check", "logout"}
  <2>1. x \in requests
    BY <1>3 DEF Alike
  <2>2. CASE y \in requests
    BY <1>3, <2>1, <2>2 DEF IPage, CheckedFirst
  <2>3. CASE \E r \in requests : Alike(y, r) /\ r.op # "check"
    BY <1>3, <2>1, <2>3 DEF IPage, CheckedFirst, Alike
  <2>4. QED  BY <1>3, <2>1, <2>2, <2>3
<1>4. QED  BY <1>1, <1>2, <1>3 DEF RequestsFit, CheckedFirst

\* What a session leaves of the requests when it ends says nothing about anybody.
LEMMA InvalidatedAre ==
  ASSUME IPage, NEW x \in P!AfterInvalidate, NEW m, NEW c
  PROVE  x \in Requests /\ Answers(x) /\ Timely(x, m, c) /\ x.op # "check"
<1>1. CASE x \in requests /\ ~P!Governed(x)
  BY <1>1 DEF IPage, PageTypes, RequestsFit, P!Governed, Answers, Timely, Private, Ours
<1>2. CASE \E r \in requests : /\ P!Governed(r) /\ r.op \in P!Effects /\ r.at = "sent"
                               /\ x = [r EXCEPT !.aborted = TRUE]
  <2>1. PICK r \in requests : /\ P!Governed(r) /\ r.op \in P!Effects /\ r.at = "sent"
                              /\ x = [r EXCEPT !.aborted = TRUE]
    BY <1>2
  <2>2. /\ r \in Requests /\ Answers(r)
    BY DEF IPage, PageTypes, RequestsFit
  <2>3. /\ x \in Requests /\ x.op = r.op /\ x.kind = r.kind /\ x.sent = r.sent /\ x.aborted
        /\ x.at = r.at /\ x.reply = r.reply /\ x.tickets = r.tickets
    BY <2>1, <2>2 DEF Requests
  <2>4. x.op \in P!Effects /\ x.at = "sent" /\ x.op # "check"
    BY <2>1, <2>3 DEF P!Effects
  <2>5. Answers(x)
    BY <2>2, <2>3, <2>4 DEF Answers
  <2>6. QED  BY <2>3, <2>4, <2>5 DEF Timely, Private, P!Effects
<1>3. QED  BY <1>1, <1>2 DEF P!AfterInvalidate

\* The page forgets an administrator.
LEMMA Clears ==
  ASSUME IPage, NEW before \in SUBSET P!AfterInvalidate, P!ClearAdminState(before),
         cookie' \in {cookie, None}, UNCHANGED truth
  PROVE  IPage'
<1>1. \A x \in requests' :
        x \in Requests /\ Answers(x) /\ Timely(x, me', cookie') /\ x.op # "check"
  BY InvalidatedAre DEF P!ClearAdminState
<1>2. me' = None /\ dialog' = "none" /\ tracked' = "no" /\ query' = [k \in P!Kinds |-> 0]
      /\ shown' = P!Cleared
  BY DEF P!ClearAdminState
<1>3. shown' \in [P!Kinds -> {None} \cup Replies] /\ \A k \in P!Forgotten : shown'[k] = None
  BY <1>2 DEF IPage, PageTypes, P!Cleared, P!Forgotten
<1>4. PageTypes'
  BY <1>1, <1>2, <1>3 DEF IPage, PageTypes
<1>5. RequestsFit' /\ CheckedFirst'
  BY <1>1 DEF RequestsFit, CheckedFirst
<1>6. P!ShownIsOurs'
  BY <1>2, <1>3 DEF P!ShownIsOurs
<1>7. QED  BY <1>2, <1>4, <1>5, <1>6 DEF IPage

\* A step that leaves the session and what is shown alone.
LEMMA PageStays ==
  ASSUME IPage, UNCHANGED <<me, overtaken, cookie>>,
         truth' \in [P!Kinds -> Nat], query' \in [P!Kinds -> Nat],
         requests' \subseteq Requests, RequestsFit', CheckedFirst',
         shown' \in [P!Kinds -> {None} \cup Replies],
         \A k \in P!Forgotten : shown'[k] # None =>
           shown'[k] = shown[k] \/ (me # None /\ shown'[k].by = me),
         (dialog' # "none" \/ tracked' # "no") =>
           dialog # "none" \/ tracked # "no" \/ me # None
  PROVE  IPage'
<1>1. PageTypes'
  BY DEF IPage, PageTypes
<1>2. P!ShownIsOurs'
  BY DEF IPage, P!ShownIsOurs
<1>3. QED  BY <1>1, <1>2 DEF IPage

-----------------------------------------------------------------------------
(* The server *)

\* R is answered with v.
Answered1(r, v) ==
  requests' = (requests \ {r}) \cup {[r EXCEPT !.at = "served", !.reply = v]}

LEMMA AnsweredFits ==
  ASSUME IPage, UNCHANGED <<me, overtaken, cookie>>, NEW r \in requests, ~r.aborted,
         NEW v \in Logins \cup {None} \cup Replies, Answered1(r, v),
         r.op \in Ours \cup {"load"} /\ v # None => v \in Replies /\ v.by = r.sent,
         r.op \in {"login", "check", "verify"} => v \in Logins \cup {None},
         r.op = "check" => v \in {None, r.sent},
         r.op = "login" => v # None
  PROVE  requests' \subseteq Requests /\ RequestsFit' /\ CheckedFirst'
<1> DEFINE x == [r EXCEPT !.at = "served", !.reply = v]
<1>1. r \in Requests /\ Answers(r) /\ Timely(r, me, cookie)
  BY DEF IPage, PageTypes, RequestsFit
<1>2. /\ x \in Requests /\ x.op = r.op /\ x.kind = r.kind /\ x.sent = r.sent
      /\ x.aborted = r.aborted /\ x.at = "served" /\ x.reply = v /\ x.tickets = r.tickets
  BY <1>1 DEF Requests
<1> HIDE DEF x
<1>3. Answers(x) /\ Timely(x, me, cookie)
  BY <1>1, <1>2 DEF Answers, Timely, Private
<1>4. requests' = (requests \ {r}) \cup {x}
  BY DEF Answered1, x
<1>5. requests' \subseteq Requests
  BY <1>2, <1>4 DEF IPage, PageTypes
<1>6. RequestsFit'
  BY <1>3, <1>4 DEF IPage, RequestsFit
<1>7. CheckedFirst'
  BY <1>2, <1>4 DEF IPage, CheckedFirst
<1>8. QED  BY <1>5, <1>6, <1>7

LEMMA Dropped ==
  ASSUME IPage, UNCHANGED <<me, overtaken, cookie>>, requests' \subseteq requests
  PROVE  requests' \subseteq Requests /\ RequestsFit' /\ CheckedFirst'
BY DEF IPage, PageTypes, RequestsFit, CheckedFirst

LEMMA ShownIs ==
  ASSUME NEW s \in Logins \cup {None}, NEW v \in Nat, NEW q \in Nat
  PROVE  P!Shown(s, v, q) \in Replies /\ P!Shown(s, v, q).by = s /\ P!Shown(s, v, q) # None
BY PageAssumption DEF P!Shown, Replies

LEMMA ServeKeeps ==
  ASSUME IPage, NEW r \in requests, P!Serve(r)
  PROVE  IPage'
<1>1. UNCHANGED <<me, overtaken, cookie, query, shown, dialog, tracked>>
  BY DEF P!Serve, P!page
<1>2. /\ r \in Requests /\ Answers(r) /\ r.kind \in P!Kinds /\ r.sent \in Logins \cup {None}
      /\ r.query \in Nat /\ truth[r.kind] \in Nat /\ r.at = "sent"
  BY DEF IPage, PageTypes, RequestsFit, Requests, P!Serve
<1>3. /\ truth' \in [P!Kinds -> Nat] /\ requests' \subseteq Requests /\ RequestsFit'
      /\ CheckedFirst'
  <2>1. CASE P!ServeLoad(r)
    <3>1. PICK v \in {None, P!Shown(r.sent, truth[r.kind], r.query)} : Answered1(r, v)
      BY <2>1 DEF P!ServeLoad, Answered1, P!Denied
    <3>2. r.op = "load" /\ ~r.aborted
      BY <1>2, <2>1 DEF P!ServeLoad, Answers, P!Effects
    <3>3. v = None \/ (v \in Replies /\ v.by = r.sent)
      BY <1>2, <3>1 DEF P!Shown, Replies
    <3>4. QED
      BY <1>1, <2>1, <3>1, <3>2, <3>3, AnsweredFits DEF P!ServeLoad, P!server, IPage,
         PageTypes
  <2>2. CASE P!ServeMe(r)
    <3>1. PICK v \in {None, r.sent} : Answered1(r, v)
      BY <2>2 DEF P!ServeMe, Answered1, P!Denied
    <3>2. r.op \in {"verify", "check"} /\ ~r.aborted
      BY <1>2, <2>2 DEF P!ServeMe, Answers, P!Effects
    <3>3. v \in Logins \cup {None}
      BY <1>2
    <3>4. QED
      BY <1>1, <2>2, <3>1, <3>2, <3>3, AnsweredFits DEF P!ServeMe, P!server, IPage,
         PageTypes, Ours
  <2>3. CASE P!ServeChange(r)
    <3>1. truth' \in [P!Kinds -> Nat]
      BY <1>2, <2>3 DEF P!ServeChange, IPage, PageTypes
    <3>2. CASE r.aborted
      BY <1>1, <2>3, <3>1, <3>2, Dropped DEF P!ServeChange
    <3>3. CASE ~r.aborted
      <4>1. PICK v \in {None, P!Shown(r.sent, truth'[r.kind], r.query)} : Answered1(r, v)
        BY <2>3, <3>3 DEF P!ServeChange, Answered1, P!Denied
      <4>2. v = None \/ (v \in Replies /\ v.by = r.sent)
        BY <1>2, <3>1, <4>1 DEF P!Shown, Replies
      <4>3. r.op \in {"change", "confirm"}
        BY <2>3 DEF P!ServeChange
      <4>4. QED  BY <1>1, <3>1, <3>3, <4>1, <4>2, <4>3, AnsweredFits
    <3>4. QED  BY <3>2, <3>3
  <2>4. CASE P!ServeRun(r)
    <3>1. truth' = truth /\ r.op = "run"
      BY <2>4 DEF P!ServeRun
    <3>2. CASE r.aborted
      BY <1>1, <2>4, <3>1, <3>2, Dropped DEF P!ServeRun, IPage, PageTypes
    <3>3. CASE ~r.aborted
      <4>1. PICK v \in {None, P!Shown(r.sent, 0, 0)} : Answered1(r, v)
        BY <2>4, <3>3 DEF P!ServeRun, Answered1, P!Denied
      <4>2. v = None \/ (v \in Replies /\ v.by = r.sent)
        BY <1>2, <4>1 DEF P!Shown, Replies
      <4>3. QED  BY <1>1, <3>1, <3>3, <4>1, <4>2, AnsweredFits DEF IPage, PageTypes
    <3>4. QED  BY <3>2, <3>3
  <2>5. CASE P!ServeJob(r)
    <3>1. PICK v \in {None, P!Shown(r.sent, 1, 0), P!Shown(r.sent, 0, 0)} : Answered1(r, v)
      BY <2>5 DEF P!ServeJob, Answered1, P!Denied
    <3>2. r.op = "job" /\ ~r.aborted
      BY <1>2, <2>5 DEF P!ServeJob, Answers, P!Effects
    <3>3. v = None \/ (v \in Replies /\ v.by = r.sent)
      BY <1>2, <3>1 DEF P!Shown, Replies
    <3>4. QED
      BY <1>1, <2>5, <3>1, <3>2, <3>3, AnsweredFits DEF P!ServeJob, P!server, IPage,
         PageTypes
  <2>6. CASE P!ServeLogin(r)
    <3>1. truth' = truth /\ r.op = "login"
      BY <2>6 DEF P!ServeLogin
    <3>2. CASE r.aborted
      BY <1>1, <2>6, <3>1, <3>2, Dropped DEF P!ServeLogin, IPage, PageTypes
    <3>3. CASE ~r.aborted
      <4>1. PICK v \in Logins : Answered1(r, v)
        BY <2>6, <3>3 DEF P!ServeLogin, Answered1
      <4>2. v # None
        BY PageAssumption
      <4>3. QED  BY <1>1, <3>1, <3>3, <4>1, <4>2, AnsweredFits DEF IPage, PageTypes, Ours
    <3>4. QED  BY <3>2, <3>3
  <2>7. CASE P!ServeLogout(r)
    <3>1. r.op = "logout" /\ truth' = truth /\ ~r.aborted
      BY <1>2, <2>7 DEF P!ServeLogout, Answers, P!Effects
    <3>2. r.reply \in Logins \cup {None} \cup Replies
      BY <1>2 DEF Requests
    <3>3. [r EXCEPT !.at = "served"] = [r EXCEPT !.at = "served", !.reply = r.reply]
      BY <1>2 DEF Requests
    <3>4. Answered1(r, r.reply)
      BY <2>7, <3>3 DEF P!ServeLogout, Answered1
    <3>5. QED  BY <1>1, <3>1, <3>2, <3>4, AnsweredFits DEF IPage, PageTypes, Ours
  <2>8. QED  BY <2>1, <2>2, <2>3, <2>4, <2>5, <2>6, <2>7 DEF P!Serve
<1>4. QED  BY <1>1, <1>3, PageStays DEF IPage, PageTypes

LEMMA ServerKeeps ==
  ASSUME IPage, \/ \E s \in Logins : P!SessionEnds(s)
                \/ \E k \in P!Kinds : P!Happens(k)
                \/ P!JobFinishes
  PROVE  IPage'
<1>1. /\ UNCHANGED <<me, overtaken, cookie, query, shown, dialog, tracked, requests>>
      /\ truth' \in [P!Kinds -> Nat]
  BY DEF P!SessionEnds, P!Happens, P!JobFinishes, P!page, IPage, PageTypes
<1>2. requests' \subseteq Requests /\ RequestsFit' /\ CheckedFirst'
  BY <1>1, Dropped
<1>3. QED  BY <1>1, <1>2, PageStays DEF IPage, PageTypes

-----------------------------------------------------------------------------
(* The answers *)

LEMMA NewFits ==
  ASSUME IPage, NEW x, New(x, cookie), x.op # "check",
         x.op \in Ours \cup {"login"} => x.kind \notin P!Public,
         Private(x) => me # None
  PROVE  x \in Requests /\ Answers(x) /\ Timely(x, me, cookie)
BY DEF IPage, New, Answers, Timely

LEMMA SendingFits ==
  ASSUME IPage, UNCHANGED <<me, overtaken, cookie>>, NEW before \in SUBSET requests, NEW taken, NEW R,
         \A x \in R : New(x, cookie) /\ x.op = "load" /\ (x.kind \notin P!Public => me # None),
         requests' = P!Sending(R, taken, before)
  PROVE  requests' \subseteq Requests /\ RequestsFit' /\ CheckedFirst'
<1>1. ASSUME NEW r \in before
      PROVE  LET x == P!Wins(r, taken)
             IN  x \in requests \/ (x \in Requests /\ Alike(x, r) /\ r.op # "check")
  BY WinsIs DEF IPage, PageTypes, RequestsFit, Answers
<1>2. ASSUME NEW x \in R
      PROVE  x \in Requests /\ Answers(x) /\ Timely(x, me, cookie)
  BY NewFits DEF Private, Ours
<1>3. ASSUME NEW x \in requests'
      PROVE  \/ x \in requests
             \/ \E r \in requests : x \in Requests /\ Alike(x, r) /\ r.op # "check"
             \/ x \in Requests /\ Answers(x) /\ Timely(x, me, cookie) /\ x.op = "load"
  BY <1>1, <1>2 DEF P!Sending
<1>4. QED  BY <1>3, RequestsGoOn

LEMMA LoadFits ==
  ASSUME IPage, UNCHANGED <<me, overtaken, cookie>>, NEW before \in SUBSET requests,
         NEW ks \in SUBSET P!Kinds, NEW why \in Whys, P!Load(ks, why, before),
         ks \subseteq P!Public \/ me # None
  PROVE  requests' \subseteq Requests /\ RequestsFit' /\ CheckedFirst'
<1>1. ASSUME NEW x \in P!Loads(ks, why, busy)
      PROVE  New(x, cookie) /\ x.op = "load" /\ (x.kind \notin P!Public => me # None)
  BY LoadsAre DEF IPage
<1>2. requests' = P!Sending(P!Loads(ks, why, busy), P!Numbers(ks), before)
  BY DEF P!Load
<1>3. QED  BY <1>1, <1>2, SendingFits

\* One request is sent beside others.
LEMMA OneMore ==
  ASSUME IPage, UNCHANGED <<me, overtaken, cookie>>, NEW before \in SUBSET requests, NEW x,
         requests' = before \cup {x}, x \in Requests, Answers(x), Timely(x, me, cookie),
         x.op # "check", x.op = "logout" => \A r \in requests : r.op # "check"
  PROVE  requests' \subseteq Requests /\ RequestsFit' /\ CheckedFirst'
BY RequestsGoOn

\* The session of a request that is answered.
LEMMA Known ==
  ASSUME IPage, NEW r \in requests, r.at = "served"
  PROVE  /\ r \in Requests /\ r.kind \in P!Kinds /\ Answers(r) /\ Timely(r, me, cookie)
         /\ ~r.aborted
         /\ Private(r) => me # None /\ r.sent = me
BY DEF IPage, PageTypes, RequestsFit, Requests, Answers, Timely

LEMMA FailsKeeps ==
  ASSUME IPage, NEW r \in requests, P!Fails(r), UNCHANGED P!server
  PROVE  IPage'
<1>1. UNCHANGED <<me, overtaken, cookie, query, shown, dialog, truth>>
  BY DEF P!Fails, P!server
<1>2. requests' \subseteq Requests /\ RequestsFit' /\ CheckedFirst'
  BY <1>1, Dropped DEF P!Fails, P!Others
<1>3. tracked' # "no" => tracked # "no"
  BY DEF P!Fails
<1>4. QED  BY <1>1, <1>2, <1>3, PageStays DEF IPage, PageTypes

LEMMA RefusedKeeps ==
  ASSUME IPage, NEW r \in requests, r.at = "served", P!Refused(r), UNCHANGED P!server
  PROVE  IPage'
<1> DEFINE x == [r EXCEPT !.op = "verify", !.at = "sent", !.sent = cookie, !.reply = None]
<1>1. r \in Requests /\ ~r.aborted
  BY Known
<1>2. /\ x \in Requests /\ x.op = "verify" /\ x.reply = None /\ ~x.aborted
  BY <1>1 DEF Requests, PageOps, IPage, PageTypes
<1> HIDE DEF x
<1>3. Answers(x) /\ Timely(x, me, cookie)
  BY <1>2 DEF Answers, Timely, Private, Ours
<1>4. UNCHANGED <<me, overtaken, cookie, query, shown, dialog, tracked, truth>>
  BY DEF P!Refused, P!page, P!server
<1>5. requests' = P!Others(r) \cup {x}
  BY DEF P!Refused, x
<1>6. requests' \subseteq Requests /\ RequestsFit' /\ CheckedFirst'
  BY <1>2, <1>3, <1>4, <1>5, OneMore DEF P!Others
<1>7. QED  BY <1>4, <1>6, PageStays DEF IPage, PageTypes

LEMMA LoadedKeeps ==
  ASSUME IPage, NEW r \in requests, r.at = "served", P!Loaded(r), UNCHANGED P!server
  PROVE  IPage'
<1>1. UNCHANGED <<me, overtaken, cookie, query, dialog, tracked, truth>>
  BY DEF P!Loaded, P!server
<1>2. requests' \subseteq Requests /\ RequestsFit' /\ CheckedFirst'
  BY <1>1, Dropped DEF P!Loaded, P!Others
<1>3. /\ r.kind \in P!Kinds /\ r.reply \in Replies /\ r.reply.by = r.sent
      /\ r.kind \notin P!Public => me # None /\ r.sent = me
  BY Known DEF P!Loaded, P!Denied, Answers, Private
<1>4. /\ shown' \in [P!Kinds -> {None} \cup Replies]
      /\ \A k \in P!Forgotten : shown'[k] = shown[k] \/ (me # None /\ shown'[k].by = me)
  BY <1>3 DEF P!Loaded, IPage, PageTypes, P!Forgotten, P!Public
<1>5. QED  BY <1>1, <1>2, <1>4, PageStays DEF IPage, PageTypes

LEMMA ChangedKeeps ==
  ASSUME IPage, NEW r \in requests, r.at = "served", P!Changed(r), UNCHANGED P!server
  PROVE  IPage'
<1>1. UNCHANGED <<me, overtaken, cookie, query, shown, dialog, tracked, truth>>
  BY DEF P!Changed, P!server
<1>2. r.kind \in P!Kinds /\ me # None
  BY Known DEF P!Changed, Private, Ours
<1>3. P!Reload(r.kind) \cap open \subseteq P!Kinds
  BY <1>2 DEF P!Reload, P!AdminData, P!Kinds
<1>4. {"task", "asked"} \subseteq Whys /\ P!Others(r) \subseteq requests
  BY DEF Whys, P!Others
<1>5. requests' \subseteq Requests /\ RequestsFit' /\ CheckedFirst'
  BY <1>1, <1>2, <1>3, <1>4, LoadFits DEF P!Changed
<1>6. QED  BY <1>1, <1>5, PageStays DEF IPage, PageTypes

LEMMA ConfirmedKeeps ==
  ASSUME IPage, NEW r \in requests, r.at = "served", P!Confirmed(r), UNCHANGED P!server
  PROVE  IPage'
<1>1. UNCHANGED <<me, overtaken, cookie, query, dialog, tracked, truth>>
  BY DEF P!Confirmed, P!server
<1>2. requests' \subseteq Requests /\ RequestsFit' /\ CheckedFirst'
  BY <1>1, Dropped DEF P!Confirmed, P!Others
<1>3. /\ r.kind \in P!Kinds /\ r.reply \in Replies /\ r.reply.by = r.sent
      /\ me # None /\ r.sent = me
  BY Known DEF P!Confirmed, P!Denied, Answers, Private, Ours
<1>4. /\ shown' \in [P!Kinds -> {None} \cup Replies]
      /\ \A k \in P!Forgotten : shown'[k] = shown[k] \/ (me # None /\ shown'[k].by = me)
  BY <1>3 DEF P!Confirmed, IPage, PageTypes, P!Forgotten
<1>5. QED  BY <1>1, <1>2, <1>4, PageStays DEF IPage, PageTypes

LEMMA RanKeeps ==
  ASSUME IPage, NEW r \in requests, r.at = "served", P!Ran(r), UNCHANGED P!server
  PROVE  IPage'
<1> DEFINE x == P!Request("job", "lists", "job", {})
<1>1. UNCHANGED <<me, overtaken, cookie, query, shown, truth>>
  BY DEF P!Ran, P!server
<1>2. me # None
  BY Known DEF P!Ran, Private, Ours
<1>3. "job" \in PageOps \cap Whys /\ "lists" \in P!Kinds /\ "lists" \notin P!Public
  BY DEF PageOps, Whys, P!Kinds, P!Public
<1>4. New(x, cookie) /\ x.op = "job" /\ x.kind = "lists"
  BY <1>3, RequestIs DEF IPage
<1> HIDE DEF x
<1>5. x \in Requests /\ Answers(x) /\ Timely(x, me, cookie)
  BY <1>2, <1>3, <1>4, NewFits
<1>6. requests' = P!Others(r) \cup {x}
  BY DEF P!Ran, x
<1>7. requests' \subseteq Requests /\ RequestsFit' /\ CheckedFirst'
  BY <1>1, <1>4, <1>5, <1>6, OneMore DEF P!Others
<1>8. QED  BY <1>1, <1>2, <1>7, PageStays DEF IPage, PageTypes

LEMMA JobAnsweredKeeps ==
  ASSUME IPage, NEW r \in requests, r.at = "served", P!JobAnswered(r), UNCHANGED P!server
  PROVE  IPage'
<1>1. UNCHANGED <<me, overtaken, cookie, query, shown, truth>>
  BY DEF P!JobAnswered, P!server
<1>2. me # None
  BY Known DEF P!JobAnswered, Private, Ours
<1>3. requests' \subseteq Requests /\ RequestsFit' /\ CheckedFirst'
  BY <1>1, Dropped DEF P!JobAnswered, P!Others
<1>4. QED  BY <1>1, <1>2, <1>3, PageStays DEF IPage, PageTypes

\* An administrator is logged in: nothing is shown of anybody but of those who are
\* overtaken, and no request of anybody is under way.
LEMMA Enters ==
  ASSUME IPage, {me} \ {None} \subseteq overtaken', overtaken \subseteq overtaken', NEW s \in Logins, cookie' = s, NEW before, P!Enter(s, before),
         UNCHANGED <<query, shown, dialog, tracked, truth>>,
         \A x \in before : /\ x \in Requests /\ Answers(x) /\ x.op # "check"
                           /\ ~Private(x) \/ x.aborted
  PROVE  IPage'
<1> DEFINE ks == open \cap (IF me = None THEN P!Kinds \ P!Public ELSE P!AdminData \cup {"audit"})
           R  == {[x EXCEPT !.sent = cookie'] : x \in P!Loads(ks, "asked", {})}
<1>1. ASSUME NEW x \in R
      PROVE  /\ x \in Requests /\ x.op = "load" /\ x.sent = s /\ Answers(x)
  <2>1. PICK y \in P!Loads(ks, "asked", {}) : x = [y EXCEPT !.sent = cookie']
    OBVIOUS
  <2>2. ks \subseteq P!Kinds /\ "asked" \in Whys
    BY DEF Whys, P!AdminData, P!Kinds
  <2>3. New(y, cookie) /\ y.op = "load"
    BY <2>1, <2>2, LoadsAre DEF IPage
  <2>4. /\ x \in Requests /\ x.op = "load" /\ x.sent = s /\ ~x.aborted /\ x.reply = None
        /\ x.at = "sent"
    BY <2>1, <2>3 DEF New, Requests
  <2>5. Answers(x)
    BY <2>4 DEF Answers, Ours
  <2>6. QED  BY <2>4, <2>5
<1>2. requests' = {P!Wins(r, P!Numbers(ks)) : r \in before} \cup R
  BY DEF P!Enter, P!Sending
<1> HIDE DEF R
<1>3. s # None /\ me' = s
  BY PageAssumption DEF P!Enter
<1>4. ASSUME NEW x \in requests'
      PROVE  x \in Requests /\ Answers(x) /\ Timely(x, me', cookie') /\ x.op # "check"
  <2>1. CASE x \in R
    BY <1>1, <1>3, <2>1 DEF Timely
  <2>2. CASE \E r \in before : x = P!Wins(r, P!Numbers(ks))
    <3>1. PICK r \in before : x = P!Wins(r, P!Numbers(ks))
      BY <2>2
    <3>2. x \in Requests /\ Alike(x, r)
      BY <3>1, WinsIs
    <3>3. QED  BY <3>2 DEF Alike, Answers, Timely, Private
  <2>3. QED  BY <1>2, <2>1, <2>2
<1>5. PageTypes'
  BY <1>3, <1>4 DEF IPage, PageTypes
<1>6. RequestsFit' /\ CheckedFirst'
  BY <1>4 DEF RequestsFit, CheckedFirst
<1>7. P!ShownIsOurs'
  BY <1>3 DEF IPage, P!ShownIsOurs
<1>8. QED  BY <1>3, <1>5, <1>6, <1>7 DEF IPage

LEMMA LoggedInKeeps ==
  ASSUME IPage, NEW r \in requests, r.at = "served", P!LoggedIn(r), UNCHANGED P!server
  PROVE  IPage'
<1>1. r.reply \in Logins
  BY Known DEF P!LoggedIn, Answers
<1>2. ASSUME NEW x \in P!AfterInvalidate \ {r}
      PROVE  /\ x \in Requests /\ Answers(x) /\ x.op # "check"
             /\ ~Private(x) \/ x.aborted
  <2>1. \A m, c : x \in Requests /\ Answers(x) /\ Timely(x, m, c) /\ x.op # "check"
    BY InvalidatedAre
  <2>2. QED  BY <2>1 DEF Timely
<1>3. cookie' = r.reply /\ P!Enter(r.reply, P!AfterInvalidate \ {r})
      /\ overtaken' = overtaken \cup ({me} \ {None})
      /\ UNCHANGED <<query, shown, dialog, tracked, truth>>
  BY DEF P!LoggedIn, P!server
<1>4. QED  BY <1>1, <1>2, <1>3, Enters

LEMMA LoggedOutKeeps ==
  ASSUME IPage, NEW r \in requests, P!LoggedOut(r), UNCHANGED P!server
  PROVE  IPage'
BY Clears DEF P!LoggedOut, P!server

LEMMA VerifiedKeeps ==
  ASSUME IPage, NEW r \in requests, P!Verified(r), UNCHANGED P!server
  PROVE  IPage'
<1>1. CASE r.reply = P!Denied
  BY <1>1, Clears DEF P!Verified, P!server
<1>2. CASE r.reply # P!Denied
  BY <1>2, FailsKeeps DEF P!Verified
<1>3. QED  BY <1>1, <1>2

LEMMA CheckedKeeps ==
  ASSUME IPage, NEW r \in requests, r.at = "served", P!Checked(r), UNCHANGED P!server
  PROVE  IPage'
<1>1. CASE r.reply = P!Denied
  BY <1>1, Clears DEF P!Checked, P!server
<1>2. CASE r.reply # P!Denied
  <2>1. me = None /\ r.op = "check" /\ r.reply \in Logins /\ cookie = r.reply
    BY <1>2, Known DEF P!Checked, Answers, Timely, P!Denied
  <2>2. ASSUME NEW x \in P!Others(r)
        PROVE  /\ x \in Requests /\ Answers(x) /\ x.op # "check"
               /\ ~Private(x) \/ x.aborted
    <3>1. x \in Requests /\ Answers(x) /\ Timely(x, me, cookie)
      BY DEF P!Others, IPage, PageTypes, RequestsFit
    <3>2. x.op # "check"
      BY <2>1 DEF P!Others, IPage, CheckedFirst
    <3>3. QED  BY <2>1, <3>1, <3>2 DEF Timely
  <2>3. cookie' = r.reply /\ P!Enter(r.reply, P!Others(r)) /\ overtaken' = overtaken
        /\ UNCHANGED <<query, shown, dialog, tracked, truth>>
    BY <1>2, <2>1 DEF P!Checked, P!server
  <2>4. QED  BY <2>1, <2>2, <2>3, Enters
<1>3. QED  BY <1>1, <1>2

LEMMA ArriveKeeps ==
  ASSUME IPage, NEW r \in requests, P!Arrive(r)
  PROVE  IPage'
BY RefusedKeeps, VerifiedKeeps, LoadedKeeps, ChangedKeeps, ConfirmedKeeps, LoggedInKeeps,
   LoggedOutKeeps, CheckedKeeps, RanKeeps, JobAnsweredKeeps DEF P!Arrive

LEMMA LostKeeps ==
  ASSUME IPage, NEW r \in requests, P!Lost(r)
  PROVE  IPage'
BY FailsKeeps DEF P!Lost

-----------------------------------------------------------------------------
(* The administrator *)

\* One request is sent, and nothing else changes on the page.
LEMMA SendsKeeps ==
  ASSUME IPage, UNCHANGED <<me, overtaken, cookie, query, shown, dialog, truth>>,
         tracked' # "no" => tracked # "no",
         NEW op \in Ours \cup {"login", "logout"}, NEW k \in P!Kinds \ P!Public,
         NEW why \in Whys,
         P!Sends(P!Request(op, k, why, {})),
         op \in Ours => me # None,
         op = "logout" => \A r \in requests : r.op # "check"
  PROVE  IPage'
<1> DEFINE x == P!Request(op, k, why, {})
<1>1. op \in PageOps /\ op # "check" /\ op # "load"
  BY DEF PageOps, Ours
<1>2. New(x, cookie) /\ x.op = op /\ x.kind = k
  BY <1>1, RequestIs DEF IPage
<1> HIDE DEF x
<1>3. x \in Requests /\ Answers(x) /\ Timely(x, me, cookie)
  BY <1>1, <1>2, NewFits DEF Private
<1>4. requests' = requests \cup {x}
  BY DEF P!Sends, x
<1>5. requests' \subseteq Requests /\ RequestsFit' /\ CheckedFirst'
  BY <1>1, <1>2, <1>3, <1>4, OneMore
<1>6. QED  BY <1>5, PageStays DEF IPage, PageTypes

LEMMA PrivateKinds ==
  P!Kinds \ P!Public = P!Kinds \ {"instances"} /\ "lists" \in P!Kinds \ P!Public
BY DEF P!Kinds, P!Public

LEMMA LoginKeepsPage ==
  ASSUME IPage, P!Login
  PROVE  IPage'
<1>1. "login" \in Whys
  BY DEF Whys
<1>2. UNCHANGED <<me, overtaken, cookie, query, shown, dialog, tracked, truth>>
      /\ P!Sends(P!Request("login", "lists", "login", {}))
  BY DEF P!Login, P!page, P!server
<1>3. QED  BY <1>1, <1>2, SendsKeeps, PrivateKinds DEF Ours

LEMMA LogoutKeepsPage ==
  ASSUME IPage, P!Logout
  PROVE  IPage'
<1>1. \A r \in requests : r.op # "check"
  BY DEF P!Logout, IPage, RequestsFit, Timely
<1>2. "logout" \in Whys
  BY DEF Whys
<1>3. UNCHANGED <<me, overtaken, cookie, query, shown, dialog, tracked, truth>>
      /\ P!Sends(P!Request("logout", "lists", "logout", {}))
  BY DEF P!Logout, P!page, P!server
<1>4. QED  BY <1>1, <1>2, <1>3, SendsKeeps, PrivateKinds DEF Ours

LEMMA ChangeKeeps ==
  ASSUME IPage, NEW k \in P!Kinds \ P!Public, P!Change(k)
  PROVE  IPage'
<1>1. UNCHANGED <<me, overtaken, cookie, query, shown, dialog, tracked, truth>> /\ me # None
      /\ P!Sends(P!Request("change", k, "change", {}))
  BY DEF P!Change, P!Acts, P!page, P!server
<1>2. "change" \in Whys /\ "change" \in Ours /\ "change" # "login"
  BY DEF Whys, Ours
<1>3. QED  BY <1>1, <1>2, SendsKeeps

LEMMA ConfirmKeeps ==
  ASSUME IPage, P!Confirm
  PROVE  IPage'
<1>1. UNCHANGED <<me, overtaken, cookie, query, shown, dialog, tracked, truth>> /\ me # None
      /\ P!Sends(P!Request("confirm", "users", "change", {}))
  BY DEF P!Confirm, P!Acts, P!page, P!server
<1>2. "change" \in Whys /\ "confirm" \in Ours /\ "users" \in P!Kinds \ P!Public
  BY DEF Whys, Ours, P!Kinds, P!Public
<1>3. QED  BY <1>1, <1>2, SendsKeeps

LEMMA RunKeeps ==
  ASSUME IPage, P!Run
  PROVE  IPage'
<1>1. UNCHANGED <<me, overtaken, cookie, query, shown, dialog, tracked, truth>> /\ me # None
      /\ P!Sends(P!Request("run", "lists", "change", {}))
  BY DEF P!Run, P!Acts, P!page, P!server
<1>2. "change" \in Whys /\ "run" \in Ours
  BY DEF Whys, Ours
<1>3. QED  BY <1>1, <1>2, SendsKeeps, PrivateKinds

LEMMA AskJobKeeps ==
  ASSUME IPage, P!AskJob
  PROVE  IPage'
<1>1. UNCHANGED <<me, overtaken, cookie, query, shown, dialog, truth>> /\ tracked # "no"
      /\ P!Sends(P!Request("job", "lists", "job", {}))
  BY DEF P!AskJob, P!server
<1>2. me # None
  BY <1>1 DEF IPage, P!ShownIsOurs
<1>3. "job" \in Whys /\ "job" \in Ours
  BY DEF Whys, Ours
<1>4. QED  BY <1>1, <1>2, <1>3, SendsKeeps, PrivateKinds

LEMMA CloseDialogKeeps ==
  ASSUME IPage, P!CloseDialog
  PROVE  IPage'
<1>1. UNCHANGED <<me, overtaken, cookie, query, shown, tracked, truth, requests>> /\ dialog' = "none"
  BY DEF P!CloseDialog, P!Acts, P!server
<1>2. requests' \subseteq Requests /\ RequestsFit' /\ CheckedFirst'
  BY <1>1, Dropped
<1>3. QED  BY <1>1, <1>2, PageStays DEF IPage, PageTypes

\* Something is loaded, and nothing else changes.
LEMMA LoadKeeps ==
  ASSUME IPage, UNCHANGED <<me, overtaken, cookie, query, shown, dialog, tracked, truth>>,
         NEW ks \in SUBSET P!Kinds, NEW why \in {"asked", "poll", "quiet"},
         P!Load(ks, why, requests), ks \subseteq P!Public \/ me # None
  PROVE  IPage'
<1>1. why \in Whys
  BY DEF Whys
<1>2. requests' \subseteq Requests /\ RequestsFit' /\ CheckedFirst'
  BY <1>1, LoadFits
<1>3. QED  BY <1>2, PageStays DEF IPage, PageTypes

LEMMA RefreshKeeps ==
  ASSUME IPage, NEW k \in P!Kinds, P!Refresh(k)
  PROVE  IPage'
<1> DEFINE ks == IF k = "lists" THEN P!AdminData \cap open ELSE {k}
<1>1. /\ UNCHANGED <<me, overtaken, cookie, query, shown, dialog, tracked, truth>>
      /\ P!Load(ks, "asked", requests) /\ (k \in P!Public \/ me # None)
  BY DEF P!Refresh, P!Acts, P!server
<1>2. ks \subseteq P!Kinds /\ (ks \subseteq P!Public \/ me # None)
  BY <1>1 DEF P!AdminData, P!Kinds, P!Public
<1> HIDE DEF ks
<1>3. QED  BY <1>1, <1>2, LoadKeeps

LEMMA PollsKeep ==
  ASSUME IPage, P!PollPublic \/ P!PollAlerts
  PROVE  IPage'
<1>1. CASE P!PollPublic
  <2> DEFINE ks == (open \cap P!Public)
                     \cup (IF me # None /\ ~P!Operating THEN open \cap {"updates"} ELSE {})
  <2>1. /\ UNCHANGED <<me, overtaken, cookie, query, shown, dialog, tracked, truth>>
        /\ P!Load(ks, "poll", requests)
    BY <1>1 DEF P!PollPublic, P!server
  <2>2. ks \subseteq P!Kinds /\ (ks \subseteq P!Public \/ me # None)
    BY DEF P!Kinds, P!Public
  <2> HIDE DEF ks
  <2>3. QED  BY <2>1, <2>2, LoadKeeps
<1>2. CASE P!PollAlerts
  <2>1. /\ UNCHANGED <<me, overtaken, cookie, query, shown, dialog, tracked, truth>>
        /\ P!Load({"events"}, "quiet", requests) /\ me # None
    BY <1>2 DEF P!PollAlerts, P!server
  <2>2. {"events"} \subseteq P!Kinds
    BY DEF P!Kinds
  <2>3. QED  BY <2>1, <2>2, LoadKeeps
<1>3. QED  BY <1>1, <1>2

LEMMA FilterKeeps ==
  ASSUME IPage, NEW k \in P!Kinds, P!Filter(k)
  PROVE  IPage'
<1> DEFINE R == {[r EXCEPT !.query = query'[k]] : r \in P!Loads({k}, "asked", busy)}
<1>1. /\ UNCHANGED <<me, overtaken, cookie, shown, dialog, tracked, truth>> /\ me # None
      /\ query' = [query EXCEPT ![k] = @ + 1]
      /\ requests' = P!Sending(R, P!Numbers({k}), requests)
  BY DEF P!Filter, P!Acts, P!server
<1>2. query' \in [P!Kinds -> Nat] /\ query'[k] \in Nat
  BY <1>1 DEF IPage, PageTypes
<1>3. ASSUME NEW x \in R
      PROVE  New(x, cookie) /\ x.op = "load"
  <2>1. PICK r \in P!Loads({k}, "asked", busy) : x = [r EXCEPT !.query = query'[k]]
    OBVIOUS
  <2>2. "asked" \in Whys /\ {k} \subseteq P!Kinds
    BY DEF Whys
  <2>3. New(r, cookie) /\ r.op = "load"
    BY <2>1, <2>2, LoadsAre DEF IPage
  <2>4. QED  BY <1>2, <2>1, <2>3 DEF New, Requests
<1> HIDE DEF R
<1>4. requests' \subseteq Requests /\ RequestsFit' /\ CheckedFirst'
  BY <1>1, <1>3, SendingFits
<1>5. QED  BY <1>1, <1>2, <1>4, PageStays DEF IPage, PageTypes

LEMMA StepPage == ASSUME IPage, [P!Next]_P!vars PROVE IPage'
<1>1. ASSUME NEW r \in requests, P!Serve(r) \/ P!Arrive(r) \/ P!Lost(r)
      PROVE  IPage'
  BY <1>1, ServeKeeps, ArriveKeeps, LostKeeps
<1>2. ASSUME NEW k \in P!Kinds, P!Refresh(k) \/ P!Filter(k)
      PROVE  IPage'
  BY <1>2, RefreshKeeps, FilterKeeps
<1>3. CASE \/ P!ChangeLists \/ P!ChangeUsers \/ P!ChangeUpdates
           \/ P!ChangeRules \/ P!ChangeChannels \/ P!ChangeDeliveries
  <2>1. {"lists", "users", "updates", "rules", "channels", "deliveries"}
          \subseteq P!Kinds \ P!Public
    BY DEF P!Kinds, P!Public
  <2>2. QED
    BY <1>3, <2>1, ChangeKeeps DEF P!ChangeLists, P!ChangeUsers, P!ChangeUpdates,
       P!ChangeRules, P!ChangeChannels, P!ChangeDeliveries
<1>4. CASE P!Login \/ P!Logout \/ P!Confirm \/ P!Run \/ P!CloseDialog \/ P!Timer
  BY <1>4, LoginKeepsPage, LogoutKeepsPage, ConfirmKeeps, RunKeeps, CloseDialogKeeps,
     PollsKeep, AskJobKeeps DEF P!Timer
<1>5. CASE \/ \E s \in Logins : P!SessionEnds(s)
           \/ \E k \in P!Kinds : P!Happens(k)
           \/ P!JobFinishes
  BY <1>5, ServerKeeps
<1>6. CASE UNCHANGED P!vars
  <2>1. UNCHANGED <<me, overtaken, cookie, query, shown, dialog, tracked, truth, requests>>
    BY <1>6 DEF P!vars, P!server, P!page
  <2>2. requests' \subseteq Requests /\ RequestsFit' /\ CheckedFirst'
    BY <2>1, Dropped
  <2>3. QED  BY <2>1, <2>2, PageStays DEF IPage, PageTypes
<1>7. QED  BY <1>1, <1>2, <1>3, <1>4, <1>5, <1>6 DEF P!Next

(***************************************************************************)
(* Both of them.                                                           *)
(***************************************************************************)
\* Codes are accepted once and a way to log in remains, also when the accounts are in
\* service already; and however late answers come, whoever logged in or out meanwhile,
\* the page shows, of what it empties, only what was answered to the session it believes
\* in, or to one that it went on from when a login was sent before the page knew who was
\* logged in (admin_auth.rs; useMonitoringConsole.ts: checkSession, login, clearAdminState).
THEOREM AccessStays == ControlSpec => []AccessHolds
<1>1. Begun => IAccess /\ IPage
  <2>1. Begun => IAccess
    BY InitAccess, ServiceAccess DEF Begun
  <2>2. Begun => IPage
    <3>1. ASSUME NEW w \in Works, P!Init(w[1], t1, w[2], w[3]) PROVE IPage
      BY <3>1, PageAssumption, InitPage
    <3>2. ASSUME P!Init({}, None, 0, 0) PROVE IPage
      BY <3>2, InitPage
    <3>3. QED  BY <3>1, <3>2 DEF Begun
  <2>3. QED  BY <2>1, <2>2
<1>2. [Moves]_<<part, vars, accessVars, lockVars, pageVars>>
        => [A!Next]_A!vars /\ [P!Next]_P!vars
  BY DEF Moves, accessVars, pageVars, A!vars, P!vars, P!server, P!page
<1>3. IAccess /\ IPage /\ [Moves]_<<part, vars, accessVars, lockVars, pageVars>>
        => (IAccess /\ IPage)'
  BY <1>2, StepAccess, StepPage
<1>4. IAccess /\ IPage => AccessHolds
  BY AccessFollows DEF AccessHolds, IPage
<1>5. QED  BY <1>1, <1>3, <1>4, PTL DEF ControlSpec
=============================================================================
