-------------------------- MODULE FileTransferProofs --------------------------
(***************************************************************************)
(* Theorems about FileTransfer for any requests, sizes, windows,           *)
(* connections and losses.                                                 *)
(***************************************************************************)
EXTENDS FileTransfer, FiniteSetTheorems, TLAPS

-----------------------------------------------------------------------------
(***************************************************************************)
(* Counting messages.                                                      *)
(***************************************************************************)
Finals  == {"result", "complete", "error"}
Types   == {"start", "finish", "ack", "cancel", "chunk", "ready", "gone"} \cup Finals
Message == [req : Requests, type : Types, n : Nat]

\* What one message adds to a count.
Is(m, r, types) == IF m.req = r /\ m.type \in types THEN 1 ELSE 0

\* A queue holds as many messages of a kind as there are.
LEMMA OfNat ==
  ASSUME NEW q \in Seq(Message), NEW r, NEW types
  PROVE  /\ Of(q, r, types) \in Nat
         /\ Of(q, r, types) <= Len(q)
<1> DEFINE S == {i \in 1..Len(q) : q[i].req = r /\ q[i].type \in types}
<1>1. IsFiniteSet(1..Len(q)) /\ Cardinality(1..Len(q)) = Len(q) /\ Len(q) \in Nat
  <2>1. Len(q) \in Nat
    OBVIOUS
  <2>2. IsFiniteSet(1..Len(q)) /\ Cardinality(1..Len(q)) = IF 1 > Len(q) THEN 0 ELSE Len(q) - 1 + 1
    BY <2>1, FS_Interval
  <2> QED BY <2>1, <2>2
<1>2. S \subseteq 1..Len(q)
  OBVIOUS
<1> HIDE DEF S
<1>3. IsFiniteSet(S) /\ Cardinality(S) <= Len(q)
  BY <1>1, <1>2, FS_Subset
<1>4. Cardinality(S) \in Nat
  BY <1>3, FS_CardinalityType
<1> QED BY <1>3, <1>4 DEF Of, S

\* An empty queue counts nothing.
LEMMA OfEmpty ==
  ASSUME NEW r, NEW types
  PROVE  Of(<<>>, r, types) = 0
<1>1. {i \in 1..Len(<<>>) : <<>>[i].req = r /\ <<>>[i].type \in types} = {}
  OBVIOUS
<1> QED BY <1>1, FS_EmptySet DEF Of

\* A message at the end of a queue adds itself to the counts.
LEMMA OfAppend ==
  ASSUME NEW q \in Seq(Message), NEW m \in Message, NEW r, NEW types
  PROVE  Of(Append(q, m), r, types) = Of(q, r, types) + Is(m, r, types)
<1> DEFINE p == Append(q, m)
           S == {i \in 1..Len(q) : q[i].req = r /\ q[i].type \in types}
           T == {i \in 1..Len(p) : p[i].req = r /\ p[i].type \in types}
<1>1. /\ Len(q) \in Nat /\ Len(p) = Len(q) + 1
      /\ p[Len(q) + 1] = m
      /\ \A i \in 1..Len(q) : p[i] = q[i]
  OBVIOUS
<1>2. IsFiniteSet(S)
  <2>1. IsFiniteSet(1..Len(q))
    BY <1>1, FS_Interval
  <2>2. S \subseteq 1..Len(q)
    OBVIOUS
  <2> HIDE DEF S
  <2> QED BY <2>1, <2>2, FS_Subset
<1>3. T = IF m.req = r /\ m.type \in types THEN S \cup {Len(q) + 1} ELSE S
  <2> HIDE DEF p
  <2> QED BY <1>1
<1>4. Len(q) + 1 \notin S
  BY <1>1
<1>5. Of(q, r, types) = Cardinality(S) /\ Of(p, r, types) = Cardinality(T)
  BY DEF Of
<1> HIDE DEF S, T, p
<1>6. Cardinality(S) \in Nat
  BY <1>2, FS_CardinalityType
<1>7. CASE m.req = r /\ m.type \in types
  <2>1. Cardinality(S \cup {Len(q) + 1}) = Cardinality(S) + 1
    BY <1>2, <1>4, FS_AddElement
  <2> QED BY <1>3, <1>5, <1>7, <2>1 DEF Is, p
<1>8. CASE ~(m.req = r /\ m.type \in types)
  BY <1>3, <1>5, <1>6, <1>8 DEF Is, p
<1> QED BY <1>7, <1>8

\* What is taken from the head of a queue is taken from its counts.
LEMMA OfTail ==
  ASSUME NEW q \in Seq(Message), q # <<>>, NEW r, NEW types
  PROVE  Of(q, r, types) = Of(Tail(q), r, types) + Is(Head(q), r, types)
<1> DEFINE p == Tail(q)
           h == IF q[1].req = r /\ q[1].type \in types THEN {1} ELSE {}
           S == {i \in 1..Len(q) : q[i].req = r /\ q[i].type \in types}
           T == {i \in 1..Len(p) : p[i].req = r /\ p[i].type \in types}
           U == {i \in 2..Len(q) : q[i].req = r /\ q[i].type \in types}
           f == [i \in T |-> i + 1]
<1>1. /\ Len(q) \in Nat \ {0} /\ Len(p) = Len(q) - 1 /\ Head(q) = q[1]
      /\ \A i \in 1..Len(p) : p[i] = q[i + 1]
  OBVIOUS
<1>2. IsFiniteSet(T) /\ IsFiniteSet(U)
  <2>1. IsFiniteSet(1..Len(p)) /\ IsFiniteSet(2..Len(q))
    BY <1>1, FS_Interval
  <2>2. T \subseteq 1..Len(p) /\ U \subseteq 2..Len(q)
    OBVIOUS
  <2> HIDE DEF T, U
  <2> QED BY <2>1, <2>2, FS_Subset
<1>3. f \in Bijection(T, U)
  <2>1. f \in [T -> U]
    <3> SUFFICES ASSUME NEW i \in T PROVE i + 1 \in U
      OBVIOUS
    <3>1. i \in 1..Len(p) /\ p[i] = q[i + 1] /\ i + 1 \in 2..Len(q)
      BY <1>1
    <3> HIDE DEF p
    <3> QED BY <3>1
  <2>2. \A i, j \in T : f[i] = f[j] => i = j
    BY <1>1
  <2>3. \A j \in U : \E i \in T : f[i] = j
    <3> SUFFICES ASSUME NEW j \in U PROVE j - 1 \in T /\ (j - 1) + 1 = j
      OBVIOUS
    <3>1. j - 1 \in 1..Len(p) /\ (j - 1) + 1 = j
      BY <1>1
    <3>2. p[j - 1] = q[j]
      BY <1>1, <3>1
    <3> HIDE DEF p
    <3> QED BY <3>1, <3>2
  <2> HIDE DEF f, T, U
  <2> QED BY <2>1, <2>2, <2>3, Zenon DEF Bijection, Injection, Surjection, IsInjective
<1>4. Cardinality(T) = Cardinality(U)
  <2> HIDE DEF f, T, U
  <2>1. ExistsBijection(T, U)
    BY <1>3 DEF ExistsBijection
  <2> QED BY <1>2, <2>1, FS_Bijection
<1>5. S = U \cup h /\ 1 \notin U
  <2> HIDE DEF p
  <2> QED BY <1>1
<1>6. Of(q, r, types) = Cardinality(S) /\ Of(p, r, types) = Cardinality(T)
  BY DEF Of
<1>7. CASE q[1].req = r /\ q[1].type \in types
  <2>1. S = U \cup {1}
    BY <1>5, <1>7
  <2> HIDE DEF S, T, U, p
  <2>2. Cardinality(U \cup {1}) = Cardinality(U) + 1
    BY <1>2, <1>5, FS_AddElement
  <2> QED BY <1>1, <1>4, <1>6, <1>7, <2>1, <2>2 DEF Is, p
<1>8. CASE ~(q[1].req = r /\ q[1].type \in types)
  <2>1. S = U
    BY <1>5, <1>8
  <2> HIDE DEF S, T, U, p
  <2>2. Cardinality(U) \in Nat
    BY <1>2, FS_CardinalityType
  <2> QED BY <1>1, <1>4, <1>6, <1>8, <2>1, <2>2 DEF Is, p
<1> QED BY <1>7, <1>8

\* Messages are put at the end of a queue and taken from its head.
LEMMA SeqFacts ==
  ASSUME NEW S, NEW q \in Seq(S)
  PROVE  /\ \A m \in S : Append(q, m) \in Seq(S)
         /\ q # <<>> => Head(q) \in S /\ Tail(q) \in Seq(S)
         /\ <<>> \in Seq(S)
  OBVIOUS

\* A queue of some messages is a queue of messages.
LEMMA SeqWithin ==
  ASSUME NEW S, NEW T, S \subseteq T, NEW q \in Seq(S)
  PROVE  q \in Seq(T)
<1>1. Len(q) \in Nat /\ q = [i \in 1..Len(q) |-> q[i]] /\ \A i \in 1..Len(q) : q[i] \in T
  OBVIOUS
<1> QED BY <1>1

\* A message is what it was made of.
LEMMA MsgFacts ==
  ASSUME NEW r \in Requests, NEW t \in Types, NEW n \in Nat
  PROVE  /\ Msg(r, t, n) \in Message
         /\ Msg(r, t, n).req = r /\ Msg(r, t, n).type = t /\ Msg(r, t, n).n = n
         /\ \A s, types : Is(Msg(r, t, n), s, types) = IF r = s /\ t \in types THEN 1 ELSE 0
  BY DEF Msg, Message, Is

-----------------------------------------------------------------------------
(***************************************************************************)
(* What travels on which queue, and the types of everything else.          *)
(***************************************************************************)
Orders   == {m \in Message : m.type \in {"start", "finish", "ack", "cancel"}}
Pieces   == {m \in Message : m.type = "chunk"}
Answers  == {m \in Message : /\ m.type \in Finals \cup {"ready", "ack"}
                             /\ m.type = "ready" => m.n <= Size[m.req]}
Events(r) == {m \in Message : /\ m.req = r
                              /\ m.type \in Finals \cup {"ready", "ack", "chunk", "gone"}
                              /\ m.type = "ready" => m.n <= Size[r]}
Steps    == {"idle", "agent", "slot", "starting", "ready", "opened", "streaming", "finishing"}
            \cup Over
Record   == [at : Steps, kind : Transfers \cup Controls, over : BOOLEAN, size : Nat,
             conn : 0..MaxConns, sent : Nat, got : Nat]
Transfer == [req : Requests \cup {None}, kind : Transfers,
             at : {"opening", "creating", "moving", "checking", "backing", "renaming", "clearing"},
             over : BOOLEAN, size : Nat, sent : Nat, got : Nat, queue : Seq(Message)]
\* What the channel of the agent's transfer holds.
Parcels  == {m \in Message : /\ m.req = xfer.req
                             /\ m.type = "ack" <=> xfer.kind = "download"
                             /\ m.type \in {"chunk", "finish", "ack"}}

NetTypes ==
  /\ conn \in 0..MaxConns /\ on \in 0..MaxConns /\ losses \in 0..MaxLosses
  /\ link \in [Conns -> {"new", "up", "closing", "swept", "gone"}]
WireTypes ==
  /\ down \in Seq(Orders) /\ frames \in Seq(Pieces) /\ up \in Seq(Answers)
  /\ data \in Seq(Pieces)
BoxTypes ==
  /\ inbox \in [Requests -> Seq(Message)]
  /\ \A r \in Requests : inbox[r] \in Seq(Events(r))
ServerTypes ==
  /\ active \in Requests \cup {None}
  /\ pending \in [Requests -> 0..MaxConns]
  /\ req \in [Requests -> Record]
  /\ drop \in [Requests -> {"none", "forget", "cancel"}]
  /\ audit \in [Requests -> {"none", "running", "success", "failed", "lost"}]
DiskTypes ==
  /\ temp \in [Requests -> {"none", "part", "left"}] /\ target \in Contents /\ backup \in [Requests -> Contents]
XferTypes ==
  /\ xfer \in Transfer /\ xfer.queue \in Seq(Parcels)
  /\ xfer.req # None => xfer.size <= Size[xfer.req]
Shape == NetTypes /\ WireTypes /\ BoxTypes /\ ServerTypes /\ DiskTypes /\ XferTypes

\* No queue holds anything but messages.
LEMMA AllMessages ==
  ASSUME Shape
  PROVE  /\ down \in Seq(Message) /\ frames \in Seq(Message) /\ up \in Seq(Message)
         /\ data \in Seq(Message) /\ xfer.queue \in Seq(Message)
         /\ \A r \in Requests : inbox[r] \in Seq(Message)
<1>1. Orders \subseteq Message /\ Pieces \subseteq Message /\ Answers \subseteq Message
      /\ Parcels \subseteq Message
  BY DEF Orders, Pieces, Answers, Parcels
<1> QED BY <1>1, SeqWithin DEF Shape, WireTypes, BoxTypes, XferTypes

\* A message is put on a connection that is there, or lost.
LEMMA PutAdds ==
  ASSUME NEW q \in Seq(Orders), NEW c, NEW m \in Orders, q \in Seq(Message)
  PROVE  /\ Put(q, c, m) \in Seq(Orders)
         /\ \A r, types : Of(Put(q, c, m), r, types) =
                            Of(q, r, types) + (IF Reaches(c) THEN Is(m, r, types) ELSE 0)
<1>1. m \in Message
  BY DEF Orders
<1>2. \A r, types : Of(q, r, types) \in Nat
  BY OfNat
<1> QED BY <1>1, <1>2, OfAppend, SeqFacts DEF Put

\* The same of a chunk.
LEMMA PutPiece ==
  ASSUME NEW q \in Seq(Pieces), NEW c, NEW m \in Pieces, q \in Seq(Message)
  PROVE  /\ Put(q, c, m) \in Seq(Pieces)
         /\ \A r, types : Of(Put(q, c, m), r, types) =
                            Of(q, r, types) + (IF Reaches(c) THEN Is(m, r, types) ELSE 0)
<1>1. m \in Message
  BY DEF Pieces
<1>2. \A r, types : Of(q, r, types) \in Nat
  BY OfNat
<1> QED BY <1>1, <1>2, OfAppend, SeqFacts DEF Put

\* What a step leaves alone keeps its type.
LEMMA SameTypes ==
  ASSUME Shape
  PROVE  /\ UNCHANGED net => NetTypes'
         /\ UNCHANGED wires => WireTypes'
         /\ UNCHANGED inbox => BoxTypes'
         /\ UNCHANGED <<active, pending, req, drop, audit>> => ServerTypes'
         /\ UNCHANGED disk => DiskTypes'
         /\ UNCHANGED xfer => XferTypes'
<1>1. UNCHANGED xfer => Parcels' = Parcels
  BY DEF Parcels
<1> QED BY <1>1 DEF Shape, NetTypes, WireTypes, BoxTypes, ServerTypes, DiskTypes, XferTypes,
                    net, wires, disk

\* A transfer that is over leaves nothing at the agent.
LEMMA EndsTypes ==
  ASSUME Ends
  PROVE  XferTypes'
<1>1. xfer' = NoXfer /\ xfer'.req = None /\ xfer'.queue = <<>>
  BY DEF Ends, NoXfer
<1>2. xfer' \in Transfer
  BY <1>1 DEF NoXfer, Transfer, Transfers
<1>3. xfer'.queue \in Seq(Parcels)'
  BY <1>1
<1> QED BY <1>1, <1>2, <1>3 DEF XferTypes

\* The aborted task of an upload leaves the files well typed.
LEMMA AbortedTypes ==
  ASSUME Shape, Aborted
  PROVE  XferTypes' /\ DiskTypes'
<1>1. XferTypes'
  BY EndsTypes DEF Aborted
<1>2. temp' \in [Requests -> {"none", "part", "left"}]
  BY DEF Aborted, Temporary, Shape, DiskTypes
<1>3. xfer.req \in Contents /\ target \in Contents /\ None \in Contents
  BY DEF Shape, XferTypes, Transfer, DiskTypes, Contents
<1>4. target' \in Contents /\ backup' \in [Requests -> Contents]
  <2>1. /\ target' \in {target, None, xfer.req}
        /\ \/ backup' = backup
           \/ \E c \in Contents : backup' = [backup EXCEPT ![xfer.req] = c]
    BY <1>3 DEF Aborted
  <2> QED BY <1>3, <2>1 DEF Shape, DiskTypes
<1> QED BY <1>1, <1>2, <1>4 DEF DiskTypes

\* A response of the agent is one of a transfer or of a control request.
LEMMA SayTypes ==
  ASSUME Shape, NEW STATE r, r \in Requests, NEW STATE t, t \in Finals \cup {"ready", "ack"},
         NEW STATE n, n \in Nat,
         t = "ready" => n <= Size[r], Say(Msg(r, t, n)), UNCHANGED <<down, frames, data>>
  PROVE  WireTypes'
<1>1. Msg(r, t, n) \in Answers
  BY DEF Msg, Answers, Message, Types, Finals
<1>2. up' \in Seq(Answers)
  BY <1>1, SeqFacts DEF Say, Shape, WireTypes
<1> QED BY <1>2 DEF Shape, WireTypes

\* The steps of the two ends of a connection keep the types.
LEMMA NetActionsTypes ==
  ASSUME Shape, NEW c \in Conns, Connect(c) \/ Lose(c) \/ Sweep(c) \/ Vanish(c) \/ Disconnect
  PROVE  Shape'
<1>0. c \in 0..MaxConns /\ 0 \in 0..MaxConns /\ 0 \in 0..MaxLosses
  BY FileTransferAssumption DEF Conns
<1>1. ASSUME NEW P, Parts(P) PROVE losses' \in 0..MaxLosses
  BY <1>1, FileTransferAssumption DEF Parts, Shape, NetTypes
<1>2. CASE Connect(c)
  <2>1. NetTypes'
    BY <1>0, <1>2 DEF Connect, Shape, NetTypes
  <2> QED BY <1>2, <2>1, SameTypes DEF Connect, Shape, server
<1>3. CASE Lose(c)
  <2>1. losses' \in 0..MaxLosses
    BY <1>1, <1>3 DEF Lose
  <2>2. NetTypes'
    BY <1>0, <1>3, <2>1 DEF Lose, Shape, NetTypes
  <2> QED BY <1>3, <2>2, SameTypes DEF Lose, Shape, server
<1>4. CASE Vanish(c)
  <2>1. NetTypes'
    BY <1>0, <1>4 DEF Vanish, Shape, NetTypes
  <2> QED BY <1>4, <2>1, SameTypes DEF Vanish, Shape, server
<1>5. CASE Sweep(c)
  <2>1. NetTypes'
    BY <1>0, <1>5 DEF Sweep, Shape, NetTypes
  <2>2. ServerTypes'
    BY <1>0, <1>5 DEF Sweep, Shape, ServerTypes
  <2>3. ASSUME NEW r \in Requests
        PROVE  /\ inbox'[r] \in Seq(Events(r)) /\ inbox'[r] \in Seq(Message)
    <3>1. inbox'[r] \in {inbox[r], Append(inbox[r], Msg(r, "gone", 0))}
      BY <1>5 DEF Sweep
    <3>2. Msg(r, "gone", 0) \in Events(r) /\ Events(r) \subseteq Message
      BY DEF Msg, Events, Message, Types, Finals
    <3>3. inbox[r] \in Seq(Events(r))
      BY DEF Shape, BoxTypes
    <3>4. inbox'[r] \in Seq(Events(r))
      <4>1. Append(inbox[r], Msg(r, "gone", 0)) \in Seq(Events(r))
        BY <3>2, <3>3
      <4> QED BY <3>1, <3>3, <4>1
    <3> QED BY <3>2, <3>4, SeqWithin
  <2>4. BoxTypes'
    <3>1. inbox' = [r \in Requests |-> inbox'[r]]
      BY <1>5 DEF Sweep
    <3> QED BY <2>3, <3>1 DEF BoxTypes
  <2> QED BY <1>5, <2>1, <2>2, <2>4, SameTypes DEF Sweep, Shape
<1>6. CASE Disconnect
  <2>1. losses' \in 0..MaxLosses
    BY <1>1, <1>6 DEF Disconnect
  <2>2. NetTypes'
    BY <1>0, <1>6, <2>1 DEF Disconnect, Shape, NetTypes
  <2>3. WireTypes'
    BY <1>6 DEF Disconnect, WireTypes
  <2>4. XferTypes' /\ DiskTypes'
    BY <1>6, AbortedTypes DEF Disconnect
  <2> QED BY <1>6, <2>2, <2>3, <2>4, SameTypes DEF Disconnect, Shape, server
<1> QED BY <1>2, <1>3, <1>4, <1>5, <1>6

\* What a handler makes of its record.
LEMMA RecordTypes ==
  ASSUME Shape, NEW r \in Requests
  PROVE  /\ req[r] \in Record
         /\ \A s \in Steps : [req[r] EXCEPT !.at = s] \in Record
         /\ \A s \in Steps, n \in Nat : [req[r] EXCEPT !.at = s, !.size = n] \in Record
         /\ [req[r] EXCEPT !.sent = @ + 1] \in Record
         /\ [req[r] EXCEPT !.got = @ + 1] \in Record
<1> DEFINE q == req[r]
<1>1. q \in Record
  BY DEF Shape, ServerTypes
<1> HIDE DEF q
<1>2. /\ \A s \in Steps : [q EXCEPT !.at = s] \in Record
      /\ \A s \in Steps, n \in Nat : [q EXCEPT !.at = s, !.size = n] \in Record
  BY <1>1 DEF Record
<1>3. q.sent + 1 \in Nat /\ q.got + 1 \in Nat
  BY <1>1 DEF Record
<1>4. [q EXCEPT !.sent = q.sent + 1] \in Record /\ [q EXCEPT !.got = q.got + 1] \in Record
  BY <1>1, <1>3 DEF Record
<1> QED BY <1>1, <1>2, <1>4 DEF q

\* So does a handler that fails, and what it leaves running.
LEMMA FailsTypes ==
  ASSUME Shape, NEW r \in Requests, Fails(r), UNCHANGED <<active, pending>>
  PROVE  ServerTypes'
<1>1. req' = [req EXCEPT ![r] = [req[r] EXCEPT !.at = "failed"]]
  BY DEF Fails
<1>2. [req[r] EXCEPT !.at = "failed"] \in Record
  BY RecordTypes DEF Steps, Over
<1>3. req' \in [Requests -> Record]
  BY <1>1, <1>2 DEF Shape, ServerTypes
<1>4. drop' \in [Requests -> {"none", "forget", "cancel"}]
  BY DEF Fails, Shape, ServerTypes
<1>5. audit' \in [Requests -> {"none", "running", "success", "failed", "lost"}]
  BY DEF Fails, Shape, ServerTypes
<1> QED BY <1>3, <1>4, <1>5 DEF Shape, ServerTypes

\* The message of a handler is an order of its request.
LEMMA OrderFacts ==
  ASSUME NEW r \in Requests, NEW n \in Nat
  PROVE  /\ \A t \in {"start", "finish", "ack", "cancel"} : Msg(r, t, n) \in Orders
         /\ Msg(r, "chunk", n) \in Pieces
  BY DEF Msg, Orders, Pieces, Message, Types

\* Other parts of the backend's state keep their types when one of them moves.
LEMMA ReqTypes ==
  ASSUME Shape, NEW r \in Requests, NEW q \in Record, req' = [req EXCEPT ![r] = q],
         active' \in Requests \cup {None}, pending' \in [Requests -> 0..MaxConns],
         drop' \in [Requests -> {"none", "forget", "cancel"}],
         audit' \in [Requests -> {"none", "running", "success", "failed", "lost"}]
  PROVE  ServerTypes'
<1>1. req' \in [Requests -> Record]
  BY DEF Shape, ServerTypes
<1> QED BY <1>1 DEF ServerTypes

\* A handler that goes on keeps the type of its request.
LEMMA StepTypes ==
  ASSUME Shape, NEW r \in Requests, NEW s \in Steps, req' = [req EXCEPT ![r].at = s],
         active' \in Requests \cup {None}, pending' \in [Requests -> 0..MaxConns],
         drop' \in [Requests -> {"none", "forget", "cancel"}],
         audit' \in [Requests -> {"none", "running", "success", "failed", "lost"}]
  PROVE  ServerTypes'
<1>1. [req[r] EXCEPT !.at = s] \in Record
  BY RecordTypes
<1>2. req' = [req EXCEPT ![r] = [req[r] EXCEPT !.at = s]]
  OBVIOUS
<1> QED BY <1>1, <1>2, ReqTypes

\* The rest of the backend's state keeps its type with its update.
LEMMA ServerFacts ==
  ASSUME Shape
  PROVE  /\ active \in Requests \cup {None}
         /\ pending \in [Requests -> 0..MaxConns]
         /\ drop \in [Requests -> {"none", "forget", "cancel"}]
         /\ audit \in [Requests -> {"none", "running", "success", "failed", "lost"}]
         /\ 0 \in 0..MaxConns
  BY FileTransferAssumption DEF Shape, ServerTypes

\* An answered request keeps the types.
LEMMA AnsweredTypes ==
  ASSUME Shape, NEW r \in Requests, Answered(r)
  PROVE  ServerTypes'
<1>1. "done" \in Steps
  BY DEF Steps, Over
<1>2. pending' \in [Requests -> 0..MaxConns]
  BY ServerFacts DEF Answered
<1>3. active' \in Requests \cup {None}
  BY ServerFacts DEF Answered
<1>4. drop' \in [Requests -> {"none", "forget", "cancel"}]
  BY ServerFacts DEF Answered
<1>5. audit' \in [Requests -> {"none", "running", "success", "failed", "lost"}]
  BY ServerFacts DEF Answered
<1>6. req' = [req EXCEPT ![r].at = "done"]
  BY DEF Answered
<1> QED BY <1>1, <1>2, <1>3, <1>4, <1>5, <1>6, StepTypes

\* So does a request that begins.
LEMMA BeginTypes ==
  ASSUME Shape, NEW r \in Requests, NEW k \in Transfers \cup Controls, NEW o \in BOOLEAN,
         NEW n \in 0..Size[r], Taken(r, k, o, n)
  PROVE  Shape'
<1> DEFINE q == [Idle EXCEPT !.at = IF k \in Transfers THEN "agent" ELSE "slot",
                             !.kind = k, !.over = o, !.size = n, !.conn = conn]
<1>1. n \in Nat /\ conn \in 0..MaxConns
  BY FileTransferAssumption DEF Shape, NetTypes
<1>2. q \in Record
  BY <1>1 DEF Record, Idle, Steps, Over
<1>3. req' = [req EXCEPT ![r] = q]
  BY DEF Taken
<1> HIDE DEF q
<1>4. ServerTypes'
  BY <1>2, <1>3, ReqTypes, ServerFacts DEF Taken
<1> QED BY <1>4, SameTypes DEF Taken, Shape

\* So do the steps of a handler that send at most the first message.
LEMMA SimpleHandlerTypes ==
  ASSUME Shape, NEW r \in Requests,
         TakeSlot(r) \/ Leave(r) \/ Timeout(r) \/ BodyBreaks(r) \/ OpenStream(r) \/ Poll(r)
           \/ Recorded(r) \/ Unrecorded(r) \/ Forget(r)
  PROVE  Shape'
<1>0. {"slot", "failed", "abandoned", "opened", "streaming"} \subseteq Steps
  BY DEF Steps, Over
<1>1. CASE TakeSlot(r)
  <2>1. active' \in Requests \cup {None}
    BY <1>1, ServerFacts DEF TakeSlot
  <2>2. \E s \in Steps : req' = [req EXCEPT ![r].at = s]
    BY <1>0, <1>1 DEF TakeSlot
  <2>3. ServerTypes'
    BY <1>1, <2>1, <2>2, StepTypes, ServerFacts DEF TakeSlot
  <2> QED BY <1>1, <2>3, SameTypes DEF TakeSlot, Shape
<1>2. CASE Leave(r)
  <2>1. \E a \in {"abandoned", "failed"} : req' = [req EXCEPT ![r].at = a]
    BY <1>2 DEF Leave, LeavesEarly
  <2>2. drop' \in [Requests -> {"none", "forget", "cancel"}]
    BY <1>2, ServerFacts DEF Leave, LeavesEarly
  <2>3. audit' \in [Requests -> {"none", "running", "success", "failed", "lost"}]
    <3>1. PICK a \in Audited(r) : audit' = [audit EXCEPT ![r] = a]
      BY <1>2 DEF Leave
    <3>2. a \in {"none", "running", "success", "failed", "lost"}
      BY ServerFacts DEF Audited
    <3> QED BY <3>1, <3>2, ServerFacts
  <2>4. ServerTypes'
    BY <1>0, <1>2, <2>1, <2>2, <2>3, StepTypes, ServerFacts DEF Leave
  <2> QED BY <1>2, <2>4, SameTypes DEF Leave, Shape
<1>3. CASE Timeout(r)
  BY <1>3, FailsTypes, SameTypes DEF Timeout, Shape
<1>4. CASE BodyBreaks(r)
  BY <1>4, FailsTypes, SameTypes DEF BodyBreaks, Shape
<1>5. CASE OpenStream(r)
  <2>1. audit' \in [Requests -> {"none", "running", "success", "failed", "lost"}]
    BY <1>5, ServerFacts DEF OpenStream
  <2>2. ServerTypes'
    BY <1>0, <1>5, <2>1, StepTypes, ServerFacts DEF OpenStream
  <2> QED BY <1>5, <2>2, SameTypes DEF OpenStream, Shape
<1>6. CASE Poll(r)
  <2>2. ServerTypes'
    BY <1>0, <1>6, StepTypes, ServerFacts DEF Poll
  <2> QED BY <1>6, <2>2, SameTypes DEF Poll, Shape
<1>7. CASE Forget(r)
  <2>1. /\ pending' \in [Requests -> 0..MaxConns]
        /\ active' \in Requests \cup {None}
        /\ drop' \in [Requests -> {"none", "forget", "cancel"}]
    BY <1>7, ServerFacts DEF Forget
  <2>2. ServerTypes'
    BY <1>7, <2>1 DEF Forget, Shape, ServerTypes
  <2> QED BY <1>7, <2>2, SameTypes DEF Forget, Shape
<1>8. CASE Recorded(r) \/ Unrecorded(r)
  <2>1. audit' \in [Requests -> {"none", "running", "success", "failed", "lost"}]
    BY <1>8, ServerFacts DEF Recorded, Unrecorded
  <2>2. ServerTypes'
    BY <1>8, <2>1 DEF Recorded, Unrecorded, Shape, ServerTypes
  <2> QED BY <1>8, <2>2, SameTypes DEF Recorded, Unrecorded, Shape
<1> QED BY <1>1, <1>2, <1>3, <1>4, <1>5, <1>6, <1>7, <1>8

\* A handler that sends.
LEMMA SendTypes ==
  ASSUME Shape, NEW r \in Requests,
         Register(r) \/ SendChunk(r) \/ SendFinish(r) \/ Cancel(r)
  PROVE  Shape'
<1>0. {"starting", "finishing"} \subseteq Steps
  BY DEF Steps, Over
<1>1. req[r].conn \in 0..MaxConns /\ req[r].sent \in Nat
  BY RecordTypes DEF Record
<1>2. down \in Seq(Orders) /\ frames \in Seq(Pieces) /\ up \in Seq(Answers) /\ data \in Seq(Pieces)
  BY DEF Shape, WireTypes
<1>3. down \in Seq(Message) /\ frames \in Seq(Message)
  BY AllMessages
<1>4. /\ \A c : \A t \in {"start", "finish", "ack", "cancel"} : Put(down, c, Msg(r, t, 0)) \in Seq(Orders)
      /\ \A c : Put(frames, c, Msg(r, "chunk", req[r].sent)) \in Seq(Pieces)
  BY <1>1, <1>2, <1>3, OrderFacts, PutAdds, PutPiece
<1>5. CASE Register(r)
  <2>1. pending' \in [Requests -> 0..MaxConns]
    BY <1>1, <1>5, ServerFacts DEF Register
  <2>2. CASE Refuses(req[r].conn)
    <3>1. Fails(r) /\ UNCHANGED <<down, active>>
      BY <1>5, <2>2 DEF Register
    <3>2. req' = [req EXCEPT ![r].at = "failed"] /\ "failed" \in Steps
      BY <3>1 DEF Fails, Steps, Over
    <3>3. drop' \in [Requests -> {"none", "forget", "cancel"}]
      BY <3>1, ServerFacts DEF Fails
    <3>4. audit' \in [Requests -> {"none", "running", "success", "failed", "lost"}]
      BY <3>1, ServerFacts DEF Fails
    <3>5. ServerTypes'
      BY <2>1, <3>1, <3>2, <3>3, <3>4, StepTypes, ServerFacts
    <3> QED BY <1>5, <3>1, <3>5, SameTypes DEF Register, Shape, wires
  <2>3. CASE ~Refuses(req[r].conn)
    <3>1. /\ down' = Put(down, req[r].conn, Msg(r, "start", 0))
          /\ req' = [req EXCEPT ![r].at = "starting"]
          /\ UNCHANGED <<drop, audit, active, frames, up, data>>
      BY <1>5, <2>3 DEF Register
    <3>2. ServerTypes'
      BY <1>0, <2>1, <3>1, StepTypes, ServerFacts
    <3>3. WireTypes'
      BY <1>2, <1>4, <3>1 DEF WireTypes
    <3> QED BY <1>5, <3>2, <3>3, SameTypes DEF Register, Shape
  <2> QED BY <2>2, <2>3
<1>6. CASE SendChunk(r)
  <2>2. CASE Refuses(req[r].conn)
    <3>1. Fails(r) /\ UNCHANGED <<down, frames, up, data, active, pending>>
      BY <1>6, <2>2 DEF SendChunk
    <3> QED BY <1>6, <3>1, FailsTypes, SameTypes DEF SendChunk, Shape, wires
  <2>3. CASE ~Refuses(req[r].conn)
    <3>1. /\ frames' = Put(frames, req[r].conn, Msg(r, "chunk", req[r].sent))
          /\ req' = [req EXCEPT ![r] = [req[r] EXCEPT !.sent = @ + 1]]
          /\ UNCHANGED <<drop, audit, active, pending, down, up, data>>
      BY <1>6, <2>3 DEF SendChunk
    <3>2. ServerTypes'
      BY <3>1, RecordTypes, ReqTypes, ServerFacts
    <3>3. WireTypes'
      BY <1>2, <1>4, <3>1 DEF WireTypes
    <3> QED BY <1>6, <3>2, <3>3, SameTypes DEF SendChunk, Shape
  <2> QED BY <2>2, <2>3
<1>7. CASE SendFinish(r)
  <2>2. CASE Refuses(req[r].conn)
    <3>1. Fails(r) /\ UNCHANGED <<down, frames, up, data, active, pending>>
      BY <1>7, <2>2 DEF SendFinish
    <3> QED BY <1>7, <3>1, FailsTypes, SameTypes DEF SendFinish, Shape, wires
  <2>3. CASE ~Refuses(req[r].conn)
    <3>1. /\ down' = Put(down, req[r].conn, Msg(r, "finish", 0))
          /\ req' = [req EXCEPT ![r].at = "finishing"]
          /\ UNCHANGED <<drop, audit, active, pending, frames, up, data>>
      BY <1>7, <2>3 DEF SendFinish
    <3>2. ServerTypes'
      BY <1>0, <3>1, StepTypes, ServerFacts
    <3>3. WireTypes'
      BY <1>2, <1>4, <3>1 DEF WireTypes
    <3> QED BY <1>7, <3>2, <3>3, SameTypes DEF SendFinish, Shape
  <2> QED BY <2>2, <2>3
<1>8. CASE Cancel(r)
  <2>1. drop' \in [Requests -> {"none", "forget", "cancel"}]
    BY <1>8, ServerFacts DEF Cancel
  <2>2. ServerTypes'
    BY <1>8, <2>1 DEF Cancel, Shape, ServerTypes
  <2>3. WireTypes'
    BY <1>2, <1>4, <1>8 DEF WireTypes, Cancel
  <2> QED BY <1>8, <2>2, <2>3, SameTypes DEF Cancel, Shape
<1> QED BY <1>5, <1>6, <1>7, <1>8

\* The step of its handler an event is for.
LEMMA Dispatch ==
  ASSUME NEW r \in Requests, Receive(r)
  PROVE  LET e == Head(inbox[r]) IN
         \/ req[r].at = "starting" /\ OnStart(r, e)
         \/ req[r].at = "finishing" /\ OnFinish(r, e)
         \/ req[r].at = "streaming" /\ req[r].kind = "upload" /\ OnAck(r, e)
         \/ req[r].at = "streaming" /\ req[r].kind = "download" /\ OnStream(r, e)
<1>1. \/ req[r].at \in {"starting", "finishing"}
      \/ (req[r].at = "streaming" /\ req[r].kind \in {"upload", "download"})
  BY DEF Receive, Awaits
<1>2. CASE req[r].at = "starting"
  BY <1>2 DEF Receive
<1>3. CASE req[r].at = "finishing"
  BY <1>3 DEF Receive
<1>4. CASE req[r].at = "streaming" /\ req[r].kind = "upload"
  BY <1>4 DEF Receive
<1>5. CASE req[r].at = "streaming" /\ req[r].kind = "download"
  BY <1>5 DEF Receive
<1> QED BY <1>1, <1>2, <1>3, <1>4, <1>5

\* So does a handler that takes an event.
LEMMA ReceiveTypes ==
  ASSUME Shape, NEW r \in Requests, Receive(r)
  PROVE  Shape'
<1> DEFINE e == Head(inbox[r])
<1>1. inbox[r] \in Seq(Events(r)) /\ inbox[r] \in Seq(Message) /\ inbox[r] # <<>>
  BY AllMessages DEF Receive, Shape, BoxTypes
<1>2. e \in Events(r) /\ Tail(inbox[r]) \in Seq(Events(r)) /\ Tail(inbox[r]) \in Seq(Message)
  BY <1>1, SeqFacts
<1>3. e.n \in Nat /\ e.type \in Types
  BY <1>2 DEF Events, Message
<1>4. BoxTypes'
  <2>1. inbox' = [inbox EXCEPT ![r] = Tail(inbox[r])]
    BY DEF Receive
  <2>2. inbox' \in [Requests -> Seq(Message)]
    BY <1>2, <2>1 DEF Shape, BoxTypes
  <2>3. \A s \in Requests : inbox'[s] \in Seq(Events(s))
    BY <1>2, <2>1 DEF Shape, BoxTypes
  <2> QED BY <2>2, <2>3 DEF BoxTypes
<1>5. down \in Seq(Orders) /\ down \in Seq(Message)
  BY AllMessages DEF Shape, WireTypes
<1>6. WireTypes'
  <2>1. \A c, n : n \in Nat => Put(down, c, Msg(r, "ack", n)) \in Seq(Orders)
    BY <1>5, OrderFacts, PutAdds
  <2>2. down' = down \/ down' = Put(down, req[r].conn, Msg(r, "ack", e.n))
    BY Dispatch DEF OnStart, OnFinish, OnAck, OnStream, Answered
  <2>3. down' \in Seq(Orders)
    BY <1>3, <1>5, <2>1, <2>2
  <2> QED BY <2>3 DEF Receive, Shape, WireTypes
<1>7. ServerTypes'
  <2>1. CASE Answered(r)
    BY <2>1, AnsweredTypes
  <2>2. CASE Fails(r) /\ UNCHANGED <<pending, active>>
    BY <2>2, FailsTypes
  <2>3. CASE /\ \E q \in Record : req' = [req EXCEPT ![r] = q]
             /\ UNCHANGED <<pending, active, drop, audit>>
    BY <2>3, ReqTypes, ServerFacts
  <2>4. CASE OnStart(r, e)
    <3>1. CASE e.type = "ready" /\ req[r].kind \in Transfers
      <4>1. \E s \in Steps : req' = [req EXCEPT ![r] = [req[r] EXCEPT !.at = s, !.size = e.n]]
        <5>1. "streaming" \in Steps /\ "ready" \in Steps
          BY DEF Steps
        <5>2. req' = [req EXCEPT ![r].at = IF @ = "starting" /\ req[r].kind = "upload"
                                       THEN "streaming" ELSE "ready",
                                 ![r].size = e.n]
          BY <2>4, <3>1 DEF OnStart
        <5>3. req \in [Requests -> Record]
          BY DEF Shape, ServerTypes
        <5> HIDE DEF e
        <5> QED BY <5>1, <5>2, <5>3 DEF Record
      <4> QED BY <1>3, <2>3, <2>4, <3>1, <4>1, RecordTypes DEF OnStart
    <3>2. CASE ~(e.type = "ready" /\ req[r].kind \in Transfers)
      BY <2>1, <2>2, <2>4, <3>2 DEF OnStart
    <3> QED BY <3>1, <3>2
  <2>5. CASE OnFinish(r, e)
    BY <2>1, <2>2, <2>5 DEF OnFinish
  <2>6. CASE OnAck(r, e)
    <3>1. CASE e.type = "ack" /\ e.n = req[r].got
      <4>1. req' = [req EXCEPT ![r] = [req[r] EXCEPT !.got = @ + 1]]
        BY <2>6, <3>1 DEF OnAck
      <4> QED BY <2>3, <2>6, <3>1, <4>1, RecordTypes DEF OnAck
    <3> QED BY <2>2, <2>6, <3>1 DEF OnAck
  <2>7. CASE OnStream(r, e)
    <3>1. CASE req' = [req EXCEPT ![r].got = @ + 1] /\ UNCHANGED <<pending, active, drop, audit>>
      <4>1. req' = [req EXCEPT ![r] = [req[r] EXCEPT !.got = @ + 1]]
        BY <3>1
      <4> QED BY <2>3, <3>1, <4>1, RecordTypes
    <3> QED BY <2>1, <2>2, <2>7, <3>1 DEF OnStream
  <2> QED BY <2>4, <2>5, <2>6, <2>7, Dispatch
<1> QED BY <1>4, <1>6, <1>7, SameTypes DEF Receive, Shape

\* What the task of a transfer makes of its record.
LEMMA TransferTypes ==
  ASSUME Shape
  PROVE  /\ \A a \in {"creating", "moving", "checking", "backing", "renaming", "clearing"} :
              xfer' = [xfer EXCEPT !.at = a] => XferTypes'
         /\ \A a \in {"moving", "checking"} :
              xfer.queue # <<>> /\ xfer' = [xfer EXCEPT !.queue = Tail(@), !.at = a] => XferTypes'
         /\ xfer.queue # <<>> /\ xfer' = [xfer EXCEPT !.queue = Tail(@), !.got = @ + 1] => XferTypes'
         /\ xfer' = [xfer EXCEPT !.sent = @ + 1] => XferTypes'
         /\ \A m \in Parcels : xfer' = [xfer EXCEPT !.queue = Append(@, m)] => XferTypes'
<1>1. /\ xfer \in Transfer /\ xfer.queue \in Seq(Parcels)
      /\ xfer.req # None => xfer.size <= Size[xfer.req]
      /\ xfer.queue \in Seq(Message)
  BY AllMessages DEF Shape, XferTypes
<1>2. Parcels \subseteq Message
  BY DEF Parcels
<1>3. xfer.queue # <<>> => Tail(xfer.queue) \in Seq(Parcels) /\ Tail(xfer.queue) \in Seq(Message)
  BY <1>1, SeqFacts
<1>4. \A m \in Parcels : Append(xfer.queue, m) \in Seq(Parcels) /\ Append(xfer.queue, m) \in Seq(Message)
  BY <1>1, <1>2, SeqFacts
<1>5. ASSUME xfer' \in Transfer, xfer'.req = xfer.req, xfer'.kind = xfer.kind,
             xfer'.size = xfer.size, xfer'.queue \in Seq(Parcels)
      PROVE  XferTypes'
  <2>1. Parcels' = Parcels
    BY <1>5 DEF Parcels
  <2> QED BY <1>1, <1>5, <2>1 DEF XferTypes
<1>6. ASSUME NEW a \in {"creating", "moving", "checking", "backing", "renaming", "clearing"},
             xfer' = [xfer EXCEPT !.at = a]
      PROVE  XferTypes'
  <2>1. xfer' \in Transfer /\ xfer'.req = xfer.req /\ xfer'.kind = xfer.kind
        /\ xfer'.size = xfer.size /\ xfer'.queue = xfer.queue
    BY <1>1, <1>6 DEF Transfer
  <2> QED BY <1>1, <1>5, <2>1
<1>7. ASSUME NEW a \in {"moving", "checking"}, xfer.queue # <<>>,
             xfer' = [xfer EXCEPT !.queue = Tail(@), !.at = a]
      PROVE  XferTypes'
  <2>1. xfer' \in Transfer /\ xfer'.req = xfer.req /\ xfer'.kind = xfer.kind
        /\ xfer'.size = xfer.size /\ xfer'.queue = Tail(xfer.queue)
    BY <1>1, <1>3, <1>7 DEF Transfer
  <2> QED BY <1>3, <1>5, <1>7, <2>1
<1>8. ASSUME xfer.queue # <<>>, xfer' = [xfer EXCEPT !.queue = Tail(@), !.got = @ + 1]
      PROVE  XferTypes'
  <2>1. xfer.got + 1 \in Nat
    BY <1>1 DEF Transfer
  <2>2. xfer' \in Transfer /\ xfer'.req = xfer.req /\ xfer'.kind = xfer.kind
        /\ xfer'.size = xfer.size /\ xfer'.queue = Tail(xfer.queue)
    BY <1>1, <1>3, <1>8, <2>1 DEF Transfer
  <2> QED BY <1>3, <1>5, <1>8, <2>2
<1>9. ASSUME xfer' = [xfer EXCEPT !.sent = @ + 1]
      PROVE  XferTypes'
  <2>1. xfer.sent + 1 \in Nat
    BY <1>1 DEF Transfer
  <2>2. xfer' \in Transfer /\ xfer'.req = xfer.req /\ xfer'.kind = xfer.kind
        /\ xfer'.size = xfer.size /\ xfer'.queue = xfer.queue
    BY <1>1, <1>9, <2>1 DEF Transfer
  <2> QED BY <1>1, <1>5, <2>2
<1>10. ASSUME NEW m \in Parcels, xfer' = [xfer EXCEPT !.queue = Append(@, m)]
       PROVE  XferTypes'
  <2>1. xfer' \in Transfer /\ xfer'.req = xfer.req /\ xfer'.kind = xfer.kind
        /\ xfer'.size = xfer.size /\ xfer'.queue = Append(xfer.queue, m)
    BY <1>1, <1>4, <1>10 DEF Transfer
  <2> QED BY <1>4, <1>5, <2>1
<1> QED BY <1>6, <1>7, <1>8, <1>9, <1>10

\* The backend's loop takes what the agent sent.
LEMMA DeliverTypes ==
  ASSUME Shape, Response \/ Chunk
  PROVE  Shape'
<1>1. /\ down \in Seq(Orders) /\ frames \in Seq(Pieces) /\ up \in Seq(Answers) /\ data \in Seq(Pieces)
      /\ down \in Seq(Message)
  BY AllMessages DEF Shape, WireTypes
<1>2. ASSUME NEW m, m.req \in Requests, m \in Events(m.req),
             \/ inbox' = inbox
             \/ inbox' = [inbox EXCEPT ![m.req] = Append(@, m)]
      PROVE  BoxTypes'
  <2>1. inbox[m.req] \in Seq(Events(m.req)) /\ Events(m.req) \subseteq Message
    BY <1>2 DEF Shape, BoxTypes, Events
  <2>2. Append(inbox[m.req], m) \in Seq(Events(m.req))
    BY <1>2, <2>1, SeqFacts
  <2>3. Append(inbox[m.req], m) \in Seq(Message)
    BY <2>1, <2>2, SeqWithin
  <2>4. CASE inbox' = inbox
    BY <2>4, SameTypes
  <2>5. CASE inbox' = [inbox EXCEPT ![m.req] = Append(@, m)]
    <3>1. inbox' \in [Requests -> Seq(Message)]
      BY <1>2, <2>3, <2>5 DEF Shape, BoxTypes
    <3>2. \A s \in Requests : inbox'[s] \in Seq(Events(s))
      BY <1>2, <2>2, <2>5 DEF Shape, BoxTypes
    <3> QED BY <3>1, <3>2 DEF BoxTypes
  <2> QED BY <1>2, <2>4, <2>5
<1>3. CASE Response
  <2> DEFINE m == Head(up)
  <2>1. up # <<>> /\ m \in Answers /\ Tail(up) \in Seq(Answers)
    BY <1>1, <1>3, SeqFacts DEF Response
  <2>2. m.req \in Requests /\ m \in Events(m.req)
    BY <2>1 DEF Answers, Events, Message
  <2>3. inbox' = inbox \/ inbox' = [inbox EXCEPT ![m.req] = Append(@, m)]
    BY <1>3 DEF Response
  <2>4. BoxTypes'
    <3> HIDE DEF m
    <3> QED BY <1>2, <2>2, <2>3
  <2>5. WireTypes'
    BY <1>1, <1>3, <2>1 DEF Response, WireTypes
  <2> QED BY <1>3, <2>4, <2>5, SameTypes DEF Response, Shape
<1>4. CASE Chunk
  <2> DEFINE m == Head(data)
  <2>1. data # <<>> /\ m \in Pieces /\ Tail(data) \in Seq(Pieces)
    BY <1>1, <1>4, SeqFacts DEF Chunk
  <2>2. m.req \in Requests /\ m \in Events(m.req)
    BY <2>1 DEF Pieces, Events, Message
  <2>3. inbox' = inbox \/ inbox' = [inbox EXCEPT ![m.req] = Append(@, m)]
    BY <1>4 DEF Chunk
  <2>4. BoxTypes'
    <3> HIDE DEF m
    <3> QED BY <1>2, <2>2, <2>3
  <2>5. Put(down, conn, Msg(m.req, "cancel", 0)) \in Seq(Orders)
    BY <1>1, <2>2, OrderFacts, PutAdds
  <2>6. down' \in Seq(Orders)
    BY <1>1, <1>4, <2>5 DEF Chunk
  <2>7. WireTypes'
    BY <1>1, <1>4, <2>1, <2>6 DEF Chunk, WireTypes
  <2> QED BY <1>4, <2>4, <2>7, SameTypes DEF Chunk, Shape
<1> QED BY <1>3, <1>4

\* What the agent says is an answer.
LEMMA AnswerFacts ==
  ASSUME NEW r \in Requests, NEW n \in Nat
  PROVE  /\ \A t \in Finals \cup {"ack"} : Msg(r, t, n) \in Answers
         /\ n <= Size[r] => Msg(r, "ready", n) \in Answers
  BY DEF Msg, Answers, Message, Types, Finals

\* So does the agent that handles a start.
LEMMA StartTypes ==
  ASSUME Shape, NEW r \in Requests, NEW n \in 0..Size[r], Start(r, n)
  PROVE  Shape'
<1>1. /\ down \in Seq(Orders) /\ frames \in Seq(Pieces) /\ up \in Seq(Answers) /\ data \in Seq(Pieces)
      /\ down # <<>> /\ Tail(down) \in Seq(Orders) /\ down' = Tail(down)
      /\ UNCHANGED <<frames, data>>
  BY SeqFacts DEF Shape, WireTypes, Start
<1>2. 0 \in Nat /\ n \in Nat /\ n <= Size[r]
  BY FileTransferAssumption
<1>3. req[r] \in Record
  BY RecordTypes
<1>4. CASE Refused(r)
  <2>1. up' \in Seq(Answers)
    BY <1>1, <1>2, <1>4, AnswerFacts, SeqFacts DEF Refused, Say, Finals
  <2> QED BY <1>1, <1>4, <2>1, SameTypes DEF Refused, Start, Shape, WireTypes, disk, server
<1>5. CASE Control(r)
  <2>1. up' \in Seq(Answers)
    BY <1>1, <1>2, <1>5, AnswerFacts, SeqFacts DEF Control, Say, Finals
  <2>2. target' \in Contents
    BY <1>5 DEF Control, CarriedOut, Listed, Deleted, Moved, Contents, Shape, DiskTypes
  <2>3. DiskTypes'
    BY <2>2 DEF Start, Shape, DiskTypes
  <2> QED BY <1>1, <1>5, <2>1, <2>3, SameTypes DEF Control, Start, Shape, WireTypes, server
<1>6. CASE StartUpload(r, n) \/ StartDownload(r, n)
  <2>1. Launched(r, n) /\ req[r].kind \in Transfers
    BY <1>6 DEF StartUpload, StartDownload, Transfers
  <2>2. xfer' = [NoXfer EXCEPT !.req = r, !.kind = req[r].kind, !.over = req[r].over, !.size = n]
    BY <2>1 DEF Launched
  <2>3. xfer' \in Transfer /\ xfer'.req = r /\ xfer'.size = n /\ xfer'.queue = <<>>
    <3>1. req[r].over \in BOOLEAN /\ req[r].kind \in Transfers
      BY <1>3, <2>1 DEF Record
    <3>2. xfer' = [req |-> r, kind |-> req[r].kind, at |-> "opening", over |-> req[r].over,
                   size |-> n, sent |-> 0, got |-> 0, queue |-> <<>>]
      BY <2>2 DEF NoXfer
    <3>3. <<>> \in Seq(Message)
      BY SeqFacts
    <3> QED BY <1>2, <3>1, <3>2, <3>3 DEF Transfer
  <2>4. xfer'.queue \in Seq(Parcels)'
    BY <2>3
  <2>5. XferTypes'
    BY <1>2, <2>3, <2>4 DEF XferTypes
  <2>6. WireTypes'
    BY <1>1, <2>1 DEF Launched, WireTypes
  <2> QED BY <2>1, <2>5, <2>6, SameTypes DEF Start, Launched, Shape, disk, server
<1> QED BY <1>4, <1>5, <1>6 DEF Start

\* The agent's loop hands a message to the task.
LEMMA TakesTypes ==
  ASSUME Shape, NEW m \in Message, m.type \in {"finish", "ack", "chunk"}, Takes(m)
  PROVE  /\ XferTypes' /\ DiskTypes' /\ up' \in Seq(Answers)
<1>1. up \in Seq(Answers) /\ m.req \in Requests
  BY DEF Shape, WireTypes, Message
<1>2. CASE UNCHANGED <<xfer, up, disk>>
  BY <1>1, <1>2, SameTypes
<1>3. CASE /\ xfer.req = m.req /\ (m.type = "ack" <=> xfer.kind = "download")
           /\ xfer' = [xfer EXCEPT !.queue = Append(@, m)] /\ UNCHANGED <<up, disk>>
  <2>1. m \in Parcels
    <3>1. m.req = xfer.req /\ (m.type = "ack" <=> xfer.kind = "download")
      BY <1>3
    <3> QED BY <3>1, Zenon DEF Parcels
  <2> QED BY <1>1, <1>3, <2>1, TransferTypes, SameTypes
<1>4. CASE Aborted /\ Say(Msg(m.req, "error", 0))
  <2>1. up' \in Seq(Answers)
    BY <1>1, <1>4, AnswerFacts, SeqFacts DEF Say, Finals
  <2> QED BY <1>4, <2>1, AbortedTypes
<1> QED BY <1>2, <1>3, <1>4 DEF Takes

\* So do the steps of the agent's loop for the transfer that runs.
LEMMA AgentTypes ==
  ASSUME Shape, FinishUpload \/ AcknowledgeDownload \/ Frame \/ Stop
  PROVE  Shape'
<1>1. /\ down \in Seq(Orders) /\ frames \in Seq(Pieces) /\ up \in Seq(Answers) /\ data \in Seq(Pieces)
  BY DEF Shape, WireTypes
<1>2. CASE FinishUpload \/ AcknowledgeDownload
  <2>1. down # <<>> /\ down' = Tail(down) /\ Takes(Head(down))
        /\ Head(down).type \in {"finish", "ack"}
        /\ UNCHANGED <<net, frames, data, server>>
    BY <1>2 DEF FinishUpload, AcknowledgeDownload
  <2>2. Head(down) \in Message /\ Tail(down) \in Seq(Orders)
    BY <1>1, <2>1, SeqFacts DEF Orders
  <2>3. XferTypes' /\ DiskTypes' /\ up' \in Seq(Answers)
    BY <2>1, <2>2, TakesTypes
  <2> QED BY <1>1, <2>1, <2>2, <2>3, SameTypes DEF Shape, WireTypes, server
<1>3. CASE Frame
  <2>1. frames # <<>> /\ frames' = Tail(frames) /\ Takes(Head(frames))
        /\ UNCHANGED <<net, down, data, server>>
    BY <1>3 DEF Frame
  <2>2. Head(frames) \in Message /\ Tail(frames) \in Seq(Pieces) /\ Head(frames).type = "chunk"
    BY <1>1, <2>1, SeqFacts DEF Pieces
  <2>3. XferTypes' /\ DiskTypes' /\ up' \in Seq(Answers)
    BY <2>1, <2>2, TakesTypes
  <2> QED BY <1>1, <2>1, <2>2, <2>3, SameTypes DEF Shape, WireTypes, server
<1>4. CASE Stop
  <2>1. Tail(down) \in Seq(Orders) /\ WireTypes'
    BY <1>1, <1>4, SeqFacts DEF Stop, WireTypes
  <2>2. XferTypes' /\ DiskTypes'
    BY <1>4, AbortedTypes, SameTypes DEF Stop
  <2> QED BY <1>4, <2>1, <2>2, SameTypes DEF Stop, Shape, server
<1> QED BY <1>2, <1>3, <1>4

\* The task of the transfer.
LEMMA TaskFailsTypes ==
  ASSUME Shape, xfer.req # None, TaskFails, UNCHANGED <<down, frames, data>>
  PROVE  /\ XferTypes' /\ WireTypes' /\ temp' \in [Requests -> {"none", "part", "left"}]
<1>1. xfer.req \in Requests
  BY DEF Shape, XferTypes, Transfer
<1>2. up' \in Seq(Answers)
  BY <1>1, AnswerFacts, SeqFacts DEF TaskFails, Say, Finals, Shape, WireTypes
<1>3. WireTypes'
  BY <1>2 DEF Shape, WireTypes
<1>4. temp' \in [Requests -> {"none", "part", "left"}]
  BY DEF TaskFails, Temporary, Shape, DiskTypes
<1> QED BY <1>3, <1>4, EndsTypes DEF TaskFails

\* So do the steps of the transfer's task.
LEMMA TaskTypes ==
  ASSUME Shape,
         Look \/ Open \/ Write \/ Check \/ SetAside \/ Rename \/ RenameFails \/ Committed
           \/ Read \/ TakeAck \/ SentAll
  PROVE  Shape'
<1>1. /\ xfer.req \in Requests /\ xfer.req # None /\ xfer.size \in Nat /\ xfer.got \in Nat /\ xfer.sent \in Nat
      /\ xfer.size <= Size[xfer.req]
  BY DEF Look, Open, Write, Check, SetAside, Rename, RenameFails, Committed, Read, TakeAck, SentAll, Sending,
         Shape, XferTypes, Transfer
<1>2. /\ down \in Seq(Orders) /\ frames \in Seq(Pieces) /\ up \in Seq(Answers) /\ data \in Seq(Pieces)
      /\ temp \in [Requests -> {"none", "part", "left"}] /\ target \in Contents /\ backup \in [Requests -> Contents]
      /\ xfer.queue \in Seq(Parcels)
  BY DEF Shape, WireTypes, DiskTypes, XferTypes
<1>3. None \in Contents /\ xfer.req \in Contents
  BY <1>1 DEF Contents
<1>4. ASSUME TaskFails, UNCHANGED <<down, frames, data, net, server>>,
             target' \in Contents, backup' \in [Requests -> Contents]
      PROVE  Shape'
  <2>1. XferTypes' /\ WireTypes' /\ temp' \in [Requests -> {"none", "part", "left"}]
    BY <1>1, <1>4, TaskFailsTypes
  <2> QED BY <1>4, <2>1, SameTypes DEF DiskTypes, Shape, server
<1>5. ASSUME XferTypes', UNCHANGED <<down, frames, net, server>>, temp' \in [Requests -> {"none", "part", "left"}],
             up' \in Seq(Answers), data' \in Seq(Pieces),
             target' \in Contents, backup' \in [Requests -> Contents]
      PROVE  Shape'
  BY <1>2, <1>5, SameTypes DEF Shape, WireTypes, DiskTypes, server
<1>6. /\ Append(up, Msg(xfer.req, "ready", xfer.size)) \in Seq(Answers)
      /\ \A t \in Finals \cup {"ack"}, n \in Nat : Append(up, Msg(xfer.req, t, n)) \in Seq(Answers)
      /\ Append(data, Msg(xfer.req, "chunk", xfer.sent)) \in Seq(Pieces)
  BY <1>1, <1>2, AnswerFacts, OrderFacts, SeqFacts
<1>7. CASE Open
  <2>1. CASE TaskFails
    BY <1>2, <1>4, <1>7, <2>1 DEF Open
  <2>2. CASE ~TaskFails
    <3>1. /\ xfer' = [xfer EXCEPT !.at = "moving"] /\ Say(Msg(xfer.req, "ready", xfer.size))
          /\ Temporary("part") \/ Temporary("none")
          /\ UNCHANGED <<net, down, frames, data, server, target, backup>>
      BY <1>7, <2>2 DEF Open
    <3>2. XferTypes'
      BY <3>1, TransferTypes
    <3>3. temp' \in [Requests -> {"none", "part", "left"}]
      BY <1>2, <3>1 DEF Temporary
    <3> QED BY <1>2, <1>5, <1>6, <3>1, <3>2, <3>3 DEF Say
  <2> QED BY <2>1, <2>2
<1>8. CASE Write
  <2>1. CASE TaskFails
    BY <1>2, <1>4, <1>8, <2>1 DEF Write
  <2>2. CASE /\ xfer' = [xfer EXCEPT !.queue = Tail(@), !.got = @ + 1]
             /\ Say(Msg(xfer.req, "ack", Head(xfer.queue).n)) /\ UNCHANGED temp
    <3>1. xfer.queue # <<>>
      BY <1>8 DEF Write
    <3>2. Head(xfer.queue).n \in Nat
      BY <1>2, <3>1, SeqFacts DEF Parcels, Message
    <3>3. XferTypes'
      BY <2>2, <3>1, TransferTypes
    <3>4. up' \in Seq(Answers)
      BY <1>6, <2>2, <3>2 DEF Say
    <3> QED BY <1>2, <1>5, <1>8, <2>2, <3>3, <3>4 DEF Write
  <2>3. CASE xfer' = [xfer EXCEPT !.queue = Tail(@), !.at = "checking"] /\ UNCHANGED <<up, temp>>
    <3>1. xfer.queue # <<>>
      BY <1>8 DEF Write
    <3>2. XferTypes'
      BY <2>3, <3>1, TransferTypes
    <3> QED BY <1>2, <1>5, <1>8, <2>3, <3>2 DEF Write
  <2> QED BY <1>8, <2>1, <2>2, <2>3 DEF Write
<1>9. CASE Check
  <2>1. CASE TaskFails
    BY <1>2, <1>4, <1>9, <2>1 DEF Check
  <2>2. CASE ~TaskFails
    <3>1. /\ \E a \in {"renaming", "backing"} : xfer' = [xfer EXCEPT !.at = a]
          /\ UNCHANGED <<up, temp, net, down, frames, data, server, target, backup>>
      BY <1>9, <2>2 DEF Check
    <3>2. XferTypes'
      BY <3>1, TransferTypes
    <3> QED BY <1>2, <1>5, <3>1, <3>2
  <2> QED BY <2>1, <2>2
<1>10. CASE SetAside
  <2>1. CASE TaskFails /\ UNCHANGED <<backup, target>>
    BY <1>2, <1>4, <1>10, <2>1 DEF SetAside
  <2>2. CASE ~(TaskFails /\ UNCHANGED <<backup, target>>)
    <3>1. /\ backup' = [backup EXCEPT ![xfer.req] = target] /\ target' = None
          /\ xfer' = [xfer EXCEPT !.at = "renaming"]
          /\ UNCHANGED <<up, temp, net, down, frames, data, server>>
      BY <1>10, <2>2 DEF SetAside
    <3>2. XferTypes'
      BY <3>1, TransferTypes
    <3>3. backup' \in [Requests -> Contents]
      BY <1>2, <3>1
    <3> QED BY <1>2, <1>3, <1>5, <3>1, <3>2, <3>3
  <2> QED BY <2>1, <2>2
<1>11. CASE Rename
  <2>1. /\ target' = xfer.req /\ temp' = [temp EXCEPT ![xfer.req] = "none"]
        /\ xfer' = [xfer EXCEPT !.at = "clearing"]
        /\ UNCHANGED <<net, wires, server, backup>>
    BY <1>11 DEF Rename
  <2>2. XferTypes'
    BY <2>1, TransferTypes
  <2>3. temp' \in [Requests -> {"none", "part", "left"}]
    BY <1>2, <2>1
  <2> QED BY <1>2, <1>3, <1>5, <2>1, <2>2, <2>3 DEF wires
<1>12. CASE RenameFails
  <2>1. /\ target' = PutBack(xfer.req) /\ backup' = [backup EXCEPT ![xfer.req] = None]
        /\ TaskFails /\ UNCHANGED <<net, down, frames, data, server>>
    BY <1>12 DEF RenameFails
  <2>2. target' \in Contents
    BY <1>1, <1>2, <2>1 DEF PutBack
  <2>3. backup' \in [Requests -> Contents]
    BY <1>2, <1>3, <2>1
  <2> QED BY <1>4, <2>1, <2>2, <2>3
<1>13. CASE Committed
  <2>1. /\ backup' = [backup EXCEPT ![xfer.req] = None]
        /\ Say(Msg(xfer.req, "complete", xfer.got)) /\ Ends
        /\ UNCHANGED <<net, down, frames, data, server, temp, target>>
    BY <1>13 DEF Committed
  <2>2. backup' \in [Requests -> Contents]
    BY <1>2, <1>3, <2>1
  <2>3. up' \in Seq(Answers)
    BY <1>1, <1>6, <2>1 DEF Say, Finals
  <2> QED BY <1>2, <1>5, <2>1, <2>2, <2>3, EndsTypes
<1>14. CASE Read
  <2>1. CASE TaskFails /\ UNCHANGED data
    BY <1>2, <1>4, <1>14, <2>1 DEF Read
  <2>2. CASE ~(TaskFails /\ UNCHANGED data)
    <3>1. /\ data' = Append(data, Msg(xfer.req, "chunk", xfer.sent))
          /\ xfer' = [xfer EXCEPT !.sent = @ + 1]
          /\ UNCHANGED <<up, temp, net, down, frames, server, target, backup>>
      BY <1>14, <2>2 DEF Read
    <3>2. XferTypes'
      BY <3>1, TransferTypes
    <3> QED BY <1>2, <1>5, <1>6, <3>1, <3>2
  <2> QED BY <2>1, <2>2
<1>15. CASE TakeAck
  <2>1. CASE TaskFails
    BY <1>2, <1>4, <1>15, <2>1 DEF TakeAck
  <2>2. CASE ~TaskFails
    <3>1. /\ xfer.queue # <<>>
          /\ xfer' = [xfer EXCEPT !.queue = Tail(@), !.got = @ + 1]
          /\ UNCHANGED <<up, temp, net, down, frames, data, server, target, backup>>
      BY <1>15, <2>2 DEF TakeAck
    <3>2. XferTypes'
      BY <3>1, TransferTypes
    <3> QED BY <1>2, <1>5, <3>1, <3>2
  <2> QED BY <2>1, <2>2
<1>16. CASE SentAll
  <2>1. /\ Say(Msg(xfer.req, "complete", xfer.size)) /\ Ends
        /\ UNCHANGED <<net, down, frames, data, server, disk>>
    BY <1>16 DEF SentAll
  <2>2. up' \in Seq(Answers)
    BY <1>1, <1>6, <2>1 DEF Say, Finals
  <2> QED BY <1>2, <1>5, <2>1, <2>2, EndsTypes DEF disk
<1>17. CASE Look
  <2>1. CASE TaskFails
    BY <1>2, <1>4, <1>17, <2>1 DEF Look
  <2>2. CASE ~TaskFails
    <3>1. /\ xfer' = [xfer EXCEPT !.at = "creating"]
          /\ UNCHANGED <<up, temp, net, down, frames, data, server, target, backup>>
      BY <1>17, <2>2 DEF Look
    <3>2. XferTypes'
      BY <3>1, TransferTypes
    <3> QED BY <1>2, <1>5, <3>1, <3>2
  <2> QED BY <2>1, <2>2
<1> QED BY <1>7, <1>8, <1>9, <1>10, <1>11, <1>12, <1>13, <1>14, <1>15, <1>16, <1>17

\* Every step keeps the types of all that is stored and under way.
LEMMA ShapeKept ==
  ASSUME Shape, [Next]_vars
  PROVE  Shape'
<1>1. CASE UNCHANGED vars
  BY <1>1, SameTypes DEF vars, Shape, server
<1>2. CASE Created
  <2>1. DiskTypes'
    BY <1>2 DEF Created, Contents, Shape, DiskTypes
  <2> QED BY <1>2, <2>1, SameTypes DEF Created, Shape, server
<1>3. ASSUME NEW c \in Conns, Connect(c) \/ Lose(c) \/ Sweep(c) \/ Vanish(c) PROVE Shape'
  BY <1>3, NetActionsTypes
<1>4. CASE Disconnect
  <2>1. on \in Conns
    BY <1>4, FileTransferAssumption DEF Disconnect, Conns, Shape, NetTypes
  <2> QED BY <1>4, <2>1, NetActionsTypes
<1>5. ASSUME NEW r \in Requests,
             \/ \E k \in Controls, o \in BOOLEAN : BeginControl(r, k, o)
             \/ \E o \in BOOLEAN, n \in 0..Size[r] : BeginUpload(r, o, n)
             \/ BeginDownload(r)
      PROVE  Shape'
  <2>1. 0 \in 0..Size[r] /\ "upload" \in Transfers \cup Controls /\ "download" \in Transfers \cup Controls
        /\ FALSE \in BOOLEAN
    BY FileTransferAssumption DEF Transfers
  <2> QED BY <1>5, <2>1, BeginTypes DEF BeginControl, BeginUpload, BeginDownload
<1>6. ASSUME NEW r \in Requests,
             \/ TakeSlot(r) \/ Register(r) \/ Leave(r) \/ Timeout(r) \/ Receive(r)
             \/ SendChunk(r) \/ BodyBreaks(r) \/ SendFinish(r) \/ OpenStream(r) \/ Poll(r)
             \/ Recorded(r) \/ Unrecorded(r) \/ Forget(r) \/ Cancel(r)
             \/ \E n \in 0..Size[r] : Start(r, n)
      PROVE  Shape'
  BY <1>6, SimpleHandlerTypes, SendTypes, ReceiveTypes, StartTypes
<1> QED BY <1>1, <1>2, <1>3, <1>4, <1>5, <1>6, DeliverTypes, AgentTypes, TaskTypes DEF Next

\* They hold at the start.
LEMMA ShapeAtInit ==
  ASSUME Init
  PROVE  Shape
<1>1. NetTypes
  BY FileTransferAssumption DEF Init, NetTypes
<1>2. WireTypes /\ BoxTypes
  BY DEF Init, WireTypes, BoxTypes
<1>3. Idle \in Record
  BY FileTransferAssumption DEF Idle, Record, Steps, Controls
<1>4. ServerTypes
  BY <1>3, FileTransferAssumption DEF Init, ServerTypes
<1>5. DiskTypes
  BY DEF Init, DiskTypes, Contents
<1>6. XferTypes
  BY DEF Init, XferTypes, NoXfer, Transfer, Transfers
<1> QED BY <1>1, <1>2, <1>4, <1>5, <1>6 DEF Shape

-----------------------------------------------------------------------------
(***************************************************************************)
(* What is under way of a request, on all the queues together.             *)
(***************************************************************************)
Starts(r)   == Of(down, r, {"start"})
Finishes(r) == Of(down, r, {"finish"}) + Of(xfer.queue, r, {"finish"})
Readies(r)  == Of(up, r, {"ready"}) + Of(inbox[r], r, {"ready"})
Verdicts(r) == Of(up, r, Finals) + Of(inbox[r], r, Finals)
\* Chunks of an upload that its handler has not seen acknowledged.
Sent(r)     == Of(frames, r, {"chunk"}) + Of(xfer.queue, r, {"chunk"})
                 + Of(up, r, {"ack"}) + Of(inbox[r], r, {"ack"})
\* Chunks of a download that the agent has not seen acknowledged.
Got(r)      == Of(down, r, {"ack"}) + Of(xfer.queue, r, {"ack"})
                 + Of(data, r, {"chunk"}) + Of(inbox[r], r, {"chunk"})
Gones(r)    == Of(inbox[r], r, {"gone"}) + (IF pending[r] # 0 THEN 1 ELSE 0)

Early(r) == req[r].at \in {"idle", "agent", "slot"}
\* The agent has not seen the request.
Untouched(r) == Early(r) \/ Starts(r) > 0

\* What the conjuncts of Good bound.
Opens(r)    == xfer.req = r /\ xfer.at \in {"opening", "creating"}
InWindow(r) == IF xfer.req = r THEN xfer.sent - xfer.got ELSE Window

UntouchedIsClean(r) == Untouched(r) =>
  /\ xfer.req # r /\ temp[r] = "none" /\ backup[r] = None
  /\ req[r].at \in {"idle", "agent", "slot", "starting"} \cup Over
  /\ req[r].sent = 0 /\ req[r].got = 0
  /\ Finishes(r) = 0 /\ Readies(r) = 0 /\ Verdicts(r) = 0 /\ Sent(r) = 0 /\ Got(r) = 0
UploadFits(r) ==
  IF req[r].kind = "upload"
  THEN /\ Sent(r) <= req[r].sent - req[r].got
       /\ Finishes(r) <= 1
       /\ Finishes(r) = 1 => req[r].sent = req[r].got /\ req[r].at \in {"finishing"} \cup Over
  ELSE Sent(r) = 0 /\ Finishes(r) = 0 /\ req[r].sent = 0
DownloadFits(r) ==
  IF req[r].kind = "download" THEN Got(r) <= InWindow(r) ELSE Got(r) = 0
Good(r) ==
  /\ Starts(r) <= (IF Early(r) THEN 0 ELSE 1)
  /\ Gones(r) <= (IF Early(r) THEN 0 ELSE 1)
  /\ UntouchedIsClean(r)
  /\ req[r].at = "starting" => req[r].sent = 0 /\ req[r].got = 0
  /\ Readies(r) <= (IF Opens(r) THEN 0 ELSE 1)
  /\ Verdicts(r) <= (IF xfer.req = r THEN 0 ELSE 1)
  /\ req[r].sent - req[r].got <= Window
  /\ req[r].size <= Size[r] /\ req[r].sent <= req[r].size /\ req[r].got <= req[r].size
  /\ UploadFits(r) /\ DownloadFits(r)

\* The agent's transfer is the one the request asked for.
TaskFits ==
  xfer.req # None => xfer.kind = req[xfer.req].kind /\ xfer.sent - xfer.got <= Window

\* Every count is one.
Counts ==
  \A r \in Requests :
    /\ Starts(r) \in Nat /\ Finishes(r) \in Nat /\ Readies(r) \in Nat /\ Verdicts(r) \in Nat
    /\ Sent(r) \in Nat /\ Got(r) \in Nat /\ Gones(r) \in Nat
QueueCounts ==
  \A r \in Requests : \A T :
    /\ Of(down, r, T) \in Nat /\ Of(frames, r, T) \in Nat /\ Of(up, r, T) \in Nat
    /\ Of(data, r, T) \in Nat /\ Of(inbox[r], r, T) \in Nat /\ Of(xfer.queue, r, T) \in Nat
Numbers ==
  /\ xfer.sent \in Nat /\ xfer.got \in Nat /\ xfer.size \in Nat
  /\ \A r \in Requests :
       /\ req[r] \in Record /\ req[r].sent \in Nat /\ req[r].got \in Nat /\ req[r].size \in Nat
       /\ req[r].at \in Steps /\ req[r].kind \in Transfers \cup Controls

\* Every count is a number.
LEMMA Counted == Shape => Counts /\ QueueCounts /\ Numbers
<1> SUFFICES ASSUME Shape PROVE Counts /\ QueueCounts /\ Numbers
  OBVIOUS
<1>1. QueueCounts
  <2>1. ASSUME NEW r \in Requests
        PROVE  \A T : /\ Of(down, r, T) \in Nat /\ Of(frames, r, T) \in Nat /\ Of(up, r, T) \in Nat
                      /\ Of(data, r, T) \in Nat /\ Of(inbox[r], r, T) \in Nat
                      /\ Of(xfer.queue, r, T) \in Nat
    <3>1. /\ down \in Seq(Message) /\ frames \in Seq(Message) /\ up \in Seq(Message)
          /\ data \in Seq(Message) /\ xfer.queue \in Seq(Message) /\ inbox[r] \in Seq(Message)
      BY AllMessages
    <3> QED BY <3>1, OfNat
  <2> QED BY <2>1 DEF QueueCounts
<1>2. Counts
  BY <1>1 DEF Counts, QueueCounts, Starts, Finishes, Readies, Verdicts, Sent, Got, Gones
<1>3. Numbers
  BY RecordTypes DEF Numbers, Record, Shape, XferTypes, Transfer
<1> QED BY <1>1, <1>2, <1>3

\* The window has room, and sizes are numbers.
LEMMA Constants == Window \in Nat \ {0} /\ \A r \in Requests : Size[r] \in Nat /\ r # None
  BY FileTransferAssumption

\* The handler waits as it did, goes on one step, or is over.
GoesOn(r) ==
  /\ req'[r].kind = req[r].kind /\ req'[r].size = req[r].size
  /\ req'[r].sent = req[r].sent /\ req'[r].got = req[r].got
  /\ \/ req'[r].at = req[r].at
     \/ req'[r].at \in Over
     \/ req[r].at = "agent" /\ req'[r].at = "slot"
     \/ req[r].at = "ready" /\ req'[r].at = "opened"
     \/ req[r].at = "opened" /\ req'[r].at = "streaming"

\* Nothing new is under way of the request.
Falls(r) ==
  /\ Starts(r)' <= Starts(r) /\ Finishes(r)' <= Finishes(r) /\ Readies(r)' <= Readies(r)
  /\ Sent(r)' <= Sent(r) /\ Gones(r)' <= Gones(r)
  /\ Verdicts(r)' <= Verdicts(r) + (IF xfer.req = r /\ xfer'.req # r THEN 1 ELSE 0)
  /\ Got(r)' <= Got(r) \/ (xfer.req = r /\ xfer'.req = r /\ req[r].kind = "download")
  /\ xfer'.req = r => /\ xfer.req = r /\ (xfer'.at \in {"opening", "creating"} => xfer.at \in {"opening", "creating"})
                      /\ req[r].kind = "download" =>
                           Got(r)' - (xfer'.sent - xfer'.got) <= Got(r) - (xfer.sent - xfer.got)
  /\ Untouched(r) => temp'[r] = "none" /\ backup'[r] = None

\* A request keeps its bounds when nothing new is under way of it and its handler
\* only goes on one step.
LEMMA FallsKeepsGood ==
  ASSUME Shape, Shape', NEW r \in Requests, Good(r), TaskFits, GoesOn(r), Falls(r)
  PROVE  Good(r)'
<1>0. Counts /\ Numbers /\ Counts' /\ Numbers'
  BY Counted, PTL
<1>1. /\ Starts(r) \in Nat /\ Finishes(r) \in Nat /\ Readies(r) \in Nat /\ Verdicts(r) \in Nat
      /\ Sent(r) \in Nat /\ Got(r) \in Nat /\ Gones(r) \in Nat
  BY <1>0 DEF Counts
<1>2. /\ Starts(r)' \in Nat /\ Finishes(r)' \in Nat /\ Readies(r)' \in Nat /\ Verdicts(r)' \in Nat
      /\ Sent(r)' \in Nat /\ Got(r)' \in Nat /\ Gones(r)' \in Nat
  BY <1>0 DEF Counts
<1>3. /\ req[r].sent \in Nat /\ req[r].got \in Nat /\ req[r].size \in Nat
      /\ xfer.sent \in Nat /\ xfer.got \in Nat /\ Window \in Nat
      /\ Size[r] \in Nat /\ r # None
  BY <1>0, Constants DEF Numbers
<1>4. xfer'.sent \in Nat /\ xfer'.got \in Nat
  BY <1>0 DEF Numbers
<1>5. req'[r].sent = req[r].sent /\ req'[r].got = req[r].got /\ req'[r].size = req[r].size
      /\ req'[r].kind = req[r].kind
  BY DEF GoesOn
<1>6. Early(r)' => Early(r)
  BY DEF GoesOn, Early, Over
<1>7. Untouched(r)' => Untouched(r)
  BY <1>1, <1>2, <1>6 DEF Untouched, Falls
<1>8. Starts(r)' <= (IF Early(r)' THEN 0 ELSE 1) /\ Gones(r)' <= (IF Early(r)' THEN 0 ELSE 1)
  BY <1>1, <1>2, <1>6 DEF Good, Falls
<1>9. UntouchedIsClean(r)'
  <2> SUFFICES ASSUME Untouched(r)' PROVE (UntouchedIsClean(r)!2)'
    BY DEF UntouchedIsClean
  <2>1. Untouched(r) /\ UntouchedIsClean(r)!2
    BY <1>7 DEF Good, UntouchedIsClean
  <2>2. xfer'.req # r /\ temp'[r] = "none" /\ backup'[r] = None
    BY <2>1 DEF Falls
  <2>3. Finishes(r)' = 0 /\ Readies(r)' = 0 /\ Verdicts(r)' = 0 /\ Sent(r)' = 0 /\ Got(r)' = 0
    BY <1>1, <1>2, <2>1 DEF Falls
  <2>4. req'[r].at \in {"idle", "agent", "slot", "starting"} \cup Over
    BY <2>1 DEF GoesOn, Over
  <2> QED BY <1>5, <2>1, <2>2, <2>3, <2>4
<1>10. req'[r].at = "starting" => req'[r].sent = 0 /\ req'[r].got = 0
  BY <1>5 DEF GoesOn, Good, Over
<1>11. Readies(r)' <= (IF Opens(r)' THEN 0 ELSE 1) /\ Verdicts(r)' <= (IF xfer'.req = r THEN 0 ELSE 1)
  BY <1>1, <1>2 DEF Good, Falls, Opens
<1>12. UploadFits(r)'
  BY <1>1, <1>2, <1>3, <1>5 DEF Good, UploadFits, Falls, GoesOn, Over
<1>13. DownloadFits(r)'
  <2>1. CASE req[r].kind # "download"
    BY <1>1, <1>2, <1>5, <2>1 DEF Good, DownloadFits, Falls
  <2>2. CASE req[r].kind = "download" /\ xfer'.req = r
    <3>1. Got(r) <= xfer.sent - xfer.got
      BY <2>2 DEF Good, DownloadFits, InWindow, Falls
    <3>2. Got(r)' <= xfer'.sent - xfer'.got
      BY <1>1, <1>2, <1>3, <1>4, <2>2, <3>1 DEF Falls
    <3> QED BY <1>5, <2>2, <3>2 DEF DownloadFits, InWindow
  <2>3. CASE req[r].kind = "download" /\ xfer'.req # r
    <3>1. Got(r)' <= Got(r)
      BY <2>3 DEF Falls
    <3>2. Got(r) <= Window
      BY <1>1, <1>3, <2>3 DEF Good, DownloadFits, InWindow, TaskFits
    <3>3. Got(r)' <= Window
      BY <1>1, <1>2, <1>3, <3>1, <3>2
    <3> QED BY <1>5, <2>3, <3>3 DEF DownloadFits, InWindow
  <2> QED BY <2>1, <2>2, <2>3
<1> QED BY <1>5, <1>8, <1>9, <1>10, <1>11, <1>12, <1>13 DEF Good

\* Messages are taken off the queues, or dropped with them.
UpLess(r) ==
  /\ Of(up', r, {"ready"}) <= Of(up, r, {"ready"}) /\ Of(up', r, {"ack"}) <= Of(up, r, {"ack"})
  /\ Of(up', r, Finals) <= Of(up, r, Finals) + (IF xfer.req = r /\ xfer'.req # r THEN 1 ELSE 0)
Less(r) ==
  /\ \A T : /\ Of(frames', r, T) <= Of(frames, r, T) /\ Of(data', r, T) <= Of(data, r, T)
            /\ Of(xfer'.queue, r, T) <= Of(xfer.queue, r, T)
            /\ "cancel" \notin T => Of(down', r, T) <= Of(down, r, T)
            /\ "gone" \notin T => Of(inbox'[r], r, T) <= Of(inbox[r], r, T)
  /\ UpLess(r)
  /\ Gones(r)' <= Gones(r)
  /\ xfer'.req = r => /\ xfer.req = r /\ (xfer'.at \in {"opening", "creating"} => xfer.at \in {"opening", "creating"})
                      /\ xfer'.sent = xfer.sent /\ xfer'.got = xfer.got
  /\ Untouched(r) => temp'[r] = "none" /\ backup'[r] = None

\* Messages that are taken off or dropped add nothing that is under way.
LEMMA LessFalls ==
  ASSUME Shape, Shape', NEW r \in Requests, Less(r)
  PROVE  Falls(r)
<1>1. Counts /\ QueueCounts /\ Numbers /\ Counts' /\ QueueCounts' /\ Numbers'
  BY Counted, PTL
<1>2. \A T : /\ Of(down, r, T) \in Nat /\ Of(frames, r, T) \in Nat /\ Of(up, r, T) \in Nat
             /\ Of(data, r, T) \in Nat /\ Of(inbox[r], r, T) \in Nat
             /\ Of(xfer.queue, r, T) \in Nat
  BY <1>1 DEF QueueCounts
<1>3. \A T : /\ Of(down', r, T) \in Nat /\ Of(frames', r, T) \in Nat /\ Of(up', r, T) \in Nat
             /\ Of(data', r, T) \in Nat /\ Of(inbox'[r], r, T) \in Nat
             /\ Of(xfer'.queue, r, T) \in Nat
  BY <1>1 DEF QueueCounts
<1>4. Starts(r)' <= Starts(r) /\ Finishes(r)' <= Finishes(r)
  BY <1>2, <1>3 DEF Starts, Finishes, Less
<1>a. /\ "gone" \notin {"ready"} /\ "gone" \notin {"ack"} /\ "gone" \notin {"chunk"}
      /\ "gone" \notin Finals
  BY DEF Finals
<1>b. /\ Of(inbox'[r], r, {"ready"}) <= Of(inbox[r], r, {"ready"})
      /\ Of(inbox'[r], r, {"ack"}) <= Of(inbox[r], r, {"ack"})
      /\ Of(inbox'[r], r, {"chunk"}) <= Of(inbox[r], r, {"chunk"})
      /\ Of(inbox'[r], r, Finals) <= Of(inbox[r], r, Finals)
  BY <1>a DEF Less
<1>5. Readies(r)' <= Readies(r)
  BY <1>2, <1>3, <1>b DEF Readies, Less, UpLess
<1>6. Verdicts(r)' <= Verdicts(r) + (IF xfer.req = r /\ xfer'.req # r THEN 1 ELSE 0)
  BY <1>2, <1>3, <1>b DEF Verdicts, Less, UpLess
<1>7. Sent(r)' <= Sent(r)
  BY <1>2, <1>3, <1>b DEF Sent, Less, UpLess
<1>8. Got(r)' <= Got(r)
  BY <1>2, <1>3, <1>b DEF Got, Less
<1>9. Gones(r)' <= Gones(r)
  BY DEF Less
<1>10. xfer.sent \in Nat /\ xfer.got \in Nat /\ Got(r) \in Nat /\ Got(r)' \in Nat
  BY <1>1 DEF Numbers, Counts
<1>11. xfer'.req = r => /\ xfer.req = r /\ (xfer'.at \in {"opening", "creating"} => xfer.at \in {"opening", "creating"})
                        /\ Got(r)' - (xfer'.sent - xfer'.got) <= Got(r) - (xfer.sent - xfer.got)
  BY <1>8, <1>10 DEF Less
<1> QED BY <1>4, <1>5, <1>6, <1>7, <1>8, <1>9, <1>11 DEF Falls, Less

\* A queue without its head counts no more.
LEMMA TailLess ==
  ASSUME NEW q \in Seq(Message), q # <<>>, NEW r, NEW T
  PROVE  Of(Tail(q), r, T) <= Of(q, r, T)
<1>1. Tail(q) \in Seq(Message)
  BY SeqFacts
<1>2. Of(Tail(q), r, T) \in Nat /\ Of(q, r, T) \in Nat
  BY <1>1, OfNat
<1>3. Is(Head(q), r, T) \in {0, 1}
  BY DEF Is
<1> QED BY <1>2, <1>3, OfTail

\* A response adds itself to what the agent sent, and nothing else.
LEMMA SayFacts ==
  ASSUME Shape, NEW STATE r, r \in Requests, NEW STATE t, t \in Types, NEW STATE n, n \in Nat,
         Say(Msg(r, t, n))
  PROVE  \A s, T : Of(up', s, T) = Of(up, s, T) + (IF r = s /\ t \in T THEN 1 ELSE 0)
<1>1. up \in Seq(Message)
  BY AllMessages
<1>2. Msg(r, t, n) \in Message
        /\ \A s, types : Is(Msg(r, t, n), s, types) = IF r = s /\ t \in types THEN 1 ELSE 0
  BY MsgFacts
<1>3. \A s, types : Of(Append(up, Msg(r, t, n)), s, types) = Of(up, s, types) + Is(Msg(r, t, n), s, types)
  BY <1>1, <1>2, OfAppend
<1> QED BY <1>2, <1>3 DEF Say

\* The transfer of the agent ends with its verdict, or without a word.
LEMMA EndLess ==
  ASSUME Shape, Shape', Ends, NEW r \in Requests,
         \/ UNCHANGED up
         \/ up' = <<>>
         \/ \E t \in Finals, n \in Nat : xfer.req \in Requests /\ Say(Msg(xfer.req, t, n))
  PROVE  /\ UpLess(r)
         /\ \A T : Of(xfer'.queue, r, T) <= Of(xfer.queue, r, T)
         /\ xfer'.req # r
<1>1. QueueCounts /\ r # None
  BY Counted, Constants
<1>2. \A T : Of(up, r, T) \in Nat /\ Of(xfer.queue, r, T) \in Nat
  BY <1>1 DEF QueueCounts
<1>3. xfer'.queue = <<>> /\ xfer'.req # r
  BY <1>1 DEF Ends, NoXfer
<1>4. \A T : Of(xfer'.queue, r, T) <= Of(xfer.queue, r, T)
  BY <1>2, <1>3, OfEmpty
<1>5. UpLess(r)
  <2>1. CASE UNCHANGED up
    BY <1>2, <1>3, <2>1 DEF UpLess
  <2>3. CASE up' = <<>>
    BY <1>2, <1>3, <2>3, OfEmpty DEF UpLess
  <2>2. ASSUME NEW t \in Finals, NEW n \in Nat, xfer.req \in Requests, Say(Msg(xfer.req, t, n))
        PROVE  UpLess(r)
    <3>1. t \in Types /\ t # "ready" /\ t # "ack"
      BY DEF Types, Finals
    <3>2. \A s, T : Of(up', s, T) = Of(up, s, T) + (IF xfer.req = s /\ t \in T THEN 1 ELSE 0)
      BY <2>2, <3>1, SayFacts
    <3>3. /\ Of(up', r, {"ready"}) = Of(up, r, {"ready"})
          /\ Of(up', r, {"ack"}) = Of(up, r, {"ack"})
      BY <1>2, <3>1, <3>2
    <3>4. Of(up', r, Finals) = Of(up, r, Finals) + (IF xfer.req = r THEN 1 ELSE 0)
      BY <3>2
    <3> QED BY <1>2, <1>3, <3>3, <3>4 DEF UpLess
  <2> QED BY <2>1, <2>2, <2>3
<1> QED BY <1>3, <1>4, <1>5

Underway == TaskFits /\ \A r \in Requests : Good(r)

\* Nothing moves for a request on the wires.
LEMMA QuietLess ==
  ASSUME Shape, Shape', Underway, NEW r \in Requests,
         UNCHANGED <<wires, inbox>>, pending'[r] \in {0, pending[r]},
         xfer'.queue = xfer.queue, xfer'.req = xfer.req, xfer'.sent = xfer.sent, xfer'.got = xfer.got,
         xfer'.at \in {"opening", "creating"} => xfer.at \in {"opening", "creating"},
         xfer.req # r => temp'[r] = temp[r] /\ backup'[r] = backup[r]
  PROVE  Falls(r)
<1>1. QueueCounts /\ Counts /\ Counts'
  BY Counted, PTL
<1>2. \A T : /\ Of(down, r, T) \in Nat /\ Of(frames, r, T) \in Nat /\ Of(up, r, T) \in Nat
             /\ Of(data, r, T) \in Nat /\ Of(inbox[r], r, T) \in Nat
             /\ Of(xfer.queue, r, T) \in Nat
  BY <1>1 DEF QueueCounts
<1>3. UpLess(r)
  BY <1>2 DEF UpLess, wires
<1>4. Untouched(r) => temp'[r] = "none" /\ backup'[r] = None
  BY DEF Underway, Good, UntouchedIsClean
<1>5. Gones(r)' <= Gones(r)
  BY <1>2 DEF Gones
<1>6. \A T : /\ Of(frames', r, T) <= Of(frames, r, T) /\ Of(data', r, T) <= Of(data, r, T)
             /\ Of(xfer'.queue, r, T) <= Of(xfer.queue, r, T)
             /\ Of(down', r, T) <= Of(down, r, T)
             /\ Of(inbox'[r], r, T) <= Of(inbox[r], r, T)
  BY <1>2 DEF wires
<1>7. Less(r)
  BY <1>3, <1>4, <1>5, <1>6 DEF Less
<1> QED BY <1>7, LessFalls

\* Steps that touch no queue keep the bounds: a connection that comes or goes at one
\* end, and a handler that waits, fails, is left, polled or forgotten.
LEMMA QuietKeeps ==
  ASSUME Shape, Shape', Underway,
         \/ \E c \in Conns : Connect(c) \/ Lose(c) \/ Vanish(c)
         \/ Created
         \/ \E r \in Requests :
              \/ TakeSlot(r) \/ Leave(r) \/ Timeout(r) \/ BodyBreaks(r) \/ OpenStream(r) \/ Poll(r)
              \/ Recorded(r) \/ Unrecorded(r) \/ Forget(r)
         \/ UNCHANGED vars
  PROVE  Underway'
<1>1. /\ UNCHANGED <<wires, inbox, xfer, temp, backup>>
      /\ \A s \in Requests : pending'[s] \in {0, pending[s]}
  BY DEF Connect, Lose, Vanish, Created, TakeSlot, Leave, Timeout, BodyBreaks, OpenStream, Poll, Recorded,
         Unrecorded, Forget, vars, net, server, disk, Shape, ServerTypes
<1>2. \A s \in Requests : GoesOn(s)
  <2>1. CASE UNCHANGED req
    BY <2>1 DEF GoesOn
  <2>2. ASSUME NEW r \in Requests, NEW a \in Steps, req' = [req EXCEPT ![r].at = a],
               \/ a \in Over
               \/ req[r].at = "agent" /\ a = "slot"
               \/ req[r].at = "ready" /\ a = "opened"
               \/ req[r].at = "opened" /\ a = "streaming"
        PROVE  \A s \in Requests : GoesOn(s)
    <3>1. req \in [Requests -> Record]
      BY DEF Shape, ServerTypes
    <3>2. \A s \in Requests : s # r => req'[s] = req[s]
      BY <2>2, <3>1
    <3>3. /\ req'[r].at = a /\ req'[r].kind = req[r].kind /\ req'[r].size = req[r].size
          /\ req'[r].sent = req[r].sent /\ req'[r].got = req[r].got
      BY <2>2, <3>1 DEF Record
    <3> QED BY <2>2, <3>2, <3>3 DEF GoesOn
  <2>3. {"slot", "failed", "abandoned", "opened", "streaming"} \subseteq Steps
        /\ "failed" \in Over /\ "abandoned" \in Over
    BY DEF Steps, Over
  <2>4. \/ UNCHANGED req
        \/ \E r \in Requests :
             \/ \E a \in {"failed", "abandoned"} : req' = [req EXCEPT ![r].at = a]
             \/ req[r].at = "agent" /\ req' = [req EXCEPT ![r].at = "slot"]
             \/ req[r].at = "ready" /\ req' = [req EXCEPT ![r].at = "opened"]
             \/ req[r].at = "opened" /\ req' = [req EXCEPT ![r].at = "streaming"]
    BY DEF Connect, Lose, Vanish, Created, TakeSlot, Leave, LeavesEarly, Timeout, BodyBreaks, OpenStream, Poll,
           Recorded, Unrecorded, Forget, Fails, vars, server
  <2> QED BY <2>1, <2>2, <2>3, <2>4
<1>3. \A s \in Requests : Falls(s)
  BY <1>1, QuietLess
<1>4. \A s \in Requests : Good(s)'
  BY <1>2, <1>3, FallsKeepsGood DEF Underway
<1>5. TaskFits'
  <2>1. xfer.req # None => req'[xfer.req].kind = req[xfer.req].kind
    BY <1>2 DEF GoesOn, Shape, XferTypes, Transfer
  <2> QED BY <1>1, <2>1 DEF TaskFits, Underway
<1> QED BY <1>4, <1>5 DEF Underway

\* The sweep of a connection tells each request once that it is gone.
LEMMA SweepKeeps ==
  ASSUME Shape, Shape', Underway, NEW c \in Conns, Sweep(c)
  PROVE  Underway'
<1>1. UNCHANGED <<wires, req, xfer, temp, backup>>
  BY DEF Sweep, disk
<1>2. QueueCounts /\ QueueCounts'
  BY Counted, PTL
<1>3. ASSUME NEW r \in Requests PROVE Falls(r)
  <2>1. \A T : /\ Of(down, r, T) \in Nat /\ Of(frames, r, T) \in Nat /\ Of(up, r, T) \in Nat
               /\ Of(data, r, T) \in Nat /\ Of(inbox[r], r, T) \in Nat
               /\ Of(xfer.queue, r, T) \in Nat
    BY <1>2 DEF QueueCounts
  <2>2. UpLess(r)
    BY <1>1, <2>1 DEF UpLess, wires
  <2>3. Untouched(r) => temp'[r] = "none" /\ backup'[r] = None
    BY <1>1 DEF Underway, Good, UntouchedIsClean
  <2>4. \A T : /\ Of(frames', r, T) <= Of(frames, r, T) /\ Of(data', r, T) <= Of(data, r, T)
               /\ Of(xfer'.queue, r, T) <= Of(xfer.queue, r, T)
               /\ Of(down', r, T) <= Of(down, r, T)
    BY <1>1, <2>1 DEF wires
  <2>5. inbox[r] \in Seq(Message) /\ Msg(r, "gone", 0) \in Message
        /\ \A T : Is(Msg(r, "gone", 0), r, T) = IF "gone" \in T THEN 1 ELSE 0
    BY AllMessages, MsgFacts DEF Types
  <2>6. /\ \A T : "gone" \notin T => Of(inbox'[r], r, T) <= Of(inbox[r], r, T)
        /\ Gones(r)' <= Gones(r)
    <3>1. CASE r \in Swept(c)
      <4>1. pending[r] # 0 /\ pending'[r] = 0
        BY <3>1, FileTransferAssumption DEF Swept, Sweep, Conns
      <4>2. inbox'[r] = inbox[r] \/ inbox'[r] = Append(inbox[r], Msg(r, "gone", 0))
        BY <3>1 DEF Sweep
      <4>3. \A T : Of(Append(inbox[r], Msg(r, "gone", 0)), r, T)
                     = Of(inbox[r], r, T) + (IF "gone" \in T THEN 1 ELSE 0)
        BY <2>5, OfAppend
      <4>4. \A T : Of(inbox'[r], r, T) <= Of(inbox[r], r, T) + (IF "gone" \in T THEN 1 ELSE 0)
        <5> SUFFICES ASSUME NEW T
                     PROVE  Of(inbox'[r], r, T) <= Of(inbox[r], r, T) + (IF "gone" \in T THEN 1 ELSE 0)
          OBVIOUS
        <5>1. Of(inbox[r], r, T) \in Nat
          BY <2>1
        <5>2. CASE inbox'[r] = inbox[r]
          BY <5>1, <5>2
        <5>3. CASE inbox'[r] = Append(inbox[r], Msg(r, "gone", 0))
          BY <4>3, <5>1, <5>3
        <5> QED BY <4>2, <5>2, <5>3
      <4>5. \A T : "gone" \notin T => Of(inbox'[r], r, T) <= Of(inbox[r], r, T)
        <5> SUFFICES ASSUME NEW T, "gone" \notin T PROVE Of(inbox'[r], r, T) <= Of(inbox[r], r, T)
          OBVIOUS
        <5>1. Of(inbox[r], r, T) \in Nat
          BY <2>1
        <5> QED BY <4>4, <5>1
      <4>6. Of(inbox'[r], r, {"gone"}) <= Of(inbox[r], r, {"gone"}) + 1
        BY <4>4
      <4>7. Of(inbox[r], r, {"gone"}) \in Nat /\ Of(inbox'[r], r, {"gone"}) \in Nat
        BY <1>2 DEF QueueCounts
      <4>8. Gones(r)' <= Gones(r)
        BY <4>1, <4>6, <4>7 DEF Gones
      <4> QED BY <4>5, <4>8
    <3>2. CASE r \notin Swept(c)
      <4>1. inbox'[r] = inbox[r] /\ pending'[r] = pending[r]
        BY <3>2 DEF Sweep
      <4> QED BY <2>1, <4>1 DEF Gones
    <3> QED BY <3>1, <3>2
  <2>7. Less(r)
    BY <1>1, <2>2, <2>3, <2>4, <2>6 DEF Less
  <2> QED BY <2>7, LessFalls
<1>4. \A r \in Requests : GoesOn(r)
  BY <1>1 DEF GoesOn
<1>5. \A r \in Requests : Good(r)'
  BY <1>3, <1>4, FallsKeepsGood DEF Underway
<1> QED BY <1>1, <1>5 DEF Underway, TaskFits

\* The transfer of the agent ends.
LEMMA EndKeeps ==
  ASSUME Shape, Shape', Underway, Ends, UNCHANGED server,
         \A T : \A r \in Requests :
           /\ Of(down', r, T) <= Of(down, r, T) /\ Of(frames', r, T) <= Of(frames, r, T)
           /\ Of(data', r, T) <= Of(data, r, T),
         \/ UNCHANGED up
         \/ up' = <<>>
         \/ \E t \in Finals, n \in Nat : xfer.req \in Requests /\ Say(Msg(xfer.req, t, n)),
         \A r \in Requests :
           xfer.req # r => (temp[r] = "none" => temp'[r] = "none") /\ (backup[r] = None => backup'[r] = None)
  PROVE  Underway'
<1>1. UNCHANGED <<req, inbox, pending>>
  BY DEF server
<1>2. QueueCounts
  BY Counted
<1>3. ASSUME NEW r \in Requests PROVE Falls(r)
  <2>1. \A T : Of(inbox[r], r, T) \in Nat
    BY <1>2 DEF QueueCounts
  <2>2. /\ UpLess(r) /\ \A T : Of(xfer'.queue, r, T) <= Of(xfer.queue, r, T)
        /\ xfer'.req # r
    BY EndLess
  <2>3. Untouched(r) => temp'[r] = "none" /\ backup'[r] = None
    BY DEF Underway, Good, UntouchedIsClean
  <2>4. Gones(r)' <= Gones(r)
    BY <1>1, <2>1 DEF Gones
  <2>5. \A T : Of(inbox'[r], r, T) <= Of(inbox[r], r, T)
    BY <1>1, <2>1
  <2>6. Less(r)
    BY <2>2, <2>3, <2>4, <2>5 DEF Less
  <2> QED BY <2>6, LessFalls
<1>4. \A r \in Requests : GoesOn(r)
  BY <1>1 DEF GoesOn
<1>5. \A r \in Requests : Good(r)'
  BY <1>3, <1>4, FallsKeepsGood DEF Underway
<1>6. xfer'.req = None
  BY DEF Ends, NoXfer
<1> QED BY <1>5, <1>6 DEF Underway, TaskFits

\* An abort touches no file of another request.
LEMMA AbortedClean ==
  ASSUME Shape, Aborted, NEW r \in Requests, xfer.req # r
  PROVE  temp'[r] = temp[r] /\ backup'[r] = backup[r]
<1>1. temp'[r] = temp[r]
  BY DEF Aborted, Temporary
<1>2. backup'[r] = backup[r]
  BY DEF Aborted, Shape, DiskTypes
<1> QED BY <1>1, <1>2

\* A queue is left as it is, loses its head, or is dropped.
LEMMA Shrinks ==
  ASSUME NEW q \in Seq(Message), NEW p, p = q \/ (q # <<>> /\ p = Tail(q)) \/ p = <<>>
  PROVE  \A T : \A r \in Requests : Of(p, r, T) <= Of(q, r, T)
<1> SUFFICES ASSUME NEW T, NEW r \in Requests PROVE Of(p, r, T) <= Of(q, r, T)
  OBVIOUS
<1>1. Of(q, r, T) \in Nat
  BY OfNat
<1>2. CASE p = q
  BY <1>1, <1>2
<1>3. CASE q # <<>> /\ p = Tail(q)
  BY <1>3, TailLess
<1>4. CASE p = <<>>
  BY <1>1, <1>4, OfEmpty
<1> QED BY <1>2, <1>3, <1>4

\* The agent's end of a connection drops its queues with the transfer.
LEMMA DisconnectKeeps ==
  ASSUME Shape, Shape', Underway, Disconnect
  PROVE  Underway'
<1>1. down \in Seq(Message) /\ frames \in Seq(Message) /\ data \in Seq(Message)
  BY AllMessages
<1>2. down' = <<>> /\ frames' = <<>> /\ data' = <<>> /\ up' = <<>> /\ Aborted /\ Ends /\ UNCHANGED server
  BY DEF Disconnect, Aborted
<1>3. \A T : \A r \in Requests :
           /\ Of(down', r, T) <= Of(down, r, T) /\ Of(frames', r, T) <= Of(frames, r, T)
           /\ Of(data', r, T) <= Of(data, r, T)
  BY <1>1, <1>2, Shrinks
<1>4. \A r \in Requests :
           xfer.req # r => (temp[r] = "none" => temp'[r] = "none") /\ (backup[r] = None => backup'[r] = None)
  BY <1>2, AbortedClean
<1> QED BY <1>2, <1>3, <1>4, EndKeeps

\* Messages to the agent are taken by nobody.
LEMMA TakenAwayKeeps ==
  ASSUME Shape, Shape', Underway, UNCHANGED <<up, xfer, server, disk>>,
         \A T : \A r \in Requests :
           /\ Of(down', r, T) <= Of(down, r, T) /\ Of(frames', r, T) <= Of(frames, r, T)
           /\ Of(data', r, T) <= Of(data, r, T)
  PROVE  Underway'
<1>1. UNCHANGED <<req, inbox, pending, temp, backup, xfer>>
  BY DEF server, disk
<1>2. QueueCounts
  BY Counted
<1>3. ASSUME NEW r \in Requests PROVE Falls(r)
  <2>1. \A T : Of(inbox[r], r, T) \in Nat /\ Of(up, r, T) \in Nat /\ Of(xfer.queue, r, T) \in Nat
    BY <1>2 DEF QueueCounts
  <2>2. UpLess(r) /\ \A T : Of(xfer'.queue, r, T) <= Of(xfer.queue, r, T)
    BY <1>1, <2>1 DEF UpLess
  <2>3. Untouched(r) => temp'[r] = "none" /\ backup'[r] = None
    BY <1>1 DEF Underway, Good, UntouchedIsClean
  <2>4. Gones(r)' <= Gones(r)
    BY <1>1, <2>1 DEF Gones
  <2>5. \A T : Of(inbox'[r], r, T) <= Of(inbox[r], r, T)
    BY <1>1, <2>1
  <2>6. Less(r)
    BY <1>1, <2>2, <2>3, <2>4, <2>5 DEF Less
  <2> QED BY <2>6, LessFalls
<1>4. \A r \in Requests : GoesOn(r)
  BY <1>1 DEF GoesOn
<1>5. \A r \in Requests : Good(r)'
  BY <1>3, <1>4, FallsKeepsGood DEF Underway
<1> QED BY <1>1, <1>5 DEF Underway, TaskFits

\* A cancel ends the transfer it names, and nothing else.
LEMMA StopKeeps ==
  ASSUME Shape, Shape', Underway, Stop
  PROVE  Underway'
<1>1. down \in Seq(Message) /\ frames \in Seq(Message) /\ data \in Seq(Message)
  BY AllMessages
<1>2. /\ down # <<>> /\ down' = Tail(down) /\ frames' = frames /\ data' = data /\ up' = up
      /\ UNCHANGED server
  BY DEF Stop
<1>3. \A T : \A r \in Requests :
           /\ Of(down', r, T) <= Of(down, r, T) /\ Of(frames', r, T) <= Of(frames, r, T)
           /\ Of(data', r, T) <= Of(data, r, T)
  BY <1>1, <1>2, Shrinks
<1>4. CASE Aborted
  <2>1. \A r \in Requests :
           xfer.req # r => (temp[r] = "none" => temp'[r] = "none") /\ (backup[r] = None => backup'[r] = None)
    BY <1>4, AbortedClean
  <2>2. Ends
    BY <1>4 DEF Aborted
  <2> QED BY <1>2, <1>3, <2>1, <2>2, EndKeeps
<1>5. CASE UNCHANGED <<xfer, disk>>
  BY <1>2, <1>3, <1>5, TakenAwayKeeps
<1> QED BY <1>4, <1>5 DEF Stop

-----------------------------------------------------------------------------
(* The task of the agent's transfer *)

\* A task that fails gives its one verdict as it ends.
LEMMA TaskFailsKeeps ==
  ASSUME Shape, Shape', Underway, xfer.req \in Requests, TaskFails, UNCHANGED <<down, frames, data, server>>,
         backup' = backup \/ backup' = [backup EXCEPT ![xfer.req] = None]
  PROVE  Underway'
<1>1. down \in Seq(Message) /\ frames \in Seq(Message) /\ data \in Seq(Message)
  BY AllMessages
<1>2. \A T : \A r \in Requests :
           /\ Of(down', r, T) <= Of(down, r, T) /\ Of(frames', r, T) <= Of(frames, r, T)
           /\ Of(data', r, T) <= Of(data, r, T)
  BY <1>1, Shrinks
<1>3. ASSUME NEW r \in Requests, xfer.req # r
      PROVE  (temp[r] = "none" => temp'[r] = "none") /\ (backup[r] = None => backup'[r] = None)
  <2>1. temp'[r] = temp[r]
    BY <1>3 DEF TaskFails, Temporary
  <2>2. backup'[r] = backup[r]
    BY <1>3 DEF Shape, DiskTypes
  <2> QED BY <2>1, <2>2
<1>4. Ends /\ Say(Msg(xfer.req, "error", 0)) /\ "error" \in Finals
  BY DEF TaskFails, Finals
<1> QED BY <1>2, <1>3, <1>4, EndKeeps

\* A step of the task that says nothing.
LEMMA SilentKeeps ==
  ASSUME Shape, Shape', Underway, UNCHANGED <<wires, server>>,
         xfer'.queue = xfer.queue, xfer'.req = xfer.req, xfer'.sent = xfer.sent, xfer'.got = xfer.got,
         xfer'.kind = xfer.kind, xfer'.at \in {"opening", "creating"} => xfer.at \in {"opening", "creating"},
         \A r \in Requests : xfer.req # r => temp'[r] = temp[r] /\ backup'[r] = backup[r]
  PROVE  Underway'
<1>1. UNCHANGED <<req, inbox, pending>>
  BY DEF server
<1>2. \A r \in Requests : Falls(r)
  BY <1>1, QuietLess
<1>3. \A r \in Requests : GoesOn(r)
  BY <1>1 DEF GoesOn
<1>4. \A r \in Requests : Good(r)'
  BY <1>2, <1>3, FallsKeepsGood DEF Underway
<1> QED BY <1>1, <1>4 DEF Underway, TaskFits

\* The steps of a commit say nothing until the verdict.
LEMMA CommitKeeps ==
  ASSUME Shape, Shape', Underway,
         Check \/ SetAside \/ Rename \/ RenameFails \/ Committed \/ SentAll
  PROVE  Underway'
<1>1. xfer.req \in Requests /\ xfer \in Transfer
  BY DEF Check, SetAside, Rename, RenameFails, Committed, SentAll, Sending, Shape, XferTypes, Transfer
<1>2. temp \in [Requests -> {"none", "part", "left"}] /\ backup \in [Requests -> Contents]
  BY DEF Shape, DiskTypes
<1>3. ASSUME NEW a, a \notin {"opening", "creating"}, xfer' = [xfer EXCEPT !.at = a]
      PROVE  /\ xfer'.queue = xfer.queue /\ xfer'.req = xfer.req /\ xfer'.sent = xfer.sent /\ xfer'.got = xfer.got
             /\ xfer'.kind = xfer.kind /\ xfer'.at \notin {"opening", "creating"}
  BY <1>1, <1>3 DEF Transfer
<1>4. CASE Check
  <2>1. CASE TaskFails
    BY <1>1, <1>4, <2>1, TaskFailsKeeps DEF Check
  <2>2. CASE ~TaskFails
    <3>1. /\ \E a \in {"renaming", "backing"} : xfer' = [xfer EXCEPT !.at = a]
          /\ UNCHANGED <<wires, server, temp, backup>>
      BY <1>4, <2>2 DEF Check, wires
    <3> QED BY <1>3, <3>1, SilentKeeps
  <2> QED BY <2>1, <2>2
<1>5. CASE SetAside
  <2>1. CASE TaskFails /\ UNCHANGED <<backup, target>>
    BY <1>1, <1>5, <2>1, TaskFailsKeeps DEF SetAside
  <2>2. CASE ~(TaskFails /\ UNCHANGED <<backup, target>>)
    <3>1. /\ backup' = [backup EXCEPT ![xfer.req] = target]
          /\ xfer' = [xfer EXCEPT !.at = "renaming"]
          /\ UNCHANGED <<wires, server, temp>>
      BY <1>5, <2>2 DEF SetAside, wires
    <3>2. \A r \in Requests : xfer.req # r => backup'[r] = backup[r]
      BY <1>2, <3>1
    <3> QED BY <1>3, <3>1, <3>2, SilentKeeps
  <2> QED BY <2>1, <2>2
<1>6. CASE Rename
  <2>1. /\ temp' = [temp EXCEPT ![xfer.req] = "none"]
        /\ xfer' = [xfer EXCEPT !.at = "clearing"]
        /\ UNCHANGED <<wires, server, backup>>
    BY <1>6 DEF Rename
  <2>2. \A r \in Requests : xfer.req # r => temp'[r] = temp[r]
    BY <1>2, <2>1
  <2> QED BY <1>3, <2>1, <2>2, SilentKeeps
<1>7. CASE RenameFails
  BY <1>1, <1>7, TaskFailsKeeps DEF RenameFails
<1>8. ASSUME Ends, UNCHANGED <<down, frames, data, server, temp>>,
             backup' = backup \/ backup' = [backup EXCEPT ![xfer.req] = None],
             \E n \in Nat : Say(Msg(xfer.req, "complete", n))
      PROVE  Underway'
  <2>1. down \in Seq(Message) /\ frames \in Seq(Message) /\ data \in Seq(Message)
    BY AllMessages
  <2>2. \A T : \A r \in Requests :
             /\ Of(down', r, T) <= Of(down, r, T) /\ Of(frames', r, T) <= Of(frames, r, T)
             /\ Of(data', r, T) <= Of(data, r, T)
    BY <1>8, <2>1, Shrinks
  <2>3. \A r \in Requests : xfer.req # r => temp'[r] = temp[r] /\ backup'[r] = backup[r]
    BY <1>2, <1>8
  <2>4. \E t \in Finals, n \in Nat : xfer.req \in Requests /\ Say(Msg(xfer.req, t, n))
    BY <1>1, <1>8 DEF Finals
  <2> QED BY <1>8, <2>2, <2>3, <2>4, EndKeeps
<1>9. xfer.got \in Nat /\ xfer.size \in Nat
  BY <1>1 DEF Transfer
<1>10. CASE Committed
  BY <1>8, <1>9, <1>10 DEF Committed
<1>11. CASE SentAll
  BY <1>8, <1>9, <1>11 DEF SentAll, disk
<1> QED BY <1>4, <1>5, <1>6, <1>7, <1>10, <1>11

\* An upload that looks for a file of its name says nothing either.
LEMMA LookKeeps ==
  ASSUME Shape, Shape', Underway, Look
  PROVE  Underway'
<1>1. xfer.req \in Requests /\ xfer \in Transfer /\ xfer.at = "opening"
  BY DEF Look, Shape, XferTypes, Transfer
<1>2. CASE TaskFails
  BY <1>1, <1>2, TaskFailsKeeps DEF Look
<1>3. CASE ~TaskFails
  <2>1. /\ xfer' = [xfer EXCEPT !.at = "creating"]
        /\ UNCHANGED <<wires, server, temp, backup>>
    BY <1>3 DEF Look, wires
  <2>2. /\ xfer'.queue = xfer.queue /\ xfer'.req = xfer.req /\ xfer'.sent = xfer.sent /\ xfer'.got = xfer.got
        /\ xfer'.kind = xfer.kind
    BY <1>1, <2>1 DEF Transfer
  <2> QED BY <1>1, <2>1, <2>2, SilentKeeps
<1> QED BY <1>2, <1>3

\* A transfer is ready once.
LEMMA OpenKeeps ==
  ASSUME Shape, Shape', Underway, Open
  PROVE  Underway'
<1>1. xfer.req \in Requests /\ xfer \in Transfer /\ xfer.at \in {"opening", "creating"}
  BY DEF Open, Opening, Shape, XferTypes, Transfer
<1>2. CASE TaskFails
  BY <1>1, <1>2, TaskFailsKeeps DEF Open
<1>3. CASE ~TaskFails
  <2>1. /\ xfer' = [xfer EXCEPT !.at = "moving"] /\ Say(Msg(xfer.req, "ready", xfer.size))
        /\ \A r \in Requests : xfer.req # r => temp'[r] = temp[r]
        /\ UNCHANGED <<net, down, frames, data, server, target, backup>>
    BY <1>3 DEF Open, Temporary
  <2>2. /\ xfer'.queue = xfer.queue /\ xfer'.req = xfer.req /\ xfer'.sent = xfer.sent /\ xfer'.got = xfer.got
        /\ xfer'.kind = xfer.kind /\ xfer'.at = "moving" /\ xfer.size \in Nat
    BY <1>1, <2>1 DEF Transfer
  <2>3. UNCHANGED <<req, inbox, pending>>
    BY <2>1 DEF server
  <2>4. \A s, T : Of(up', s, T) = Of(up, s, T) + (IF xfer.req = s /\ "ready" \in T THEN 1 ELSE 0)
    <3>1. "ready" \in Types
      BY DEF Types
    <3> QED BY <1>1, <2>1, <2>2, <3>1, SayFacts
  <2>5. "ready" \notin Finals
    BY DEF Finals
  <2>6. QueueCounts /\ Counts /\ Counts'
    BY Counted, PTL
  <2>7. ASSUME NEW r \in Requests
        PROVE  /\ Starts(r)' = Starts(r) /\ Finishes(r)' = Finishes(r) /\ Verdicts(r)' = Verdicts(r)
               /\ Sent(r)' = Sent(r) /\ Got(r)' = Got(r) /\ Gones(r)' = Gones(r)
               /\ Readies(r)' = Readies(r) + (IF xfer.req = r THEN 1 ELSE 0)
    <3>1. /\ Of(up', r, {"ready"}) = Of(up, r, {"ready"}) + (IF xfer.req = r THEN 1 ELSE 0)
          /\ Of(up', r, {"ack"}) = Of(up, r, {"ack"}) /\ Of(up', r, Finals) = Of(up, r, Finals)
      BY <2>4, <2>5, <2>6 DEF QueueCounts
    <3>2. Of(up, r, {"ready"}) \in Nat /\ Of(inbox[r], r, {"ready"}) \in Nat
      BY <2>6 DEF QueueCounts
    <3>3. /\ Starts(r)' = Starts(r) /\ Finishes(r)' = Finishes(r) /\ Verdicts(r)' = Verdicts(r)
          /\ Sent(r)' = Sent(r) /\ Got(r)' = Got(r) /\ Gones(r)' = Gones(r)
      BY <2>1, <2>2, <2>3, <3>1 DEF Starts, Finishes, Verdicts, Sent, Got, Gones
    <3>4. Readies(r)' = Readies(r) + (IF xfer.req = r THEN 1 ELSE 0)
      BY <2>3, <3>1, <3>2 DEF Readies
    <3> QED BY <3>3, <3>4
  <2>8. ASSUME NEW r \in Requests, xfer.req # r PROVE Good(r)'
    <3>1. temp'[r] = temp[r]
      BY <2>1, <2>8 DEF Shape, DiskTypes
    <3>2. Counts
      BY <2>6
    <3>3. Falls(r)
      BY <2>1, <2>2, <2>7, <2>8, <3>1, <3>2 DEF Falls, Counts, Underway, Good, UntouchedIsClean
    <3>4. GoesOn(r)
      BY <2>3 DEF GoesOn
    <3> QED BY <3>3, <3>4, FallsKeepsGood DEF Underway
  <2>9. ASSUME NEW r \in Requests, xfer.req = r PROVE Good(r)'
    <3>1. Readies(r) = 0 /\ ~Untouched(r)
      BY <1>1, <2>6, <2>9 DEF Underway, Good, UntouchedIsClean, Opens, Counts
    <3>2. Readies(r)' = 1 /\ ~Untouched(r)'
      BY <2>3, <2>7, <2>9, <3>1 DEF Untouched, Early
    <3>3. Good(r)
      BY DEF Underway
    <3> QED BY <2>2, <2>3, <2>7, <2>9, <3>1, <3>2, <3>3
            DEF Good, UntouchedIsClean, UploadFits, DownloadFits, InWindow, Opens, Early
  <2> QED BY <2>2, <2>3, <2>8, <2>9 DEF Underway, TaskFits
<1> QED BY <1>2, <1>3

\* The task goes on with nothing new under way.
LEMMA TaskFallsKeeps ==
  ASSUME Shape, Shape', Underway, UNCHANGED <<server, disk>>,
         xfer'.req = xfer.req, xfer'.kind = xfer.kind,
         xfer.req # None => xfer'.sent - xfer'.got <= Window,
         \A r \in Requests : Falls(r)
  PROVE  Underway'
<1>1. UNCHANGED req
  BY DEF server
<1>2. \A r \in Requests : GoesOn(r)
  BY <1>1 DEF GoesOn
<1>3. \A r \in Requests : Good(r)'
  BY <1>2, FallsKeepsGood DEF Underway
<1> QED BY <1>1, <1>3 DEF Underway, TaskFits

\* The head of the queue is of the transfer that runs.
LEMMA HeadFacts ==
  ASSUME Shape, xfer.queue # <<>>
  PROVE  LET m == Head(xfer.queue) IN
         /\ m \in Message /\ m.req = xfer.req /\ m.n \in Nat
         /\ m.type = "ack" <=> xfer.kind = "download"
         /\ \A s, T : Of(xfer.queue, s, T) = Of(Tail(xfer.queue), s, T)
                                             + (IF xfer.req = s /\ m.type \in T THEN 1 ELSE 0)
<1>1. xfer.queue \in Seq(Parcels) /\ xfer.queue \in Seq(Message)
  BY AllMessages DEF Shape, XferTypes
<1> DEFINE m == Head(xfer.queue)
<1>2. m \in Parcels
  BY <1>1, SeqFacts
<1>3. m \in Message /\ m.req = xfer.req /\ m.n \in Nat /\ (m.type = "ack" <=> xfer.kind = "download")
  BY <1>2 DEF Parcels, Message
<1>4. \A s, T : Of(xfer.queue, s, T) = Of(Tail(xfer.queue), s, T) + Is(m, s, T)
  BY <1>1, OfTail
<1>5. \A s, T : Is(m, s, T) = IF xfer.req = s /\ m.type \in T THEN 1 ELSE 0
  BY <1>3 DEF Is
<1> HIDE DEF m
<1>6. \A s, T : Of(xfer.queue, s, T) = Of(Tail(xfer.queue), s, T)
                                             + (IF xfer.req = s /\ m.type \in T THEN 1 ELSE 0)
  BY <1>4, <1>5
<1> QED BY <1>3, <1>6 DEF m

\* The chunk that an upload writes becomes its acknowledgement.
LEMMA WriteKeeps ==
  ASSUME Shape, Shape', Underway, Write
  PROVE  Underway'
<1> DEFINE m == Head(xfer.queue)
<1>1. /\ xfer.req \in Requests /\ xfer \in Transfer /\ xfer.queue # <<>> /\ xfer.kind = "upload"
      /\ UNCHANGED <<net, down, frames, data, server, target, backup>>
  BY DEF Write, Shape, XferTypes, Transfer
<1>2. /\ m \in Message /\ m.req = xfer.req /\ m.n \in Nat
      /\ \A s, T : Of(xfer.queue, s, T) = Of(Tail(xfer.queue), s, T)
                                             + (IF xfer.req = s /\ m.type \in T THEN 1 ELSE 0)
  BY <1>1, HeadFacts
<1>3. UNCHANGED <<req, inbox, pending, backup, down, frames, data>>
  BY <1>1 DEF server
<1>4. QueueCounts /\ Counts /\ Counts' /\ QueueCounts' /\ Numbers
  BY Counted, PTL
<1>5. xfer.sent \in Nat /\ xfer.got \in Nat /\ xfer.sent - xfer.got <= Window /\ Window \in Nat
      /\ xfer.req # None
  BY <1>1, <1>4, Constants DEF Numbers, Underway, TaskFits
<1>6. req[xfer.req].kind = "upload"
  BY <1>1, <1>5 DEF Underway, TaskFits
<1>7. CASE TaskFails
  BY <1>1, <1>7, TaskFailsKeeps
<1>8. CASE /\ m.type = "chunk"
           /\ xfer' = [xfer EXCEPT !.queue = Tail(@), !.got = @ + 1]
           /\ Say(Msg(xfer.req, "ack", m.n)) /\ UNCHANGED temp
  <2>1. /\ xfer'.queue = Tail(xfer.queue) /\ xfer'.req = xfer.req /\ xfer'.sent = xfer.sent
        /\ xfer'.got = xfer.got + 1 /\ xfer'.kind = xfer.kind /\ xfer'.at = xfer.at
    BY <1>1, <1>8 DEF Transfer
  <2>2. \A s, T : Of(up', s, T) = Of(up, s, T) + (IF xfer.req = s /\ "ack" \in T THEN 1 ELSE 0)
    <3>1. "ack" \in Types
      BY DEF Types
    <3> QED BY <1>1, <1>2, <1>8, <3>1, SayFacts
  <2>3. ASSUME NEW r \in Requests PROVE Falls(r)
    <3>1. /\ Of(up', r, {"ready"}) = Of(up, r, {"ready"})
          /\ Of(up', r, {"ack"}) = Of(up, r, {"ack"}) + (IF xfer.req = r THEN 1 ELSE 0)
          /\ Of(up', r, Finals) = Of(up, r, Finals)
      BY <1>4, <2>2 DEF QueueCounts, Finals
    <3>2. /\ Of(xfer.queue, r, {"finish"}) = Of(xfer'.queue, r, {"finish"})
          /\ Of(xfer.queue, r, {"chunk"}) = Of(xfer'.queue, r, {"chunk"}) + (IF xfer.req = r THEN 1 ELSE 0)
          /\ Of(xfer.queue, r, {"ack"}) = Of(xfer'.queue, r, {"ack"})
      BY <1>2, <1>4, <1>8, <2>1 DEF QueueCounts
    <3>3. /\ Of(up, r, {"ack"}) \in Nat /\ Of(xfer'.queue, r, {"chunk"}) \in Nat
          /\ Of(frames, r, {"chunk"}) \in Nat /\ Of(inbox[r], r, {"ack"}) \in Nat
      BY <1>4 DEF QueueCounts
    <3>4. Sent(r)' = Sent(r)
      BY <1>3, <3>1, <3>2, <3>3 DEF Sent
    <3>5. /\ Starts(r)' = Starts(r) /\ Finishes(r)' = Finishes(r) /\ Readies(r)' = Readies(r)
          /\ Verdicts(r)' = Verdicts(r) /\ Got(r)' = Got(r) /\ Gones(r)' = Gones(r)
      BY <1>3, <3>1, <3>2 DEF Starts, Finishes, Readies, Verdicts, Got, Gones
    <3>6. xfer.req = r => req[r].kind # "download"
      BY <1>6
    <3>7. Untouched(r) => temp'[r] = "none" /\ backup'[r] = None
      BY <1>3, <1>8 DEF Underway, Good, UntouchedIsClean
    <3> QED BY <1>4, <2>1, <3>4, <3>5, <3>6, <3>7 DEF Falls, Counts
  <2>4. xfer'.sent - xfer'.got <= Window
    BY <1>5, <2>1
  <2> QED BY <1>1, <1>8, <2>1, <2>3, <2>4, TaskFallsKeeps DEF disk
<1>9. CASE xfer' = [xfer EXCEPT !.queue = Tail(@), !.at = "checking"] /\ UNCHANGED <<up, temp>>
  <2>1. /\ xfer'.queue = Tail(xfer.queue) /\ xfer'.req = xfer.req /\ xfer'.sent = xfer.sent
        /\ xfer'.got = xfer.got /\ xfer'.kind = xfer.kind /\ xfer'.at \notin {"opening", "creating"}
    BY <1>1, <1>9 DEF Transfer
  <2>3. ASSUME NEW r \in Requests PROVE Falls(r)
    <3>1. \A T : /\ Of(down, r, T) \in Nat /\ Of(frames, r, T) \in Nat /\ Of(up, r, T) \in Nat
                 /\ Of(data, r, T) \in Nat /\ Of(inbox[r], r, T) \in Nat
                 /\ Of(xfer.queue, r, T) \in Nat /\ Of(xfer'.queue, r, T) \in Nat
      BY <1>4 DEF QueueCounts
    <3>2. UpLess(r)
      BY <1>9, <3>1 DEF UpLess
    <3>3. Untouched(r) => temp'[r] = "none" /\ backup'[r] = None
      BY <1>3, <1>9 DEF Underway, Good, UntouchedIsClean
    <3>4. Gones(r)' <= Gones(r)
      BY <1>3, <3>1 DEF Gones
    <3>5. \A T : Of(xfer'.queue, r, T) <= Of(xfer.queue, r, T)
      BY <1>2, <2>1, <3>1
    <3>6. \A T : /\ Of(frames', r, T) <= Of(frames, r, T) /\ Of(data', r, T) <= Of(data, r, T)
                 /\ Of(down', r, T) <= Of(down, r, T)
                 /\ Of(inbox'[r], r, T) <= Of(inbox[r], r, T)
      BY <1>3, <3>1
    <3>7. Less(r)
      BY <2>1, <3>2, <3>3, <3>4, <3>5, <3>6 DEF Less
    <3> QED BY <3>7, LessFalls
  <2> QED BY <1>1, <1>5, <1>9, <2>1, <2>3, TaskFallsKeeps DEF disk
<1> QED BY <1>7, <1>8, <1>9 DEF Write

\* A download sends a chunk while its window has room.
LEMMA ReadKeeps ==
  ASSUME Shape, Shape', Underway, Read
  PROVE  Underway'
<1>1. /\ xfer.req \in Requests /\ xfer \in Transfer /\ xfer.kind = "download"
      /\ UNCHANGED <<net, down, frames, server, target, backup>>
  BY DEF Read, Sending, Shape, XferTypes, Transfer
<1>2. CASE TaskFails /\ UNCHANGED data
  BY <1>1, <1>2, TaskFailsKeeps
<1>3. CASE ~(TaskFails /\ UNCHANGED data)
  <2>1. /\ data' = Append(data, Msg(xfer.req, "chunk", xfer.sent))
        /\ xfer' = [xfer EXCEPT !.sent = @ + 1] /\ UNCHANGED <<up, temp>>
        /\ xfer.sent - xfer.got < Window
    BY <1>3 DEF Read, InFlight
  <2>2. QueueCounts /\ Counts /\ Counts' /\ QueueCounts' /\ Numbers
    BY Counted, PTL
  <2>3. /\ xfer.sent \in Nat /\ xfer.got \in Nat /\ Window \in Nat /\ xfer.req # None
        /\ req[xfer.req].kind = "download"
    BY <1>1, <2>2, Constants DEF Numbers, Underway, TaskFits
  <2>4. /\ xfer'.queue = xfer.queue /\ xfer'.req = xfer.req /\ xfer'.sent = xfer.sent + 1
        /\ xfer'.got = xfer.got /\ xfer'.kind = xfer.kind /\ xfer'.at = xfer.at
    BY <1>1, <2>1 DEF Transfer
  <2>5. UNCHANGED <<req, inbox, pending, backup, temp, down, frames, up>>
    BY <1>1, <2>1 DEF server
  <2>6. \A s, T : Of(data', s, T) = Of(data, s, T) + (IF xfer.req = s /\ "chunk" \in T THEN 1 ELSE 0)
    <3>1. data \in Seq(Message)
      BY AllMessages
    <3>2. "chunk" \in Types
      BY DEF Types
    <3>3. Msg(xfer.req, "chunk", xfer.sent) \in Message
          /\ \A s, T : Is(Msg(xfer.req, "chunk", xfer.sent), s, T) = IF xfer.req = s /\ "chunk" \in T THEN 1 ELSE 0
      BY <1>1, <2>3, <3>2, MsgFacts
    <3> QED BY <2>1, <3>1, <3>3, OfAppend
  <2>7. ASSUME NEW r \in Requests PROVE Falls(r)
    <3>1. Of(data', r, {"chunk"}) = Of(data, r, {"chunk"}) + (IF xfer.req = r THEN 1 ELSE 0)
      BY <2>6
    <3>2. /\ Of(data, r, {"chunk"}) \in Nat /\ Of(xfer.queue, r, {"ack"}) \in Nat
          /\ Of(down, r, {"ack"}) \in Nat /\ Of(inbox[r], r, {"chunk"}) \in Nat
      BY <2>2 DEF QueueCounts
    <3>3. Got(r)' = Got(r) + (IF xfer.req = r THEN 1 ELSE 0)
      BY <2>4, <2>5, <3>1, <3>2 DEF Got
    <3>4. /\ Starts(r)' = Starts(r) /\ Finishes(r)' = Finishes(r) /\ Readies(r)' = Readies(r)
          /\ Verdicts(r)' = Verdicts(r) /\ Sent(r)' = Sent(r) /\ Gones(r)' = Gones(r)
      BY <2>4, <2>5 DEF Starts, Finishes, Readies, Verdicts, Sent, Gones
    <3>5. Untouched(r) => temp'[r] = "none" /\ backup'[r] = None
      BY <2>5 DEF Underway, Good, UntouchedIsClean
    <3> QED BY <2>2, <2>3, <2>4, <3>3, <3>4, <3>5 DEF Falls, Counts
  <2>8. xfer'.sent - xfer'.got <= Window
    BY <2>1, <2>3, <2>4
  <2> QED BY <1>1, <2>1, <2>4, <2>7, <2>8, TaskFallsKeeps DEF disk
<1> QED BY <1>2, <1>3

\* An acknowledgement gives room back.
LEMMA TakeAckKeeps ==
  ASSUME Shape, Shape', Underway, TakeAck
  PROVE  Underway'
<1> DEFINE m == Head(xfer.queue)
<1>1. /\ xfer.req \in Requests /\ xfer \in Transfer /\ xfer.kind = "download" /\ xfer.queue # <<>>
      /\ UNCHANGED <<net, down, frames, data, server, target, backup>>
  BY DEF TakeAck, Sending, Shape, XferTypes, Transfer
<1>2. CASE TaskFails
  BY <1>1, <1>2, TaskFailsKeeps
<1>3. CASE ~TaskFails
  <2>1. xfer' = [xfer EXCEPT !.queue = Tail(@), !.got = @ + 1] /\ UNCHANGED <<up, temp>>
    BY <1>3 DEF TakeAck
  <2>2. QueueCounts /\ Counts /\ Counts' /\ QueueCounts' /\ Numbers
    BY Counted, PTL
  <2>3. /\ xfer.sent \in Nat /\ xfer.got \in Nat /\ Window \in Nat /\ xfer.req # None
        /\ xfer.sent - xfer.got <= Window
    BY <1>1, <2>2, Constants DEF Numbers, Underway, TaskFits
  <2>4. /\ xfer'.queue = Tail(xfer.queue) /\ xfer'.req = xfer.req /\ xfer'.sent = xfer.sent
        /\ xfer'.got = xfer.got + 1 /\ xfer'.kind = xfer.kind /\ xfer'.at = xfer.at
    BY <1>1, <2>1 DEF Transfer
  <2>5. UNCHANGED <<req, inbox, pending, backup, temp, down, frames, data, up>>
    BY <1>1, <2>1 DEF server
  <2>6. /\ m.type = "ack"
        /\ \A s, T : Of(xfer.queue, s, T) = Of(Tail(xfer.queue), s, T)
                                             + (IF xfer.req = s /\ m.type \in T THEN 1 ELSE 0)
    BY <1>1, HeadFacts
  <2>7. ASSUME NEW r \in Requests PROVE Falls(r)
    <3>1. /\ Of(xfer.queue, r, {"finish"}) = Of(xfer'.queue, r, {"finish"})
          /\ Of(xfer.queue, r, {"chunk"}) = Of(xfer'.queue, r, {"chunk"})
          /\ Of(xfer.queue, r, {"ack"}) = Of(xfer'.queue, r, {"ack"}) + (IF xfer.req = r THEN 1 ELSE 0)
      BY <2>2, <2>4, <2>6 DEF QueueCounts
    <3>2. /\ Of(data, r, {"chunk"}) \in Nat /\ Of(xfer'.queue, r, {"ack"}) \in Nat
          /\ Of(down, r, {"ack"}) \in Nat /\ Of(inbox[r], r, {"chunk"}) \in Nat
      BY <2>2 DEF QueueCounts
    <3>3. Got(r)' = Got(r) - (IF xfer.req = r THEN 1 ELSE 0)
      BY <2>5, <3>1, <3>2 DEF Got
    <3>4. /\ Starts(r)' = Starts(r) /\ Finishes(r)' = Finishes(r) /\ Readies(r)' = Readies(r)
          /\ Verdicts(r)' = Verdicts(r) /\ Sent(r)' = Sent(r) /\ Gones(r)' = Gones(r)
      BY <2>5, <3>1 DEF Starts, Finishes, Readies, Verdicts, Sent, Gones
    <3>5. Untouched(r) => temp'[r] = "none" /\ backup'[r] = None
      BY <2>5 DEF Underway, Good, UntouchedIsClean
    <3> QED BY <2>2, <2>3, <2>4, <3>3, <3>4, <3>5 DEF Falls, Counts
  <2>8. xfer'.sent - xfer'.got <= Window
    BY <2>3, <2>4
  <2> QED BY <1>1, <2>1, <2>4, <2>7, <2>8, TaskFallsKeeps DEF disk
<1> QED BY <1>2, <1>3

-----------------------------------------------------------------------------
(* The loops of both ends *)

\* A message moves from a queue to the transfer it is for.
LEMMA HandOver ==
  ASSUME Shape, Shape', Underway, UNCHANGED <<up, data, server, disk>>,
         NEW STATE m, m \in Message, m.type \in {"finish", "ack", "chunk"},
         xfer' = [xfer EXCEPT !.queue = Append(@, m)],
         \/ /\ down # <<>> /\ m = Head(down) /\ down' = Tail(down) /\ frames' = frames
            /\ m.type # "chunk"
         \/ /\ frames # <<>> /\ m = Head(frames) /\ frames' = Tail(frames) /\ down' = down
            /\ m.type = "chunk"
  PROVE  Underway'
<1>1. QueueCounts /\ Counts /\ Counts' /\ QueueCounts' /\ Numbers
  BY Counted, PTL
<1>2. down \in Seq(Message) /\ frames \in Seq(Message) /\ xfer.queue \in Seq(Message)
  BY AllMessages
<1>3. /\ xfer'.queue = Append(xfer.queue, m) /\ xfer'.req = xfer.req /\ xfer'.sent = xfer.sent
      /\ xfer'.got = xfer.got /\ xfer'.kind = xfer.kind /\ xfer'.at = xfer.at
  BY DEF Shape, XferTypes, Transfer
<1>4. UNCHANGED <<req, inbox, pending, temp, backup>>
  BY DEF server, disk
<1>5. \A s, T : Of(xfer'.queue, s, T) = Of(xfer.queue, s, T) + Is(m, s, T)
  BY <1>2, <1>3, OfAppend
<1>6. /\ xfer.sent \in Nat /\ xfer.got \in Nat /\ Window \in Nat
      /\ xfer.req # None => xfer.sent - xfer.got <= Window
  BY <1>1, Constants DEF Numbers, Underway, TaskFits
<1>7. ASSUME NEW r \in Requests PROVE Falls(r)
  <2>1. /\ Of(down, r, {"finish"}) \in Nat /\ Of(xfer.queue, r, {"finish"}) \in Nat
        /\ Of(down', r, {"finish"}) \in Nat
        /\ Of(down, r, {"ack"}) \in Nat /\ Of(xfer.queue, r, {"ack"}) \in Nat
        /\ Of(down', r, {"ack"}) \in Nat /\ Of(down', r, {"start"}) \in Nat
        /\ Of(frames, r, {"chunk"}) \in Nat /\ Of(xfer.queue, r, {"chunk"}) \in Nat
        /\ Of(frames', r, {"chunk"}) \in Nat
        /\ Of(up, r, {"ack"}) \in Nat /\ Of(inbox[r], r, {"ack"}) \in Nat
        /\ Of(data, r, {"chunk"}) \in Nat /\ Of(inbox[r], r, {"chunk"}) \in Nat
    BY <1>1 DEF QueueCounts
  <2>2. /\ Of(xfer'.queue, r, {"finish"}) = Of(xfer.queue, r, {"finish"}) + Is(m, r, {"finish"})
        /\ Of(xfer'.queue, r, {"chunk"}) = Of(xfer.queue, r, {"chunk"}) + Is(m, r, {"chunk"})
        /\ Of(xfer'.queue, r, {"ack"}) = Of(xfer.queue, r, {"ack"}) + Is(m, r, {"ack"})
    BY <1>5
  <2>3. /\ Is(m, r, {"start"}) = 0
        /\ Is(m, r, {"finish"}) \in {0, 1} /\ Is(m, r, {"ack"}) \in {0, 1} /\ Is(m, r, {"chunk"}) \in {0, 1}
        /\ m.type = "chunk" => Is(m, r, {"finish"}) = 0 /\ Is(m, r, {"ack"}) = 0
        /\ m.type # "chunk" => Is(m, r, {"chunk"}) = 0
    BY DEF Is
  <2>4. /\ Starts(r)' = Starts(r) /\ Finishes(r)' = Finishes(r) /\ Sent(r)' = Sent(r) /\ Got(r)' = Got(r)
    <3>1. CASE down # <<>> /\ m = Head(down) /\ down' = Tail(down) /\ frames' = frames /\ m.type # "chunk"
      <4>1. /\ Of(down, r, {"start"}) = Of(down', r, {"start"}) + Is(m, r, {"start"})
            /\ Of(down, r, {"finish"}) = Of(down', r, {"finish"}) + Is(m, r, {"finish"})
            /\ Of(down, r, {"ack"}) = Of(down', r, {"ack"}) + Is(m, r, {"ack"})
        BY <1>2, <3>1, OfTail
      <4>2. Starts(r)' = Starts(r)
        BY <2>1, <2>3, <4>1 DEF Starts
      <4>3. Finishes(r)' = Finishes(r)
        BY <2>1, <2>2, <2>3, <4>1 DEF Finishes
      <4>4. Of(xfer'.queue, r, {"chunk"}) = Of(xfer.queue, r, {"chunk"})
        BY <2>1, <2>2, <2>3, <3>1
      <4>5. Sent(r)' = Sent(r)
        BY <1>4, <3>1, <4>4 DEF Sent
      <4>6. Got(r)' = Got(r)
        <5>1. Of(down', r, {"ack"}) + Of(xfer'.queue, r, {"ack"})
                = Of(down, r, {"ack"}) + Of(xfer.queue, r, {"ack"})
          BY <2>1, <2>2, <2>3, <4>1
        <5>2. /\ Of(data', r, {"chunk"}) = Of(data, r, {"chunk"})
              /\ Of(inbox'[r], r, {"chunk"}) = Of(inbox[r], r, {"chunk"})
          BY <1>4
        <5>3. /\ Of(xfer'.queue, r, {"ack"}) \in Nat /\ Of(down', r, {"ack"}) \in Nat
          BY <1>1 DEF QueueCounts
        <5>4. /\ Of(down, r, {"ack"}) \in Nat /\ Of(xfer.queue, r, {"ack"}) \in Nat
              /\ Of(data, r, {"chunk"}) \in Nat /\ Of(inbox[r], r, {"chunk"}) \in Nat
          BY <1>1 DEF QueueCounts
        <5> QED BY <5>1, <5>2, <5>3, <5>4 DEF Got
      <4> QED BY <4>2, <4>3, <4>5, <4>6
    <3>2. CASE frames # <<>> /\ m = Head(frames) /\ frames' = Tail(frames) /\ down' = down /\ m.type = "chunk"
      <4>1. Of(frames, r, {"chunk"}) = Of(frames', r, {"chunk"}) + Is(m, r, {"chunk"})
        BY <1>2, <3>2, OfTail
      <4>2. /\ Of(xfer'.queue, r, {"finish"}) = Of(xfer.queue, r, {"finish"})
            /\ Of(xfer'.queue, r, {"ack"}) = Of(xfer.queue, r, {"ack"})
        BY <2>1, <2>2, <2>3, <3>2
      <4>3. Starts(r)' = Starts(r) /\ Finishes(r)' = Finishes(r) /\ Got(r)' = Got(r)
        BY <1>4, <3>2, <4>2 DEF Starts, Finishes, Got
      <4>4. Sent(r)' = Sent(r)
        <5>1. Of(frames', r, {"chunk"}) + Of(xfer'.queue, r, {"chunk"})
                = Of(frames, r, {"chunk"}) + Of(xfer.queue, r, {"chunk"})
          BY <2>1, <2>2, <2>3, <4>1
        <5>2. /\ Of(up', r, {"ack"}) = Of(up, r, {"ack"})
              /\ Of(inbox'[r], r, {"ack"}) = Of(inbox[r], r, {"ack"})
          BY <1>4
        <5>3. /\ Of(xfer'.queue, r, {"chunk"}) \in Nat /\ Of(frames', r, {"chunk"}) \in Nat
          BY <1>1 DEF QueueCounts
        <5> QED BY <2>1, <5>1, <5>2, <5>3 DEF Sent
      <4> QED BY <4>3, <4>4
    <3> QED BY <3>1, <3>2
  <2>5. Readies(r)' = Readies(r) /\ Verdicts(r)' = Verdicts(r) /\ Gones(r)' = Gones(r)
    BY <1>4 DEF Readies, Verdicts, Gones
  <2>6. Untouched(r) => temp'[r] = "none" /\ backup'[r] = None
    BY <1>4 DEF Underway, Good, UntouchedIsClean
  <2>7. /\ Starts(r) \in Nat /\ Finishes(r) \in Nat /\ Readies(r) \in Nat /\ Verdicts(r) \in Nat
        /\ Sent(r) \in Nat /\ Got(r) \in Nat /\ Gones(r) \in Nat
    BY <1>1 DEF Counts
  <2>8. xfer'.req = r => /\ xfer.req = r /\ (xfer'.at \in {"opening", "creating"} => xfer.at \in {"opening", "creating"})
                         /\ Got(r)' - (xfer'.sent - xfer'.got) <= Got(r) - (xfer.sent - xfer.got)
    BY <1>3, <1>6, <2>4, <2>7
  <2> QED BY <2>4, <2>5, <2>6, <2>7, <2>8 DEF Falls
<1> QED BY <1>3, <1>6, <1>7, TaskFallsKeeps

\* The transfer is told that it is busy, and ends.
LEMMA BusyKeeps ==
  ASSUME Shape, Shape', Underway, UNCHANGED server, NEW STATE m, m.req = xfer.req, m.req \in Requests,
         Aborted, Say(Msg(m.req, "error", 0)),
         \A T : \A r \in Requests :
           /\ Of(down', r, T) <= Of(down, r, T) /\ Of(frames', r, T) <= Of(frames, r, T)
           /\ Of(data', r, T) <= Of(data, r, T)
  PROVE  Underway'
<1>1. \A r \in Requests :
           xfer.req # r => (temp[r] = "none" => temp'[r] = "none") /\ (backup[r] = None => backup'[r] = None)
  BY AbortedClean
<1>2. Ends /\ Say(Msg(xfer.req, "error", 0)) /\ "error" \in Finals
  BY DEF Aborted, Finals
<1> QED BY <1>1, <1>2, EndKeeps

\* What the agent's loop hands to the transfer was under way already.
LEMMA AgentKeeps ==
  ASSUME Shape, Shape', Underway, FinishUpload \/ AcknowledgeDownload \/ Frame
  PROVE  Underway'
<1>1. /\ down \in Seq(Message) /\ frames \in Seq(Message) /\ data \in Seq(Message)
      /\ frames \in Seq(Pieces)
  BY AllMessages DEF Shape, WireTypes
<1>2. ASSUME NEW STATE m, m \in Message, m.type \in {"finish", "ack", "chunk"}, Takes(m),
             UNCHANGED <<data, server>>,
             \/ /\ down # <<>> /\ m = Head(down) /\ down' = Tail(down) /\ frames' = frames
                /\ m.type # "chunk"
             \/ /\ frames # <<>> /\ m = Head(frames) /\ frames' = Tail(frames) /\ down' = down
                /\ m.type = "chunk"
      PROVE  Underway'
  <2>1. \A T : \A r \in Requests :
           /\ Of(down', r, T) <= Of(down, r, T) /\ Of(frames', r, T) <= Of(frames, r, T)
           /\ Of(data', r, T) <= Of(data, r, T)
    BY <1>1, <1>2, Shrinks
  <2>2. CASE UNCHANGED <<xfer, up, disk>>
    BY <1>2, <2>1, <2>2, TakenAwayKeeps
  <2>3. CASE xfer' = [xfer EXCEPT !.queue = Append(@, m)] /\ UNCHANGED <<up, disk>>
    BY <1>2, <2>3, HandOver
  <2>4. CASE xfer.req = m.req /\ Aborted /\ Say(Msg(m.req, "error", 0))
    <3>1. m.req \in Requests
      BY <1>2 DEF Message
    <3> QED BY <1>2, <2>1, <2>4, <3>1, BusyKeeps
  <2> QED BY <1>2, <2>2, <2>3, <2>4 DEF Takes
<1>3. CASE FinishUpload \/ AcknowledgeDownload
  <2>1. /\ down # <<>> /\ Head(down).type \in {"finish", "ack"} /\ down' = Tail(down)
        /\ Takes(Head(down)) /\ UNCHANGED <<frames, data, server>>
    BY <1>3 DEF FinishUpload, AcknowledgeDownload
  <2>2. Head(down) \in Message
    BY <1>1, <2>1, SeqFacts
  <2> QED BY <1>2, <2>1, <2>2
<1>4. CASE Frame
  <2>1. /\ frames # <<>> /\ frames' = Tail(frames)
        /\ Takes(Head(frames)) /\ UNCHANGED <<down, data, server>>
    BY <1>4 DEF Frame
  <2>2. Head(frames) \in Message /\ Head(frames).type = "chunk"
    BY <1>1, <2>1, SeqFacts DEF Pieces
  <2> QED BY <1>2, <2>1, <2>2
<1> QED BY <1>3, <1>4

\* A message of the agent reaches its handler, or nobody.
LEMMA DeliverKeeps ==
  ASSUME Shape, Shape', Underway, Response \/ Chunk
  PROVE  Underway'
<1>1. QueueCounts /\ Counts /\ Counts' /\ QueueCounts' /\ Numbers
  BY Counted, PTL
<1>2. /\ down \in Seq(Message) /\ up \in Seq(Message) /\ data \in Seq(Message)
      /\ \A r \in Requests : inbox[r] \in Seq(Message)
      /\ down \in Seq(Orders) /\ up \in Seq(Answers) /\ data \in Seq(Pieces)
  BY AllMessages DEF Shape, WireTypes
<1>3. UNCHANGED <<net, frames, active, pending, req, drop, audit, xfer, disk>>
  BY DEF Response, Chunk
<1>4. PICK m \in Message :
        /\ inbox' = inbox \/ inbox' = [inbox EXCEPT ![m.req] = Append(@, m)]
        /\ \/ /\ Response /\ m = Head(up) /\ up # <<>> /\ up' = Tail(up) /\ data' = data /\ down' = down
              /\ m.type \in Finals \cup {"ready", "ack"}
           \/ /\ Chunk /\ m = Head(data) /\ data # <<>> /\ data' = Tail(data) /\ up' = up
              /\ m.type = "chunk"
              /\ down' = down \/ down' = Put(down, conn, Msg(m.req, "cancel", 0))
  <2>1. CASE Response
    <3>1. up # <<>> /\ Head(up) \in Answers
      BY <1>2, <2>1, SeqFacts DEF Response
    <3>2. Head(up) \in Message /\ Head(up).type \in Finals \cup {"ready", "ack"}
      BY <3>1 DEF Answers
    <3> QED BY <2>1, <3>1, <3>2 DEF Response
  <2>2. CASE Chunk
    <3>1. data # <<>> /\ Head(data) \in Pieces
      BY <1>2, <2>2, SeqFacts DEF Chunk
    <3>2. Head(data) \in Message /\ Head(data).type = "chunk"
      BY <3>1 DEF Pieces
    <3> QED BY <2>2, <3>1, <3>2 DEF Chunk
  <2> QED BY <2>1, <2>2
<1>5. m.req \in Requests
  BY DEF Message
<1>6. ASSUME NEW r \in Requests PROVE Falls(r)
  <2>1. \A T : /\ Of(down, r, T) \in Nat /\ Of(up, r, T) \in Nat /\ Of(data, r, T) \in Nat
               /\ Of(inbox[r], r, T) \in Nat /\ Of(frames, r, T) \in Nat /\ Of(xfer.queue, r, T) \in Nat
               /\ Of(down', r, T) \in Nat /\ Of(up', r, T) \in Nat /\ Of(data', r, T) \in Nat
               /\ Of(inbox'[r], r, T) \in Nat
    BY <1>1 DEF QueueCounts
  <2>2. \A T : Is(m, r, T) \in {0, 1}
    BY DEF Is
  <2>3. \A T : Of(inbox'[r], r, T) <= Of(inbox[r], r, T) + Is(m, r, T)
    <3> SUFFICES ASSUME NEW T PROVE Of(inbox'[r], r, T) <= Of(inbox[r], r, T) + Is(m, r, T)
      OBVIOUS
    <3>1. Of(inbox[r], r, T) \in Nat /\ Is(m, r, T) \in {0, 1}
      BY <2>1, <2>2
    <3>2. CASE inbox'[r] = inbox[r]
      BY <3>1, <3>2
    <3>3. CASE inbox'[r] = Append(inbox[r], m)
      <4>1. Of(Append(inbox[r], m), r, T) = Of(inbox[r], r, T) + Is(m, r, T)
        BY <1>2, OfAppend
      <4> QED BY <3>1, <3>3, <4>1
    <3>4. inbox'[r] = inbox[r] \/ inbox'[r] = Append(inbox[r], m)
      BY <1>4, <1>5 DEF Shape, BoxTypes
    <3> QED BY <3>2, <3>3, <3>4
  <2>4. \A T : "cancel" \notin T => Of(down', r, T) = Of(down, r, T)
    <3> SUFFICES ASSUME NEW T, "cancel" \notin T PROVE Of(down', r, T) = Of(down, r, T)
      OBVIOUS
    <3>1. CASE down' = down
      BY <3>1
    <3>2. CASE down' = Put(down, conn, Msg(m.req, "cancel", 0))
      <4>1. Msg(m.req, "cancel", 0) \in Orders
        BY <1>5, OrderFacts
      <4>2. Is(Msg(m.req, "cancel", 0), r, T) = 0
        BY DEF Is, Msg
      <4>3. Of(down, r, T) \in Nat
        BY <2>1
      <4> QED BY <1>2, <3>2, <4>1, <4>2, <4>3, PutAdds
    <3> QED BY <1>4, <3>1, <3>2
  <2>5. /\ Starts(r)' = Starts(r) /\ Finishes(r)' = Finishes(r)
        /\ Of(down', r, {"ack"}) = Of(down, r, {"ack"})
    BY <1>3, <2>4 DEF Starts, Finishes
  <2>6. UNCHANGED <<frames, xfer, req, pending, temp, backup>>
    BY <1>3 DEF disk
  <2>7. Gones(r)' <= Gones(r)
    <3>1. Is(m, r, {"gone"}) = 0
      BY <1>4 DEF Is, Finals
    <3>2. Of(inbox'[r], r, {"gone"}) <= Of(inbox[r], r, {"gone"})
      BY <2>1, <2>3, <3>1
    <3> QED BY <2>1, <2>6, <3>2 DEF Gones
  <2>8. Readies(r)' <= Readies(r) /\ Verdicts(r)' <= Verdicts(r) /\ Sent(r)' <= Sent(r) /\ Got(r)' <= Got(r)
    <3>1. CASE up # <<>> /\ m = Head(up) /\ up' = Tail(up) /\ data' = data /\ m.type # "chunk"
      <4>1. \A T : Of(up, r, T) = Of(up', r, T) + Is(m, r, T)
        BY <1>2, <3>1, OfTail
      <4>2. Is(m, r, {"chunk"}) = 0
        BY <3>1 DEF Is
      <4>3. Readies(r)' <= Readies(r) /\ Verdicts(r)' <= Verdicts(r)
        BY <2>1, <2>2, <2>3, <4>1 DEF Readies, Verdicts
      <4>4. Sent(r)' <= Sent(r)
        BY <2>1, <2>2, <2>3, <2>6, <4>1 DEF Sent
      <4>5. Got(r)' <= Got(r)
        <5>1. Of(inbox'[r], r, {"chunk"}) <= Of(inbox[r], r, {"chunk"})
          BY <2>1, <2>3, <4>2
        <5>2. data' = data /\ xfer' = xfer
          BY <2>6, <3>1
        <5> QED BY <2>1, <2>5, <5>1, <5>2 DEF Got
      <4> QED BY <4>3, <4>4, <4>5
    <3>2. CASE data # <<>> /\ m = Head(data) /\ data' = Tail(data) /\ up' = up /\ m.type = "chunk"
      <4>1. \A T : Of(data, r, T) = Of(data', r, T) + Is(m, r, T)
        BY <1>2, <3>2, OfTail
      <4>2. Is(m, r, {"ready"}) = 0 /\ Is(m, r, {"ack"}) = 0 /\ Is(m, r, Finals) = 0
        BY <3>2 DEF Is, Finals
      <4>a. /\ Of(inbox'[r], r, {"ready"}) <= Of(inbox[r], r, {"ready"})
            /\ Of(inbox'[r], r, {"ack"}) <= Of(inbox[r], r, {"ack"})
            /\ Of(inbox'[r], r, Finals) <= Of(inbox[r], r, Finals)
        BY <2>1, <2>3, <4>2
      <4>3. Readies(r)' <= Readies(r) /\ Verdicts(r)' <= Verdicts(r)
        <5>1. up' = up
          BY <3>2
        <5>2. Readies(r)' <= Readies(r)
          BY <2>1, <4>a, <5>1 DEF Readies
        <5>3. Verdicts(r)' <= Verdicts(r)
          BY <2>1, <4>a, <5>1 DEF Verdicts
        <5> QED BY <5>2, <5>3
      <4>4. Sent(r)' <= Sent(r)
        <5>1. up' = up /\ xfer' = xfer /\ frames' = frames
          BY <2>6, <3>2
        <5> QED BY <2>1, <4>a, <5>1 DEF Sent
      <4>5. Got(r)' <= Got(r)
        BY <2>1, <2>2, <2>3, <2>5, <2>6, <4>1 DEF Got
      <4> QED BY <4>3, <4>4, <4>5
    <3> QED BY <1>4, <3>1, <3>2 DEF Finals
  <2>9. Untouched(r) => temp'[r] = "none" /\ backup'[r] = None
    BY <2>6 DEF Underway, Good, UntouchedIsClean
  <2>10. /\ Starts(r) \in Nat /\ Finishes(r) \in Nat /\ Verdicts(r) \in Nat /\ Verdicts(r)' \in Nat
         /\ Got(r) \in Nat /\ Got(r)' \in Nat /\ xfer.sent \in Nat /\ xfer.got \in Nat
    BY <1>1 DEF Counts, Numbers
  <2>11. xfer'.req = r => /\ xfer.req = r /\ (xfer'.at \in {"opening", "creating"} => xfer.at \in {"opening", "creating"})
                          /\ Got(r)' - (xfer'.sent - xfer'.got) <= Got(r) - (xfer.sent - xfer.got)
    BY <2>6, <2>8, <2>10
  <2> QED BY <2>5, <2>6, <2>7, <2>8, <2>9, <2>10, <2>11 DEF Falls
<1>7. \A r \in Requests : GoesOn(r)
  BY <1>3 DEF GoesOn
<1>8. \A r \in Requests : Good(r)'
  BY <1>6, <1>7, FallsKeepsGood DEF Underway
<1> QED BY <1>3, <1>8 DEF Underway, TaskFits

-----------------------------------------------------------------------------
(* The handlers *)

\* What a step of one request leaves of another one.
LEMMA OthersKeep ==
  ASSUME Shape, Shape', Underway, NEW s \in Requests,
         req'[s] = req[s], inbox'[s] = inbox[s], pending'[s] = pending[s],
         temp'[s] = temp[s], backup'[s] = backup[s],
         xfer' = xfer \/ (xfer.req # s /\ xfer'.req # s /\ xfer'.queue = <<>>),
         \A T : /\ Of(down', s, T) <= Of(down, s, T) /\ Of(frames', s, T) <= Of(frames, s, T)
                /\ Of(up', s, T) <= Of(up, s, T) /\ Of(data', s, T) <= Of(data, s, T)
  PROVE  Good(s)'
<1>1. QueueCounts
  BY Counted
<1>2. \A T : Of(inbox[s], s, T) \in Nat /\ Of(xfer.queue, s, T) \in Nat /\ Of(up, s, T) \in Nat
             /\ Of(up, s, T) \in Nat
  BY <1>1 DEF QueueCounts
<1>3. QueueCounts'
  BY Counted, PTL
<1>4. UpLess(s)
  <2>1. /\ Of(up', s, {"ready"}) <= Of(up, s, {"ready"}) /\ Of(up', s, {"ack"}) <= Of(up, s, {"ack"})
        /\ Of(up', s, Finals) <= Of(up, s, Finals)
    OBVIOUS
  <2>2. Of(up', s, Finals) \in Nat /\ Of(up, s, Finals) \in Nat
    BY <1>1, <1>3 DEF QueueCounts
  <2> QED BY <2>1, <2>2 DEF UpLess
<1>5. \A T : Of(xfer'.queue, s, T) <= Of(xfer.queue, s, T)
  BY <1>2, OfEmpty
<1>6. Gones(s)' <= Gones(s)
  BY <1>2 DEF Gones
<1>7. Untouched(s) => temp'[s] = "none" /\ backup'[s] = None
  BY DEF Underway, Good, UntouchedIsClean
<1>8. \A T : Of(inbox'[s], s, T) <= Of(inbox[s], s, T)
  BY <1>2
<1>9. Less(s)
  BY <1>4, <1>5, <1>6, <1>7, <1>8 DEF Less
<1>10. GoesOn(s)
  BY DEF GoesOn
<1> QED BY <1>9, <1>10, LessFalls, FallsKeepsGood DEF Underway

\* What a message put on a connection adds.
LEMMA PutFacts ==
  ASSUME Shape, NEW r \in Requests, NEW t \in {"start", "finish", "ack", "cancel"}, NEW n \in Nat, NEW c,
         down' = Put(down, c, Msg(r, t, n))
  PROVE  /\ \A s \in Requests : \A T : s # r => Of(down', s, T) = Of(down, s, T)
         /\ \A T : t \notin T => Of(down', r, T) = Of(down, r, T)
         /\ \A T : Of(down', r, T) <= Of(down, r, T) + 1
<1>1. down \in Seq(Orders) /\ down \in Seq(Message) /\ Msg(r, t, n) \in Orders
  BY AllMessages, OrderFacts DEF Shape, WireTypes
<1>2. \A s, T : Of(down', s, T) = Of(down, s, T) + (IF Reaches(c) THEN Is(Msg(r, t, n), s, T) ELSE 0)
  BY <1>1, PutAdds
<1>3. \A s, T : Is(Msg(r, t, n), s, T) = IF r = s /\ t \in T THEN 1 ELSE 0
  BY DEF Is, Msg
<1>4. \A s \in Requests : \A T : Of(down, s, T) \in Nat
  BY Counted DEF QueueCounts
<1> QED BY <1>2, <1>3, <1>4

\* What a chunk put on a connection adds.
LEMMA PutPieceFacts ==
  ASSUME Shape, NEW r \in Requests, NEW n \in Nat, NEW c,
         frames' = Put(frames, c, Msg(r, "chunk", n))
  PROVE  /\ \A s \in Requests : \A T : s # r => Of(frames', s, T) = Of(frames, s, T)
         /\ \A T : Of(frames', r, T) <= Of(frames, r, T) + 1
<1>1. frames \in Seq(Pieces) /\ frames \in Seq(Message) /\ Msg(r, "chunk", n) \in Pieces
  BY AllMessages, OrderFacts DEF Shape, WireTypes
<1>2. \A s, T : Of(frames', s, T) = Of(frames, s, T)
                                    + (IF Reaches(c) THEN Is(Msg(r, "chunk", n), s, T) ELSE 0)
  BY <1>1, PutPiece
<1>3. \A s, T : Is(Msg(r, "chunk", n), s, T) = IF r = s /\ "chunk" \in T THEN 1 ELSE 0
  BY DEF Is, Msg
<1>4. \A s \in Requests : \A T : Of(frames, s, T) \in Nat
  BY Counted DEF QueueCounts
<1> QED BY <1>2, <1>3, <1>4

\* A handler that fails sends nothing.
LEMMA FailsKeeps ==
  ASSUME Shape, Shape', Underway, NEW r \in Requests, Fails(r),
         UNCHANGED <<wires, inbox, xfer, disk, pending>>
  PROVE  Underway'
<1>1. \A s \in Requests : Falls(s)
  BY QuietLess DEF disk
<1>2. req' = [req EXCEPT ![r].at = "failed"] /\ req \in [Requests -> Record]
  BY DEF Fails, Shape, ServerTypes
<1>3. \A s \in Requests : GoesOn(s)
  BY <1>2 DEF GoesOn, Record, Over
<1>4. \A s \in Requests : Good(s)'
  BY <1>1, <1>3, FallsKeepsGood DEF Underway
<1>5. TaskFits'
  <2>1. xfer.req # None => req'[xfer.req].kind = req[xfer.req].kind
    BY <1>3 DEF GoesOn, Shape, XferTypes, Transfer
  <2> QED BY <2>1 DEF TaskFits, Underway
<1> QED BY <1>4, <1>5 DEF Underway

\* Of a request that begins nothing is under way.
LEMMA BeginKeeps ==
  ASSUME Shape, Shape', Underway, NEW r \in Requests, NEW k \in Transfers \cup Controls, NEW o \in BOOLEAN,
         NEW n \in 0..Size[r], Taken(r, k, o, n)
  PROVE  Underway'
<1>1. UNCHANGED <<wires, inbox, pending, xfer, temp, backup>>
  BY DEF Taken, disk
<1>2. req \in [Requests -> Record] /\ QueueCounts /\ n \in Nat /\ Window \in Nat /\ Size[r] \in Nat /\ r # None
  BY Counted, Constants DEF Shape, ServerTypes
<1>3. /\ req'[r].at \in {"agent", "slot"} /\ req'[r].kind = k /\ req'[r].size = n
      /\ req'[r].sent = 0 /\ req'[r].got = 0
      /\ req[r].at = "idle"
      /\ \A s \in Requests : s # r => req'[s] = req[s]
  BY <1>2 DEF Taken, Idle
<1>4. ASSUME NEW s \in Requests, s # r PROVE Good(s)'
  <2>1. \A T : /\ Of(down', s, T) <= Of(down, s, T) /\ Of(frames', s, T) <= Of(frames, s, T)
               /\ Of(up', s, T) <= Of(up, s, T) /\ Of(data', s, T) <= Of(data, s, T)
    BY <1>1, <1>2 DEF QueueCounts, wires
  <2> QED BY <1>1, <1>3, <1>4, <2>1, OthersKeep
<1>5. /\ Starts(r)' = Starts(r) /\ Finishes(r)' = Finishes(r) /\ Readies(r)' = Readies(r)
      /\ Verdicts(r)' = Verdicts(r) /\ Sent(r)' = Sent(r) /\ Got(r)' = Got(r) /\ Gones(r)' = Gones(r)
  BY <1>1 DEF Starts, Finishes, Readies, Verdicts, Sent, Got, Gones, wires
<1>6. Early(r) /\ Untouched(r) /\ Early(r)' /\ Untouched(r)'
  BY <1>3 DEF Early, Untouched
<1>7. Good(r) /\ UntouchedIsClean(r)!2
  BY <1>6 DEF Underway, Good, UntouchedIsClean
<1>8. Counts
  BY Counted
<1>9. UntouchedIsClean(r)'
  BY <1>1, <1>3, <1>5, <1>7 DEF UntouchedIsClean
<1>10. UploadFits(r)' /\ DownloadFits(r)'
  BY <1>1, <1>2, <1>3, <1>5, <1>7 DEF UploadFits, DownloadFits, InWindow
<1>11. Good(r)'
  BY <1>1, <1>2, <1>3, <1>5, <1>6, <1>7, <1>8, <1>9, <1>10 DEF Good, Counts, Opens
<1>12. TaskFits'
  <2>1. xfer.req # r
    BY <1>7
  <2>2. xfer.req # None => req'[xfer.req] = req[xfer.req]
    BY <1>3, <2>1 DEF Shape, XferTypes, Transfer
  <2> QED BY <1>1, <2>2 DEF TaskFits, Underway
<1> QED BY <1>4, <1>11, <1>12 DEF Underway

\* A registered request is started once.
LEMMA RegisterKeeps ==
  ASSUME Shape, Shape', Underway, NEW r \in Requests, Register(r)
  PROVE  Underway'
<1>1. UNCHANGED <<frames, up, data, inbox, xfer, temp, backup>>
  BY DEF Register, disk
<1>2. req \in [Requests -> Record] /\ QueueCounts /\ Window \in Nat /\ Size[r] \in Nat
      /\ pending \in [Requests -> 0..MaxConns] /\ r # None
  BY Counted, Constants DEF Shape, ServerTypes
<1>3. /\ req'[r].at \in {"starting", "failed"} /\ req'[r].kind = req[r].kind /\ req'[r].size = req[r].size
      /\ req'[r].sent = req[r].sent /\ req'[r].got = req[r].got
      /\ req[r].at = "slot"
      /\ \A s \in Requests : s # r => req'[s] = req[s] /\ pending'[s] = pending[s]
  BY <1>2 DEF Register, Fails, Record
<1>4. /\ \A s \in Requests : \A T : s # r => Of(down', s, T) = Of(down, s, T)
      /\ \A T : "start" \notin T => Of(down', r, T) = Of(down, r, T)
      /\ \A T : Of(down', r, T) <= Of(down, r, T) + 1
  <2>1. CASE down' = down
    BY <1>2, <2>1 DEF QueueCounts
  <2>2. CASE down' = Put(down, req[r].conn, Msg(r, "start", 0))
    BY <2>2, PutFacts
  <2> QED BY <2>1, <2>2 DEF Register
<1>5. ASSUME NEW s \in Requests, s # r PROVE Good(s)'
  <2>1. \A T : /\ Of(down', s, T) <= Of(down, s, T) /\ Of(frames', s, T) <= Of(frames, s, T)
               /\ Of(up', s, T) <= Of(up, s, T) /\ Of(data', s, T) <= Of(data, s, T)
    BY <1>1, <1>2, <1>4, <1>5 DEF QueueCounts
  <2> QED BY <1>1, <1>3, <1>5, <2>1, OthersKeep
<1>6. Early(r) /\ Untouched(r) /\ ~Early(r)'
  BY <1>3 DEF Early, Untouched
<1>7. Good(r) /\ UntouchedIsClean(r)!2
  BY <1>6 DEF Underway, Good, UntouchedIsClean
<1>8. Counts /\ Counts'
  BY Counted, PTL
<1>9. Starts(r)' <= 1
  <2>1. Starts(r) = 0
    BY <1>6, <1>7, <1>8 DEF Good, Counts
  <2>2. Of(down', r, {"start"}) <= Of(down, r, {"start"}) + 1
    BY <1>4
  <2> QED BY <2>1, <2>2 DEF Starts
<1>10. Gones(r)' <= 1
  <2>1. Gones(r) = 0
    BY <1>6, <1>7, <1>8 DEF Good, Counts
  <2>2. Of(inbox[r], r, {"gone"}) = 0
    BY <1>2, <2>1 DEF Gones, QueueCounts
  <2> QED BY <1>1, <2>2 DEF Gones
<1>11. /\ Finishes(r)' = Finishes(r) /\ Readies(r)' = Readies(r)
       /\ Verdicts(r)' = Verdicts(r) /\ Sent(r)' = Sent(r) /\ Got(r)' = Got(r)
  <2>1. Of(down', r, {"finish"}) = Of(down, r, {"finish"}) /\ Of(down', r, {"ack"}) = Of(down, r, {"ack"})
    BY <1>4
  <2> QED BY <1>1, <2>1 DEF Finishes, Readies, Verdicts, Sent, Got
<1>12. UntouchedIsClean(r)'
  BY <1>1, <1>3, <1>7, <1>11 DEF UntouchedIsClean, Over
<1>13. UploadFits(r)' /\ DownloadFits(r)'
  BY <1>1, <1>2, <1>3, <1>7, <1>11 DEF UploadFits, DownloadFits, InWindow
<1>14. Good(r)'
  BY <1>1, <1>2, <1>3, <1>6, <1>7, <1>8, <1>9, <1>10, <1>11, <1>12, <1>13 DEF Good, Counts, Opens
<1>15. TaskFits'
  <2>2. xfer.req # None => req'[xfer.req].kind = req[xfer.req].kind
    BY <1>3 DEF Shape, XferTypes, Transfer
  <2> QED BY <1>1, <2>2 DEF TaskFits, Underway
<1> QED BY <1>5, <1>14, <1>15 DEF Underway

\* A cancel is none of the messages that are counted.
LEMMA CancelKeeps ==
  ASSUME Shape, Shape', Underway, NEW r \in Requests, Cancel(r)
  PROVE  Underway'
<1>1. UNCHANGED <<frames, up, data, inbox, xfer, temp, backup, pending, req>>
  BY DEF Cancel, disk
<1>2. QueueCounts
  BY Counted
<1>3. \A s \in Requests : \A T : "cancel" \notin T => Of(down', s, T) = Of(down, s, T)
  <2>1. CASE down' = down
    BY <2>1
  <2>2. CASE down' = Put(down, conn, Msg(r, "cancel", 0))
    BY <2>2, PutFacts
  <2> QED BY <2>1, <2>2 DEF Cancel
<1>4. ASSUME NEW s \in Requests PROVE Falls(s)
  <2>1. \A T : /\ Of(down, s, T) \in Nat /\ Of(frames, s, T) \in Nat /\ Of(up, s, T) \in Nat
               /\ Of(data, s, T) \in Nat /\ Of(inbox[s], s, T) \in Nat
               /\ Of(xfer.queue, s, T) \in Nat
    BY <1>2 DEF QueueCounts
  <2>2. UpLess(s)
    BY <1>1, <2>1 DEF UpLess
  <2>3. Gones(s)' <= Gones(s)
    BY <1>1, <2>1 DEF Gones
  <2>4. \A T : "cancel" \notin T => Of(down', s, T) <= Of(down, s, T)
    BY <1>3, <2>1
  <2>5. Untouched(s) => temp'[s] = "none" /\ backup'[s] = None
    BY <1>1 DEF Underway, Good, UntouchedIsClean
  <2>6. Less(s)
    BY <1>1, <2>1, <2>2, <2>3, <2>4, <2>5 DEF Less
  <2> QED BY <2>6, LessFalls
<1>5. \A s \in Requests : GoesOn(s)
  BY <1>1 DEF GoesOn
<1>6. \A s \in Requests : Good(s)'
  BY <1>4, <1>5, FallsKeepsGood DEF Underway
<1> QED BY <1>1, <1>6 DEF Underway, TaskFits

\* A handler that moves data is past its first answer.
LEMMA Streaming ==
  ASSUME Shape, Underway, NEW r \in Requests,
         req[r].at \in {"ready", "opened", "streaming", "finishing"}
  PROVE  ~Untouched(r) /\ Starts(r) = 0 /\ ~Early(r)
<1>1. ~Untouched(r)
  BY DEF Underway, Good, UntouchedIsClean, Over
<1>2. Starts(r) \in Nat
  BY Counted DEF Counts
<1> QED BY <1>1, <1>2 DEF Untouched

\* An upload sends a chunk while its window has room.
LEMMA SendChunkKeeps ==
  ASSUME Shape, Shape', Underway, NEW r \in Requests, SendChunk(r)
  PROVE  Underway'
<1> DEFINE c == req[r].conn
<1>1. CASE Refuses(c)
  BY <1>1, FailsKeeps DEF SendChunk, wires
<1>2. CASE ~Refuses(c)
  <2>1. /\ frames' = Put(frames, c, Msg(r, "chunk", req[r].sent))
        /\ req' = [req EXCEPT ![r].sent = @ + 1]
        /\ UNCHANGED <<down, up, data, pending, inbox, xfer, temp, backup>>
        /\ req[r].at = "streaming" /\ req[r].kind = "upload"
        /\ req[r].sent < req[r].size /\ req[r].sent - req[r].got < Window
    BY <1>2 DEF SendChunk, More, Room, disk
  <2>2. req \in [Requests -> Record] /\ QueueCounts /\ Counts /\ Numbers /\ Window \in Nat /\ Size[r] \in Nat /\ r # None
    BY Counted, Constants DEF Shape, ServerTypes
  <2>3. req[r].sent \in Nat /\ req[r].got \in Nat /\ req[r].size \in Nat
    BY <2>2 DEF Numbers
  <2>4. /\ req'[r].at = "streaming" /\ req'[r].kind = "upload" /\ req'[r].size = req[r].size
        /\ req'[r].sent = req[r].sent + 1 /\ req'[r].got = req[r].got
        /\ \A s \in Requests : s # r => req'[s] = req[s]
    BY <2>1, <2>2 DEF Record
  <2>5. /\ \A s \in Requests : \A T : s # r => Of(frames', s, T) = Of(frames, s, T)
        /\ \A T : Of(frames', r, T) <= Of(frames, r, T) + 1
    BY <2>1, <2>3, PutPieceFacts
  <2>6. ASSUME NEW s \in Requests, s # r PROVE Good(s)'
    <3>1. \A T : /\ Of(down', s, T) <= Of(down, s, T) /\ Of(frames', s, T) <= Of(frames, s, T)
                 /\ Of(up', s, T) <= Of(up, s, T) /\ Of(data', s, T) <= Of(data, s, T)
      BY <2>1, <2>2, <2>5, <2>6 DEF QueueCounts
    <3> QED BY <2>1, <2>4, <2>6, <3>1, OthersKeep
  <2>7. ~Untouched(r) /\ Starts(r) = 0 /\ Starts(r)' = 0 /\ ~Early(r) /\ ~Early(r)' /\ ~Untouched(r)'
    BY <2>1, <2>4, Streaming DEF Untouched, Early, Starts
  <2>8. /\ Finishes(r)' = Finishes(r) /\ Readies(r)' = Readies(r)
        /\ Verdicts(r)' = Verdicts(r) /\ Got(r)' = Got(r) /\ Gones(r)' = Gones(r)
    BY <2>1 DEF Finishes, Readies, Verdicts, Got, Gones
  <2>9. Sent(r)' <= Sent(r) + 1
    <3>1. /\ Of(frames, r, {"chunk"}) \in Nat /\ Of(xfer.queue, r, {"chunk"}) \in Nat
          /\ Of(up, r, {"ack"}) \in Nat /\ Of(inbox[r], r, {"ack"}) \in Nat
      BY <2>2 DEF QueueCounts
    <3>2. Of(frames', r, {"chunk"}) <= Of(frames, r, {"chunk"}) + 1
      BY <2>5
    <3>3. QueueCounts'
      BY Counted, PTL
    <3>4. Of(frames', r, {"chunk"}) \in Nat
      BY <3>3 DEF QueueCounts
    <3> QED BY <2>1, <3>1, <3>2, <3>4 DEF Sent
  <2>10. Good(r)
    BY DEF Underway
  <2>11. Counts'
    BY Counted, PTL
  <2>12. UploadFits(r)'
    <3>1. Sent(r) <= req[r].sent - req[r].got /\ Finishes(r) <= 1 /\ Finishes(r) # 1
      BY <2>1, <2>10 DEF Good, UploadFits, Over
    <3>2. Sent(r) \in Nat /\ Sent(r)' \in Nat /\ Finishes(r) \in Nat
      BY <2>2, <2>11 DEF Counts
    <3>3. Sent(r)' <= req'[r].sent - req'[r].got
      BY <2>3, <2>4, <2>9, <3>1, <3>2
    <3> QED BY <2>4, <2>8, <3>1, <3>3 DEF UploadFits
  <2>13. DownloadFits(r)'
    BY <2>1, <2>4, <2>8, <2>10 DEF Good, DownloadFits
  <2>14. Good(r)'
    BY <2>1, <2>2, <2>3, <2>4, <2>7, <2>8, <2>10, <2>12, <2>13 DEF Good, UntouchedIsClean, Opens
  <2>15. TaskFits'
    <3>1. xfer.req # None => req'[xfer.req].kind = req[xfer.req].kind
      BY <2>1, <2>4 DEF Shape, XferTypes, Transfer
    <3> QED BY <2>1, <3>1 DEF TaskFits, Underway
  <2> QED BY <2>6, <2>14, <2>15 DEF Underway
<1> QED BY <1>1, <1>2

\* The end of an upload follows its last acknowledgement.
LEMMA SendFinishKeeps ==
  ASSUME Shape, Shape', Underway, NEW r \in Requests, SendFinish(r)
  PROVE  Underway'
<1> DEFINE c == req[r].conn
<1>1. CASE Refuses(c)
  BY <1>1, FailsKeeps DEF SendFinish, wires
<1>2. CASE ~Refuses(c)
  <2>1. /\ down' = Put(down, c, Msg(r, "finish", 0))
        /\ req' = [req EXCEPT ![r].at = "finishing"]
        /\ UNCHANGED <<frames, up, data, pending, inbox, xfer, temp, backup>>
        /\ req[r].at = "streaming" /\ req[r].kind = "upload"
        /\ req[r].sent = req[r].size /\ req[r].got = req[r].sent
    BY <1>2 DEF SendFinish, disk
  <2>2. req \in [Requests -> Record] /\ QueueCounts /\ Counts /\ Numbers /\ Window \in Nat /\ Size[r] \in Nat /\ r # None
    BY Counted, Constants DEF Shape, ServerTypes
  <2>3. req[r].sent \in Nat /\ req[r].got \in Nat /\ req[r].size \in Nat
    BY <2>2 DEF Numbers
  <2>4. /\ req'[r].at = "finishing" /\ req'[r].kind = "upload" /\ req'[r].size = req[r].size
        /\ req'[r].sent = req[r].sent /\ req'[r].got = req[r].got
        /\ \A s \in Requests : s # r => req'[s] = req[s]
    BY <2>1, <2>2 DEF Record
  <2>5. /\ \A s \in Requests : \A T : s # r => Of(down', s, T) = Of(down, s, T)
        /\ \A T : "finish" \notin T => Of(down', r, T) = Of(down, r, T)
        /\ \A T : Of(down', r, T) <= Of(down, r, T) + 1
    BY <2>1, PutFacts
  <2>6. ASSUME NEW s \in Requests, s # r PROVE Good(s)'
    <3>1. \A T : /\ Of(down', s, T) <= Of(down, s, T) /\ Of(frames', s, T) <= Of(frames, s, T)
                 /\ Of(up', s, T) <= Of(up, s, T) /\ Of(data', s, T) <= Of(data, s, T)
      BY <2>1, <2>2, <2>5, <2>6 DEF QueueCounts
    <3> QED BY <2>1, <2>4, <2>6, <3>1, OthersKeep
  <2>7. ~Untouched(r) /\ Starts(r) = 0 /\ Starts(r)' = 0 /\ ~Early(r) /\ ~Early(r)' /\ ~Untouched(r)'
    <3>1. Of(down', r, {"start"}) = Of(down, r, {"start"})
      BY <2>5
    <3> QED BY <2>1, <2>4, <3>1, Streaming DEF Untouched, Early, Starts
  <2>8. /\ Readies(r)' = Readies(r) /\ Verdicts(r)' = Verdicts(r) /\ Got(r)' = Got(r)
        /\ Gones(r)' = Gones(r) /\ Sent(r)' = Sent(r)
    <3>1. Of(down', r, {"ack"}) = Of(down, r, {"ack"})
      BY <2>5
    <3> QED BY <2>1, <3>1 DEF Sent, Readies, Verdicts, Got, Gones
  <2>9. Finishes(r)' <= Finishes(r) + 1
    <3>1. Of(down, r, {"finish"}) \in Nat /\ Of(xfer.queue, r, {"finish"}) \in Nat
      BY <2>2 DEF QueueCounts
    <3>2. Of(down', r, {"finish"}) <= Of(down, r, {"finish"}) + 1
      BY <2>5
    <3>3. QueueCounts'
      BY Counted, PTL
    <3>4. Of(down', r, {"finish"}) \in Nat
      BY <3>3 DEF QueueCounts
    <3> QED BY <2>1, <3>1, <3>2, <3>4 DEF Finishes
  <2>10. Good(r)
    BY DEF Underway
  <2>11. Counts'
    BY Counted, PTL
  <2>12. UploadFits(r)'
    <3>1. Sent(r) <= req[r].sent - req[r].got /\ Finishes(r) <= 1 /\ Finishes(r) # 1
      BY <2>1, <2>10 DEF Good, UploadFits, Over
    <3>2. Sent(r) \in Nat /\ Finishes(r) \in Nat /\ Finishes(r)' \in Nat
      BY <2>2, <2>11 DEF Counts
    <3>3. Finishes(r)' <= 1
      BY <2>9, <3>1, <3>2
    <3> QED BY <2>1, <2>4, <2>8, <3>1, <3>3 DEF UploadFits
  <2>13. DownloadFits(r)'
    BY <2>1, <2>4, <2>8, <2>10 DEF Good, DownloadFits
  <2>14. Good(r)'
    BY <2>1, <2>2, <2>3, <2>4, <2>7, <2>8, <2>10, <2>12, <2>13 DEF Good, UntouchedIsClean, Opens
  <2>15. TaskFits'
    <3>1. xfer.req # None => req'[xfer.req].kind = req[xfer.req].kind
      BY <2>1, <2>4 DEF Shape, XferTypes, Transfer
    <3> QED BY <2>1, <3>1 DEF TaskFits, Underway
  <2> QED BY <2>6, <2>14, <2>15 DEF Underway
<1> QED BY <1>1, <1>2

\* The agent takes the first message of a request.
LEMMA StartKeeps ==
  ASSUME Shape, Shape', Underway, NEW r \in Requests, NEW n \in 0..Size[r], Start(r, n)
  PROVE  Underway'
<1>1. /\ down # <<>> /\ Head(down).type = "start" /\ Head(down).req = r /\ down' = Tail(down)
      /\ UNCHANGED <<frames, data, req, inbox, pending, temp, backup>>
  BY DEF Start, server
<1>2. QueueCounts /\ Counts /\ Numbers /\ Counts' /\ QueueCounts' /\ Numbers'
  BY Counted, PTL
<1>3. Window \in Nat /\ Size[r] \in Nat /\ r # None /\ n \in Nat
  BY Constants
<1>4. \A s \in Requests : \A T :
        Of(down, s, T) = Of(down', s, T) + (IF s = r /\ "start" \in T THEN 1 ELSE 0)
  <2>1. down \in Seq(Message)
    BY AllMessages
  <2>2. \A s, T : Of(down, s, T) = Of(down', s, T) + Is(Head(down), s, T)
    BY <1>1, <2>1, OfTail
  <2>3. \A s, T : Is(Head(down), s, T) = IF s = r /\ "start" \in T THEN 1 ELSE 0
    BY <1>1 DEF Is
  <2> QED BY <2>2, <2>3
<1>5. Starts(r) > 0 /\ Untouched(r)
  <2>1. Of(down, r, {"start"}) = Of(down', r, {"start"}) + 1
    BY <1>4
  <2>2. Of(down', r, {"start"}) \in Nat
    BY <1>2 DEF QueueCounts
  <2> QED BY <2>1, <2>2 DEF Starts, Untouched
<1>6. Good(r) /\ UntouchedIsClean(r)!2
  BY <1>5 DEF Underway, Good, UntouchedIsClean
<1>7. ~Early(r) /\ Starts(r) = 1 /\ Starts(r)' = 0
  <2>1. Of(down, r, {"start"}) = Of(down', r, {"start"}) + 1
    BY <1>4
  <2>2. Of(down', r, {"start"}) \in Nat
    BY <1>2 DEF QueueCounts
  <2>3. ~Early(r)
    BY <1>2, <1>5, <1>6 DEF Good, Counts
  <2> QED BY <1>6, <2>1, <2>2, <2>3 DEF Starts, Good
<1>8. /\ xfer'.queue = <<>> \/ xfer' = xfer
      /\ xfer' = xfer \/ (xfer.req = None /\ xfer'.req = r /\ xfer'.at = "opening" /\ xfer'.sent = 0 /\ xfer'.got = 0
                          /\ xfer'.kind = req[r].kind /\ up' = up)
      /\ up' = up \/ (xfer' = xfer /\ \E t \in {"error", "result"} : Say(Msg(r, t, 0)))
  <2>1. CASE Refused(r) \/ Control(r)
    BY <2>1 DEF Refused, Control
  <2>2. CASE StartUpload(r, n) \/ StartDownload(r, n)
    <3>1. /\ xfer.req = None /\ up' = up
          /\ xfer' = [NoXfer EXCEPT !.req = r, !.kind = req[r].kind, !.over = req[r].over, !.size = n]
      BY <2>2 DEF StartUpload, StartDownload, Launched, Free
    <3>2. /\ xfer'.req = r /\ xfer'.at = "opening" /\ xfer'.sent = 0 /\ xfer'.got = 0
          /\ xfer'.kind = req[r].kind /\ xfer'.queue = <<>>
      BY <3>1 DEF NoXfer
    <3> QED BY <3>1, <3>2
  <2> QED BY <2>1, <2>2 DEF Start
<1>9. /\ \A s \in Requests : \A T : s # r => Of(up', s, T) = Of(up, s, T)
      /\ Of(up', r, {"ready"}) = Of(up, r, {"ready"}) /\ Of(up', r, {"ack"}) = Of(up, r, {"ack"})
      /\ Of(up', r, Finals) <= Of(up, r, Finals) + (IF xfer'.req = r THEN 0 ELSE 1)
  <2>1. CASE up' = up
    BY <1>2, <2>1 DEF QueueCounts
  <2>2. ASSUME NEW t \in {"error", "result"}, Say(Msg(r, t, 0)), xfer' = xfer
        PROVE <1>9!:
    <3>1. t \in Types /\ t # "ready" /\ t # "ack"
      BY DEF Types, Finals
    <3>2. \A s, T : Of(up', s, T) = Of(up, s, T) + (IF r = s /\ t \in T THEN 1 ELSE 0)
      BY <2>2, <3>1, SayFacts
    <3>3. xfer'.req # r
      BY <1>6, <2>2
    <3>4. \A s \in Requests : \A T : Of(up, s, T) \in Nat
      BY <1>2 DEF QueueCounts
    <3> QED BY <3>1, <3>2, <3>3, <3>4
  <2> QED BY <1>8, <2>1, <2>2
<1>10. ASSUME NEW s \in Requests, s # r PROVE Good(s)'
  <2>1. \A T : /\ Of(down', s, T) <= Of(down, s, T) /\ Of(frames', s, T) <= Of(frames, s, T)
               /\ Of(up', s, T) <= Of(up, s, T) /\ Of(data', s, T) <= Of(data, s, T)
    <3>1. \A T : /\ Of(down, s, T) \in Nat /\ Of(frames, s, T) \in Nat
                 /\ Of(up, s, T) \in Nat /\ Of(data, s, T) \in Nat
      BY <1>2 DEF QueueCounts
    <3>2. \A T : Of(down', s, T) \in Nat
      BY <1>2 DEF QueueCounts
    <3>3. \A T : Of(down', s, T) <= Of(down, s, T)
      BY <1>4, <1>10, <3>1, <3>2
    <3> QED BY <1>1, <1>9, <1>10, <3>1, <3>3
  <2>2. xfer' = xfer \/ (xfer.req # s /\ xfer'.req # s /\ xfer'.queue = <<>>)
    BY <1>8, <1>10, Constants
  <2> QED BY <1>1, <1>10, <2>1, <2>2, OthersKeep
<1>11. /\ Finishes(r)' = 0 /\ Readies(r)' = 0 /\ Sent(r)' = 0 /\ Got(r)' = 0 /\ Gones(r)' = Gones(r)
       /\ Verdicts(r)' <= (IF xfer'.req = r THEN 0 ELSE 1)
  <2>1. /\ Of(down', r, {"finish"}) = Of(down, r, {"finish"})
        /\ Of(down', r, {"ack"}) = Of(down, r, {"ack"})
    BY <1>2, <1>4 DEF QueueCounts
  <2>2. \A T : Of(xfer'.queue, r, T) <= Of(xfer.queue, r, T)
    <3>1. \A T : Of(xfer.queue, r, T) \in Nat
      BY <1>2 DEF QueueCounts
    <3> QED BY <1>8, <3>1, OfEmpty
  <2>3. \A T : /\ Of(down, r, T) \in Nat /\ Of(frames, r, T) \in Nat /\ Of(up, r, T) \in Nat
               /\ Of(data, r, T) \in Nat /\ Of(inbox[r], r, T) \in Nat /\ Of(xfer.queue, r, T) \in Nat
               /\ Of(up', r, T) \in Nat /\ Of(xfer'.queue, r, T) \in Nat
    BY <1>2 DEF QueueCounts
  <2>4. Finishes(r)' = 0
    BY <1>6, <2>1, <2>2, <2>3 DEF Finishes
  <2>5. Readies(r)' = 0
    BY <1>1, <1>6, <1>9, <2>3 DEF Readies
  <2>6. Sent(r)' = 0
    <3>1. /\ Of(frames, r, {"chunk"}) = 0 /\ Of(xfer.queue, r, {"chunk"}) = 0
          /\ Of(up, r, {"ack"}) = 0 /\ Of(inbox[r], r, {"ack"}) = 0
      BY <1>6, <2>3 DEF Sent
    <3>2. Of(xfer'.queue, r, {"chunk"}) = 0
      BY <2>2, <2>3, <3>1
    <3> QED BY <1>1, <1>9, <3>1, <3>2 DEF Sent
  <2>7. Got(r)' = 0
    <3>1. /\ Of(down, r, {"ack"}) = 0 /\ Of(xfer.queue, r, {"ack"}) = 0
          /\ Of(data, r, {"chunk"}) = 0 /\ Of(inbox[r], r, {"chunk"}) = 0
      BY <1>6, <2>3 DEF Got
    <3>2. Of(xfer'.queue, r, {"ack"}) = 0
      BY <2>2, <2>3, <3>1
    <3> QED BY <1>1, <2>1, <3>1, <3>2 DEF Got
  <2>8. Verdicts(r)' <= (IF xfer'.req = r THEN 0 ELSE 1)
    <3>1. Of(up, r, Finals) = 0 /\ Of(inbox[r], r, Finals) = 0
      BY <1>6, <2>3 DEF Verdicts
    <3>2. Of(up', r, Finals) <= (IF xfer'.req = r THEN 0 ELSE 1) /\ Of(inbox'[r], r, Finals) = 0
      BY <1>1, <1>9, <3>1
    <3>3. Of(up', r, Finals) \in Nat
      BY <2>3
    <3> QED BY <3>2, <3>3 DEF Verdicts
  <2>9. Gones(r)' = Gones(r)
    BY <1>1 DEF Gones
  <2> QED BY <2>4, <2>5, <2>6, <2>7, <2>8, <2>9
<1>12. ~Early(r)' /\ ~Untouched(r)'
  BY <1>1, <1>7 DEF Early, Untouched
<1>13. xfer'.req = r => xfer'.at = "opening" /\ xfer'.sent = 0 /\ xfer'.got = 0
  BY <1>6, <1>8
<1>14. UploadFits(r)' /\ DownloadFits(r)'
  BY <1>1, <1>3, <1>6, <1>11, <1>13 DEF UploadFits, DownloadFits, InWindow
<1>15. Good(r)'
  BY <1>1, <1>3, <1>6, <1>7, <1>11, <1>12, <1>13, <1>14 DEF Good, UntouchedIsClean, Opens
<1>16. TaskFits'
  BY <1>1, <1>3, <1>8 DEF TaskFits, Underway
<1> QED BY <1>10, <1>15, <1>16 DEF Underway

\* The outcomes of an event.
TakesReady(r, e) ==
  /\ e.type = "ready" /\ req[r].at = "starting"
  /\ req' = [req EXCEPT ![r].at = IF @ = "starting" /\ req[r].kind = "upload" THEN "streaming" ELSE "ready",
                        ![r].size = e.n]
  /\ UNCHANGED <<pending, down>>
TakesAck(r, e) ==
  /\ e.type = "ack" /\ req[r].at = "streaming" /\ req[r].kind = "upload"
  /\ req' = [req EXCEPT ![r].got = @ + 1]
  /\ UNCHANGED <<pending, down>>
TakesChunk(r, e) ==
  /\ e.type = "chunk" /\ req[r].at = "streaming" /\ req[r].kind = "download" /\ e.n = req[r].got /\ e.n < req[r].size
  /\ req' = [req EXCEPT ![r].got = @ + 1]
  /\ down' = Put(down, req[r].conn, Msg(r, "ack", e.n))
  /\ UNCHANGED pending
IsOver(r) ==
  /\ \E a \in Over : req' = [req EXCEPT ![r].at = a]
  /\ pending' = pending \/ pending' = [pending EXCEPT ![r] = 0]
  /\ UNCHANGED down

\* An event ends its handler, readies it, or moves its window by one.
LEMMA ReceiveCases ==
  ASSUME Shape, NEW r \in Requests, Receive(r)
  PROVE  \E e : /\ e = Head(inbox[r])
                /\ IsOver(r) \/ TakesReady(r, e) \/ TakesAck(r, e) \/ TakesChunk(r, e)
<1> DEFINE e == Head(inbox[r])
<1>1. Answered(r) => IsOver(r)
  BY DEF Answered, IsOver, Over
<1>2. Fails(r) /\ UNCHANGED <<pending, active, down>> => IsOver(r)
  BY DEF Fails, IsOver, Over
<1>3. \/ req[r].at = "starting" /\ OnStart(r, e)
      \/ req[r].at = "finishing" /\ OnFinish(r, e)
      \/ req[r].at = "streaming" /\ req[r].kind = "upload" /\ OnAck(r, e)
      \/ req[r].at = "streaming" /\ req[r].kind = "download" /\ OnStream(r, e)
  BY Dispatch
<1>e. e = Head(inbox[r])
  OBVIOUS
<1> HIDE DEF e
<1>4. CASE req[r].at = "starting" /\ OnStart(r, e)
  <2>1. IsOver(r) \/ TakesReady(r, e)
    BY <1>1, <1>2, <1>4 DEF OnStart, TakesReady
  <2> QED BY <1>e, <2>1
<1>5. CASE OnFinish(r, e)
  <2>1. IsOver(r)
    BY <1>1, <1>2, <1>5 DEF OnFinish
  <2> QED BY <1>e, <2>1
<1>6. CASE req[r].at = "streaming" /\ req[r].kind = "upload" /\ OnAck(r, e)
  <2>1. IsOver(r) \/ TakesAck(r, e)
    BY <1>2, <1>6 DEF OnAck, TakesAck
  <2> QED BY <1>e, <2>1
<1>7. CASE req[r].at = "streaming" /\ req[r].kind = "download" /\ OnStream(r, e)
  <2>1. IsOver(r) \/ TakesChunk(r, e)
    BY <1>1, <1>2, <1>7 DEF OnStream, TakesChunk
  <2> QED BY <1>e, <2>1
<1> QED BY <1>3, <1>4, <1>5, <1>6, <1>7

\* A handler that takes an event keeps the bounds.
LEMMA ReceiveKeeps ==
  ASSUME Shape, Shape', Underway, NEW r \in Requests, Receive(r)
  PROVE  Underway'
<1> DEFINE e == Head(inbox[r])
<1>1. /\ inbox[r] # <<>> /\ inbox' = [inbox EXCEPT ![r] = Tail(@)]
      /\ UNCHANGED <<frames, up, data, xfer, temp, backup>>
  BY DEF Receive, disk
<1>2. QueueCounts /\ Counts /\ Numbers /\ Counts' /\ QueueCounts' /\ Numbers'
  BY Counted, PTL
<1>3. /\ req \in [Requests -> Record] /\ Window \in Nat /\ Size[r] \in Nat /\ r # None
      /\ inbox \in [Requests -> Seq(Message)] /\ inbox[r] \in Seq(Events(r)) /\ inbox[r] \in Seq(Message)
      /\ pending \in [Requests -> 0..MaxConns]
  BY Constants, AllMessages DEF Shape, ServerTypes, BoxTypes
<1>4. e \in Events(r)
  BY <1>1, <1>3, SeqFacts
<1>5. e.req = r /\ e.n \in Nat /\ (e.type = "ready" => e.n <= Size[r])
  BY <1>4 DEF Events, Message
<1>6. inbox'[r] = Tail(inbox[r]) /\ \A s \in Requests : s # r => inbox'[s] = inbox[s]
  BY <1>1, <1>3
<1>7. \A T : Of(inbox[r], r, T) = Of(inbox'[r], r, T) + (IF e.type \in T THEN 1 ELSE 0)
  <2>1. \A T : Of(inbox[r], r, T) = Of(Tail(inbox[r]), r, T) + Is(e, r, T)
    BY <1>1, <1>3, OfTail
  <2>2. \A T : Is(e, r, T) = IF e.type \in T THEN 1 ELSE 0
    BY <1>5 DEF Is
  <2> HIDE DEF e
  <2> QED BY <1>6, <2>1, <2>2
<1> HIDE DEF e
<1>8. \A T : /\ Of(down, r, T) \in Nat /\ Of(frames, r, T) \in Nat /\ Of(up, r, T) \in Nat
             /\ Of(data, r, T) \in Nat /\ Of(inbox[r], r, T) \in Nat /\ Of(xfer.queue, r, T) \in Nat
             /\ Of(inbox'[r], r, T) \in Nat /\ Of(down', r, T) \in Nat
  BY <1>2 DEF QueueCounts
<1>9. \A T : Of(inbox'[r], r, T) <= Of(inbox[r], r, T)
  BY <1>7, <1>8
<1>10. Good(r)
  BY DEF Underway
<1>11. /\ req[r].sent \in Nat /\ req[r].got \in Nat /\ req[r].size \in Nat
       /\ Finishes(r) \in Nat /\ Sent(r) \in Nat /\ Sent(r)' \in Nat
       /\ Got(r) \in Nat /\ Got(r)' \in Nat /\ Readies(r) \in Nat /\ Readies(r)' \in Nat
       /\ Verdicts(r) \in Nat /\ Verdicts(r)' \in Nat /\ Gones(r) \in Nat /\ Gones(r)' \in Nat
       /\ xfer.sent \in Nat /\ xfer.got \in Nat
  BY <1>2 DEF Numbers, Counts
<1>12. IsOver(r) \/ TakesReady(r, e) \/ TakesAck(r, e) \/ TakesChunk(r, e)
  BY ReceiveCases DEF e
<1>13. /\ \A s \in Requests : s # r => req'[s] = req[s] /\ pending'[s] = pending[s]
       /\ \A s \in Requests : req'[s].kind = req[s].kind
  <2>1. CASE IsOver(r)
    BY <1>3, <2>1 DEF IsOver, Record
  <2>2. CASE TakesReady(r, e)
    BY <1>3, <2>2 DEF TakesReady, Record
  <2>3. CASE TakesAck(r, e)
    BY <1>3, <2>3 DEF TakesAck, Record
  <2>4. CASE TakesChunk(r, e)
    BY <1>3, <2>4 DEF TakesChunk, Record
  <2> QED BY <1>12, <2>1, <2>2, <2>3, <2>4
<1>14. ASSUME NEW s \in Requests, s # r PROVE Good(s)'
  <2>1. \A T : Of(down', s, T) = Of(down, s, T)
    <3>1. CASE down' = down
      BY <3>1
    <3>2. CASE TakesChunk(r, e)
      BY <1>5, <1>14, <3>2, PutFacts DEF TakesChunk
    <3> QED BY <1>12, <3>1, <3>2 DEF IsOver, TakesReady, TakesAck
  <2>2. \A T : /\ Of(down', s, T) <= Of(down, s, T) /\ Of(frames', s, T) <= Of(frames, s, T)
               /\ Of(up', s, T) <= Of(up, s, T) /\ Of(data', s, T) <= Of(data, s, T)
    BY <1>1, <1>2, <2>1 DEF QueueCounts
  <2> QED BY <1>1, <1>6, <1>13, <1>14, <2>2, OthersKeep
<1>15. TaskFits'
  BY <1>1, <1>13 DEF TaskFits, Underway, Shape, XferTypes, Transfer
<1>16. /\ Readies(r)' <= Readies(r) /\ Verdicts(r)' <= Verdicts(r) /\ Sent(r)' <= Sent(r)
       /\ e.type = "ack" => Sent(r)' = Sent(r) - 1
  <2>1. /\ Of(inbox'[r], r, {"ready"}) <= Of(inbox[r], r, {"ready"})
        /\ Of(inbox'[r], r, Finals) <= Of(inbox[r], r, Finals)
        /\ Of(inbox'[r], r, {"ack"}) <= Of(inbox[r], r, {"ack"})
    BY <1>9
  <2>2. /\ Of(up', r, {"ready"}) = Of(up, r, {"ready"}) /\ Of(up', r, Finals) = Of(up, r, Finals)
        /\ Of(up', r, {"ack"}) = Of(up, r, {"ack"})
        /\ Of(frames', r, {"chunk"}) = Of(frames, r, {"chunk"})
        /\ Of(xfer'.queue, r, {"chunk"}) = Of(xfer.queue, r, {"chunk"})
    BY <1>1
  <2>3. /\ Of(up, r, {"ready"}) \in Nat /\ Of(up, r, Finals) \in Nat /\ Of(up, r, {"ack"}) \in Nat
        /\ Of(frames, r, {"chunk"}) \in Nat /\ Of(xfer.queue, r, {"chunk"}) \in Nat
        /\ Of(inbox[r], r, {"ready"}) \in Nat /\ Of(inbox[r], r, Finals) \in Nat
        /\ Of(inbox[r], r, {"ack"}) \in Nat
        /\ Of(inbox'[r], r, {"ready"}) \in Nat /\ Of(inbox'[r], r, Finals) \in Nat
        /\ Of(inbox'[r], r, {"ack"}) \in Nat
    BY <1>8
  <2>4. Readies(r)' <= Readies(r)
    BY <2>1, <2>2, <2>3 DEF Readies
  <2>5. Verdicts(r)' <= Verdicts(r)
    BY <2>1, <2>2, <2>3 DEF Verdicts
  <2>6. Sent(r)' <= Sent(r) /\ (e.type = "ack" => Sent(r)' = Sent(r) - 1)
    <3>1. e.type = "ack" => Of(inbox[r], r, {"ack"}) = Of(inbox'[r], r, {"ack"}) + 1
      BY <1>7
    <3> QED BY <2>1, <2>2, <2>3, <3>1 DEF Sent
  <2> QED BY <2>4, <2>5, <2>6
<1>17. Gones(r)' <= Gones(r)
  <2>1. pending'[r] \in {0, pending[r]}
    BY <1>3, <1>12 DEF IsOver, TakesReady, TakesAck, TakesChunk
  <2>2. Of(inbox'[r], r, {"gone"}) <= Of(inbox[r], r, {"gone"})
    BY <1>9
  <2>3. Of(inbox'[r], r, {"gone"}) \in Nat /\ Of(inbox[r], r, {"gone"}) \in Nat
    BY <1>8
  <2> QED BY <2>1, <2>2, <2>3 DEF Gones
<1>18. ASSUME UNCHANGED down
       PROVE  Starts(r)' = Starts(r) /\ Finishes(r)' = Finishes(r) /\ Got(r)' <= Got(r)
  <2>1. Of(inbox'[r], r, {"chunk"}) <= Of(inbox[r], r, {"chunk"})
    BY <1>9
  <2>2. /\ Of(down', r, {"ack"}) = Of(down, r, {"ack"}) /\ Of(data', r, {"chunk"}) = Of(data, r, {"chunk"})
        /\ Of(xfer'.queue, r, {"ack"}) = Of(xfer.queue, r, {"ack"})
    BY <1>1, <1>18
  <2>3. /\ Of(down, r, {"ack"}) \in Nat /\ Of(data, r, {"chunk"}) \in Nat
        /\ Of(xfer.queue, r, {"ack"}) \in Nat /\ Of(inbox[r], r, {"chunk"}) \in Nat
        /\ Of(inbox'[r], r, {"chunk"}) \in Nat
    BY <1>8
  <2>4. Got(r)' <= Got(r)
    BY <2>1, <2>2, <2>3 DEF Got
  <2> QED BY <1>1, <1>18, <2>4 DEF Starts, Finishes
<1>19. CASE IsOver(r)
  <2>1. GoesOn(r)
    BY <1>3, <1>19 DEF IsOver, GoesOn, Record
  <2>2. Starts(r)' = Starts(r) /\ Finishes(r)' = Finishes(r) /\ Got(r)' <= Got(r)
    BY <1>18, <1>19 DEF IsOver
  <2>3. Starts(r) \in Nat
    BY <1>2 DEF Counts
  <2>4. Untouched(r) => temp'[r] = "none" /\ backup'[r] = None
    BY <1>1, <1>10 DEF Good, UntouchedIsClean
  <2>5. Verdicts(r)' <= Verdicts(r) + (IF xfer.req = r /\ xfer'.req # r THEN 1 ELSE 0)
    BY <1>1, <1>11, <1>16
  <2>6. Got(r)' - (xfer'.sent - xfer'.got) <= Got(r) - (xfer.sent - xfer.got)
    BY <1>1, <1>11, <2>2
  <2>8. Starts(r)' <= Starts(r) /\ Finishes(r)' <= Finishes(r)
    BY <1>11, <2>2, <2>3
  <2>7. Falls(r)
    BY <1>1, <1>16, <1>17, <2>2, <2>4, <2>5, <2>6, <2>8 DEF Falls
  <2> QED BY <1>10, <1>14, <1>15, <2>1, <2>7, FallsKeepsGood DEF Underway
<1>b. /\ Opens(r)' = Opens(r) /\ InWindow(r)' = InWindow(r) /\ InWindow(r) \in Int
      /\ xfer'.req = xfer.req
  <2>1. xfer' = xfer
    BY <1>1
  <2> QED BY <1>3, <1>11, <2>1 DEF Opens, InWindow
<1>c. /\ Readies(r)' <= (IF Opens(r)' THEN 0 ELSE 1)
      /\ Verdicts(r)' <= (IF xfer'.req = r THEN 0 ELSE 1)
  <2>1. /\ Readies(r) <= (IF Opens(r) THEN 0 ELSE 1)
        /\ Verdicts(r) <= (IF xfer.req = r THEN 0 ELSE 1)
    BY <1>10 DEF Good
  <2> QED BY <1>11, <1>16, <1>b, <2>1
<1>d. ASSUME ~Untouched(r)', ~Early(r), req'[r].at # "starting", Starts(r)' = Starts(r),
             req'[r].sent - req'[r].got <= Window, req'[r].size <= Size[r],
             req'[r].sent <= req'[r].size, req'[r].got <= req'[r].size,
             UploadFits(r)', DownloadFits(r)'
      PROVE  Good(r)'
  <2>1. ~Early(r)'
    BY <1>d DEF Untouched
  <2>2. Starts(r)' <= (IF Early(r)' THEN 0 ELSE 1) /\ Gones(r)' <= (IF Early(r)' THEN 0 ELSE 1)
    <3>1. Starts(r) <= 1 /\ Gones(r) <= 1
      BY <1>10, <1>d DEF Good
    <3> QED BY <1>11, <1>17, <1>d, <2>1, <3>1
  <2>3. UntouchedIsClean(r)'
    BY <1>d DEF UntouchedIsClean
  <2>4. (req[r].at = "starting" => req[r].sent = 0 /\ req[r].got = 0)'
    BY <1>d
  <2> QED BY <1>c, <1>d, <2>2, <2>3, <2>4 DEF Good
<1>20. CASE TakesReady(r, e)
  <2>1. /\ req[r].at = "starting" /\ e.type = "ready"
        /\ req'[r].at \in {"streaming", "ready"} /\ req'[r].size = e.n /\ req'[r].kind = req[r].kind
        /\ req'[r].sent = req[r].sent /\ req'[r].got = req[r].got
    BY <1>3, <1>20 DEF TakesReady, Record
  <2>2. Starts(r)' = Starts(r) /\ Finishes(r)' = Finishes(r) /\ Got(r)' <= Got(r)
    BY <1>18, <1>20 DEF TakesReady
  <2>3. Readies(r) > 0
    <3>1. Of(inbox[r], r, {"ready"}) = Of(inbox'[r], r, {"ready"}) + 1
      BY <1>7, <2>1
    <3>2. Of(inbox'[r], r, {"ready"}) \in Nat /\ Of(up, r, {"ready"}) \in Nat
      BY <1>8
    <3> QED BY <3>1, <3>2 DEF Readies
  <2>4. ~Untouched(r) /\ ~Early(r) /\ ~Early(r)' /\ ~Untouched(r)'
    <3>1. ~Untouched(r)
      BY <1>10, <1>11, <2>3 DEF Good, UntouchedIsClean
    <3> QED BY <2>1, <2>2, <3>1 DEF Untouched, Early
  <2>5. req[r].sent = 0 /\ req[r].got = 0
    BY <1>10, <2>1 DEF Good
  <2>6. UploadFits(r)'
    <3>1. CASE req[r].kind = "upload"
      <4>1. Sent(r) <= 0 /\ Finishes(r) = 0
        BY <1>10, <1>11, <2>1, <2>5, <3>1 DEF Good, UploadFits, Over
      <4>2. Sent(r)' <= 0 /\ Finishes(r)' = 0
        BY <1>11, <1>16, <2>2, <4>1
      <4> QED BY <2>1, <2>5, <3>1, <4>2 DEF UploadFits
    <3>2. CASE req[r].kind # "upload"
      BY <1>10, <1>11, <1>16, <2>1, <2>2, <3>2 DEF Good, UploadFits
    <3> QED BY <3>1, <3>2
  <2>7. DownloadFits(r)'
    BY <1>10, <1>11, <1>b, <2>1, <2>2 DEF Good, DownloadFits
  <2>8. req'[r].sent - req'[r].got <= Window /\ req'[r].sent <= req'[r].size /\ req'[r].got <= req'[r].size
    BY <1>3, <1>5, <2>1, <2>5
  <2>9. Good(r)'
    BY <1>5, <1>d, <2>1, <2>2, <2>4, <2>6, <2>7, <2>8
  <2> QED BY <1>14, <1>15, <2>9 DEF Underway
<1>21. CASE TakesAck(r, e)
  <2>1. /\ req[r].at = "streaming" /\ e.type = "ack" /\ req[r].kind = "upload"
        /\ req'[r].at = "streaming" /\ req'[r].size = req[r].size /\ req'[r].kind = "upload"
        /\ req'[r].sent = req[r].sent /\ req'[r].got = req[r].got + 1
    BY <1>3, <1>21 DEF TakesAck, Record
  <2>2. Starts(r)' = Starts(r) /\ Finishes(r)' = Finishes(r) /\ Got(r)' <= Got(r)
    BY <1>18, <1>21 DEF TakesAck
  <2>3. Sent(r)' = Sent(r) - 1
    BY <1>16, <2>1
  <2>4. ~Untouched(r) /\ ~Early(r) /\ ~Early(r)' /\ ~Untouched(r)'
    BY <1>10, <2>1, <2>2, Streaming DEF Untouched, Early
  <2>5. Sent(r) <= req[r].sent - req[r].got /\ Finishes(r) <= 1 /\ Finishes(r) # 1
    BY <1>10, <2>1 DEF Good, UploadFits, Over
  <2>6. Sent(r)' <= req'[r].sent - req'[r].got /\ req'[r].got <= req'[r].sent
    BY <1>11, <2>1, <2>3, <2>5
  <2>7. UploadFits(r)'
    BY <2>1, <2>2, <2>5, <2>6 DEF UploadFits
  <2>8. DownloadFits(r)'
    BY <1>10, <1>11, <2>1, <2>2 DEF Good, DownloadFits
  <2>9. /\ req[r].sent - req[r].got <= Window /\ req[r].size <= Size[r] /\ req[r].sent <= req[r].size
    BY <1>10 DEF Good
  <2>10. req'[r].sent - req'[r].got <= Window /\ req'[r].got <= req'[r].size
    <3>1. req[r].sent - (req[r].got + 1) <= Window
      <4>1. req[r].sent - req[r].got <= Window
        BY <2>9
      <4>2. req[r].sent \in Nat /\ req[r].got \in Nat /\ Window \in Nat
        BY <1>3, <1>11
      <4> QED BY <4>1, <4>2
    <3>2. req[r].got + 1 <= req[r].sent
      BY <2>1, <2>6
    <3>3. req[r].got + 1 <= req[r].size
      BY <1>11, <2>9, <3>2
    <3> QED BY <2>1, <3>1, <3>3
  <2>11. Good(r)'
    BY <1>d, <2>1, <2>2, <2>4, <2>7, <2>8, <2>9, <2>10
  <2> QED BY <1>14, <1>15, <2>11 DEF Underway
<1>22. CASE TakesChunk(r, e)
  <2>1. /\ req[r].at = "streaming" /\ e.type = "chunk" /\ req[r].kind = "download"
        /\ e.n = req[r].got /\ e.n < req[r].size
        /\ req'[r].at = "streaming" /\ req'[r].size = req[r].size /\ req'[r].kind = "download"
        /\ req'[r].sent = req[r].sent /\ req'[r].got = req[r].got + 1
    BY <1>3, <1>22 DEF TakesChunk, Record
  <2>2. /\ \A T : "ack" \notin T => Of(down', r, T) = Of(down, r, T)
        /\ \A T : Of(down', r, T) <= Of(down, r, T) + 1
    BY <1>5, <1>22, PutFacts DEF TakesChunk
  <2>3. Starts(r)' = Starts(r) /\ Finishes(r)' = Finishes(r)
    <3>1. /\ Of(down', r, {"start"}) = Of(down, r, {"start"})
          /\ Of(down', r, {"finish"}) = Of(down, r, {"finish"})
      BY <2>2
    <3>2. xfer' = xfer
      BY <1>1
    <3> QED BY <3>1, <3>2 DEF Starts, Finishes
  <2>4. Got(r)' <= Got(r)
    <3>1. Of(inbox[r], r, {"chunk"}) = Of(inbox'[r], r, {"chunk"}) + 1
      BY <1>7, <2>1
    <3>2. Of(down', r, {"ack"}) <= Of(down, r, {"ack"}) + 1
      BY <2>2
    <3>3. Of(data', r, {"chunk"}) = Of(data, r, {"chunk"}) /\ Of(xfer'.queue, r, {"ack"}) = Of(xfer.queue, r, {"ack"})
      BY <1>1
    <3>4. /\ Of(down, r, {"ack"}) \in Nat /\ Of(data, r, {"chunk"}) \in Nat
          /\ Of(down', r, {"ack"}) \in Nat
          /\ Of(xfer.queue, r, {"ack"}) \in Nat /\ Of(inbox[r], r, {"chunk"}) \in Nat
          /\ Of(inbox'[r], r, {"chunk"}) \in Nat
      BY <1>8
    <3> QED BY <3>1, <3>2, <3>3, <3>4 DEF Got
  <2>5. ~Untouched(r) /\ ~Early(r) /\ ~Early(r)' /\ ~Untouched(r)'
    BY <1>10, <2>1, <2>3, Streaming DEF Untouched, Early
  <2>6. UploadFits(r)'
    BY <1>10, <1>11, <1>16, <2>1, <2>3 DEF Good, UploadFits
  <2>7. DownloadFits(r)'
    <3>1. Got(r) <= InWindow(r)
      BY <1>10, <2>1 DEF Good, DownloadFits
    <3>2. Got(r)' <= InWindow(r)'
      BY <1>11, <1>b, <2>4, <3>1
    <3> QED BY <2>1, <3>2 DEF DownloadFits
  <2>8. /\ req[r].sent - req[r].got <= Window /\ req[r].size <= Size[r] /\ req[r].sent <= req[r].size
    BY <1>10 DEF Good
  <2>9. req'[r].sent - req'[r].got <= Window /\ req'[r].got <= req'[r].size
    <3>1. req[r].sent - (req[r].got + 1) <= Window
      <4>1. req[r].sent - req[r].got <= Window
        BY <2>8
      <4>2. req[r].sent \in Nat /\ req[r].got \in Nat /\ Window \in Nat
        BY <1>3, <1>11
      <4> QED BY <4>1, <4>2
    <3>2. req[r].got + 1 <= req[r].size
      BY <1>11, <2>1
    <3> QED BY <2>1, <3>1, <3>2
  <2>10. Good(r)'
    BY <1>d, <2>1, <2>3, <2>5, <2>6, <2>7, <2>8, <2>9
  <2> QED BY <1>14, <1>15, <2>10 DEF Underway
<1> QED BY <1>12, <1>19, <1>20, <1>21, <1>22

\* Nothing is under way at the start.
LEMMA UnderwayAtInit ==
  ASSUME Init
  PROVE  Underway
<1>1. /\ xfer.req = None /\ xfer.queue = <<>> /\ xfer.at = "opening" /\ xfer.sent = 0 /\ xfer.got = 0
      /\ down = <<>> /\ frames = <<>> /\ up = <<>> /\ data = <<>>
  BY DEF Init, NoXfer
<1>2. TaskFits
  BY <1>1 DEF TaskFits
<1>3. ASSUME NEW r \in Requests PROVE Good(r)
  <2>1. /\ req[r].at = "idle" /\ req[r].kind = "list" /\ req[r].sent = 0 /\ req[r].got = 0 /\ req[r].size = 0
        /\ inbox[r] = <<>> /\ pending[r] = 0 /\ temp[r] = "none" /\ backup[r] = None
    BY DEF Init, Idle
  <2>2. /\ Of(down, r, {"start"}) = 0 /\ Of(down, r, {"finish"}) = 0 /\ Of(xfer.queue, r, {"finish"}) = 0
        /\ Of(up, r, {"ready"}) = 0 /\ Of(inbox[r], r, {"ready"}) = 0
        /\ Of(up, r, Finals) = 0 /\ Of(inbox[r], r, Finals) = 0
        /\ Of(frames, r, {"chunk"}) = 0 /\ Of(xfer.queue, r, {"chunk"}) = 0
        /\ Of(up, r, {"ack"}) = 0 /\ Of(inbox[r], r, {"ack"}) = 0
        /\ Of(down, r, {"ack"}) = 0 /\ Of(xfer.queue, r, {"ack"}) = 0
        /\ Of(data, r, {"chunk"}) = 0 /\ Of(inbox[r], r, {"chunk"}) = 0
        /\ Of(inbox[r], r, {"gone"}) = 0
    BY <1>1, <2>1, OfEmpty
  <2>3. /\ Starts(r) = 0 /\ Finishes(r) = 0 /\ Readies(r) = 0 /\ Verdicts(r) = 0
        /\ Sent(r) = 0 /\ Got(r) = 0 /\ Gones(r) = 0
    BY <2>1, <2>2 DEF Starts, Finishes, Readies, Verdicts, Sent, Got, Gones
  <2>4. Window \in Nat /\ Size[r] \in Nat /\ r # None
    BY Constants
  <2>5. UntouchedIsClean(r)
    BY <1>1, <2>1, <2>3, <2>4 DEF UntouchedIsClean
  <2>6. UploadFits(r) /\ DownloadFits(r)
    BY <2>1, <2>3 DEF UploadFits, DownloadFits
  <2>7. Early(r) /\ ~Opens(r)
    BY <1>1, <2>1, <2>4 DEF Early, Opens
  <2> QED BY <1>1, <2>1, <2>3, <2>4, <2>5, <2>6, <2>7 DEF Good
<1> QED BY <1>2, <1>3 DEF Underway

\* Every step keeps the bounds of every request.
LEMMA UnderwayKept ==
  ASSUME Shape, Underway, [Next]_vars
  PROVE  Underway'
<1>1. Shape'
  BY ShapeKept
<1>2. CASE UNCHANGED vars
  BY <1>1, <1>2, QuietKeeps
<1>3. CASE Created
  BY <1>1, <1>3, QuietKeeps
<1>4. ASSUME NEW c \in Conns, Connect(c) \/ Lose(c) \/ Sweep(c) \/ Vanish(c) PROVE Underway'
  BY <1>1, <1>4, QuietKeeps, SweepKeeps
<1>5. CASE Disconnect
  BY <1>1, <1>5, DisconnectKeeps
<1>6. ASSUME NEW r \in Requests,
             \/ \E k \in Controls, o \in BOOLEAN : BeginControl(r, k, o)
             \/ \E o \in BOOLEAN, n \in 0..Size[r] : BeginUpload(r, o, n)
             \/ BeginDownload(r)
      PROVE  Underway'
  <2>1. 0 \in 0..Size[r] /\ "upload" \in Transfers \cup Controls /\ "download" \in Transfers \cup Controls
        /\ FALSE \in BOOLEAN
    BY FileTransferAssumption DEF Transfers
  <2> QED BY <1>1, <1>6, <2>1, BeginKeeps DEF BeginControl, BeginUpload, BeginDownload
<1>7. ASSUME NEW r \in Requests,
             \/ TakeSlot(r) \/ Leave(r) \/ Timeout(r) \/ BodyBreaks(r) \/ OpenStream(r) \/ Poll(r)
             \/ Recorded(r) \/ Unrecorded(r) \/ Forget(r)
      PROVE  Underway'
  BY <1>1, <1>7, QuietKeeps
<1>8. ASSUME NEW r \in Requests,
             \/ Register(r) \/ Receive(r) \/ SendChunk(r) \/ SendFinish(r) \/ Cancel(r)
             \/ \E n \in 0..Size[r] : Start(r, n)
      PROVE  Underway'
  BY <1>1, <1>8, RegisterKeeps, ReceiveKeeps, SendChunkKeeps, SendFinishKeeps, CancelKeeps, StartKeeps
<1>9. CASE Response \/ Chunk \/ FinishUpload \/ AcknowledgeDownload \/ Frame \/ Stop
  BY <1>1, <1>9, DeliverKeeps, AgentKeeps, StopKeeps
<1>10. CASE Look \/ Open \/ Write \/ Read \/ TakeAck
            \/ Check \/ SetAside \/ Rename \/ RenameFails \/ Committed \/ SentAll
  BY <1>1, <1>10, LookKeeps, OpenKeeps, WriteKeeps, ReadKeeps, TakeAckKeeps, CommitKeeps
<1> QED BY <1>2, <1>3, <1>4, <1>5, <1>6, <1>7, <1>8, <1>9, <1>10 DEF Next

\* Messages of one kind or another are counted kind by kind.
LEMMA OfSplit ==
  ASSUME NEW q \in Seq(Message), NEW r, NEW S, NEW T, S \cap T = {}
  PROVE  Of(q, r, S \cup T) = Of(q, r, S) + Of(q, r, T)
<1> DEFINE A == {i \in 1..Len(q) : q[i].req = r /\ q[i].type \in S}
           B == {i \in 1..Len(q) : q[i].req = r /\ q[i].type \in T}
           C == {i \in 1..Len(q) : q[i].req = r /\ q[i].type \in S \cup T}
<1>1. IsFiniteSet(A) /\ IsFiniteSet(B)
  <2>1. Len(q) \in Nat
    OBVIOUS
  <2>2. IsFiniteSet(1..Len(q))
    BY <2>1, FS_Interval
  <2>3. A \subseteq 1..Len(q) /\ B \subseteq 1..Len(q)
    OBVIOUS
  <2> HIDE DEF A, B
  <2> QED BY <2>2, <2>3, FS_Subset
<1>2. C = A \cup B /\ A \cap B = {}
  OBVIOUS
<1>3. Of(q, r, S) = Cardinality(A) /\ Of(q, r, T) = Cardinality(B) /\ Of(q, r, S \cup T) = Cardinality(C)
  BY DEF Of
<1> HIDE DEF A, B, C
<1>4. Cardinality(A \cup B) = Cardinality(A) + Cardinality(B) - Cardinality(A \cap B)
  BY <1>1, FS_Union
<1>5. Cardinality(A \cap B) = 0
  BY <1>2, FS_EmptySet
<1>6. Cardinality(A) \in Nat /\ Cardinality(B) \in Nat
  BY <1>1, FS_CardinalityType
<1> QED BY <1>2, <1>3, <1>4, <1>5, <1>6

\* A queue that holds nothing else is as long as its count.
LEMMA OfAll ==
  ASSUME NEW q \in Seq(Message), NEW r, NEW T,
         \A i \in 1..Len(q) : q[i].req = r /\ q[i].type \in T
  PROVE  Of(q, r, T) = Len(q)
<1>1. {i \in 1..Len(q) : q[i].req = r /\ q[i].type \in T} = 1..Len(q)
  OBVIOUS
<1>2. Len(q) \in Nat
  OBVIOUS
<1>3. Cardinality(1..Len(q)) = Len(q)
  BY <1>2, FS_Interval
<1> QED BY <1>1, <1>3 DEF Of

\* What is under way to a handler fits its queue of events: one ready, one verdict, one
\* notice that the connection is gone, and a window of chunks or acknowledgements.
LEMMA InboxFits ==
  ASSUME Shape, Underway, NEW r \in Requests
  PROVE  Len(inbox[r]) + Of(up, r, {"ready", "result", "ack", "complete", "error"})
           + Of(data, r, {"chunk"}) <= 2 * Window + 4
<1>1. Good(r) /\ Window \in Nat /\ r # None
  BY Constants DEF Underway
<1>2. /\ inbox[r] \in Seq(Message) /\ inbox[r] \in Seq(Events(r)) /\ up \in Seq(Message)
  BY AllMessages DEF Shape, BoxTypes
<1> DEFINE F == {"ready"} \cup Finals
           G == F \cup {"ack"}
           H == G \cup {"chunk"}
           K == H \cup {"gone"}
<1>3. /\ {"ready"} \cap Finals = {} /\ F \cap {"ack"} = {} /\ G \cap {"chunk"} = {} /\ H \cap {"gone"} = {}
      /\ {"ready", "result", "ack", "complete", "error"} = G
      /\ K = Finals \cup {"ready", "ack", "chunk", "gone"}
  BY DEF Finals
<1>4. \A i \in 1..Len(inbox[r]) : inbox[r][i].req = r /\ inbox[r][i].type \in K
  <2>1. \A i \in 1..Len(inbox[r]) : inbox[r][i] \in Events(r)
    BY <1>2
  <2>2. \A m \in Events(r) : m.req = r /\ m.type \in K
    BY <1>3 DEF Events
  <2> QED BY <2>1, <2>2
<1> HIDE DEF F, G, H, K
<1>5. \A q \in Seq(Message) : /\ Of(q, r, F) = Of(q, r, {"ready"}) + Of(q, r, Finals)
                              /\ Of(q, r, G) = Of(q, r, F) + Of(q, r, {"ack"})
                              /\ Of(q, r, H) = Of(q, r, G) + Of(q, r, {"chunk"})
                              /\ Of(q, r, K) = Of(q, r, H) + Of(q, r, {"gone"})
  <2> SUFFICES ASSUME NEW q \in Seq(Message)
               PROVE  /\ Of(q, r, F) = Of(q, r, {"ready"}) + Of(q, r, Finals)
                      /\ Of(q, r, G) = Of(q, r, F) + Of(q, r, {"ack"})
                      /\ Of(q, r, H) = Of(q, r, G) + Of(q, r, {"chunk"})
                      /\ Of(q, r, K) = Of(q, r, H) + Of(q, r, {"gone"})
    OBVIOUS
  <2>1. Of(q, r, F) = Of(q, r, {"ready"}) + Of(q, r, Finals)
    BY <1>3, OfSplit DEF F
  <2>2. Of(q, r, G) = Of(q, r, F) + Of(q, r, {"ack"})
    BY <1>3, OfSplit DEF G
  <2>3. Of(q, r, H) = Of(q, r, G) + Of(q, r, {"chunk"})
    BY <1>3, OfSplit DEF H
  <2>4. Of(q, r, K) = Of(q, r, H) + Of(q, r, {"gone"})
    BY <1>3, OfSplit DEF K
  <2> QED BY <2>1, <2>2, <2>3, <2>4
<1>6. Len(inbox[r]) = Of(inbox[r], r, K)
  BY <1>2, <1>4, OfAll
<1>7. \A T : Of(up, r, T) \in Nat /\ Of(inbox[r], r, T) \in Nat /\ Of(data, r, T) \in Nat
             /\ Of(down, r, T) \in Nat /\ Of(frames, r, T) \in Nat /\ Of(xfer.queue, r, T) \in Nat
  BY Counted DEF QueueCounts
<1>8. Len(inbox[r]) = Of(inbox[r], r, {"ready"}) + Of(inbox[r], r, Finals) + Of(inbox[r], r, {"ack"})
                        + Of(inbox[r], r, {"chunk"}) + Of(inbox[r], r, {"gone"})
  BY <1>2, <1>5, <1>6, <1>7
<1>9. Of(up, r, G) = Of(up, r, {"ready"}) + Of(up, r, Finals) + Of(up, r, {"ack"})
  BY <1>2, <1>5, <1>7
<1>10. Of(inbox[r], r, {"ready"}) + Of(up, r, {"ready"}) <= 1
  BY <1>1, <1>7 DEF Good, Readies
<1>11. Of(inbox[r], r, Finals) + Of(up, r, Finals) <= 1
  BY <1>1, <1>7 DEF Good, Verdicts
<1>12. Of(inbox[r], r, {"gone"}) <= 1
  <2>1. Gones(r) <= 1
    BY <1>1, Counted DEF Good, Counts
  <2> QED BY <1>7, <2>1 DEF Gones
<1>13. Sent(r) \in Nat /\ Got(r) \in Nat /\ Sent(r) + Got(r) <= Window
  <2>1. /\ Sent(r) \in Nat /\ Got(r) \in Nat /\ req[r].sent \in Nat /\ req[r].got \in Nat
        /\ xfer.sent \in Nat /\ xfer.got \in Nat
    BY Counted DEF Counts, Numbers
  <2>2. InWindow(r) <= Window /\ InWindow(r) \in Int
    BY <1>1, <2>1 DEF InWindow, Underway, TaskFits
  <2>3. req[r].sent - req[r].got <= Window
    BY <1>1 DEF Good
  <2>4. CASE req[r].kind = "upload"
    <3>1. Sent(r) <= req[r].sent - req[r].got /\ Got(r) = 0
      BY <1>1, <2>4 DEF Good, UploadFits, DownloadFits
    <3> QED BY <1>1, <2>1, <2>3, <3>1
  <2>5. CASE req[r].kind # "upload"
    <3>1. Sent(r) = 0 /\ (Got(r) <= InWindow(r) \/ Got(r) = 0)
      BY <1>1, <2>5 DEF Good, UploadFits, DownloadFits
    <3> QED BY <1>1, <2>1, <2>2, <3>1
  <2> QED BY <2>4, <2>5
<1>14. Of(up, r, {"ack"}) + Of(inbox[r], r, {"ack"}) <= Sent(r)
  <2>1. /\ Of(up, r, {"ack"}) \in Nat /\ Of(inbox[r], r, {"ack"}) \in Nat
        /\ Of(frames, r, {"chunk"}) \in Nat /\ Of(xfer.queue, r, {"chunk"}) \in Nat
    BY <1>7
  <2> QED BY <2>1 DEF Sent
<1>15. Of(data, r, {"chunk"}) + Of(inbox[r], r, {"chunk"}) <= Got(r)
  <2>1. /\ Of(data, r, {"chunk"}) \in Nat /\ Of(inbox[r], r, {"chunk"}) \in Nat
        /\ Of(down, r, {"ack"}) \in Nat /\ Of(xfer.queue, r, {"ack"}) \in Nat
    BY <1>7
  <2> QED BY <2>1 DEF Got
<1>16. /\ Of(inbox[r], r, {"ready"}) \in Nat /\ Of(inbox[r], r, Finals) \in Nat /\ Of(inbox[r], r, {"ack"}) \in Nat
       /\ Of(inbox[r], r, {"chunk"}) \in Nat /\ Of(inbox[r], r, {"gone"}) \in Nat
       /\ Of(up, r, {"ready"}) \in Nat /\ Of(up, r, Finals) \in Nat /\ Of(up, r, {"ack"}) \in Nat
       /\ Of(data, r, {"chunk"}) \in Nat
  BY <1>7
<1> DEFINE i1 == Of(inbox[r], r, {"ready"})
           i2 == Of(inbox[r], r, Finals)
           i3 == Of(inbox[r], r, {"ack"})
           i4 == Of(inbox[r], r, {"chunk"})
           i5 == Of(inbox[r], r, {"gone"})
           u1 == Of(up, r, {"ready"})
           u2 == Of(up, r, Finals)
           u3 == Of(up, r, {"ack"})
           d4 == Of(data, r, {"chunk"})
           sent == Sent(r)
           got == Got(r)
           all == Len(inbox[r])
           ups == Of(up, r, G)
<1>17. /\ i1 \in Nat /\ i2 \in Nat /\ i3 \in Nat /\ i4 \in Nat /\ i5 \in Nat
       /\ u1 \in Nat /\ u2 \in Nat /\ u3 \in Nat /\ d4 \in Nat
       /\ sent \in Nat /\ got \in Nat /\ sent + got <= Window
       /\ i1 + u1 <= 1 /\ i2 + u2 <= 1 /\ i5 <= 1 /\ u3 + i3 <= sent /\ d4 + i4 <= got
       /\ all = i1 + i2 + i3 + i4 + i5 /\ ups = u1 + u2 + u3
  BY <1>8, <1>9, <1>10, <1>11, <1>12, <1>13, <1>14, <1>15, <1>16
<1>18. Len(inbox[r]) + Of(up, r, {"ready", "result", "ack", "complete", "error"}) + Of(data, r, {"chunk"})
         = all + ups + d4
  BY <1>3
<1> HIDE DEF i1, i2, i3, i4, i5, u1, u2, u3, d4, sent, got, all, ups
<1>19. all + ups + d4 <= 2 * Window + 4
  BY <1>1, <1>17
<1> QED BY <1>18, <1>19

\* What is under way to the transfer of the agent fits its channel: a window of chunks,
\* or the end of the upload after the last of them, or a window of acknowledgements.
LEMMA TransferFits ==
  ASSUME Shape, Underway, xfer.req # None
  PROVE  Len(xfer.queue) + Of(frames, xfer.req, {"chunk"})
           + Of(down, xfer.req, {"finish", "ack"}) <= Window
<1> DEFINE r == xfer.req
<1>1. /\ r \in Requests /\ Window \in Nat /\ Window >= 1 /\ r # None
      /\ xfer.kind \in Transfers
  BY Constants DEF Shape, XferTypes, Transfer
<1>2. /\ xfer.queue \in Seq(Message) /\ xfer.queue \in Seq(Parcels) /\ down \in Seq(Message)
  BY AllMessages DEF Shape, XferTypes
<1>3. Good(r)
  BY <1>1 DEF Underway
<1>4. xfer.kind = req[r].kind /\ xfer.sent - xfer.got <= Window
  BY DEF Underway, TaskFits
<1>5. \A i \in 1..Len(xfer.queue) :
        /\ xfer.queue[i].req = r
        /\ xfer.queue[i].type \in {"chunk", "finish", "ack"}
        /\ xfer.queue[i].type = "ack" <=> xfer.kind = "download"
  <2>1. \A i \in 1..Len(xfer.queue) : xfer.queue[i] \in Parcels
    BY <1>2
  <2> QED BY <2>1 DEF Parcels
<1> HIDE DEF r
<1>6. \A T : Of(up, r, T) \in Nat /\ Of(inbox[r], r, T) \in Nat /\ Of(data, r, T) \in Nat
             /\ Of(down, r, T) \in Nat /\ Of(frames, r, T) \in Nat /\ Of(xfer.queue, r, T) \in Nat
  BY <1>1, Counted DEF QueueCounts
<1>7. Of(down, r, {"finish", "ack"}) = Of(down, r, {"finish"}) + Of(down, r, {"ack"})
  <2>1. {"finish", "ack"} = {"finish"} \cup {"ack"} /\ {"finish"} \cap {"ack"} = {}
    OBVIOUS
  <2> QED BY <1>2, <2>1, OfSplit
<1>8. /\ Of(down, r, {"finish"}) \in Nat /\ Of(down, r, {"ack"}) \in Nat /\ Of(frames, r, {"chunk"}) \in Nat
      /\ Of(xfer.queue, r, {"chunk"}) \in Nat /\ Of(xfer.queue, r, {"finish"}) \in Nat
      /\ Of(xfer.queue, r, {"ack"}) \in Nat /\ Of(up, r, {"ack"}) \in Nat /\ Of(inbox[r], r, {"ack"}) \in Nat
      /\ Of(data, r, {"chunk"}) \in Nat /\ Of(inbox[r], r, {"chunk"}) \in Nat
  BY <1>6
<1>9. /\ Sent(r) \in Nat /\ Got(r) \in Nat /\ Finishes(r) \in Nat
      /\ req[r].sent \in Nat /\ req[r].got \in Nat /\ xfer.sent \in Nat /\ xfer.got \in Nat
  BY <1>1, Counted DEF Counts, Numbers
<1>10. /\ Of(frames, r, {"chunk"}) + Of(xfer.queue, r, {"chunk"}) <= Sent(r)
       /\ Of(down, r, {"ack"}) + Of(xfer.queue, r, {"ack"}) <= Got(r)
       /\ Of(down, r, {"finish"}) + Of(xfer.queue, r, {"finish"}) = Finishes(r)
  BY <1>8 DEF Sent, Got, Finishes
<1>11. CASE xfer.kind = "upload"
  <2>1. {"chunk", "finish"} = {"chunk"} \cup {"finish"} /\ {"chunk"} \cap {"finish"} = {}
    OBVIOUS
  <2>2. \A i \in 1..Len(xfer.queue) : xfer.queue[i].req = r /\ xfer.queue[i].type \in {"chunk", "finish"}
    BY <1>5, <1>11
  <2>3. Of(xfer.queue, r, {"chunk", "finish"}) = Len(xfer.queue)
    BY <1>2, <2>2, OfAll
  <2>4. Of(xfer.queue, r, {"chunk", "finish"}) = Of(xfer.queue, r, {"chunk"}) + Of(xfer.queue, r, {"finish"})
    BY <1>2, <2>1, OfSplit
  <2>5. /\ Sent(r) <= req[r].sent - req[r].got /\ Got(r) = 0
        /\ Finishes(r) <= 1 /\ (Finishes(r) = 1 => req[r].sent = req[r].got)
        /\ req[r].sent - req[r].got <= Window
    BY <1>3, <1>4, <1>11 DEF Good, UploadFits, DownloadFits
  <2>6. Sent(r) + Finishes(r) + Got(r) <= Window
    BY <1>1, <1>9, <2>5
  <2>7. Len(xfer.queue) + Of(frames, r, {"chunk"}) + (Of(down, r, {"finish"}) + Of(down, r, {"ack"})) <= Window
    <3>1. Of(frames, r, {"chunk"}) + Of(xfer.queue, r, {"chunk"})
            + (Of(down, r, {"finish"}) + Of(xfer.queue, r, {"finish"})) + Of(down, r, {"ack"})
            <= Sent(r) + Finishes(r) + Got(r)
      BY <1>8, <1>9, <1>10
    <3>2. Of(frames, r, {"chunk"}) + Of(xfer.queue, r, {"chunk"})
            + (Of(down, r, {"finish"}) + Of(xfer.queue, r, {"finish"})) + Of(down, r, {"ack"}) <= Window
      BY <1>1, <1>8, <1>9, <2>6, <3>1
    <3>3. Len(xfer.queue) = Of(xfer.queue, r, {"chunk"}) + Of(xfer.queue, r, {"finish"})
      BY <2>3, <2>4
    <3> QED BY <1>1, <1>8, <3>2, <3>3
  <2> QED BY <1>7, <2>7 DEF r
<1>12. CASE xfer.kind = "download"
  <2>1. \A i \in 1..Len(xfer.queue) : xfer.queue[i].req = r /\ xfer.queue[i].type \in {"ack"}
    BY <1>5, <1>12
  <2>2. Of(xfer.queue, r, {"ack"}) = Len(xfer.queue)
    BY <1>2, <2>1, OfAll
  <2>3. Sent(r) = 0 /\ Finishes(r) = 0 /\ Got(r) <= xfer.sent - xfer.got
    BY <1>3, <1>4, <1>12 DEF Good, UploadFits, DownloadFits, InWindow, r
  <2>4. Sent(r) + Finishes(r) + Got(r) <= Window
    BY <1>1, <1>4, <1>9, <2>3
  <2>5. Len(xfer.queue) + Of(frames, r, {"chunk"}) + (Of(down, r, {"finish"}) + Of(down, r, {"ack"})) <= Window
    <3>1. Of(frames, r, {"chunk"}) + Of(down, r, {"finish"}) + (Of(down, r, {"ack"}) + Of(xfer.queue, r, {"ack"}))
            <= Sent(r) + Finishes(r) + Got(r)
      BY <1>8, <1>9, <1>10
    <3>2. Of(frames, r, {"chunk"}) + Of(down, r, {"finish"}) + (Of(down, r, {"ack"}) + Of(xfer.queue, r, {"ack"}))
            <= Window
      BY <1>1, <1>8, <1>9, <2>4, <3>1
    <3>3. Of(xfer.queue, r, {"ack"}) + Of(frames, r, {"chunk"})
            + (Of(down, r, {"finish"}) + Of(down, r, {"ack"})) <= Window
      BY <1>1, <1>8, <3>2
    <3> QED BY <2>2, <3>3
  <2> QED BY <1>7, <2>5 DEF r
<1> QED BY <1>1, <1>11, <1>12 DEF Transfers

\* The bounds of each request are those of the queues.
LEMMA WindowHolds ==
  ASSUME Shape, Underway
  PROVE  QueuesHold
<1>1. Window \in Nat
  BY Constants
<1>2. ASSUME NEW r \in Requests
      PROVE  /\ req[r].at \in Steps /\ req[r].kind \in Transfers \cup Controls
             /\ req[r].size \in 0..Size[r] /\ req[r].sent \in 0..Size[r] /\ req[r].got \in 0..Size[r]
  <2>1. /\ req[r].at \in Steps /\ req[r].kind \in Transfers \cup Controls
        /\ req[r].size \in Nat /\ req[r].sent \in Nat /\ req[r].got \in Nat /\ Size[r] \in Nat
    BY Counted, Constants DEF Numbers
  <2>2. req[r].size <= Size[r] /\ req[r].sent <= req[r].size /\ req[r].got <= req[r].size
    BY DEF Underway, Good
  <2> QED BY <2>1, <2>2
<1>3. ASSUME NEW r \in Requests PROVE Len(inbox[r]) <= 2 * Window + 4
  <2>1. Len(inbox[r]) \in Nat
    BY AllMessages
  <2>2. Of(up, r, {"ready", "result", "ack", "complete", "error"}) \in Nat /\ Of(data, r, {"chunk"}) \in Nat
    BY Counted DEF QueueCounts
  <2> QED BY <1>1, <2>1, <2>2, InboxFits
<1>4. Len(xfer.queue) <= Window
  <2>1. xfer.queue \in Seq(Message) /\ xfer.queue \in Seq(Parcels) /\ Len(xfer.queue) \in Nat
    BY AllMessages DEF Shape, XferTypes
  <2>2. CASE xfer.req = None
    <3>1. Parcels = {}
      BY <2>2, FileTransferAssumption DEF Parcels, Message
    <3>2. Len(xfer.queue) = 0
      BY <2>1, <3>1
    <3> QED BY <1>1, <3>2
  <2>3. CASE xfer.req # None
    <3>1. xfer.req \in Requests
      BY <2>3 DEF Shape, XferTypes, Transfer
    <3>2. Of(frames, xfer.req, {"chunk"}) \in Nat /\ Of(down, xfer.req, {"finish", "ack"}) \in Nat
      BY <3>1, Counted DEF QueueCounts
    <3> QED BY <1>1, <2>1, <2>3, <3>2, TransferFits
  <2> QED BY <2>2, <2>3
<1>5. TypeOK
  BY <1>2, <1>3, <1>4 DEF TypeOK, Shape, NetTypes, ServerTypes, DiskTypes, XferTypes, Transfer, Steps
<1> QED BY <1>5, InboxFits, TransferFits DEF QueuesHold

\* Whatever is under way to a transfer of the agent and to a handler of the backend fits
\* the queue it is going to, for any window, sizes, requests and connections: neither
\* try_send of the agent's channel nor the one of the handler's events finds it full.
THEOREM QueuesStayWithin == Spec => []QueuesHold
<1>1. Init => Shape /\ Underway
  BY ShapeAtInit, UnderwayAtInit
<1>2. Shape /\ Underway /\ [Next]_vars => (Shape /\ Underway)'
  BY ShapeKept, UnderwayKept
<1>3. Shape /\ Underway => QueuesHold
  BY WindowHolds
<1> QED BY <1>1, <1>2, <1>3, PTL DEF Spec

\* A request that began stays the request it is.
Stays(r) == req[r].at # "idle" => req'[r].at # "idle" /\ req'[r].kind = req[r].kind

\* The steps of the handler of a request, and of the task it leaves behind.
Handles(r) ==
  \/ \E k \in Controls, o \in BOOLEAN : BeginControl(r, k, o)
  \/ \E o \in BOOLEAN, n \in 0..Size[r] : BeginUpload(r, o, n)
  \/ BeginDownload(r)
  \/ TakeSlot(r) \/ Register(r) \/ Leave(r) \/ Timeout(r) \/ Receive(r)
  \/ SendChunk(r) \/ BodyBreaks(r) \/ SendFinish(r) \/ OpenStream(r) \/ Poll(r)
  \/ Recorded(r) \/ Unrecorded(r) \/ Forget(r) \/ Cancel(r)
\* A handler leaves the transfer and the files alone, and its request what it is.
LEMMA HandlerStays ==
  ASSUME Shape, NEW r \in Requests, Handles(r)
  PROVE  /\ \A s \in Requests : Stays(s)
         /\ UNCHANGED <<xfer, disk>>
<1>1. req \in [Requests -> Record]
  BY DEF Shape, ServerTypes
<1>2. CASE UNCHANGED req /\ UNCHANGED <<xfer, disk>>
  BY <1>2 DEF Stays
<1>3. ASSUME req[r].at = "idle", \E q \in Record : req' = [req EXCEPT ![r] = q], UNCHANGED <<xfer, disk>>
      PROVE  (\A s \in Requests : Stays(s)) /\ UNCHANGED <<xfer, disk>>
  BY <1>1, <1>3 DEF Stays
<1>4. ASSUME req'[r].at # "idle" /\ req'[r].kind = req[r].kind, \A s \in Requests : s # r => req'[s] = req[s],
             UNCHANGED <<xfer, disk>>
      PROVE  (\A s \in Requests : Stays(s)) /\ UNCHANGED <<xfer, disk>>
  BY <1>4 DEF Stays
<1>5. ASSUME NEW a \in Steps \ {"idle"}, req' = [req EXCEPT ![r].at = a], UNCHANGED <<xfer, disk>>
      PROVE  (\A s \in Requests : Stays(s)) /\ UNCHANGED <<xfer, disk>>
  <2>1. req'[r].at = a /\ req'[r].kind = req[r].kind /\ \A s \in Requests : s # r => req'[s] = req[s]
    BY <1>1, <1>5 DEF Record
  <2> QED BY <1>4, <1>5, <2>1
<1>6. {"slot", "starting", "failed", "abandoned", "opened", "streaming", "finishing", "done"} \subseteq Steps \ {"idle"}
  BY DEF Steps, Over
<1>7. CASE \/ \E k \in Controls, o \in BOOLEAN : BeginControl(r, k, o)
           \/ \E o \in BOOLEAN, n \in 0..Size[r] : BeginUpload(r, o, n)
           \/ BeginDownload(r)
  <2>1. /\ req[r].at = "idle" /\ UNCHANGED <<xfer, disk>>
        /\ \A s \in Requests : s # r => req'[s] = req[s]
    BY <1>1, <1>7 DEF BeginControl, BeginUpload, BeginDownload, Taken
  <2> QED BY <2>1 DEF Stays
<1>8. CASE \/ TakeSlot(r) \/ Leave(r) \/ Timeout(r) \/ BodyBreaks(r) \/ OpenStream(r) \/ Poll(r) \/ Forget(r)
           \/ Recorded(r) \/ Unrecorded(r) \/ Cancel(r) \/ Register(r)
  <2>1. UNCHANGED <<xfer, disk>>
    BY <1>8 DEF TakeSlot, Leave, Timeout, BodyBreaks, OpenStream, Poll, Recorded, Unrecorded, Forget, Cancel,
       Register
  <2>2. \/ UNCHANGED req
        \/ \E a \in {"slot", "starting", "failed", "abandoned", "opened", "streaming"} : req' = [req EXCEPT ![r].at = a]
    BY <1>8 DEF TakeSlot, Leave, LeavesEarly, Timeout, BodyBreaks, OpenStream, Poll, Recorded, Unrecorded,
       Forget, Cancel, Register, Fails
  <2> QED BY <1>2, <1>5, <1>6, <2>1, <2>2
<1>9. CASE SendFinish(r)
  <2>1. UNCHANGED <<xfer, disk>>
    BY <1>9 DEF SendFinish
  <2>2. \E a \in {"failed", "finishing"} : req' = [req EXCEPT ![r].at = a]
    BY <1>9 DEF SendFinish, Fails
  <2> QED BY <1>5, <1>6, <2>1, <2>2
<1>10. CASE SendChunk(r)
  <2>1. UNCHANGED <<xfer, disk>>
    BY <1>10 DEF SendChunk
  <2>2. req[r].at = "streaming"
    BY <1>10 DEF SendChunk
  <2>3. \/ req' = [req EXCEPT ![r].at = "failed"]
        \/ req' = [req EXCEPT ![r].sent = @ + 1]
    BY <1>10 DEF SendChunk, Fails
  <2>4. CASE req' = [req EXCEPT ![r].sent = @ + 1]
    <3>1. req'[r].at = req[r].at /\ req'[r].kind = req[r].kind /\ \A s \in Requests : s # r => req'[s] = req[s]
      BY <1>1, <2>4 DEF Record
    <3> QED BY <1>4, <2>1, <2>2, <3>1
  <2> QED BY <1>5, <1>6, <2>1, <2>3, <2>4
<1>11. CASE Receive(r)
  <2>1. UNCHANGED <<xfer, disk>>
    BY <1>11 DEF Receive
  <2>2. PICK e : IsOver(r) \/ TakesReady(r, e) \/ TakesAck(r, e) \/ TakesChunk(r, e)
    BY <1>11, ReceiveCases
  <2>3. CASE IsOver(r)
    <3>1. PICK a \in Over : req' = [req EXCEPT ![r].at = a]
      BY <2>3 DEF IsOver
    <3>2. a \in Steps \ {"idle"}
      BY DEF Steps, Over
    <3> QED BY <1>5, <2>1, <3>1, <3>2
  <2>4. CASE TakesReady(r, e)
    <3>1. req'[r].at # "idle" /\ req'[r].kind = req[r].kind /\ \A s \in Requests : s # r => req'[s] = req[s]
      BY <1>1, <2>4 DEF TakesReady, Record
    <3> QED BY <1>4, <2>1, <3>1
  <2>5. CASE TakesAck(r, e)
    <3>1. req'[r].at # "idle" /\ req'[r].kind = req[r].kind /\ \A s \in Requests : s # r => req'[s] = req[s]
      BY <1>1, <2>5 DEF TakesAck, Record
    <3> QED BY <1>4, <2>1, <3>1
  <2>6. CASE TakesChunk(r, e)
    <3>1. req'[r].at # "idle" /\ req'[r].kind = req[r].kind /\ \A s \in Requests : s # r => req'[s] = req[s]
      BY <1>1, <2>6 DEF TakesChunk, Record
    <3> QED BY <1>4, <2>1, <3>1
  <2> QED BY <2>2, <2>3, <2>4, <2>5, <2>6
<1> QED BY <1>7, <1>8, <1>9, <1>10, <1>11 DEF Handles

\* What a step of the agent does to the files.
TaskStep ==
  \/ Look \/ Open \/ Write \/ Check \/ SetAside \/ Rename \/ RenameFails \/ Committed
  \/ Read \/ TakeAck \/ SentAll

\* Either the agent's transfer and files are left alone, or the requests are.
LEMMA OtherSteps ==
  ASSUME Shape, [Next]_vars
  PROVE  \/ UNCHANGED <<xfer, disk>> /\ \A r \in Requests : Stays(r)
         \/ /\ UNCHANGED req
            /\ \/ Created \/ Disconnect \/ Stop \/ FinishUpload \/ AcknowledgeDownload \/ Frame \/ TaskStep
               \/ \E r \in Requests : \E n \in 0..Size[r] : Start(r, n)
<1>1. CASE UNCHANGED vars
  BY <1>1 DEF vars, server, Stays
<1>2. ASSUME NEW c \in Conns, Connect(c) \/ Lose(c) \/ Sweep(c) \/ Vanish(c)
      PROVE  UNCHANGED <<xfer, disk>> /\ \A r \in Requests : Stays(r)
  BY <1>2 DEF Connect, Lose, Sweep, Vanish, server, Stays
<1>3. CASE Response \/ Chunk
  BY <1>3 DEF Response, Chunk, Stays
<1>4. CASE \/ Created \/ Disconnect \/ Stop \/ FinishUpload \/ AcknowledgeDownload \/ Frame \/ TaskStep
           \/ \E r \in Requests : \E n \in 0..Size[r] : Start(r, n)
  <2>1. UNCHANGED server
    BY <1>4 DEF Created, Disconnect, Stop, FinishUpload, AcknowledgeDownload, Frame, TaskStep, Start,
       Look, Open, Write, Check, SetAside, Rename, RenameFails, Committed, Read, TakeAck, SentAll
  <2> QED BY <1>4, <2>1 DEF server
<1> QED BY <1>1, <1>2, <1>3, <1>4, HandlerStays DEF Next, TaskStep, Handles

\* How far the commit of the transfer is.
Commits ==
  /\ xfer.req = None => xfer.at = "opening"
  /\ xfer.req # None =>
       /\ backup[xfer.req] # None => xfer.over /\ xfer.at \in {"renaming", "clearing"}
       /\ xfer.at = "backing" => xfer.over
       /\ xfer.at = "clearing" => target # None \/ \E q \in Requests : Moves(q)

\* The agent sees a start while its request has no file set aside.
LEMMA StartFacts ==
  ASSUME Shape, Underway, NEW r \in Requests, NEW n, Start(r, n)
  PROVE  ~Early(r) /\ backup[r] = None
<1>1. down # <<>> /\ Head(down).type = "start" /\ Head(down).req = r /\ down \in Seq(Message)
  BY AllMessages DEF Start
<1>2. Tail(down) \in Seq(Message)
  BY <1>1, SeqFacts
<1>3. Of(Tail(down), r, {"start"}) \in Nat
  BY <1>2, OfNat
<1>4. Of(down, r, {"start"}) = Of(Tail(down), r, {"start"}) + Is(Head(down), r, {"start"})
  BY <1>1, OfTail
<1>5. Starts(r) > 0
  BY <1>1, <1>3, <1>4 DEF Starts, Is
<1>6. Good(r) /\ Starts(r) \in Nat
  BY Counted DEF Underway, Counts
<1>7. ~Early(r)
  BY <1>5, <1>6 DEF Good
<1> QED BY <1>5, <1>6, <1>7 DEF Good, UntouchedIsClean, Untouched

\* No commit is under way when the transfer ends.
LEMMA EndedCommits ==
  ASSUME Ends
  PROVE  Commits'
<1>1. xfer'.req = None /\ xfer'.at = "opening"
  BY DEF Ends, NoXfer
<1> QED BY <1>1 DEF Commits

\* A transfer that goes on before its commit, or stays where it is.
LEMMA ContinuedCommits ==
  ASSUME Shape, Commits, UNCHANGED <<target, backup>>, \A r \in Requests : Stays(r),
         xfer'.req = xfer.req, xfer'.over = xfer.over,
         \/ xfer'.at = xfer.at
         \/ /\ xfer.req # None /\ xfer.at \in {"opening", "creating", "moving"}
            /\ xfer'.at \in {"creating", "moving", "checking"}
  PROVE  Commits'
<1>1. \A q \in Requests : Moves(q) => Moves(q)'
  BY DEF Moves, Stays
<1>2. backup'[xfer.req] = backup[xfer.req]
  OBVIOUS
<1>3. CASE xfer.req = None
  BY <1>3 DEF Commits
<1>4. CASE xfer.req # None /\ xfer'.at = xfer.at
  BY <1>1, <1>2, <1>4 DEF Commits
<1>5. CASE /\ xfer.req # None /\ xfer.at \in {"opening", "creating", "moving"}
           /\ xfer'.at \in {"creating", "moving", "checking"}
  <2>1. backup[xfer.req] = None
    BY <1>5 DEF Commits
  <2> QED BY <1>2, <1>5, <2>1 DEF Commits
<1> QED BY <1>3, <1>4, <1>5

\* What is handed to the transfer leaves its commit alone or ends it.
LEMMA TakesCommits ==
  ASSUME Shape, Commits, UNCHANGED req, NEW STATE m, Takes(m)
  PROVE  Commits'
<1>1. \A r \in Requests : Stays(r)
  BY DEF Stays
<1>2. CASE UNCHANGED <<xfer, disk>>
  BY <1>1, <1>2, ContinuedCommits DEF disk
<1>3. CASE xfer' = [xfer EXCEPT !.queue = Append(@, m)] /\ UNCHANGED disk
  <2>1. xfer'.req = xfer.req /\ xfer'.over = xfer.over /\ xfer'.at = xfer.at
    BY <1>3 DEF Shape, XferTypes, Transfer
  <2> QED BY <1>1, <1>3, <2>1, ContinuedCommits DEF disk
<1>4. CASE Aborted
  BY <1>4, EndedCommits DEF Aborted
<1> QED BY <1>2, <1>3, <1>4 DEF Takes

\* Each step of the task leaves the commit where the next one needs it.
LEMMA TaskCommits ==
  ASSUME Shape, Commits, UNCHANGED req, TaskStep
  PROVE  Commits'
<1>1. xfer.req \in Requests /\ xfer.req # None /\ xfer \in Transfer
  BY FileTransferAssumption DEF TaskStep, Look, Open, Write, Check, SetAside, Rename, RenameFails, Committed,
     Read, TakeAck, SentAll, Sending, Shape, XferTypes, Transfer
<1>2. \A r \in Requests : Stays(r)
  BY DEF Stays
<1>3. CASE Ends
  BY <1>3, EndedCommits
<1>4. CASE (Look \/ Open \/ Write \/ Read \/ TakeAck) /\ ~Ends
  <2>1. UNCHANGED <<target, backup>>
    BY <1>4 DEF Look, Open, Write, Read, TakeAck
  <2>2. CASE Look \/ Open
    <3>1. /\ \E a \in {"creating", "moving"} : xfer' = [xfer EXCEPT !.at = a]
          /\ xfer.at \in {"opening", "creating"}
      BY <1>4, <2>2 DEF Look, Open, Opening, TaskFails
    <3>2. xfer'.req = xfer.req /\ xfer'.over = xfer.over /\ xfer'.at \in {"creating", "moving"}
      BY <1>1, <3>1 DEF Transfer
    <3> QED BY <1>1, <1>2, <2>1, <3>1, <3>2, ContinuedCommits
  <2>3. CASE Write
    <3>1. /\ xfer.at = "moving"
          /\ \/ xfer' = [xfer EXCEPT !.queue = Tail(@), !.got = @ + 1]
             \/ xfer' = [xfer EXCEPT !.queue = Tail(@), !.at = "checking"]
      BY <1>4, <2>3 DEF Write, TaskFails
    <3>2. xfer'.req = xfer.req /\ xfer'.over = xfer.over /\ xfer'.at \in {"moving", "checking"}
      BY <1>1, <3>1 DEF Transfer
    <3> QED BY <1>1, <1>2, <2>1, <3>1, <3>2, ContinuedCommits
  <2>4. CASE Read \/ TakeAck
    <3>1. \/ xfer' = [xfer EXCEPT !.sent = @ + 1]
          \/ xfer' = [xfer EXCEPT !.queue = Tail(@), !.got = @ + 1]
      BY <1>4, <2>4 DEF Read, TakeAck, TaskFails
    <3>2. xfer'.req = xfer.req /\ xfer'.over = xfer.over /\ xfer'.at = xfer.at
      BY <1>1, <3>1 DEF Transfer
    <3> QED BY <1>2, <2>1, <3>2, ContinuedCommits
  <2> QED BY <1>4, <2>2, <2>3, <2>4
<1>5. CASE Check /\ ~Ends
  <2>1. /\ xfer.at = "checking" /\ ~(target # None /\ ~xfer.over)
        /\ xfer' = [xfer EXCEPT !.at = IF target = None THEN "renaming" ELSE "backing"]
        /\ UNCHANGED backup
    BY <1>5 DEF Check, TaskFails
  <2>2. xfer'.req = xfer.req /\ xfer'.over = xfer.over
        /\ xfer'.at = IF target = None THEN "renaming" ELSE "backing"
    BY <1>1, <2>1 DEF Transfer
  <2>3. backup[xfer.req] = None
    BY <1>1, <2>1 DEF Commits
  <2> QED BY <1>1, <2>1, <2>2, <2>3 DEF Commits
<1>6. CASE SetAside /\ ~Ends
  <2>1. xfer.at = "backing" /\ xfer' = [xfer EXCEPT !.at = "renaming"]
    BY <1>6 DEF SetAside, TaskFails
  <2>2. xfer'.req = xfer.req /\ xfer'.over = xfer.over /\ xfer'.at = "renaming"
    BY <1>1, <2>1 DEF Transfer
  <2>3. xfer.over
    BY <1>1, <2>1 DEF Commits
  <2> QED BY <1>1, <2>2, <2>3 DEF Commits
<1>7. CASE Rename
  <2>1. xfer.at = "renaming" /\ xfer' = [xfer EXCEPT !.at = "clearing"] /\ target' = xfer.req /\ backup' = backup
    BY <1>7 DEF Rename
  <2>2. xfer'.req = xfer.req /\ xfer'.over = xfer.over /\ xfer'.at = "clearing"
    BY <1>1, <2>1 DEF Transfer
  <2>3. backup[xfer.req] # None => xfer.over
    BY <1>1 DEF Commits
  <2> QED BY <1>1, <2>1, <2>2, <2>3 DEF Commits
<1>8. CASE RenameFails \/ Committed \/ SentAll
  BY <1>8, EndedCommits DEF RenameFails, TaskFails, Committed, SentAll
<1> QED BY <1>3, <1>4, <1>5, <1>6, <1>7, <1>8 DEF TaskStep

\* A new transfer has no commit yet; a control request may take the file away.
LEMMA StartCommits ==
  ASSUME Shape, Underway, Commits, UNCHANGED req, NEW r \in Requests, NEW n, Start(r, n)
  PROVE  Commits'
<1>1. UNCHANGED <<temp, backup>> /\ ~Early(r) /\ backup[r] = None
  BY StartFacts DEF Start
<1>2. \A s \in Requests : Stays(s)
  BY DEF Stays
<1>3. CASE UNCHANGED <<xfer, target>>
  BY <1>1, <1>2, <1>3, ContinuedCommits
<1>4. CASE Control(r)
  <2>1. xfer' = xfer
    BY <1>4 DEF Control
  <2>2. target' = target \/ target' # None \/ Moves(r)'
    BY <1>1, <1>4, FileTransferAssumption DEF Control, CarriedOut, Listed, Deleted, Moved, Moves, Early
  <2>3. \A q \in Requests : Moves(q) => Moves(q)'
    BY DEF Moves
  <2> QED BY <1>1, <2>1, <2>2, <2>3 DEF Commits
<1>5. CASE Launched(r, n)
  <2>1. xfer'.req = r /\ xfer'.at = "opening"
    BY <1>5 DEF Launched, NoXfer
  <2> QED BY <1>1, <2>1 DEF Commits
<1> QED BY <1>3, <1>4, <1>5 DEF Start, Refused, StartUpload, StartDownload

\* Every step keeps it.
LEMMA CommitsKept ==
  ASSUME Shape, Underway, Commits, [Next]_vars
  PROVE  Commits'
<1>1. CASE UNCHANGED <<xfer, disk>> /\ \A r \in Requests : Stays(r)
  BY <1>1, ContinuedCommits DEF disk
<1>2. CASE UNCHANGED req /\ Created
  <2>1. xfer' = xfer /\ backup' = backup /\ target' # None
    BY <1>2, FileTransferAssumption DEF Created
  <2> QED BY <2>1 DEF Commits
<1>3. CASE Aborted
  BY <1>3, EndedCommits DEF Aborted
<1>4. CASE UNCHANGED req /\ Stop
  <2>1. CASE UNCHANGED <<xfer, disk>>
    <3>1. \A r \in Requests : Stays(r)
      BY <1>4 DEF Stays
    <3> QED BY <2>1, <3>1, ContinuedCommits DEF disk
  <2> QED BY <1>3, <1>4, <2>1 DEF Stop
<1>5. CASE UNCHANGED req /\ (FinishUpload \/ AcknowledgeDownload \/ Frame)
  BY <1>5, TakesCommits DEF FinishUpload, AcknowledgeDownload, Frame
<1>6. CASE Disconnect
  BY <1>3, <1>6 DEF Disconnect
<1> QED BY <1>1, <1>2, <1>4, <1>5, <1>6, TaskCommits, StartCommits, OtherSteps

\* A transfer that is aborted loses nothing but what its commit replaces.
LEMMA AbortKeepsFile ==
  ASSUME Shape, Commits, UNCHANGED req, Aborted, NEW c \in Contents \ {None}, Held(c), ~Held(c)'
  PROVE  xfer.over /\ (target' # None \/ \E q \in Requests : Moves(q))
<1>1. backup \in [Requests -> Contents] /\ xfer.req \in Requests \cup {None}
  BY DEF Shape, DiskTypes, XferTypes, Transfer
<1>2. ~UNCHANGED <<target, backup>>
  BY DEF Held
<1>3. xfer.req \in Requests /\ xfer.req # None
  BY <1>1, <1>2, FileTransferAssumption DEF Aborted, Commits
<1>4. CASE xfer.at = "backing" /\ backup' = [backup EXCEPT ![xfer.req] = target] /\ target' = None
  <2>1. backup[xfer.req] = None
    BY <1>3, <1>4 DEF Commits
  <2> QED BY <1>1, <1>3, <1>4, <2>1 DEF Held
<1>5. CASE xfer.at = "renaming" /\ (xfer.over \/ target = None) /\ target' = xfer.req /\ UNCHANGED backup
  BY <1>3, <1>5 DEF Held
<1>6. CASE xfer.at = "clearing" /\ backup' = [backup EXCEPT ![xfer.req] = None] /\ UNCHANGED target
  <2>1. backup[xfer.req] = c
    BY <1>1, <1>3, <1>6 DEF Held
  <2> QED BY <1>3, <1>6, <2>1 DEF Commits
<1> QED BY <1>2, <1>4, <1>5, <1>6 DEF Aborted

\* The task gives up a file only where its commit replaces it.
LEMMA TaskKeepsFile ==
  ASSUME Shape, Commits, UNCHANGED req, TaskStep, NEW c \in Contents \ {None}, Held(c), ~Held(c)'
  PROVE  xfer.over /\ (target' # None \/ \E q \in Requests : Moves(q))
<1>1. backup \in [Requests -> Contents]
  BY DEF Shape, DiskTypes
<1>2. xfer.req \in Requests /\ xfer.req # None
  BY FileTransferAssumption DEF TaskStep, Look, Open, Write, Check, SetAside, Rename, RenameFails, Committed,
     Read, TakeAck, SentAll, Sending, Shape, XferTypes, Transfer
<1>3. ~UNCHANGED <<target, backup>>
  BY DEF Held
<1>4. SetAside \/ Rename \/ RenameFails \/ Committed
  BY <1>3 DEF TaskStep, Look, Open, Write, Check, Read, TakeAck, SentAll, disk
<1>5. CASE SetAside
  <2>1. xfer.at = "backing" /\ backup' = [backup EXCEPT ![xfer.req] = target]
    BY <1>3, <1>5 DEF SetAside
  <2>2. backup[xfer.req] = None
    BY <1>2, <2>1 DEF Commits
  <2> QED BY <1>1, <1>2, <2>1, <2>2 DEF Held
<1>6. CASE Rename
  BY <1>2, <1>6 DEF Rename, CanRename, Held
<1>7. CASE RenameFails
  <2>1. target' = PutBack(xfer.req) /\ backup' = [backup EXCEPT ![xfer.req] = None]
    BY <1>7 DEF RenameFails
  <2>2. backup[xfer.req] # None
    BY <1>1, <1>2, <2>1 DEF PutBack, Held
  <2>3. target' # None /\ xfer.over
    BY <1>2, <2>1, <2>2 DEF PutBack, Commits
  <2> QED BY <2>3
<1>8. CASE Committed
  <2>1. xfer.at = "clearing" /\ backup' = [backup EXCEPT ![xfer.req] = None] /\ target' = target
    BY <1>8 DEF Committed
  <2>2. backup[xfer.req] = c
    BY <1>1, <1>2, <2>1 DEF Held
  <2> QED BY <1>2, <2>1, <2>2 DEF Commits
<1> QED BY <1>4, <1>5, <1>6, <1>7, <1>8

\* No other step does, but the ones an administrator asked for.
LEMMA FileKept ==
  ASSUME Shape, Underway, Commits, [Next]_vars, NEW c \in Contents \ {None}, Held(c), ~Held(c)'
  PROVE  \/ Asked
         \/ xfer.over /\ (target' # None \/ \E q \in Requests : Moves(q))
<1>1. ~UNCHANGED <<target, backup>>
  BY DEF Held
<1>2. ~UNCHANGED disk
  BY <1>1 DEF disk
<1>3. UNCHANGED req
  BY <1>2, OtherSteps
<1>4. CASE Created
  BY <1>4, FileTransferAssumption DEF Created, Held
<1>5. CASE Disconnect
  BY <1>3, <1>5, AbortKeepsFile DEF Disconnect
<1>6. CASE Stop
  BY <1>2, <1>3, <1>6, AbortKeepsFile DEF Stop
<1>7. CASE FinishUpload \/ AcknowledgeDownload \/ Frame
  <2>1. Aborted
    BY <1>2, <1>7 DEF FinishUpload, AcknowledgeDownload, Frame, Takes
  <2> QED BY <1>3, <2>1, AbortKeepsFile
<1>8. ASSUME NEW r \in Requests, NEW n \in 0..Size[r], Start(r, n) PROVE Asked
  <2>1. ~UNCHANGED target
    BY <1>1, <1>8 DEF Start
  <2>2. Control(r) /\ ~Listed
    BY <1>8, <2>1 DEF Start, Refused, StartUpload, StartDownload, Launched, Control, Listed
  <2>3. req[r].kind \in {"delete", "move"} \/ target' = target
    BY <2>2 DEF Control, CarriedOut, Listed
  <2>4. req[r].at # "idle"
    BY <1>8, StartFacts DEF Early
  <2> QED BY <1>8, <2>1, <2>3, <2>4 DEF Asked, Moves, Start
<1> QED BY <1>2, <1>3, <1>4, <1>5, <1>6, <1>7, <1>8, TaskKeepsFile, OtherSteps

\* The last copy of a file is given up only for a delete or a move, or by an upload that
\* may overwrite and has put a file in its place: also by an abort between any two steps
\* of commit_upload.
THEOREM FileStaysKept == Spec => FileIsKept
<1>1. Init => Shape /\ Underway /\ Commits
  <2>1. Init => Commits
    BY DEF Init, Commits, NoXfer
  <2> QED BY <2>1, ShapeAtInit, UnderwayAtInit
<1>2. Shape /\ Underway /\ Commits /\ [Next]_vars => (Shape /\ Underway /\ Commits)'
  BY ShapeKept, UnderwayKept, CommitsKept
<1>3. Shape /\ Underway /\ Commits /\ [Next]_vars =>
        [\A c \in Contents \ {None} :
           Held(c) /\ ~Held(c)' =>
             \/ Asked
             \/ xfer.over /\ (target' # None \/ \E q \in Requests : Moves(q))]_vars
  BY FileKept
<1> QED BY <1>1, <1>2, <1>3, PTL DEF Spec, FileIsKept

\* A temporary file is the one the transfer writes, until it is in its place.
Writes ==
  /\ TempIsUsed
  /\ xfer.req # None /\ temp[xfer.req] = "part" =>
       xfer.kind = "upload" /\ xfer.at \in {"moving", "checking", "backing", "renaming"}

\* Without temporary files that are written there is nothing to show.
LEMMA NoneWritten ==
  ASSUME \A r \in Requests : temp'[r] # "part", xfer'.req \in Requests \cup {None}
  PROVE  Writes'
  BY DEF Writes, TempIsUsed

\* An abort and a failure remove the file of the transfer, or leave it for good.
LEMMA AbortedWrites ==
  ASSUME Shape, Shape', Writes, NEW a, a # "part", Temporary(a)
  PROVE  Writes'
<1>1. \A r \in Requests : temp'[r] # "part"
  BY DEF Writes, TempIsUsed, Temporary
<1>2. xfer'.req \in Requests \cup {None}
  BY DEF Shape, XferTypes, Transfer
<1> QED BY <1>1, <1>2, NoneWritten

\* Every step keeps the temporary file with its transfer.
LEMMA WritesKept ==
  ASSUME Shape, Writes, [Next]_vars
  PROVE  Writes'
<1>1. Shape'
  BY ShapeKept
<1>2. temp \in [Requests -> {"none", "part", "left"}] /\ xfer \in Transfer /\ xfer' \in Transfer
  BY <1>1 DEF Shape, DiskTypes, XferTypes
<1>3. ASSUME UNCHANGED <<xfer, temp>> PROVE Writes'
  BY <1>3 DEF Writes, TempIsUsed
<1>4. ASSUME UNCHANGED temp, xfer'.req = xfer.req, xfer'.kind = xfer.kind,
             xfer'.at \in {xfer.at, "checking", "backing", "renaming"}
      PROVE  Writes'
  BY <1>2, <1>4 DEF Writes, TempIsUsed
<1>5. CASE Aborted \/ TaskFails
  BY <1>1, <1>5, AbortedWrites DEF Aborted, TaskFails
<1>6. CASE Disconnect \/ Stop \/ Created
  BY <1>3, <1>5, <1>6 DEF Disconnect, Stop, Created, disk
<1>7. CASE FinishUpload \/ AcknowledgeDownload \/ Frame
  <2>1. PICK m : Takes(m)
    BY <1>7 DEF FinishUpload, AcknowledgeDownload, Frame
  <2>2. CASE xfer' = [xfer EXCEPT !.queue = Append(@, m)] /\ UNCHANGED disk
    <3>1. xfer'.req = xfer.req /\ xfer'.kind = xfer.kind /\ xfer'.at = xfer.at
      BY <1>2, <2>2 DEF Transfer
    <3> QED BY <1>4, <2>2, <3>1 DEF disk
  <2> QED BY <1>3, <1>5, <2>1, <2>2 DEF Takes, disk
<1>8. ASSUME NEW r \in Requests, NEW n, Start(r, n) PROVE Writes'
  <2>1. temp' = temp
    BY <1>8 DEF Start
  <2>2. CASE Launched(r, n)
    <3>1. xfer.req = None
      BY <2>2 DEF Launched, Free
    <3>2. \A s \in Requests : temp'[s] # "part"
      BY <2>1, <3>1, FileTransferAssumption DEF Writes, TempIsUsed
    <3>3. xfer'.req \in Requests \cup {None}
      BY <1>2 DEF Transfer
    <3> QED BY <3>2, <3>3, NoneWritten
  <2> QED BY <1>3, <1>8, <2>1, <2>2 DEF Start, Refused, Control, StartUpload, StartDownload
<1>9. CASE TaskStep /\ ~TaskFails
  <2>1. xfer.req \in Requests /\ xfer.req # None
    BY <1>9, FileTransferAssumption DEF TaskStep, Look, Open, Write, Check, SetAside, Rename, RenameFails, Committed,
       Read, TakeAck, SentAll, Sending, Shape, XferTypes, Transfer
  <2>2. CASE Open
    <3>1. /\ xfer' = [xfer EXCEPT !.at = "moving"]
          /\ xfer.kind = "upload" \/ Temporary("none")
          /\ \A r \in Requests : r # xfer.req => temp'[r] = temp[r]
      BY <1>9, <2>2 DEF Open, Temporary
    <3>2. xfer'.req = xfer.req /\ xfer'.kind = xfer.kind /\ xfer'.at = "moving"
      BY <1>2, <3>1 DEF Transfer
    <3>3. Temporary("none") => temp'[xfer.req] = "none"
      BY <2>1 DEF Temporary
    <3> QED BY <2>1, <3>1, <3>2, <3>3 DEF Writes, TempIsUsed
  <2>3. CASE Write
    <3>1. /\ temp' = temp
          /\ \/ xfer' = [xfer EXCEPT !.queue = Tail(@), !.got = @ + 1]
             \/ xfer' = [xfer EXCEPT !.queue = Tail(@), !.at = "checking"]
      BY <1>9, <2>3 DEF Write
    <3>2. xfer'.req = xfer.req /\ xfer'.kind = xfer.kind /\ xfer'.at \in {xfer.at, "checking"}
      BY <1>2, <3>1 DEF Transfer
    <3> QED BY <1>4, <3>1, <3>2
  <2>4. CASE Read \/ TakeAck
    <3>1. /\ temp' = temp
          /\ \/ xfer' = [xfer EXCEPT !.sent = @ + 1]
             \/ xfer' = [xfer EXCEPT !.queue = Tail(@), !.got = @ + 1]
      BY <1>9, <2>4 DEF Read, TakeAck
    <3>2. xfer'.req = xfer.req /\ xfer'.kind = xfer.kind /\ xfer'.at = xfer.at
      BY <1>2, <3>1 DEF Transfer
    <3> QED BY <1>4, <3>1, <3>2
  <2>5. CASE Check \/ SetAside
    <3>1. temp' = temp /\ \E a \in {"renaming", "backing"} : xfer' = [xfer EXCEPT !.at = a]
      BY <1>9, <2>5 DEF Check, SetAside
    <3>2. xfer'.req = xfer.req /\ xfer'.kind = xfer.kind /\ xfer'.at \in {"renaming", "backing"}
      BY <1>2, <3>1 DEF Transfer
    <3> QED BY <1>4, <3>1, <3>2
  <2>6. CASE Rename
    <3>1. \A r \in Requests : temp'[r] # "part"
      BY <1>2, <2>1, <2>6 DEF Rename, Writes, TempIsUsed
    <3>2. xfer'.req \in Requests \cup {None}
      BY <1>2 DEF Transfer
    <3> QED BY <3>1, <3>2, NoneWritten
  <2>7. CASE Committed \/ SentAll
    <3>1. temp' = temp /\ (xfer.at = "clearing" \/ xfer.kind = "download")
      BY <2>7 DEF Committed, SentAll, Sending, disk
    <3>2. \A r \in Requests : temp'[r] # "part"
      BY <2>1, <3>1 DEF Writes, TempIsUsed
    <3>3. xfer'.req \in Requests \cup {None}
      BY <1>2 DEF Transfer
    <3> QED BY <3>2, <3>3, NoneWritten
  <2>8. CASE RenameFails
    BY <1>9, <2>8 DEF RenameFails
  <2>9. CASE Look
    <3>1. temp' = temp /\ xfer.at = "opening" /\ xfer' = [xfer EXCEPT !.at = "creating"]
      BY <1>9, <2>9 DEF Look
    <3>2. \A r \in Requests : temp'[r] # "part"
      BY <2>1, <3>1 DEF Writes, TempIsUsed
    <3>3. xfer'.req \in Requests \cup {None}
      BY <1>2 DEF Transfer
    <3> QED BY <3>2, <3>3, NoneWritten
  <2> QED BY <1>9, <2>2, <2>3, <2>4, <2>5, <2>6, <2>7, <2>8, <2>9 DEF TaskStep
<1> QED BY <1>3, <1>5, <1>6, <1>7, <1>8, <1>9, OtherSteps DEF disk

\* A temporary file that is written is there only while the transfer that writes it runs,
\* however the transfer ends: UploadCleanup removes it.  The one of an upload aborted
\* while open() was creating it has no UploadCleanup yet and is left out.
THEOREM TempStaysUsed == Spec => []TempIsUsed
<1>1. Init => Shape /\ Writes
  BY ShapeAtInit DEF Init, Writes, TempIsUsed, NoXfer
<1>2. Shape /\ Writes /\ [Next]_vars => (Shape /\ Writes)'
  BY ShapeKept, WritesKept
<1>3. Writes => TempIsUsed
  BY DEF Writes
<1> QED BY <1>1, <1>2, <1>3, PTL DEF Spec

-----------------------------------------------------------------------------
(***************************************************************************)
(* What a request is told.                                                 *)
(***************************************************************************)
\* A message of the type about the request is on the queue.
Has(q, r, t) == \E i \in 1..Len(q) : q[i].req = r /\ q[i].type = t
\* The agent's word is on its way to the handler of the request.
Told(r, t) == Has(up, r, t) \/ Has(inbox[r], r, t)

\* A message appears on a queue only by being appended to it.
LEMMA HasMoves ==
  ASSUME NEW q \in Seq(Message), NEW r, NEW t
  PROVE  /\ \A m \in Message : Has(Append(q, m), r, t) => Has(q, r, t) \/ (m.req = r /\ m.type = t)
         /\ q # <<>> => (Has(Tail(q), r, t) => Has(q, r, t))
         /\ q # <<>> /\ Head(q).req = r /\ Head(q).type = t => Has(q, r, t)
         /\ ~Has(<<>>, r, t)
<1>1. ASSUME NEW m \in Message, Has(Append(q, m), r, t)
      PROVE  Has(q, r, t) \/ (m.req = r /\ m.type = t)
  <2>1. PICK i \in 1..Len(Append(q, m)) : Append(q, m)[i].req = r /\ Append(q, m)[i].type = t
    BY <1>1 DEF Has
  <2>2. /\ i \in 1..Len(q) \/ i = Len(q) + 1
        /\ i \in 1..Len(q) => Append(q, m)[i] = q[i]
        /\ Append(q, m)[Len(q) + 1] = m
    OBVIOUS
  <2> QED BY <2>1, <2>2 DEF Has
<1>2. ASSUME q # <<>>, Has(Tail(q), r, t) PROVE Has(q, r, t)
  <2>1. PICK i \in 1..Len(Tail(q)) : Tail(q)[i].req = r /\ Tail(q)[i].type = t
    BY <1>2 DEF Has
  <2>2. i + 1 \in 1..Len(q) /\ Tail(q)[i] = q[i + 1]
    BY <1>2
  <2> QED BY <2>1, <2>2 DEF Has
<1>3. ASSUME q # <<>>, Head(q).req = r, Head(q).type = t PROVE Has(q, r, t)
  <2>1. 1 \in 1..Len(q) /\ Head(q) = q[1]
    BY <1>3
  <2> QED BY <1>3, <2>1 DEF Has
<1>4. ~Has(<<>>, r, t)
  BY DEF Has
<1> QED BY <1>1, <1>2, <1>3, <1>4

\* A message that is there counts.
LEMMA HasCounts ==
  ASSUME NEW q \in Seq(Message), NEW r, NEW t, NEW T, t \in T, Has(q, r, t)
  PROVE  Of(q, r, T) > 0
<1> DEFINE S == {i \in 1..Len(q) : q[i].req = r /\ q[i].type \in T}
<1>1. S # {}
  BY DEF Has
<1>2. IsFiniteSet(S)
  <2>1. Len(q) \in Nat
    OBVIOUS
  <2>2. IsFiniteSet(1..Len(q))
    BY <2>1, FS_Interval
  <2>3. S \subseteq 1..Len(q)
    OBVIOUS
  <2> HIDE DEF S
  <2> QED BY <2>2, <2>3, FS_Subset
<1>3. Of(q, r, T) = Cardinality(S)
  BY DEF Of
<1> HIDE DEF S
<1>4. Cardinality(S) \in Nat /\ Cardinality(S) # 0
  BY <1>1, <1>2, FS_CardinalityType, FS_EmptySet
<1> QED BY <1>3, <1>4

\* Of a request that is told the verdict, the agent has seen the start and has no
\* transfer any more; of one whose start is under way, the handler has begun.
LEMMA ToldFacts ==
  ASSUME Shape, Underway, NEW r \in Requests
  PROVE  /\ \A t \in Finals : Told(r, t) => xfer.req # r /\ ~Early(r) /\ Starts(r) = 0
         /\ Has(down, r, "start") => ~Early(r) /\ xfer.req # r
<1>1. Good(r) /\ Starts(r) \in Nat /\ Verdicts(r) \in Nat
  BY Counted DEF Underway, Counts
<1>2. /\ up \in Seq(Message) /\ inbox[r] \in Seq(Message) /\ down \in Seq(Message)
      /\ Of(up, r, Finals) \in Nat /\ Of(inbox[r], r, Finals) \in Nat
  BY AllMessages, Counted DEF QueueCounts
<1>3. ASSUME NEW t \in Finals, Told(r, t)
      PROVE  xfer.req # r /\ ~Early(r) /\ Starts(r) = 0
  <2>1. Of(up, r, Finals) > 0 \/ Of(inbox[r], r, Finals) > 0
    BY <1>2, <1>3, HasCounts DEF Told
  <2>2. Verdicts(r) > 0
    BY <1>2, <2>1 DEF Verdicts
  <2>3. ~Untouched(r)
    BY <1>1, <2>2 DEF Good, UntouchedIsClean
  <2>4. xfer.req # r
    BY <1>1, <2>2 DEF Good
  <2> QED BY <1>1, <2>3, <2>4 DEF Untouched
<1>4. ASSUME Has(down, r, "start") PROVE ~Early(r) /\ xfer.req # r
  <2>1. Of(down, r, {"start"}) > 0
    BY <1>2, <1>4, HasCounts
  <2>2. Starts(r) > 0
    BY <2>1 DEF Starts
  <2>3. ~Early(r)
    BY <1>1, <2>2 DEF Good
  <2> QED BY <1>1, <2>2, <2>3 DEF Good, UntouchedIsClean, Untouched
<1> QED BY <1>3, <1>4

\* The control messages that do not start anything.
Later(r) == {Msg(r, t, n) : t \in {"finish", "ack", "cancel"}, n \in Nat}

\* A handler takes at most the event at the head of its queue, and sends at most one
\* control message.
LEMMA HandlerMoves ==
  ASSUME Shape, NEW r \in Requests, Handles(r)
  PROVE  /\ up' = up
         /\ inbox' = inbox \/ (inbox[r] # <<>> /\ inbox' = [inbox EXCEPT ![r] = Tail(@)])
         /\ \/ down' = down
            \/ Register(r) /\ down' = Append(down, Msg(r, "start", 0))
            \/ \E m \in Later(r) : down' = Append(down, m)
<1>1. \A c, m : Put(down, c, m) \in {down, Append(down, m)}
  BY DEF Put
<1>2. CASE \/ \E k \in Controls, o \in BOOLEAN : BeginControl(r, k, o)
           \/ \E o \in BOOLEAN, n \in 0..Size[r] : BeginUpload(r, o, n)
           \/ BeginDownload(r)
  BY <1>2 DEF BeginControl, BeginUpload, BeginDownload, Taken, wires
<1>3. CASE \/ TakeSlot(r) \/ Leave(r) \/ Timeout(r) \/ BodyBreaks(r) \/ OpenStream(r) \/ Poll(r)
           \/ Recorded(r) \/ Unrecorded(r) \/ Forget(r)
  BY <1>3 DEF TakeSlot, Leave, Timeout, BodyBreaks, OpenStream, Poll, Recorded, Unrecorded, Forget, wires
<1>4. CASE Register(r)
  <2>1. up' = up /\ inbox' = inbox /\ (down' = down \/ down' = Put(down, req[r].conn, Msg(r, "start", 0)))
    BY <1>4 DEF Register
  <2> QED BY <1>1, <1>4, <2>1
<1>5. CASE SendChunk(r)
  BY <1>5 DEF SendChunk
<1>6. ASSUME NEW c, NEW m \in Later(r), down' = Put(down, c, m)
      PROVE  down' = down \/ \E n \in Later(r) : down' = Append(down, n)
  BY <1>1, <1>6
<1>7. CASE SendFinish(r)
  <2>1. Msg(r, "finish", 0) \in Later(r)
    BY DEF Later
  <2>2. up' = up /\ inbox' = inbox /\ (down' = down \/ down' = Put(down, req[r].conn, Msg(r, "finish", 0)))
    BY <1>7 DEF SendFinish
  <2> QED BY <1>6, <2>1, <2>2
<1>8. CASE Cancel(r)
  <2>1. Msg(r, "cancel", 0) \in Later(r)
    BY DEF Later
  <2>2. up' = up /\ inbox' = inbox /\ (down' = down \/ down' = Put(down, conn, Msg(r, "cancel", 0)))
    BY <1>8 DEF Cancel
  <2> QED BY <1>6, <2>1, <2>2
<1>9. CASE Receive(r)
  <2>1. up' = up /\ inbox[r] # <<>> /\ inbox' = [inbox EXCEPT ![r] = Tail(@)]
    BY <1>9 DEF Receive
  <2>2. PICK e : /\ e = Head(inbox[r])
                 /\ IsOver(r) \/ TakesReady(r, e) \/ TakesAck(r, e) \/ TakesChunk(r, e)
    BY <1>9, ReceiveCases
  <2>3. inbox[r] \in Seq(Message)
    BY AllMessages
  <2>4. e.n \in Nat
    <3>1. e \in Message
      BY <2>1, <2>2, <2>3, SeqFacts
    <3> QED BY <3>1 DEF Message
  <2>5. Msg(r, "ack", e.n) \in Later(r)
    BY <2>4 DEF Later
  <2>6. down' = down \/ down' = Put(down, req[r].conn, Msg(r, "ack", e.n))
    BY <2>2 DEF IsOver, TakesReady, TakesAck, TakesChunk
  <2> QED BY <1>6, <2>1, <2>5, <2>6
<1> QED BY <1>2, <1>3, <1>4, <1>5, <1>7, <1>8, <1>9 DEF Handles

\* The steps of the agent.
AgentSteps ==
  \/ Stop \/ FinishUpload \/ AcknowledgeDownload \/ Frame \/ TaskStep
  \/ \E r \in Requests : \E n \in 0..Size[r] : Start(r, n)
\* The steps that touch neither the queues nor the agent.
Elsewhere == Created \/ (\E c \in Conns : Connect(c) \/ Lose(c) \/ Vanish(c))

\* Every step is one of these.
LEMMA NextCases ==
  ASSUME [Next]_vars
  PROVE  \/ UNCHANGED vars \/ Elsewhere \/ Disconnect \/ AgentSteps \/ Response \/ Chunk
         \/ \E c \in Conns : Sweep(c)
         \/ \E r \in Requests : Handles(r)
  BY DEF Next, Elsewhere, AgentSteps, TaskStep, Handles

\* What the agent says that is no answer yet.
Notes(r) == {Msg(r, t, n) : t \in {"ready", "ack", "error"}, n \in Nat}
\* The agent reports that its transfer is through.
Reports == Committed \/ SentAll

\* The agent tells a result of a control request it has carried out, that a transfer is
\* complete when it ends it so, and nothing else that would be an answer.
LEMMA AgentSays ==
  ASSUME Shape, AgentSteps
  PROVE  /\ UNCHANGED server
         /\ down' = down \/ (down # <<>> /\ down' = Tail(down))
         /\ \/ up' = up
            \/ \E r \in Requests : \E m \in Notes(r) : up' = Append(up, m)
            \/ \E r \in Requests : \E n : Start(r, n) /\ Control(r) /\ up' = Append(up, Msg(r, "result", 0))
            \/ /\ Reports /\ xfer.req \in Requests
               /\ \E n \in Nat : up' = Append(up, Msg(xfer.req, "complete", n))
<1>1. xfer.got \in Nat /\ xfer.size \in Nat /\ xfer.req \in Requests \cup {None}
  BY DEF Shape, XferTypes, Transfer
<1>2. ASSUME NEW r \in Requests, NEW t \in {"ready", "ack", "error"}, NEW n \in Nat
      PROVE  Msg(r, t, n) \in Notes(r)
  BY DEF Notes
<1>3. ASSUME NEW r \in Requests, NEW n, Start(r, n)
      PROVE  /\ UNCHANGED server
             /\ down # <<>> /\ down' = Tail(down)
             /\ \/ up' = up
                \/ \E m \in Notes(r) : up' = Append(up, m)
                \/ Start(r, n) /\ Control(r) /\ up' = Append(up, Msg(r, "result", 0))
  <2>1. UNCHANGED server /\ down # <<>> /\ down' = Tail(down)
    BY <1>3 DEF Start
  <2>2. \/ up' = Append(up, Msg(r, "error", 0))
        \/ Control(r) /\ up' = Append(up, Msg(r, "result", 0))
        \/ up' = up
    BY <1>3 DEF Start, Refused, Control, StartUpload, StartDownload, Launched, Say
  <2>3. Msg(r, "error", 0) \in Notes(r)
    BY <1>2
  <2> QED BY <1>3, <2>1, <2>2, <2>3
<1>4. ASSUME NEW m \in Message, Takes(m)
      PROVE  up' = up \/ \E n \in Notes(m.req) : up' = Append(up, n)
  <2>1. up' = up \/ up' = Append(up, Msg(m.req, "error", 0))
    BY <1>4 DEF Takes, Say
  <2>2. Msg(m.req, "error", 0) \in Notes(m.req)
    BY <1>2 DEF Message
  <2> QED BY <2>1, <2>2
<1>5. CASE FinishUpload \/ AcknowledgeDownload \/ Frame
  <2>1. UNCHANGED server /\ (down' = down \/ (down # <<>> /\ down' = Tail(down)))
    BY <1>5 DEF FinishUpload, AcknowledgeDownload, Frame
  <2>2. PICK m \in Message : Takes(m)
    BY <1>5, AllMessages, SeqFacts DEF FinishUpload, AcknowledgeDownload, Frame
  <2>3. m.req \in Requests
    BY DEF Message
  <2> QED BY <1>4, <2>1, <2>2, <2>3
<1>6. CASE Stop
  BY <1>6 DEF Stop
<1>7. CASE TaskStep
  <2>1. UNCHANGED server /\ down' = down
    BY <1>7 DEF TaskStep, Look, Open, Write, Check, SetAside, Rename, RenameFails, Committed, Read, TakeAck, SentAll, wires
  <2>2. xfer.req \in Requests
    BY <1>1, <1>7 DEF TaskStep, Look, Open, Write, Check, SetAside, Rename, RenameFails, Committed,
       Read, TakeAck, SentAll, Sending
  <2>3. CASE Reports
    BY <1>1, <2>1, <2>2, <2>3 DEF Reports, Committed, SentAll, Say
  <2>4. CASE ~Reports
    <3>1. CASE Write
      <4>1. xfer.queue # <<>>
        BY <3>1 DEF Write
      <4>2. Head(xfer.queue).n \in Nat
        BY <4>1, HeadFacts
      <4>3. \/ up' = up
            \/ up' = Append(up, Msg(xfer.req, "error", 0))
            \/ up' = Append(up, Msg(xfer.req, "ack", Head(xfer.queue).n))
        BY <3>1 DEF Write, TaskFails, Say
      <4>4. Msg(xfer.req, "ack", Head(xfer.queue).n) \in Notes(xfer.req) /\ Msg(xfer.req, "error", 0) \in Notes(xfer.req)
        BY <1>2, <2>2, <4>2
      <4> QED BY <2>1, <2>2, <4>3, <4>4
    <3>2. CASE ~Write
      <4>1. \/ up' = up
            \/ up' = Append(up, Msg(xfer.req, "error", 0))
            \/ up' = Append(up, Msg(xfer.req, "ready", xfer.size))
        BY <1>7, <2>4, <3>2 DEF TaskStep, Reports, Look, Open, Check, SetAside, Rename, RenameFails, Read, TakeAck,
           TaskFails, Say, wires
      <4>2. Msg(xfer.req, "ready", xfer.size) \in Notes(xfer.req) /\ Msg(xfer.req, "error", 0) \in Notes(xfer.req)
        BY <1>1, <1>2, <2>2
      <4> QED BY <2>1, <2>2, <4>1, <4>2
    <3> QED BY <3>1, <3>2
  <2> QED BY <2>3, <2>4
<1> QED BY <1>3, <1>5, <1>6, <1>7 DEF AgentSteps

\* An answer is told by the agent's step that gives it; on its way to the handler it is
\* only handed on or lost.
LEMMA ToldMoves ==
  ASSUME Shape, [Next]_vars, NEW r \in Requests, NEW t \in {"complete", "result"}, Told(r, t)'
  PROVE  \/ Told(r, t)
         \/ t = "complete" /\ Reports /\ xfer.req = r
         \/ t = "result" /\ \E n : Start(r, n) /\ Control(r)
<1>1. /\ up \in Seq(Message) /\ data \in Seq(Message) /\ inbox \in [Requests -> Seq(Message)]
      /\ inbox[r] \in Seq(Message)
  BY AllMessages DEF Shape, BoxTypes
<1>2. CASE UNCHANGED <<up, inbox>>
  BY <1>2 DEF Told
<1>3. ASSUME inbox' = inbox, NEW m \in Message, up' = Append(up, m)
      PROVE  Told(r, t) \/ (m.req = r /\ m.type = t)
  <2>1. Has(up', r, t) => Has(up, r, t) \/ (m.req = r /\ m.type = t)
    BY <1>1, <1>3, HasMoves
  <2> QED BY <1>3, <2>1 DEF Told
<1>4. CASE Disconnect
  <2>1. up' = <<>> /\ inbox' = inbox
    BY <1>4 DEF Disconnect, server
  <2> QED BY <2>1, HasMoves DEF Told, Has
<1>5. ASSUME NEW c \in Conns, Sweep(c) PROVE Told(r, t)
  <2>1. /\ up' = up
        /\ \/ inbox'[r] = inbox[r]
           \/ inbox'[r] = Append(inbox[r], Msg(r, "gone", 0))
    BY <1>5 DEF Sweep, wires
  <2>2. Msg(r, "gone", 0) \in Message /\ Msg(r, "gone", 0).type # t
    BY MsgFacts DEF Types
  <2>3. Has(Append(inbox[r], Msg(r, "gone", 0)), r, t) => Has(inbox[r], r, t)
    BY <1>1, <2>2, HasMoves
  <2>4. Has(inbox'[r], r, t) => Has(inbox[r], r, t)
    BY <2>1, <2>3
  <2> QED BY <2>1, <2>4 DEF Told
<1>6. ASSUME NEW m \in Message, inbox' = inbox \/ inbox' = [inbox EXCEPT ![m.req] = Append(@, m)],
             Has(inbox'[r], r, t), ~Has(inbox[r], r, t)
      PROVE  m.req = r /\ m.type = t
  <2>1. m.req \in Requests
    BY DEF Message
  <2>2. inbox'[r] = inbox[r] \/ (m.req = r /\ inbox'[r] = Append(inbox[r], m))
    BY <1>1, <1>6, <2>1
  <2>3. m.req = r /\ inbox'[r] = Append(inbox[r], m)
    BY <1>6, <2>2
  <2>4. Has(Append(inbox[r], m), r, t)
    BY <1>6, <2>3
  <2> QED BY <1>1, <1>6, <2>4, HasMoves
<1>7. CASE Response
  <2>1. up # <<>> /\ up' = Tail(up) /\ Head(up) \in Message
    BY <1>1, <1>7, SeqFacts DEF Response
  <2>2. inbox' = inbox \/ inbox' = [inbox EXCEPT ![Head(up).req] = Append(@, Head(up))]
    BY <1>7 DEF Response
  <2>3. Has(up', r, t) => Has(up, r, t)
    BY <1>1, <2>1, HasMoves
  <2>4. Has(inbox'[r], r, t) => Has(inbox[r], r, t) \/ Has(up, r, t)
    <3>1. ASSUME Has(inbox'[r], r, t), ~Has(inbox[r], r, t) PROVE Has(up, r, t)
      <4>1. Head(up).req = r /\ Head(up).type = t
        BY <1>6, <2>1, <2>2, <3>1
      <4> QED BY <1>1, <2>1, <4>1, HasMoves
    <3> QED BY <3>1
  <2> QED BY <2>3, <2>4 DEF Told
<1>8. CASE Chunk
  <2>1. up' = up /\ data # <<>> /\ data \in Seq(Pieces)
    BY <1>8 DEF Chunk, Shape, WireTypes
  <2>2. Head(data) \in Message /\ Head(data).type = "chunk"
    BY <2>1, SeqFacts DEF Pieces
  <2>3. inbox' = inbox \/ inbox' = [inbox EXCEPT ![Head(data).req] = Append(@, Head(data))]
    BY <1>8 DEF Chunk
  <2>4. Has(inbox'[r], r, t) => Has(inbox[r], r, t)
    BY <1>6, <2>2, <2>3
  <2> QED BY <2>1, <2>4 DEF Told
<1>9. ASSUME NEW s \in Requests, Handles(s) PROVE Told(r, t)
  <2>1. up' = up /\ (inbox' = inbox \/ (inbox[s] # <<>> /\ inbox' = [inbox EXCEPT ![s] = Tail(@)]))
    BY <1>9, HandlerMoves
  <2>2. inbox'[r] = inbox[r] \/ (inbox[r] # <<>> /\ inbox'[r] = Tail(inbox[r]))
    BY <1>1, <2>1
  <2>3. inbox[r] # <<>> => (Has(Tail(inbox[r]), r, t) => Has(inbox[r], r, t))
    BY <1>1, HasMoves
  <2>4. Has(inbox'[r], r, t) => Has(inbox[r], r, t)
    BY <2>2, <2>3
  <2> QED BY <2>1, <2>4 DEF Told
<1>10. CASE AgentSteps
  <2>1. inbox' = inbox
    BY <1>10, AgentSays DEF server
  <2>2. CASE up' = up
    BY <1>2, <2>1, <2>2
  <2>3. ASSUME NEW s \in Requests, NEW m \in Notes(s), up' = Append(up, m)
        PROVE  Told(r, t)
    <3>1. m \in Message /\ m.type # t
      <4>1. PICK k \in {"ready", "ack", "error"}, n \in Nat : m = Msg(s, k, n)
        BY DEF Notes
      <4>2. k \in Types /\ k # t
        BY DEF Types, Finals
      <4> QED BY <4>1, <4>2, MsgFacts
    <3> QED BY <1>3, <2>1, <2>3, <3>1
  <2>4. ASSUME NEW s \in Requests, NEW n, Start(s, n), Control(s), up' = Append(up, Msg(s, "result", 0))
        PROVE  Told(r, t) \/ (t = "result" /\ s = r)
    <3>1. /\ Msg(s, "result", 0) \in Message
          /\ Msg(s, "result", 0).type = "result" /\ Msg(s, "result", 0).req = s
      BY MsgFacts DEF Types, Finals
    <3> QED BY <1>3, <2>1, <2>4, <3>1
  <2>5. ASSUME Reports, xfer.req \in Requests, NEW n \in Nat, up' = Append(up, Msg(xfer.req, "complete", n))
        PROVE  Told(r, t) \/ (t = "complete" /\ xfer.req = r)
    <3>1. /\ Msg(xfer.req, "complete", n) \in Message
          /\ Msg(xfer.req, "complete", n).type = "complete" /\ Msg(xfer.req, "complete", n).req = xfer.req
      BY <2>5 DEF Msg, Message, Types, Finals
    <3> QED BY <1>3, <2>1, <2>5, <3>1
  <2> QED BY <1>10, <2>2, <2>3, <2>4, <2>5, AgentSays
<1>11. CASE UNCHANGED vars \/ Elsewhere
  BY <1>2, <1>11 DEF vars, wires, server, Elsewhere, Created, Connect, Lose, Vanish
<1> QED BY <1>4, <1>5, <1>7, <1>8, <1>9, <1>10, <1>11, NextCases

-----------------------------------------------------------------------------
(***************************************************************************)
(* The slot of the instance.                                               *)
(***************************************************************************)
InSlot == {"slot", "starting", "ready", "opened", "streaming", "finishing"}
\* A transfer under way has the slot, from its registration to its end; a task that is
\* left behind was left by a handler that is over.
SlotFits(r) ==
  /\ req[r].at = "agent" => req[r].kind \in Transfers
  /\ active = r => req[r].kind \in Transfers /\ req[r].at \notin {"idle", "agent"}
  /\ req[r].at \in InSlot /\ req[r].kind \in Transfers => active = r
  /\ req[r].at = "finishing" => req[r].kind = "upload"
  /\ drop[r] # "none" => req[r].at \in Over
Slotted == \A r \in Requests : SlotFits(r)

\* A step of one handler takes the slot for itself, gives its own back, or leaves it.
LEMMA OneSlot ==
  ASSUME Slotted, NEW r \in Requests, SlotFits(r)',
         \A s \in Requests : s # r => req'[s] = req[s] /\ drop'[s] = drop[s],
         active' = active \/ (active = None /\ active' = r) \/ (active = r /\ active' = None)
  PROVE  Slotted'
<1>1. ASSUME NEW s \in Requests, s # r PROVE SlotFits(s)'
  <2>1. active' = s <=> active = s
    BY <1>1, FileTransferAssumption
  <2>2. SlotFits(s) /\ req'[s] = req[s] /\ drop'[s] = drop[s]
    BY <1>1 DEF Slotted
  <2> QED BY <2>1, <2>2 DEF SlotFits
<1> QED BY <1>1 DEF Slotted

\* A handler that ends gives the slot back at once or leaves a task that does.
LEMMA OverSlot ==
  ASSUME Shape, Slotted, NEW r \in Requests, req[r].at \notin {"idle", "agent"},
         NEW a \in Over, req' = [req EXCEPT ![r].at = a],
         drop' = drop \/ \E d : drop' = [drop EXCEPT ![r] = d],
         active' = active \/ (active = r /\ active' = None)
  PROVE  Slotted'
<1>1. req'[r].at = a /\ req'[r].kind = req[r].kind /\ \A s \in Requests : s # r => req'[s] = req[s]
  BY DEF Shape, ServerTypes, Record
<1>2. \A s \in Requests : s # r => drop'[s] = drop[s]
  BY DEF Shape, ServerTypes
<1>3. a \notin InSlot /\ a \notin {"idle", "agent", "finishing"}
  BY DEF Over, InSlot
<1>4. SlotFits(r)
  BY DEF Slotted
<1>5. active' = r => active = r
  BY FileTransferAssumption
<1>6. SlotFits(r)'
  BY <1>1, <1>3, <1>4, <1>5 DEF SlotFits
<1> QED BY <1>1, <1>2, <1>6, OneSlot

\* A handler that goes on keeps the slot it has.
LEMMA OnSlot ==
  ASSUME Shape, Slotted, NEW r \in Requests, UNCHANGED <<active, drop>>,
         \A s \in Requests : s # r => req'[s] = req[s],
         req'[r].kind = req[r].kind, req[r].at \in InSlot, req'[r].at \in InSlot,
         req'[r].at = "finishing" => req[r].kind = "upload"
  PROVE  Slotted'
<1>1. SlotFits(r)
  BY DEF Slotted
<1>2. req'[r].at \notin {"idle", "agent"} \cup Over /\ req[r].at \notin Over
  BY DEF InSlot, Over
<1>3. SlotFits(r)'
  BY <1>1, <1>2 DEF SlotFits
<1> QED BY <1>3, OneSlot

\* Every step of a handler keeps it so.
LEMMA HandlerSlot ==
  ASSUME Shape, Slotted, NEW r \in Requests, Handles(r)
  PROVE  Slotted'
<1>0. /\ req \in [Requests -> Record] /\ drop \in [Requests -> {"none", "forget", "cancel"}]
      /\ active \in Requests \cup {None} /\ SlotFits(r)
  BY DEF Shape, ServerTypes, Slotted
<1>1. ASSUME Fails(r), UNCHANGED active, req[r].at \notin {"idle", "agent"} PROVE Slotted'
  <2>1. "failed" \in Over /\ req' = [req EXCEPT ![r].at = "failed"] /\ drop' = [drop EXCEPT ![r] = "forget"]
    BY <1>1 DEF Fails, Over
  <2> QED BY <1>1, <2>1, OverSlot
<1>2. ASSUME NEW a \in InSlot, req' = [req EXCEPT ![r].at = a], UNCHANGED <<active, drop>>,
             req[r].at \in InSlot, a = "finishing" => req[r].kind = "upload"
      PROVE  Slotted'
  <2>1. req'[r].at = a /\ req'[r].kind = req[r].kind /\ \A s \in Requests : s # r => req'[s] = req[s]
    BY <1>0, <1>2 DEF Record
  <2> QED BY <1>2, <2>1, OnSlot
<1>3. CASE \/ \E k \in Controls, o \in BOOLEAN : BeginControl(r, k, o)
           \/ \E o \in BOOLEAN, n \in 0..Size[r] : BeginUpload(r, o, n)
           \/ BeginDownload(r)
  <2>1. ASSUME NEW k \in Transfers \cup Controls, NEW o, NEW n, Taken(r, k, o, n)
        PROVE  Slotted'
    <3>1. /\ req[r].at = "idle" /\ UNCHANGED <<active, drop>>
          /\ req'[r].at = (IF k \in Transfers THEN "agent" ELSE "slot") /\ req'[r].kind = k
          /\ \A s \in Requests : s # r => req'[s] = req[s]
      BY <1>0, <2>1 DEF Taken, Idle
    <3>2. active # r /\ drop[r] = "none"
      BY <1>0, <3>1 DEF SlotFits, Over
    <3>3. SlotFits(r)'
      BY <3>1, <3>2 DEF SlotFits, InSlot, Over
    <3> QED BY <3>1, <3>3, OneSlot
  <2>2. "upload" \in Transfers \cup Controls /\ "download" \in Transfers \cup Controls
    BY DEF Transfers
  <2> QED BY <1>3, <2>1, <2>2 DEF BeginControl, BeginUpload, BeginDownload
<1>4. CASE TakeSlot(r)
  <2>1. UNCHANGED drop /\ req[r].at = "agent"
    BY <1>4 DEF TakeSlot
  <2>2. PICK a \in {"slot", "failed"} :
          /\ req' = [req EXCEPT ![r].at = a]
          /\ IF a = "slot" THEN active = None /\ active' = r ELSE active' = active
    BY <1>4 DEF TakeSlot
  <2>3. req'[r].at = a /\ req'[r].kind = req[r].kind /\ \A s \in Requests : s # r => req'[s] = req[s]
    BY <1>0, <2>2 DEF Record
  <2>4. active # r /\ drop[r] = "none" /\ req[r].kind \in Transfers
    BY <1>0, <2>1 DEF SlotFits, Over
  <2>5. SlotFits(r)'
    BY <2>1, <2>2, <2>3, <2>4 DEF SlotFits, InSlot, Over
  <2> QED BY <2>1, <2>2, <2>3, <2>5, OneSlot
<1>5. CASE Register(r)
  <2>1. UNCHANGED active /\ req[r].at = "slot"
        /\ (Fails(r) \/ (UNCHANGED drop /\ req' = [req EXCEPT ![r].at = "starting"]))
    BY <1>5 DEF Register
  <2> QED BY <1>1, <1>2, <2>1 DEF InSlot
<1>6. CASE Leave(r)
  <2>1. UNCHANGED active /\ req[r].at \notin {"idle"} \cup Over
        /\ \/ req[r].at = "agent" /\ UNCHANGED drop /\ req' = [req EXCEPT ![r].at = "abandoned"]
           \/ req[r].at # "agent" /\ UNCHANGED drop /\ req' = [req EXCEPT ![r].at = "abandoned"]
           \/ req[r].at # "agent" /\ drop' = [drop EXCEPT ![r] = "forget"] /\ req' = [req EXCEPT ![r].at = "failed"]
    BY <1>6 DEF Leave, LeavesEarly
  <2>2. CASE req[r].at = "agent" /\ UNCHANGED drop /\ req' = [req EXCEPT ![r].at = "abandoned"]
    <3>1. req'[r].at = "abandoned" /\ req'[r].kind = req[r].kind /\ \A s \in Requests : s # r => req'[s] = req[s]
      BY <1>0, <2>2 DEF Record
    <3>2. active # r /\ drop[r] = "none"
      BY <1>0, <2>2 DEF SlotFits, Over
    <3>3. SlotFits(r)'
      BY <2>1, <2>2, <3>1, <3>2 DEF SlotFits, InSlot, Over
    <3> QED BY <2>1, <2>2, <3>1, <3>3, OneSlot
  <2>3. "abandoned" \in Over /\ "failed" \in Over
    BY DEF Over
  <2> QED BY <2>1, <2>2, <2>3, OverSlot
<1>7. CASE Timeout(r) \/ BodyBreaks(r)
  <2>1. Fails(r) /\ UNCHANGED active /\ req[r].at \notin {"idle", "agent"}
    BY <1>7 DEF Timeout, BodyBreaks, Awaits
  <2> QED BY <1>1, <2>1
<1>8. CASE OpenStream(r) \/ Poll(r)
  <2>1. /\ UNCHANGED <<active, drop>> /\ req[r].at \in {"ready", "opened"}
        /\ \E a \in {"opened", "streaming"} : req' = [req EXCEPT ![r].at = a]
    BY <1>8 DEF OpenStream, Poll
  <2> QED BY <1>2, <2>1 DEF InSlot
<1>9. CASE SendFinish(r)
  <2>1. /\ UNCHANGED active /\ req[r].at = "streaming" /\ req[r].kind = "upload"
        /\ (Fails(r) \/ (UNCHANGED drop /\ req' = [req EXCEPT ![r].at = "finishing"]))
    BY <1>9 DEF SendFinish
  <2> QED BY <1>1, <1>2, <2>1 DEF InSlot
<1>10. CASE SendChunk(r)
  <2>1. /\ UNCHANGED active /\ req[r].at = "streaming"
        /\ (Fails(r) \/ (UNCHANGED drop /\ req' = [req EXCEPT ![r].sent = @ + 1]))
    BY <1>10 DEF SendChunk
  <2>2. CASE UNCHANGED drop /\ req' = [req EXCEPT ![r].sent = @ + 1]
    <3>1. req'[r].at = req[r].at /\ req'[r].kind = req[r].kind /\ \A s \in Requests : s # r => req'[s] = req[s]
      BY <1>0, <2>2 DEF Record
    <3> QED BY <2>1, <2>2, <3>1, OnSlot DEF InSlot
  <2> QED BY <1>1, <2>1, <2>2
<1>11. CASE Forget(r) \/ Cancel(r)
  <2>1. /\ req' = req /\ drop[r] # "none"
        /\ \E d \in {"none", "cancel"} : drop' = [drop EXCEPT ![r] = d]
        /\ active' = active \/ (active = r /\ active' = None)
    BY <1>11 DEF Forget, Cancel
  <2>2. req[r].at \in Over
    BY <1>0, <2>1 DEF SlotFits
  <2>3. \A s \in Requests : s # r => drop'[s] = drop[s]
    BY <1>0, <2>1
  <2>4. active' = r => active = r
    BY <2>1, FileTransferAssumption
  <2>5. SlotFits(r)'
    BY <1>0, <2>1, <2>2, <2>4 DEF SlotFits, InSlot, Over
  <2> QED BY <2>1, <2>3, <2>5, OneSlot
<1>12. CASE Receive(r)
  <2>1. req[r].at \in {"starting", "streaming", "finishing"}
    BY <1>12 DEF Receive, Awaits
  <2>2. ASSUME Answered(r) PROVE Slotted'
    <3>1. /\ "done" \in Over /\ req' = [req EXCEPT ![r].at = "done"] /\ drop' = drop
          /\ active' = active \/ (active = r /\ active' = None)
      BY <2>2 DEF Answered, Over
    <3> QED BY <2>1, <3>1, OverSlot
  <2>3. PICK e : \/ req[r].at = "starting" /\ OnStart(r, e)
                 \/ req[r].at = "finishing" /\ OnFinish(r, e)
                 \/ req[r].at = "streaming" /\ req[r].kind = "upload" /\ OnAck(r, e)
                 \/ req[r].at = "streaming" /\ req[r].kind = "download" /\ OnStream(r, e)
    BY <1>12, Dispatch
  <2>4. \/ Answered(r)
        \/ Fails(r) /\ UNCHANGED active
        \/ /\ UNCHANGED <<active, drop>>
           /\ \/ \E a \in {"streaming", "ready"} : req' = [req EXCEPT ![r].at = a, ![r].size = e.n]
              \/ req[r].at = "streaming" /\ req' = [req EXCEPT ![r].got = @ + 1]
    BY <2>3 DEF OnStart, OnFinish, OnAck, OnStream
  <2>5. ASSUME UNCHANGED <<active, drop>>, NEW a \in {"streaming", "ready"},
               req' = [req EXCEPT ![r].at = a, ![r].size = e.n]
        PROVE  Slotted'
    <3>1. req'[r].at = a /\ req'[r].kind = req[r].kind /\ \A s \in Requests : s # r => req'[s] = req[s]
      BY <1>0, <2>5 DEF Record
    <3> QED BY <2>1, <2>5, <3>1, OnSlot DEF InSlot
  <2>6. ASSUME UNCHANGED <<active, drop>>, req[r].at = "streaming", req' = [req EXCEPT ![r].got = @ + 1]
        PROVE  Slotted'
    <3>1. req'[r].at = req[r].at /\ req'[r].kind = req[r].kind /\ \A s \in Requests : s # r => req'[s] = req[s]
      BY <1>0, <2>6 DEF Record
    <3> QED BY <2>1, <2>6, <3>1, OnSlot DEF InSlot
  <2> QED BY <1>1, <2>1, <2>2, <2>4, <2>5, <2>6
<1>13. CASE Recorded(r) \/ Unrecorded(r)
  BY <1>13 DEF Recorded, Unrecorded, Slotted, SlotFits
<1> QED BY <1>3, <1>4, <1>5, <1>6, <1>7, <1>8, <1>9, <1>10, <1>11, <1>12, <1>13 DEF Handles

\* So does every step.
LEMMA SlottedKept ==
  ASSUME Shape, Slotted, [Next]_vars
  PROVE  Slotted'
<1>1. ASSUME UNCHANGED <<req, active, drop>> PROVE Slotted'
  BY <1>1 DEF Slotted, SlotFits
<1>2. CASE UNCHANGED vars \/ Elsewhere \/ Disconnect \/ Response \/ Chunk \/ \E c \in Conns : Sweep(c)
  BY <1>1, <1>2 DEF vars, server, Elsewhere, Created, Connect, Lose, Vanish, Disconnect, Response, Chunk, Sweep
<1>3. CASE AgentSteps
  BY <1>1, <1>3, AgentSays DEF server
<1> QED BY <1>2, <1>3, HandlerSlot, NextCases

-----------------------------------------------------------------------------
(***************************************************************************)
(* One transfer at the agent.                                              *)
(***************************************************************************)
\* The start of a transfer is at this place on its way.
TransferStart(i) == down[i].type = "start" /\ req[down[i].req].kind \in Transfers
\* Behind the start of the transfer that has the slot there is no other: control
\* messages are not reordered, and whoever had the slot before started before.
InOrder ==
  \A i, j \in 1..Len(down) :
    i < j /\ TransferStart(i) /\ TransferStart(j) => down[i].req # active
\* Once it has begun at the agent, the agent has no other transfer and will have none.
Alone ==
  active # None /\ (xfer.req = active \/ Told(active, "complete")) =>
    /\ xfer.req \in {None, active}
    /\ \A i \in 1..Len(down) : ~TransferStart(i)

\* A request that began stays the request it is, whatever happens.
LEMMA AllStay ==
  ASSUME Shape, [Next]_vars
  PROVE  \A r \in Requests : Stays(r)
<1>1. CASE UNCHANGED req
  BY <1>1 DEF Stays
<1> QED BY <1>1, OtherSteps

\* The slot is taken only by a request that has not begun.
LEMMA ActiveMoves ==
  ASSUME Shape, [Next]_vars
  PROVE  \/ active' = active
         \/ active' = None
         \/ \E r \in Requests : TakeSlot(r) /\ active' = r
<1>1. CASE UNCHANGED vars \/ Elsewhere \/ Disconnect \/ Response \/ Chunk \/ \E c \in Conns : Sweep(c)
  BY <1>1 DEF vars, server, Elsewhere, Created, Connect, Lose, Vanish, Disconnect, Response, Chunk, Sweep
<1>2. CASE AgentSteps
  BY <1>2, AgentSays DEF server
<1>3. ASSUME NEW r \in Requests, Handles(r)
      PROVE  active' = active \/ active' = None \/ (TakeSlot(r) /\ active' = r)
  <2>1. CASE Receive(r)
    <3>1. PICK e : \/ req[r].at = "starting" /\ OnStart(r, e)
                   \/ req[r].at = "finishing" /\ OnFinish(r, e)
                   \/ req[r].at = "streaming" /\ req[r].kind = "upload" /\ OnAck(r, e)
                   \/ req[r].at = "streaming" /\ req[r].kind = "download" /\ OnStream(r, e)
      BY <2>1, Dispatch
    <3>2. Answered(r) \/ UNCHANGED active
      BY <3>1 DEF OnStart, OnFinish, OnAck, OnStream
    <3> QED BY <3>2 DEF Answered
  <2>2. CASE ~Receive(r)
    BY <1>3, <2>2 DEF Handles, BeginControl, BeginUpload, BeginDownload, Taken, TakeSlot, Register, Leave, Timeout,
       SendChunk, BodyBreaks, SendFinish, OpenStream, Poll, Recorded, Unrecorded, Forget, Cancel
  <2> QED BY <2>1, <2>2
<1> QED BY <1>1, <1>2, <1>3, NextCases

\* The control messages lose their head, are lost all at once, or get one more.
LEMMA DownMoves ==
  ASSUME Shape, [Next]_vars
  PROVE  \/ down' = down
         \/ down # <<>> /\ down' = Tail(down)
         \/ down' = <<>>
         \/ \E r \in Requests : Register(r) /\ down' = Append(down, Msg(r, "start", 0))
         \/ \E m \in Message : m.type # "start" /\ down' = Append(down, m)
<1>1. CASE UNCHANGED vars \/ Elsewhere \/ Response \/ \E c \in Conns : Sweep(c)
  BY <1>1 DEF vars, wires, Elsewhere, Created, Connect, Lose, Vanish, Response, Sweep
<1>2. CASE Disconnect
  BY <1>2 DEF Disconnect
<1>3. CASE AgentSteps
  BY <1>3, AgentSays
<1>4. CASE Chunk
  <2>1. data # <<>> /\ Head(data) \in Message
    BY <1>4, AllMessages, SeqFacts DEF Chunk
  <2>2. Head(data).req \in Requests
    BY <2>1 DEF Message
  <2>3. /\ Msg(Head(data).req, "cancel", 0) \in Message
        /\ Msg(Head(data).req, "cancel", 0).type # "start"
    BY <2>2 DEF Msg, Message, Types
  <2>4. down' = down \/ down' = Append(down, Msg(Head(data).req, "cancel", 0))
    BY <1>4 DEF Chunk, Put
  <2> QED BY <2>3, <2>4
<1>5. ASSUME NEW r \in Requests, Handles(r), NEW m \in Later(r), down' = Append(down, m)
      PROVE  m \in Message /\ m.type # "start"
  BY DEF Later, Msg, Message, Types
<1> QED BY <1>1, <1>2, <1>3, <1>4, <1>5, HandlerMoves, NextCases

\* The agent has another transfer only by starting one.
LEMMA XferMoves ==
  ASSUME Shape, [Next]_vars
  PROVE  \/ xfer'.req \in {xfer.req, None}
         \/ \E r \in Requests : \E n \in 0..Size[r] :
              Start(r, n) /\ req[r].kind \in Transfers /\ xfer'.req = r
<1>1. xfer \in Transfer
  BY DEF Shape, XferTypes
<1>2. CASE UNCHANGED xfer
  BY <1>2
<1>3. CASE Ends
  BY <1>3 DEF Ends, NoXfer
<1>4. CASE Disconnect \/ Stop
  BY <1>2, <1>3, <1>4 DEF Disconnect, Stop, Aborted
<1>5. CASE FinishUpload \/ AcknowledgeDownload \/ Frame
  <2>1. PICK m : Takes(m)
    BY <1>5 DEF FinishUpload, AcknowledgeDownload, Frame
  <2>2. CASE xfer' = [xfer EXCEPT !.queue = Append(@, m)]
    BY <1>1, <2>2 DEF Transfer
  <2> QED BY <1>2, <1>3, <2>1, <2>2 DEF Takes, Aborted
<1>6. CASE TaskStep
  <2>1. CASE Look \/ Open \/ Check \/ SetAside \/ Rename
    <3>1. Ends \/ \E a : xfer' = [xfer EXCEPT !.at = a]
      BY <2>1 DEF Look, Open, Check, SetAside, Rename, TaskFails
    <3> QED BY <1>1, <1>3, <3>1 DEF Transfer
  <2>2. CASE Write \/ Read \/ TakeAck
    <3>1. \/ Ends
          \/ xfer' = [xfer EXCEPT !.queue = Tail(@), !.got = @ + 1]
          \/ xfer' = [xfer EXCEPT !.queue = Tail(@), !.at = "checking"]
          \/ xfer' = [xfer EXCEPT !.sent = @ + 1]
      BY <2>2 DEF Write, Read, TakeAck, TaskFails
    <3> QED BY <1>1, <1>3, <3>1 DEF Transfer
  <2>3. CASE RenameFails \/ Committed \/ SentAll
    BY <1>3, <2>3 DEF RenameFails, Committed, SentAll, TaskFails
  <2> QED BY <1>6, <2>1, <2>2, <2>3 DEF TaskStep
<1>7. ASSUME NEW r \in Requests, NEW n \in 0..Size[r], Start(r, n)
      PROVE  xfer' = xfer \/ (req[r].kind \in Transfers /\ xfer'.req = r)
  <2>1. xfer' = xfer \/ (req[r].kind \in Transfers /\ Launched(r, n))
    BY <1>7 DEF Start, Refused, Control, StartUpload, StartDownload, Transfers
  <2> QED BY <2>1 DEF Launched, NoXfer
<1>8. CASE Created
  BY <1>2, <1>8 DEF Created
<1> QED BY <1>2, <1>4, <1>5, <1>6, <1>7, <1>8, OtherSteps

\* A start under way is one of a request that has begun, and stays what it is.
LEMMA StartsStay ==
  ASSUME Shape, Underway, [Next]_vars, NEW i \in 1..Len(down), down[i].type = "start"
  PROVE  /\ down[i].req \in Requests /\ ~Early(down[i].req) /\ xfer.req # down[i].req
         /\ req'[down[i].req].kind = req[down[i].req].kind
<1>1. down[i] \in Message
  BY AllMessages
<1>2. down[i].req \in Requests /\ Has(down, down[i].req, "start")
  BY <1>1 DEF Message, Has
<1>3. ~Early(down[i].req) /\ xfer.req # down[i].req
  BY <1>2, ToldFacts
<1>4. req[down[i].req].at # "idle"
  BY <1>3 DEF Early
<1> QED BY <1>2, <1>3, <1>4, AllStay DEF Stays

\* Where the start of a transfer is after a step, it was before, or it is the one of the
\* transfer that has the slot, put there now.
LEMMA StartsMove ==
  ASSUME Shape, Underway, Slotted, [Next]_vars, NEW i \in 1..Len(down'), TransferStart(i)'
  PROVE  \/ /\ i \in 1..Len(down) /\ TransferStart(i) /\ down'[i] = down[i]
            /\ \A j \in 1..Len(down') : j > i => j \in 1..Len(down) \/ j = Len(down) + 1
         \/ down' = Tail(down) /\ i + 1 \in 1..Len(down) /\ TransferStart(i + 1) /\ down'[i] = down[i + 1]
         \/ i = Len(down) + 1 /\ down'[i].req = active /\ Early(active) /\ active' = active
<1>1. down \in Seq(Message) /\ down' \in Seq(Message) /\ Len(down) \in Nat
  <2>1. Shape'
    BY ShapeKept
  <2>2. down' \in Seq(Message)
    <3>1. down' \in Seq(Orders) /\ Orders \subseteq Message
      BY <2>1 DEF Shape, WireTypes, Orders
    <3> QED BY <3>1, SeqWithin
  <2> QED BY <2>2, AllMessages
<1>2. \A k \in 1..Len(down) : down[k].type = "start" => req'[down[k].req].kind = req[down[k].req].kind
  BY StartsStay
<1>3. CASE down' = down
  BY <1>1, <1>2, <1>3 DEF TransferStart
<1>4. CASE down # <<>> /\ down' = Tail(down)
  <2>1. i + 1 \in 1..Len(down) /\ down'[i] = down[i + 1]
    BY <1>1, <1>4
  <2> QED BY <1>2, <1>4, <2>1 DEF TransferStart
<1>5. CASE down' = <<>>
  BY <1>5
<1>6. ASSUME NEW m \in Message, down' = Append(down, m)
      PROVE  \/ /\ i \in 1..Len(down) /\ TransferStart(i) /\ down'[i] = down[i]
                /\ \A j \in 1..Len(down') : j > i => j \in 1..Len(down) \/ j = Len(down) + 1
             \/ i = Len(down) + 1 /\ down'[i] = m
  <2>1. /\ i \in 1..Len(down) \/ i = Len(down) + 1
        /\ \A j \in 1..Len(down') : j \in 1..Len(down) \/ j = Len(down) + 1
        /\ i \in 1..Len(down) => down'[i] = down[i]
        /\ down'[Len(down) + 1] = m
    BY <1>1, <1>6
  <2> QED BY <1>2, <2>1 DEF TransferStart
<1>7. ASSUME NEW r \in Requests, Register(r), down' = Append(down, Msg(r, "start", 0)), i = Len(down) + 1
      PROVE  down'[i].req = active /\ Early(active) /\ active' = active
  <2>1. down'[i] = Msg(r, "start", 0) /\ Msg(r, "start", 0).req = r
    BY <1>1, <1>7 DEF Msg
  <2>2. req[r].at = "slot" /\ active' = active
    BY <1>7 DEF Register
  <2>3. req[r].kind \in Transfers
    BY <2>1, <2>2, AllStay DEF TransferStart, Stays
  <2>4. active = r
    BY <2>2, <2>3 DEF Slotted, SlotFits, InSlot
  <2> QED BY <2>1, <2>2, <2>4 DEF Early
<1>8. ASSUME NEW m \in Message, m.type # "start", down' = Append(down, m)
      PROVE  i \in 1..Len(down) /\ TransferStart(i) /\ down'[i] = down[i]
             /\ \A j \in 1..Len(down') : j > i => j \in 1..Len(down) \/ j = Len(down) + 1
  BY <1>6, <1>8 DEF TransferStart
<1>9. \A r \in Requests : Msg(r, "start", 0) \in Message
  BY DEF Msg, Message, Types
<1> QED BY <1>3, <1>4, <1>5, <1>6, <1>7, <1>8, <1>9, DownMoves

\* The order is kept.
LEMMA InOrderKept ==
  ASSUME Shape, Underway, Slotted, InOrder, [Next]_vars
  PROVE  InOrder'
<1> SUFFICES ASSUME NEW i \in 1..Len(down'), NEW j \in 1..Len(down'), i < j,
                    TransferStart(i)', TransferStart(j)', down'[i].req = active'
             PROVE  FALSE
  BY DEF InOrder
<1>1. Len(down) \in Nat
  BY AllMessages
<1>2. CASE i \in 1..Len(down) /\ TransferStart(i) /\ down'[i] = down[i]
           /\ (j \in 1..Len(down) \/ j = Len(down) + 1)
  <2>1. down[i].req \in Requests /\ ~Early(down[i].req)
    BY <1>2, StartsStay DEF TransferStart
  <2>2. active' = active
    <3>1. ASSUME NEW r \in Requests, TakeSlot(r), active' = r PROVE FALSE
      BY <1>2, <2>1, <3>1 DEF TakeSlot, Early
    <3> QED BY <1>2, <2>1, <3>1, ActiveMoves, FileTransferAssumption
  <2>3. CASE j \in 1..Len(down) /\ TransferStart(j)
    BY <1>2, <2>2, <2>3 DEF InOrder
  <2>4. CASE down' = Tail(down) /\ down'[i] = down[i + 1] /\ i + 1 \in 1..Len(down) /\ j + 1 \in 1..Len(down) /\ TransferStart(j + 1)
    <3>1. TransferStart(i + 1)
      BY <1>2, <2>4 DEF TransferStart
    <3>2. i + 1 < j + 1
      BY <1>1
    <3>3. down[i + 1].req # active
      BY <2>4, <3>1, <3>2 DEF InOrder
    <3> QED BY <2>2, <2>4, <3>3
  <2>5. CASE Early(active)
    BY <1>2, <2>1, <2>2, <2>5
  <2>6. CASE down' = Tail(down) /\ j + 1 \in 1..Len(down) /\ TransferStart(j + 1)
    <3>1. i + 1 \in 1..Len(down) /\ down'[i] = down[i + 1]
      BY <1>1, <2>6, AllMessages
    <3> QED BY <2>4, <2>6, <3>1
  <2> QED BY <2>3, <2>5, <2>6, StartsMove
<1>3. CASE down' = Tail(down) /\ i + 1 \in 1..Len(down) /\ TransferStart(i + 1) /\ down'[i] = down[i + 1]
  <2>1. down[i + 1].req \in Requests /\ ~Early(down[i + 1].req)
    BY <1>3, StartsStay DEF TransferStart
  <2>2. active' = active
    <3>1. ASSUME NEW r \in Requests, TakeSlot(r), active' = r PROVE FALSE
      BY <1>3, <2>1, <3>1 DEF TakeSlot, Early
    <3> QED BY <1>3, <2>1, <3>1, ActiveMoves, FileTransferAssumption
  <2>3. j + 1 \in 1..Len(down) /\ down'[j] = down[j + 1] /\ i + 1 < j + 1
    <3>1. down \in Seq(Message) /\ down # <<>>
      BY <1>3, AllMessages
    <3> QED BY <1>3, <3>1
  <2>4. TransferStart(j + 1)
    <3>1. down[j + 1].type = "start" /\ req'[down[j + 1].req].kind \in Transfers
      BY <2>3 DEF TransferStart
    <3> QED BY <2>3, <3>1, StartsStay DEF TransferStart
  <2> QED BY <1>3, <2>2, <2>3, <2>4 DEF InOrder
<1>4. CASE i = Len(down) + 1
  <2>1. Len(down') <= Len(down) + 1
    BY DownMoves, AllMessages
  <2> QED BY <1>1, <1>4, <2>1
<1> QED BY <1>2, <1>3, <1>4, StartsMove

\* The request that takes the slot has neither a start nor an answer on its way, and no
\* transfer.
LEMMA TakerIsNew ==
  ASSUME Shape, Underway, NEW r \in Requests, TakeSlot(r)
  PROVE  xfer'.req # r /\ ~Told(r, "complete")'
<1>1. Early(r) /\ UNCHANGED <<wires, inbox, xfer>>
  BY DEF TakeSlot, Early
<1>2. xfer.req # r
  BY <1>1 DEF Underway, Good, UntouchedIsClean, Untouched
<1>3. ~Told(r, "complete")
  BY <1>1, ToldFacts DEF Finals
<1> QED BY <1>1, <1>2, <1>3 DEF Told, wires

\* Whose transfer the agent has, or is told of, is alone there.
LEMMA AloneKept ==
  ASSUME Shape, Underway, Slotted, InOrder, Alone, [Next]_vars
  PROVE  Alone'
<1> SUFFICES ASSUME active' # None, xfer'.req = active' \/ Told(active, "complete")'
             PROVE  /\ xfer'.req \in {None, active'}
                    /\ \A i \in 1..Len(down') : ~TransferStart(i)'
  BY DEF Alone
<1>1. PICK q \in Requests : active = q /\ active' = q
  <2>1. active \in Requests \cup {None}
    BY DEF Shape, ServerTypes
  <2>2. ASSUME NEW r \in Requests, TakeSlot(r), active' = r PROVE FALSE
    <3>1. Told(active, "complete")' => Told(r, "complete")'
      BY <2>2 DEF Told
    <3> QED BY <2>2, <3>1, TakerIsNew
  <2> QED BY <2>1, <2>2, ActiveMoves
<1>2. q # None /\ (xfer'.req = q \/ Told(q, "complete")')
  <2>1. Told(active, "complete")' => Told(q, "complete")'
    BY <1>1 DEF Told
  <2> QED BY <1>1, <2>1
<1>3. CASE xfer.req = q \/ Told(q, "complete")
  <2>1. xfer.req \in {None, q} /\ (\A i \in 1..Len(down) : ~TransferStart(i)) /\ ~Early(q)
    <3>1. xfer.req = q => ~Early(q)
      BY DEF Underway, Good, UntouchedIsClean, Untouched
    <3>2. Told(q, "complete") => ~Early(q)
      BY ToldFacts DEF Finals
    <3> QED BY <1>1, <1>2, <1>3, <3>1, <3>2 DEF Alone
  <2>2. xfer'.req \in {None, q}
    <3>1. ASSUME NEW r \in Requests, NEW n \in 0..Size[r], Start(r, n), req[r].kind \in Transfers PROVE FALSE
      <4>1. down # <<>> /\ Head(down).type = "start" /\ Head(down).req = r
        BY <3>1 DEF Start
      <4>2. 1 \in 1..Len(down) /\ Head(down) = down[1]
        BY <4>1, AllMessages
      <4> QED BY <2>1, <3>1, <4>1, <4>2 DEF TransferStart
    <3> QED BY <2>1, <3>1, XferMoves
  <2>3. \A i \in 1..Len(down') : ~TransferStart(i)'
    BY <1>1, <2>1, StartsMove
  <2> QED BY <1>1, <2>2, <2>3
<1>4. CASE ~(xfer.req = q \/ Told(q, "complete"))
  <2>1. xfer'.req = q
    BY <1>2, <1>4, ToldMoves
  <2>2. PICK n \in 0..Size[q] : Start(q, n) /\ req[q].kind \in Transfers
    BY <1>2, <1>4, <2>1, XferMoves
  <2>3. down # <<>> /\ Head(down).type = "start" /\ Head(down).req = q /\ down' = Tail(down)
    BY <2>2 DEF Start
  <2>4. /\ 1 \in 1..Len(down) /\ Head(down) = down[1] /\ Len(down) \in Nat
        /\ Len(down') = Len(down) - 1 /\ \A i \in 1..Len(down') : i + 1 \in 1..Len(down) /\ down'[i] = down[i + 1]
    BY <2>3, AllMessages
  <2>5. TransferStart(1) /\ down[1].req = active
    BY <1>1, <2>2, <2>3, <2>4 DEF TransferStart
  <2>6. ASSUME NEW i \in 1..Len(down'), TransferStart(i)' PROVE FALSE
    <3>1. i + 1 \in 1..Len(down) /\ 1 < i + 1 /\ down'[i] = down[i + 1]
      BY <2>4, <2>6
    <3>2. TransferStart(i + 1)
      <4>1. UNCHANGED req
        BY <2>2 DEF Start, server
      <4> QED BY <2>6, <3>1, <4>1 DEF TransferStart
    <3> QED BY <2>4, <2>5, <3>1, <3>2 DEF InOrder
  <2> QED BY <1>1, <2>1, <2>6
<1> QED BY <1>3, <1>4

-----------------------------------------------------------------------------
(***************************************************************************)
(* What an answer says is so.                                              *)
(***************************************************************************)
\* Only control requests are told a result.
ResultsFit == \A r \in Requests : Told(r, "result") => req[r].kind \in Controls
\* The file of the upload is at the name, unless a request moved it.
InPlace(r) == target = r \/ \E q \in Requests : Moves(q)
\* It is there from the rename on, and still when the handler is told.
Placed ==
  /\ active # None /\ req[active].kind = "upload" /\ Told(active, "complete") => InPlace(active)
  /\ xfer.req # None /\ xfer.kind = "upload" /\ xfer.at = "clearing" => InPlace(xfer.req)

\* A result stays one of a control request.
LEMMA ResultsKept ==
  ASSUME Shape, Underway, ResultsFit, [Next]_vars
  PROVE  ResultsFit'
<1> SUFFICES ASSUME NEW r \in Requests, Told(r, "result")' PROVE req'[r].kind \in Controls
  BY DEF ResultsFit
<1>1. CASE Told(r, "result")
  <2>1. ~Early(r) /\ req[r].kind \in Controls
    BY <1>1, ToldFacts DEF ResultsFit, Finals
  <2> QED BY <2>1, AllStay DEF Stays, Early
<1>2. ASSUME NEW n, Start(r, n), Control(r) PROVE req'[r].kind \in Controls
  BY <1>2 DEF Start, Control, server
<1> QED BY <1>1, <1>2, ToldMoves

\* The file of the name is replaced by the task of a transfer, put where none is, or taken
\* away by a request that was made.
LEMMA TargetMoves ==
  ASSUME Shape, Underway, Commits, [Next]_vars
  PROVE  \/ target' = target
         \/ target = None
         \/ \E q \in Requests : Moves(q)'
         \/ /\ xfer.req # None
            /\ Ends \/ SetAside \/ Rename \/ RenameFails
<1>1. ASSUME Aborted, target' # target
      PROVE  xfer.req # None /\ Ends
  BY <1>1 DEF Aborted, Commits
<1>2. CASE Created
  BY <1>2 DEF Created
<1>3. CASE Disconnect \/ Stop
  BY <1>1, <1>3 DEF Disconnect, Stop, disk
<1>4. CASE FinishUpload \/ AcknowledgeDownload \/ Frame
  BY <1>1, <1>4 DEF FinishUpload, AcknowledgeDownload, Frame, Takes, disk
<1>5. CASE TaskStep
  BY <1>5 DEF TaskStep, Look, Open, Write, Check, SetAside, Rename, RenameFails, Committed, Read, TakeAck, SentAll, disk
<1>6. ASSUME NEW r \in Requests, NEW n, Start(r, n), target' # target
      PROVE  \E q \in Requests : Moves(q)'
  <2>1. Control(r) /\ ~Listed /\ UNCHANGED req
    BY <1>6 DEF Start, Refused, StartUpload, StartDownload, Launched, Control, Listed, server
  <2>2. req[r].kind \in {"delete", "move"}
    BY <2>1, <1>6 DEF Control, CarriedOut, Listed
  <2>3. req[r].at # "idle"
    BY <1>6, StartFacts DEF Early
  <2> QED BY <2>1, <2>2, <2>3 DEF Moves
<1> QED BY <1>2, <1>3, <1>4, <1>5, <1>6, OtherSteps DEF disk

\* A request that takes the file away has done so for good.
LEMMA MovesStay ==
  ASSUME Shape, [Next]_vars
  PROVE  (\E q \in Requests : Moves(q)) => \E q \in Requests : Moves(q)'
<1>1. \A q \in Requests : Moves(q) => Moves(q)'
  BY AllStay DEF Moves, Stays
<1> QED BY <1>1

\* A commit is past its rename since that rename.
LEMMA ClearingMoves ==
  ASSUME Shape, [Next]_vars, xfer'.req # None, xfer'.kind = "upload", xfer'.at = "clearing"
  PROVE  \/ Rename /\ target' = xfer.req /\ xfer'.req = xfer.req
         \/ /\ xfer'.req = xfer.req /\ xfer.kind = "upload" /\ xfer.at = "clearing"
            /\ ~Ends /\ ~SetAside /\ ~Rename /\ ~RenameFails
<1>1. xfer \in Transfer
  BY DEF Shape, XferTypes
<1>2. ~Ends
  BY DEF Ends, NoXfer
<1>3. ~SetAside /\ ~RenameFails
  BY <1>1, <1>2 DEF SetAside, RenameFails, TaskFails, Transfer
<1>4. ASSUME Rename PROVE target' = xfer.req /\ xfer'.req = xfer.req
  BY <1>1, <1>4 DEF Rename, Transfer
<1>5. CASE ~Rename /\ UNCHANGED xfer
  BY <1>2, <1>3, <1>5
<1>6. CASE ~Rename /\ ~UNCHANGED xfer
  <2>1. CASE FinishUpload \/ AcknowledgeDownload \/ Frame
    <3>1. PICK m : Takes(m)
      BY <2>1 DEF FinishUpload, AcknowledgeDownload, Frame
    <3>2. xfer' = [xfer EXCEPT !.queue = Append(@, m)]
      BY <1>2, <1>6, <3>1 DEF Takes, Aborted
    <3>3. xfer'.req = xfer.req /\ xfer'.kind = xfer.kind /\ xfer'.at = xfer.at
      BY <1>1, <3>2 DEF Transfer
    <3> QED BY <1>2, <1>3, <1>6, <3>3
  <2>2. CASE TaskStep
    <3>1. \/ \E a \in {"creating", "moving", "renaming", "backing"} : xfer' = [xfer EXCEPT !.at = a]
          \/ xfer' = [xfer EXCEPT !.queue = Tail(@), !.got = @ + 1] /\ xfer.at = "moving"
          \/ xfer' = [xfer EXCEPT !.queue = Tail(@), !.at = "checking"]
          \/ xfer' = [xfer EXCEPT !.sent = @ + 1] /\ xfer.at = "moving"
      BY <1>2, <1>3, <1>6, <2>2 DEF TaskStep, Look, Open, Write, Check, Committed, Read, TakeAck, SentAll, Sending, TaskFails
    <3>2. xfer'.at # "clearing"
      BY <1>1, <3>1 DEF Transfer
    <3> QED BY <3>2
  <2>3. ASSUME NEW r \in Requests, NEW n, Start(r, n) PROVE FALSE
    <3>1. Launched(r, n)
      BY <1>6, <2>3 DEF Start, Refused, Control, StartUpload, StartDownload
    <3>2. xfer'.at = "opening"
      BY <3>1 DEF Launched, NoXfer
    <3> QED BY <3>2
  <2>4. CASE Created \/ Disconnect \/ Stop
    BY <1>2, <1>6, <2>4 DEF Created, Disconnect, Stop, Aborted
  <2> QED BY <1>6, <2>1, <2>2, <2>3, <2>4, OtherSteps
<1> QED BY <1>4, <1>5, <1>6

\* What is in its place stays there until the handler knows.
LEMMA PlacedKept ==
  ASSUME Shape, Underway, Commits, Alone, Placed, [Next]_vars
  PROVE  Placed'
<1>1. ASSUME NEW r \in Requests, InPlace(r),
             xfer.req = None \/ (~Ends /\ ~SetAside /\ ~Rename /\ ~RenameFails)
      PROVE  InPlace(r)'
  <2>1. CASE \E q \in Requests : Moves(q)
    BY <2>1, MovesStay DEF InPlace
  <2>2. CASE target = r
    <3>1. target # None
      BY <2>2, FileTransferAssumption
    <3> QED BY <1>1, <2>2, <3>1, TargetMoves DEF InPlace
  <2> QED BY <1>1, <2>1, <2>2 DEF InPlace
<1>2. ASSUME active' # None, req'[active'].kind = "upload", Told(active, "complete")'
      PROVE  InPlace(active)'
  <2>1. PICK q \in Requests : active = q /\ active' = q
    <3>1. active \in Requests \cup {None}
      BY DEF Shape, ServerTypes
    <3>2. ASSUME NEW r \in Requests, TakeSlot(r), active' = r PROVE FALSE
      <4>1. Told(active, "complete")' => Told(r, "complete")'
        BY <3>2 DEF Told
      <4> QED BY <1>2, <3>2, <4>1, TakerIsNew
    <3> QED BY <1>2, <3>1, <3>2, ActiveMoves
  <2>2. Told(q, "complete")' /\ q # None /\ req'[q].kind = "upload"
    <3>1. Told(active, "complete")' => Told(q, "complete")'
      BY <2>1 DEF Told
    <3> QED BY <1>2, <2>1, <3>1
  <2>3. ~Early(q) => req[q].kind = "upload"
    BY <2>2, AllStay DEF Stays, Early
  <2>4. CASE Told(q, "complete")
    <3>1. ~Early(q) /\ xfer.req # q
      BY <2>4, ToldFacts DEF Finals
    <3>2. xfer.req = None
      BY <2>1, <2>2, <2>4, <3>1 DEF Alone
    <3>3. InPlace(q)
      BY <2>1, <2>2, <2>3, <2>4, <3>1 DEF Placed
    <3>4. InPlace(q)'
      BY <1>1, <3>2, <3>3
    <3> QED BY <2>1, <3>4 DEF InPlace
  <2>5. CASE Reports /\ xfer.req = q
    <3>1. ~Early(q) /\ xfer.kind = req[q].kind
      BY <2>2, <2>5 DEF Underway, Good, UntouchedIsClean, Untouched, TaskFits
    <3>2. xfer.at = "clearing" /\ target' = target
      BY <2>3, <2>5, <3>1 DEF Reports, Committed, SentAll, Sending
    <3>3. InPlace(q)
      BY <2>2, <2>3, <2>5, <3>1, <3>2 DEF Placed
    <3>4. InPlace(q)'
      BY <3>2, <3>3, MovesStay DEF InPlace
    <3> QED BY <2>1, <3>4 DEF InPlace
  <2> QED BY <2>2, <2>4, <2>5, ToldMoves
<1>3. ASSUME xfer'.req # None, xfer'.kind = "upload", xfer'.at = "clearing"
      PROVE  InPlace(xfer.req)'
  <2>1. xfer.req \in Requests /\ xfer'.req = xfer.req
    BY <1>3, ClearingMoves DEF Shape, XferTypes, Transfer
  <2>2. PICK q \in Requests : xfer.req = q /\ xfer'.req = q
    BY <2>1
  <2>3. CASE target' = xfer.req
    BY <2>2, <2>3 DEF InPlace
  <2>4. CASE /\ xfer.kind = "upload" /\ xfer.at = "clearing"
             /\ ~Ends /\ ~SetAside /\ ~Rename /\ ~RenameFails
    <3>1. InPlace(q)
      BY <1>3, <2>2, <2>4 DEF Placed
    <3>2. InPlace(q)'
      BY <1>1, <2>4, <3>1
    <3> QED BY <2>2, <3>2 DEF InPlace
  <2> QED BY <1>3, <2>3, <2>4, ClearingMoves
<1> QED BY <1>2, <1>3 DEF Placed

\* The administrator of a request is told that it is done.
Tells(r) == req[r].at # "done" /\ req'[r].at = "done"

\* Only an answer that its handler takes does that.
LEMMA OnlyAnswersTell ==
  ASSUME Shape, [Next]_vars, NEW r \in Requests, Tells(r)
  PROVE  Receive(r) /\ Answered(r)
<1>1. req \in [Requests -> Record]
  BY DEF Shape, ServerTypes
<1>2. CASE UNCHANGED vars \/ Elsewhere \/ Disconnect \/ Response \/ Chunk \/ \E c \in Conns : Sweep(c)
  BY <1>2 DEF Tells, vars, server, Elsewhere, Created, Connect, Lose, Vanish, Disconnect, Response, Chunk, Sweep
<1>3. CASE AgentSteps
  BY <1>3, AgentSays DEF Tells, server
<1>4. ASSUME NEW s \in Requests, Handles(s) PROVE Receive(r) /\ Answered(r)
  <2>1. ASSUME NEW a \in Steps \ {"done"}, req' = [req EXCEPT ![s].at = a] PROVE FALSE
    BY <1>1, <2>1 DEF Tells, Record
  <2>2. {"slot", "starting", "failed", "abandoned", "opened", "streaming", "finishing"} \subseteq Steps \ {"done"}
    BY DEF Steps, Over
  <2>3. ASSUME Fails(s) PROVE FALSE
    BY <2>1, <2>2, <2>3 DEF Fails
  <2>4. ASSUME req'[s].at = req[s].at \/ req'[s].at # "done", \A q \in Requests : q # s => req'[q] = req[q]
        PROVE  FALSE
    BY <2>4 DEF Tells
  <2>5. CASE \/ \E k \in Controls, o \in BOOLEAN : BeginControl(s, k, o)
             \/ \E o \in BOOLEAN, n \in 0..Size[s] : BeginUpload(s, o, n)
             \/ BeginDownload(s)
    <3>1. ASSUME NEW k, NEW o, NEW n, Taken(s, k, o, n) PROVE FALSE
      <4>1. req'[s].at \in {"agent", "slot"} /\ \A q \in Requests : q # s => req'[q] = req[q]
        BY <1>1, <3>1 DEF Taken, Idle
      <4> QED BY <2>4, <4>1
    <3> QED BY <2>5, <3>1 DEF BeginControl, BeginUpload, BeginDownload
  <2>6. CASE TakeSlot(s) \/ Register(s) \/ Leave(s) \/ Timeout(s) \/ BodyBreaks(s) \/ OpenStream(s) \/ Poll(s) \/ SendFinish(s)
    <3>1. \/ Fails(s)
          \/ \E a \in {"slot", "starting", "failed", "abandoned", "opened", "streaming", "finishing"} :
               req' = [req EXCEPT ![s].at = a]
      BY <2>6 DEF TakeSlot, Register, Leave, LeavesEarly, Timeout, BodyBreaks, OpenStream, Poll, SendFinish
    <3> QED BY <2>1, <2>2, <2>3, <3>1
  <2>7. CASE SendChunk(s)
    <3>1. Fails(s) \/ req' = [req EXCEPT ![s].sent = @ + 1]
      BY <2>7 DEF SendChunk
    <3>2. CASE req' = [req EXCEPT ![s].sent = @ + 1]
      <4>1. req'[s].at = req[s].at /\ \A q \in Requests : q # s => req'[q] = req[q]
        BY <1>1, <3>2 DEF Record
      <4> QED BY <2>4, <4>1
    <3> QED BY <2>3, <3>1, <3>2
  <2>8. CASE Recorded(s) \/ Unrecorded(s) \/ Forget(s) \/ Cancel(s)
    BY <2>8 DEF Recorded, Unrecorded, Forget, Cancel, Tells
  <2>9. CASE Receive(s)
    <3>1. PICK e : \/ req[s].at = "starting" /\ OnStart(s, e)
                   \/ req[s].at = "finishing" /\ OnFinish(s, e)
                   \/ req[s].at = "streaming" /\ req[s].kind = "upload" /\ OnAck(s, e)
                   \/ req[s].at = "streaming" /\ req[s].kind = "download" /\ OnStream(s, e)
      BY <2>9, Dispatch
    <3>2. \/ Answered(s)
          \/ Fails(s)
          \/ \E a \in {"streaming", "ready"} : req' = [req EXCEPT ![s].at = a, ![s].size = e.n]
          \/ req' = [req EXCEPT ![s].got = @ + 1]
      BY <3>1 DEF OnStart, OnFinish, OnAck, OnStream
    <3>3. ASSUME NEW a \in {"streaming", "ready"}, req' = [req EXCEPT ![s].at = a, ![s].size = e.n]
          PROVE  FALSE
      <4>1. req'[s].at # "done" /\ \A q \in Requests : q # s => req'[q] = req[q]
        BY <1>1, <3>3 DEF Record
      <4> QED BY <2>4, <4>1
    <3>4. ASSUME req' = [req EXCEPT ![s].got = @ + 1] PROVE FALSE
      <4>1. req'[s].at = req[s].at /\ \A q \in Requests : q # s => req'[q] = req[q]
        BY <1>1, <3>4 DEF Record
      <4> QED BY <2>4, <4>1
    <3>5. ASSUME Answered(s) PROVE s = r
      <4>1. req' = [req EXCEPT ![s].at = "done"]
        BY <3>5 DEF Answered
      <4> QED BY <1>1, <4>1 DEF Tells
    <3> QED BY <2>3, <2>9, <3>2, <3>3, <3>4, <3>5
  <2> QED BY <1>4, <2>5, <2>6, <2>7, <2>8, <2>9 DEF Handles
<1> QED BY <1>2, <1>3, <1>4, NextCases

\* The audit calls a request a success only when it is done.
LEMMA OnlyDoneIsSuccess ==
  ASSUME Shape, [Next]_vars, NEW r \in Requests, audit[r] # "success", audit'[r] = "success"
  PROVE  req'[r].at = "done"
<1>1. audit \in [Requests -> {"none", "running", "success", "failed", "lost"}]
  BY DEF Shape, ServerTypes
<1>2. CASE UNCHANGED audit
  BY <1>2
<1>3. CASE UNCHANGED vars \/ Elsewhere \/ Disconnect \/ Response \/ Chunk \/ \E c \in Conns : Sweep(c)
  BY <1>2, <1>3 DEF vars, server, Elsewhere, Created, Connect, Lose, Vanish, Disconnect, Response, Chunk, Sweep
<1>4. CASE AgentSteps
  BY <1>2, <1>4, AgentSays DEF server
<1>5. ASSUME NEW s \in Requests, Handles(s) PROVE req'[r].at = "done"
  <2>1. CASE Leave(s)
    <3>1. PICK a \in Audited(s) : audit' = [audit EXCEPT ![s] = a]
      BY <2>1 DEF Leave
    <3>2. a = "success" => audit[s] = "success"
      BY DEF Audited
    <3> QED BY <1>1, <3>1, <3>2
  <2>2. CASE Recorded(s)
    <3>1. s = r
      BY <1>1, <2>2 DEF Recorded
    <3> QED BY <1>1, <2>2, <3>1 DEF Recorded
  <2>3. CASE OpenStream(s) \/ Unrecorded(s)
    <3>1. \E a \in {"running", "lost"} : audit' = [audit EXCEPT ![s] = a]
      BY <2>3 DEF OpenStream, Unrecorded
    <3> QED BY <1>1, <3>1
  <2>4. CASE Receive(s)
    <3>1. PICK e : \/ req[s].at = "starting" /\ OnStart(s, e)
                   \/ req[s].at = "finishing" /\ OnFinish(s, e)
                   \/ req[s].at = "streaming" /\ req[s].kind = "upload" /\ OnAck(s, e)
                   \/ req[s].at = "streaming" /\ req[s].kind = "download" /\ OnStream(s, e)
      BY <2>4, Dispatch
    <3> QED BY <1>2, <3>1 DEF OnStart, OnFinish, OnAck, OnStream, Answered, Fails
  <2>5. CASE ~Leave(s) /\ ~Recorded(s) /\ ~OpenStream(s) /\ ~Unrecorded(s) /\ ~Receive(s)
    BY <1>2, <1>5, <2>5 DEF Handles, BeginControl, BeginUpload, BeginDownload, Taken, TakeSlot, Register, Timeout,
       SendChunk, BodyBreaks, SendFinish, Poll, Forget, Cancel, Fails
  <2> QED BY <2>1, <2>2, <2>3, <2>4, <2>5
<1> QED BY <1>3, <1>4, <1>5, NextCases

\* What the administrator is told is so.
LEMMA AnswersAreTrue ==
  ASSUME Shape, Underway, Slotted, ResultsFit, Placed, [Next]_vars, NEW r \in Requests, Tells(r)
  PROVE  /\ req[r].kind = "upload" => InPlace(r)
         /\ req[r].kind = "download" => req[r].got = req[r].size
<1> DEFINE e == Head(inbox[r])
<1>1. Receive(r) /\ Answered(r)
  BY OnlyAnswersTell
<1>2. req' = [req EXCEPT ![r].at = "done"] /\ inbox[r] # <<>> /\ inbox[r] \in Seq(Events(r))
      /\ inbox[r] \in Seq(Message)
  BY <1>1, AllMessages DEF Receive, Answered, Shape, BoxTypes
<1>3. e.req = r
  <2>1. e \in Events(r)
    BY <1>2, SeqFacts
  <2> QED BY <2>1 DEF Events
<1>4. \A t : e.type = t => Told(r, t)
  <2>1. ASSUME NEW t, e.type = t PROVE Has(inbox[r], r, t)
    BY <1>2, <1>3, <2>1, HasMoves
  <2> QED BY <2>1 DEF Told
<1>5. \/ req[r].at = "starting" /\ OnStart(r, e)
      \/ req[r].at = "finishing" /\ OnFinish(r, e)
      \/ req[r].at = "streaming" /\ req[r].kind = "upload" /\ OnAck(r, e)
      \/ req[r].at = "streaming" /\ req[r].kind = "download" /\ OnStream(r, e)
  BY <1>1, Dispatch
<1> HIDE DEF e
<1>6. req'[r].at = "done" /\ req'[r].got = req[r].got /\ req[r].got \in Nat /\ ~Fails(r)
  <2>1. req[r] \in Record /\ req \in [Requests -> Record]
    BY DEF Shape, ServerTypes
  <2>2. req'[r].at = "done" /\ req'[r].got = req[r].got /\ req[r].got \in Nat
    BY <1>2, <2>1 DEF Record
  <2>3. ASSUME Fails(r) PROVE FALSE
    <3>1. req'[r].at = "failed"
      BY <2>1, <2>3 DEF Fails, Record
    <3> QED BY <2>2, <3>1
  <2> QED BY <2>2, <2>3
<1>7. CASE req[r].at = "starting" /\ OnStart(r, e)
  <2>1. e.type = "result"
    <3>1. CASE e.type = "ready" /\ req[r].kind \in Transfers
      <4>1. req'[r].at \in {"streaming", "ready"}
        <5>1. req \in [Requests -> Record]
          BY DEF Shape, ServerTypes
        <5> QED BY <1>7, <3>1, <5>1 DEF OnStart, Record
      <4> QED BY <1>6, <4>1
    <3> QED BY <1>6, <1>7, <3>1 DEF OnStart
  <2>2. req[r].kind \in Controls
    BY <1>4, <2>1 DEF ResultsFit
  <2> QED BY <2>2 DEF Controls
<1>8. CASE req[r].at = "finishing" /\ OnFinish(r, e)
  <2>1. e.type = "complete"
    BY <1>6, <1>8 DEF OnFinish
  <2>2. req[r].kind = "upload" /\ active = r /\ r # None
    BY <1>8, FileTransferAssumption DEF Slotted, SlotFits, InSlot, Transfers
  <2>3. Told(active, "complete")
    BY <1>4, <2>1, <2>2
  <2> QED BY <2>2, <2>3 DEF Placed
<1>9. CASE req[r].kind = "upload" /\ OnAck(r, e)
  <2>1. req'[r].got = req[r].got + 1
    <3>1. req \in [Requests -> Record]
      BY DEF Shape, ServerTypes
    <3> QED BY <1>6, <1>9, <3>1 DEF OnAck, Record
  <2> QED BY <1>6, <2>1
<1>10. CASE req[r].kind = "download" /\ OnStream(r, e)
  <2>1. ASSUME req' = [req EXCEPT ![r].got = @ + 1] PROVE FALSE
    <3>1. req'[r].got = req[r].got + 1
      BY <2>1 DEF Shape, ServerTypes, Record
    <3> QED BY <1>6, <3>1
  <2> QED BY <1>6, <1>10, <2>1 DEF OnStream
<1> QED BY <1>5, <1>7, <1>8, <1>9, <1>10

\* A request that is done is whole when its administrator is told, and is called a success
\* only then: for any requests, also when a transfer before it is still being cancelled at
\* the agent as it takes the slot.
THEOREM DoneStaysWhole == Spec => DoneIsWhole
<1> DEFINE Inv == Shape /\ Underway /\ Commits /\ Slotted /\ ResultsFit /\ InOrder /\ Alone /\ Placed
<1>1. Init => Inv
  <2> SUFFICES ASSUME Init PROVE Inv
    OBVIOUS
  <2>1. Shape /\ Underway
    BY ShapeAtInit, UnderwayAtInit
  <2>2. Commits
    BY DEF Init, Commits, NoXfer
  <2>3. \A r \in Requests : \A t : ~Told(r, t)
    BY DEF Init, Told, Has
  <2>4. Slotted
    BY FileTransferAssumption DEF Init, Slotted, SlotFits, Idle, InSlot
  <2>5. active = None /\ xfer.req = None /\ down = <<>>
    BY DEF Init, NoXfer
  <2> QED BY <2>1, <2>2, <2>3, <2>4, <2>5 DEF ResultsFit, InOrder, Alone, Placed
<1>2. Inv /\ [Next]_vars => Inv'
  BY ShapeKept, UnderwayKept, CommitsKept, SlottedKept, ResultsKept, InOrderKept, AloneKept, PlacedKept
<1>3. Inv /\ [Next]_vars =>
        [\A r \in Requests :
           /\ req[r].at # "done" /\ req'[r].at = "done" =>
                /\ req[r].kind = "upload" => target = r \/ \E q \in Requests : Moves(q)
                /\ req[r].kind = "download" => req[r].got = req[r].size
           /\ audit[r] # "success" /\ audit'[r] = "success" =>
                req'[r].at = "done"]_vars
  BY AnswersAreTrue, OnlyDoneIsSuccess DEF Tells, InPlace
<1> HIDE DEF Inv
<1> QED BY <1>1, <1>2, <1>3, PTL DEF Spec, DoneIsWhole
=============================================================================
