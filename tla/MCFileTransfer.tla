--------------------------- MODULE MCFileTransfer ---------------------------
(***************************************************************************)
(* FileTransfer on a small instance.  Two requests are watched on a        *)
(* connection that is not given up any more; one request of any kind is    *)
(* watched on connections that are.  Beside it, and apart from it, the     *)
(* packages of a release (ReleaseFiles): one part moves, the other has not *)
(* begun.                                                                  *)
(***************************************************************************)
EXTENDS FileTransfer, TLC

CONSTANTS r1, r2, p1, p2, t1

VARIABLES part, release, row, directory, partial, stored, sums, upload, deletion, storage,
          download, cut, faults
P == INSTANCE ReleaseFiles WITH Packages <- {p1, p2}, Targets <- {t1}, temp <- partial
packageVars == <<release, row, directory, partial, stored, sums, upload, deletion, storage,
                 download, cut, faults>>

MCRequests == {r1, r2}
MCSize == [r \in MCRequests |-> IF r = r1 THEN 2 ELSE 1]

\* A transfer that has taken the handle of the connection.
Begun(k, o) ==
  [Idle EXCEPT !.at = "agent", !.conn = 1, !.kind = k, !.over = o,
               !.size = IF k = "upload" THEN 1 ELSE 0]
Sent(k, o) == [Idle EXCEPT !.at = "slot", !.conn = 1, !.kind = k, !.over = o]
Out == [Idle EXCEPT !.at = "failed"]

Starts(first, second, n) ==
  /\ conn = 1 /\ on = 1 /\ losses = n
  /\ link = [c \in Conns |-> IF c = 1 THEN "up" ELSE "new"]
  /\ down = <<>> /\ frames = <<>> /\ up = <<>> /\ data = <<>>
  /\ active = None /\ pending = [r \in Requests |-> 0]
  /\ req = (r1 :> first @@ r2 :> second)
  /\ inbox = [r \in Requests |-> <<>>]
  /\ drop = [r \in Requests |-> "none"]
  /\ audit = [r \in Requests |-> "none"]
  /\ xfer = NoXfer
  /\ temp = [r \in Requests |-> "none"]
  /\ target \in {None, Foreign}
  /\ backup = [r \in Requests |-> None]
Cases ==
  \/ Starts(Begun("download", FALSE), Begun("upload", TRUE), MaxLosses)
  \/ Starts(Begun("upload", TRUE), Begun("upload", FALSE), MaxLosses)
  \/ Starts(Begun("upload", TRUE), Sent("delete", FALSE), MaxLosses)
  \/ Starts(Begun("upload", FALSE), Sent("move", TRUE), MaxLosses)
  \/ Starts(Idle, Out, 0)

Moving ==
  /\ UNCHANGED part
  /\ \/ part = "requests" /\ Next /\ UNCHANGED packageVars
     \/ part = "packages" /\ P!Next /\ UNCHANGED vars
CasesSpec ==
  /\ \/ part = "requests" /\ Cases
     \/ part = "packages" /\ target = None /\ Starts(Idle, Out, 0)
  /\ P!Init(1) /\ [][Moving]_<<vars, part, packageVars>> /\ Fairness

\* What is stored is used: a temporary file of an upload, a file of a package, and
\* the files a row of a package names.
StoredIsUsed == TempIsUsed /\ P!FilesHold
=============================================================================
