----------------------------- MODULE ReleaseFiles -----------------------------
(***************************************************************************)
(* The packages of a release of the agent (backend, updates.rs): a row of  *)
(* agent_artifacts, and two files in the directory of the release.  No     *)
(* transaction covers both: an upload writes its files before its row, the *)
(* deletion of a package or of the release removes the rows before the     *)
(* files, and downloads look at the row before they open the file.  The    *)
(* handlers interleave at every await, a browser that goes away drops its  *)
(* handler there, and the backend may be restarted.                        *)
(***************************************************************************)
EXTENDS Naturals, FiniteSets

CONSTANTS
  Packages,   \* the identifiers of uploads; a package is its own contents
  Targets,    \* the systems and architectures packages are for
  None

VARIABLES
  release,    \* of the release: "draft", "published" or "deleted"
  row,        \* agent_artifacts: [package -> target and status, or None]
  directory,  \* whether the directory of the release exists
  temp,       \* [package -> "part" or "whole" of it in .tmp, or None]
  stored,     \* the packages whose file is in the directory
  sums,       \* those whose checksum file is
  upload,     \* [package -> the handler of its upload]
  deletion,   \* [package -> the handler of its deletion]
  storage,    \* the handler of the deletion of the release
  download,   \* the handler of a download
  cut,        \* the packages some handler of which did not do what it had to
  faults      \* bound on dropped handlers, restarts and failing removals

files == <<directory, temp, stored, sums>>
vars  == <<release, row, files, upload, deletion, storage, download, cut, faults>>

Idle       == [at |-> "idle", target |-> None, fits |-> FALSE]
NoDownload == [at |-> "idle", package |-> None, agent |-> FALSE, sum |-> FALSE]
Rows       == {p \in Packages : row[p] # None}

TypeOK ==
  /\ release \in {"draft", "published", "deleted"} /\ directory \in BOOLEAN
  /\ \A p \in Packages : row[p] = None \/
       (row[p].target \in Targets /\ row[p].status \in {"draft", "published"})
  /\ temp \in [Packages -> {None, "part", "whole"}]
  /\ {stored, sums, cut} \subseteq SUBSET Packages
  /\ download.package \in Packages \cup {None} /\ faults \in Nat

Init(losses) ==
  /\ release = "draft" /\ row = [p \in Packages |-> None]
  /\ directory = FALSE /\ temp = [p \in Packages |-> None] /\ stored = {} /\ sums = {}
  /\ upload = [p \in Packages |-> Idle] /\ deletion = [p \in Packages |-> "idle"]
  /\ storage = "idle" /\ download = NoDownload /\ cut = {} /\ faults = losses

Fault == faults > 0 /\ faults' = faults - 1

-----------------------------------------------------------------------------
(* The upload of a package *)

At(p, step)   == upload[p].at = step
Goes(p, step) == upload' = [upload EXCEPT ![p].at = step]
\* What the steps of an upload leave alone, beside what is named.
Keeps(v) == UNCHANGED <<v, release, deletion, storage, download>>

\* The release is looked at before the form is read.
Begin(p) ==
  /\ At(p, "idle") /\ release # "deleted"
  /\ \E t \in Targets, fits \in BOOLEAN :
       upload' = [upload EXCEPT ![p] = [at |-> "receiving", target |-> t, fits |-> fits]]
  /\ temp' = [temp EXCEPT ![p] = "part"] /\ Keeps(<<row, directory, stored, sums, cut, faults>>)

\* The form ends, or it is broken, too large or incomplete.
Receive(p) ==
  /\ At(p, "receiving") /\ Keeps(<<row, directory, stored, sums, cut, faults>>)
  /\ \/ temp' = [temp EXCEPT ![p] = "whole"] /\ Goes(p, "validate")
     \/ UNCHANGED temp /\ Goes(p, "drop temp")

\* The name, the signature and the checksum of the package fit, or it is refused.
Fits(p) == upload[p].fits
Validate(p) ==
  /\ At(p, "validate") /\ Goes(p, IF Fits(p) THEN "directory" ELSE "drop temp")
  /\ Keeps(<<row, files, cut, faults>>)

MakeDirectory(p) ==
  /\ At(p, "directory") /\ directory' = TRUE /\ Goes(p, "rename")
  /\ Keeps(<<row, temp, stored, sums, cut, faults>>)

\* Without a directory the renaming fails.
Rename(p) ==
  /\ At(p, "rename") /\ Keeps(<<row, directory, sums, cut, faults>>)
  /\ IF directory
     THEN temp' = [temp EXCEPT ![p] = None] /\ stored' = stored \cup {p} /\ Goes(p, "sum")
     ELSE UNCHANGED <<temp, stored>> /\ Goes(p, "drop temp")

WriteSum(p) ==
  /\ At(p, "sum") /\ Keeps(<<row, directory, temp, stored, cut, faults>>)
  /\ IF directory THEN sums' = sums \cup {p} /\ Goes(p, "insert")
     ELSE UNCHANGED sums /\ Goes(p, "drop package")

\* The transaction holds the row of the release; one package per target.
Persists(p) ==
  release # "deleted" /\ \A q \in Rows : row[q].target # upload[p].target
Insert(p) ==
  /\ At(p, "insert") /\ Keeps(<<files, cut, faults>>)
  /\ \/ /\ Persists(p) /\ Goes(p, "done")
        /\ row' = [row EXCEPT ![p] = [target |-> upload[p].target, status |-> "draft"]]
     \/ UNCHANGED row /\ Goes(p, "drop package")

\* What an upload that failed takes back; a removal that fails is not repeated.
Fails(p)  == Fault /\ cut' = cut \cup {p} /\ UNCHANGED <<temp, stored, sums>>
Removed   == UNCHANGED <<cut, faults>>
DropTemp(p) ==
  /\ At(p, "drop temp") /\ Goes(p, "failed") /\ Keeps(<<row, directory>>)
  /\ \/ temp' = [temp EXCEPT ![p] = None] /\ UNCHANGED <<stored, sums>> /\ Removed
     \/ Fails(p)
DropPackage(p) ==
  /\ At(p, "drop package") /\ Goes(p, "drop sum") /\ Keeps(<<row, directory>>)
  /\ \/ stored' = stored \ {p} /\ UNCHANGED <<temp, sums>> /\ Removed
     \/ Fails(p)
DropSum(p) ==
  /\ At(p, "drop sum") /\ Goes(p, "failed") /\ Keeps(<<row, directory>>)
  /\ \/ sums' = sums \ {p} /\ UNCHANGED <<temp, stored>> /\ Removed
     \/ Fails(p)

-----------------------------------------------------------------------------
(* Publication and deletion *)

\* Packages that are not published yet are, whenever there are some.
Publish ==
  /\ release # "deleted" /\ \E p \in Rows : row[p].status = "draft"
  /\ release' = "published"
  /\ row' = [p \in Packages |-> IF row[p] = None THEN None
                                ELSE [row[p] EXCEPT !.status = "published"]]
  /\ UNCHANGED <<files, upload, deletion, storage, download, cut, faults>>

\* The row is read, and deleted by a transaction if it is a draft still; then the
\* two files go.
ReadPackage(p) ==
  /\ deletion[p] = "idle" /\ p \in Rows
  /\ deletion' = [deletion EXCEPT ![p] = "delete"]
  /\ UNCHANGED <<release, row, files, upload, storage, download, cut, faults>>

DeletePackage(p) ==
  /\ deletion[p] = "delete"
  /\ IF p \in Rows /\ row[p].status = "draft"
     THEN row' = [row EXCEPT ![p] = None] /\ deletion' = [deletion EXCEPT ![p] = "file"]
     ELSE UNCHANGED row /\ deletion' = [deletion EXCEPT ![p] = "idle"]
  /\ UNCHANGED <<release, files, upload, storage, download, cut, faults>>

RemovePackage(p) ==
  /\ deletion[p] = "file" /\ deletion' = [deletion EXCEPT ![p] = "sum"]
  /\ \/ stored' = stored \ {p} /\ UNCHANGED <<temp, sums>> /\ Removed
     \/ Fails(p)
  /\ UNCHANGED <<release, row, directory, upload, storage, download>>

RemoveSum(p) ==
  /\ deletion[p] = "sum" /\ deletion' = [deletion EXCEPT ![p] = "idle"]
  /\ \/ sums' = sums \ {p} /\ UNCHANGED <<temp, stored>> /\ Removed
     \/ Fails(p)
  /\ UNCHANGED <<release, row, directory, upload, storage, download>>

\* The release goes with its packages, where AgentRollout's conditions allow it.
DeleteRelease ==
  /\ release # "deleted" /\ release' = "deleted" /\ row' = [p \in Packages |-> None]
  /\ storage' = "files"
  /\ UNCHANGED <<files, upload, deletion, download, cut, faults>>

\* The directory is emptied, and removed if it is empty then.
EmptyDirectory ==
  /\ storage = "files" /\ storage' = "directory" /\ stored' = {} /\ sums' = {}
  /\ UNCHANGED <<release, row, directory, temp, upload, deletion, download, cut, faults>>

RemoveDirectory ==
  /\ storage = "directory" /\ storage' = "done"
  /\ directory' = (directory /\ stored \cup sums # {})
  /\ UNCHANGED <<release, row, temp, stored, sums, upload, deletion, download, cut, faults>>

-----------------------------------------------------------------------------
(* A download *)

\* An agent is given a published package or its checksum, an administrator any
\* package.
Authorize(p) ==
  /\ download.at = "idle" /\ p \in Rows
  /\ \E agent, sum \in BOOLEAN :
       /\ sum => agent
       /\ agent => release = "published" /\ row[p].status = "published"
       /\ download' = [at |-> IF agent THEN "attempt" ELSE "open", package |-> p,
                        agent |-> agent, sum |-> sum]
  /\ UNCHANGED <<release, row, files, upload, deletion, storage, cut, faults>>

\* The attempts of the agent go with the release.
FindAttempt ==
  /\ download.at = "attempt"
  /\ download' = IF release = "deleted" THEN NoDownload ELSE [download EXCEPT !.at = "open"]
  /\ UNCHANGED <<release, row, files, upload, deletion, storage, cut, faults>>

\* The files of the kind that is asked for.
Served == IF download.sum THEN sums ELSE stored

\* The file is opened and has the size of the row; from here on it is read, even
\* when it is removed.
Open ==
  /\ download.at = "open"
  /\ download' = [download EXCEPT !.at = IF download.package \in Served THEN "read"
                                         ELSE "missing"]
  /\ UNCHANGED <<release, row, files, upload, deletion, storage, cut, faults>>

EndDownload ==
  /\ download.at \in {"read", "missing"} /\ download' = NoDownload
  /\ UNCHANGED <<release, row, files, upload, deletion, storage, cut, faults>>

-----------------------------------------------------------------------------
(* Handlers that are dropped, and restarts *)

Uploading(p) == upload[p].at \notin {"idle", "done", "failed", "cut", "gone"}
Deleting(p)  == deletion[p] # "idle"

DropUpload(p) ==
  /\ Uploading(p) /\ Fault /\ Goes(p, "cut") /\ cut' = cut \cup {p}
  /\ Keeps(<<row, files>>)

DropDeletion(p) ==
  /\ Deleting(p) /\ Fault /\ deletion' = [deletion EXCEPT ![p] = "idle"]
  /\ cut' = cut \cup {p}
  /\ UNCHANGED <<release, row, files, upload, storage, download>>

DropStorage ==
  /\ storage \in {"files", "directory"} /\ Fault /\ storage' = "done" /\ cut' = Packages
  /\ UNCHANGED <<release, row, files, upload, deletion, download>>

\* Start-up empties .tmp before anything is served.
Restart ==
  /\ Fault /\ temp' = [p \in Packages |-> None]
  /\ cut' = cut \cup {p \in Packages : Uploading(p) \/ Deleting(p)}
                \cup IF storage \in {"files", "directory"} THEN Packages ELSE {}
  /\ upload' = [p \in Packages |-> IF At(p, "idle") THEN Idle ELSE [upload[p] EXCEPT !.at = "gone"]]
  /\ deletion' = [p \in Packages |-> "idle"] /\ download' = NoDownload
  /\ storage' = IF storage = "idle" THEN "idle" ELSE "done"
  /\ UNCHANGED <<release, row, directory, stored, sums>>

Next ==
  \/ \E p \in Packages :
       \/ Begin(p) \/ Receive(p) \/ Validate(p) \/ MakeDirectory(p) \/ Rename(p) \/ WriteSum(p)
       \/ Insert(p) \/ DropTemp(p) \/ DropPackage(p) \/ DropSum(p)
       \/ ReadPackage(p) \/ DeletePackage(p) \/ RemovePackage(p) \/ RemoveSum(p)
       \/ Authorize(p) \/ DropUpload(p) \/ DropDeletion(p)
  \/ Publish \/ DeleteRelease \/ EmptyDirectory \/ RemoveDirectory
  \/ FindAttempt \/ Open \/ EndDownload
  \/ DropStorage \/ Restart

-----------------------------------------------------------------------------
(* Properties *)

\* A package with a row is one that fits its checksum, and both its files are there,
\* however uploads, deletions, dropped handlers and restarts interleave: a download
\* that finds no file is of a package whose row is gone, an agent's only with the
\* release (store_artifact, admin_delete_agent_artifact, artifact_download_response).
RowsAreWhole ==
  /\ \A p \in Rows : p \in stored /\ p \in sums /\ directory /\ Fits(p)
  /\ download.at = "missing" =>
       download.package \notin Rows /\ (download.agent => release = "deleted")

\* A file that no row names is of a handler that is still to name or to remove it,
\* unless one was cut off; and .tmp never outlives a restart.
FilesAreUsed ==
  \A p \in Packages :
    /\ p \in stored \cup sums /\ p \notin Rows =>
         Uploading(p) \/ Deleting(p) \/ storage = "files" \/ p \in cut
    /\ temp[p] # None => Uploading(p) \/ (p \in cut /\ ~At(p, "gone"))

FilesHold == TypeOK /\ RowsAreWhole /\ FilesAreUsed
=============================================================================
