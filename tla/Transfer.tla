------------------------------ MODULE Transfer ------------------------------
(***************************************************************************)
(* providers.rs: uploads, saves of the editor, downloads and file actions  *)
(* over SFTP.  A transfer writes a staging file of its own and gives it    *)
(* the name of the destination in one rename, for which it has a ladder of *)
(* ways; a download stages on the local disk.                              *)
(*                                                                         *)
(* Jobs run beside each other: two profiles may lead to the same host, and *)
(* downloads from different servers may have the same target.  Any call    *)
(* may fail, a connection may be lost in the middle of a call, the user    *)
(* may cancel, the program may crash.  Of a file the model knows who wrote *)
(* it and how much of it.                                                  *)
(***************************************************************************)
EXTENDS Naturals, FiniteSets, Sequences

CONSTANTS Jobs,       \* operations under way
          Entries,    \* names of the uploaded tree, in the order of the walk
          Links,      \* those that are symbolic links on the local disk
          Chunks,     \* reads a file takes (128 KiB each)
          Scenarios,  \* bound: which operations start, and what they find
          Nobody

ASSUME TransferAssumption ==
  /\ Entries \in Seq({Entries[i] : i \in DOMAIN Entries}) /\ Entries # << >>
  /\ Chunks \in Nat \ {0} /\ Nobody \notin Jobs
  /\ \A i, k \in DOMAIN Entries : Entries[i] = Entries[k] => i = k

VARIABLES job,        \* what the user asked for
          server,     \* which renames the SFTP server implements
          pc,         \* where an operation stands
          at,         \* the entry of the tree it is at
          stage,      \* its staging file
          free,       \* history: the entries whose destinations count as free,
          placed,     \* those it has renamed into place,
          skipped,    \* those its walk could not read
          cancelled,  \* its cancellation flag
          link,       \* its connection works
          remote,     \* the files at the destinations of uploads
          local,      \* the target of downloads
          folder,     \* the folder of the target exists
          made        \* the folder was created by this download

asked == <<job, server>>
through == <<placed, skipped>>
disk == <<local, folder, made>>
vars == <<asked, pc, at, stage, free, through, cancelled, link, remote, disk>>

Names == {Entries[i] : i \in DOMAIN Entries}

Contents == [by : Jobs \cup {Nobody}, part : 0 .. Chunks]
Absent == [by |-> Nobody, part |-> 0]
Foreign == [by |-> Nobody, part |-> Chunks]  \* whole, and not of these jobs
Whole(c) == c.part = Chunks

Kinds == {"upload", "save", "download", "touch", "rename", "delete"}
JobSpec == [kind : Kinds, tree : BOOLEAN, overwrite : BOOLEAN]

\* What is there before the operations start is whole.
ASSUME ScenariosAssumption ==
  \A s \in Scenarios :
    /\ s.job \in [Jobs -> JobSpec]
    /\ s.server \in [posix : BOOLEAN, overwrite : BOOLEAN]
    /\ s.remote \in [Names -> {Absent, Foreign}]
    /\ s.folder \in BOOLEAN

Uploading == {"scan", "root", "file"}  \* nothing of it is staged yet
Staging == {"write", "atomic", "overwriting", "unlink", "plain"}
Fetching == {"look", "folder", "open", "fetch"}
Over == {"idle", "done", "failed", "dead"}

TypeOK ==
  /\ job \in [Jobs -> JobSpec]
  /\ server \in [posix : BOOLEAN, overwrite : BOOLEAN]
  /\ pc \in [Jobs -> Uploading \cup Staging \cup Fetching \cup {"act"} \cup Over]
  /\ at \in [Jobs -> DOMAIN Entries]
  /\ stage \in [Jobs -> Contents]
  /\ {free, placed, skipped} \subseteq [Jobs -> SUBSET Names]
  /\ cancelled \in [Jobs -> BOOLEAN] /\ link \in [Jobs -> BOOLEAN]
  /\ remote \in [Names -> Contents]
  /\ local \in Contents /\ folder \in BOOLEAN /\ made \in [Jobs -> BOOLEAN]

Init ==
  /\ \E s \in Scenarios :
       job = s.job /\ server = s.server /\ remote = s.remote /\ folder = s.folder
  /\ pc = [j \in Jobs |-> "idle"]
  /\ at = [j \in Jobs |-> 1]
  /\ stage = [j \in Jobs |-> Absent]
  /\ free = [j \in Jobs |-> {}]
  /\ placed = [j \in Jobs |-> {}]
  /\ skipped = [j \in Jobs |-> {}]
  /\ cancelled = [j \in Jobs |-> FALSE]
  /\ link = [j \in Jobs |-> TRUE]
  /\ local = Absent
  /\ made = [j \in Jobs |-> FALSE]
-----------------------------------------------------------------------------
(* The entries of a job: the tree in the order of the walk, or one file.   *)

Last(j) == IF job[j].tree THEN Len(Entries) ELSE 1
Dest(j) == Entries[at[j]]

Downloads(j) == job[j].kind = "download"

\* A check of the flag, before a call on a working connection.
Proceeds(j) == ~cancelled[j] /\ link[j]

\* From one state of the operation to the next, whose variables they are.
Step(j, from, to) == pc[j] = from /\ pc' = [pc EXCEPT ![j] = to]

Begin(j) ==
  /\ Proceeds(j)
  /\ Step(j, "idle", CASE job[j].kind = "upload" -> IF job[j].overwrite THEN "root" ELSE "scan"
                       [] job[j].kind = "save" -> "file"
                       [] job[j].kind = "download" -> "look"
                       [] OTHER -> "act")
  /\ UNCHANGED <<asked, at, stage, free, through, cancelled, link, remote, disk>>

\* Only regular files of a tree are looked for, links are not.
Scanned(j) == job[j].tree => Dest(j) \notin Links

\* On to the next entry, or to the upload.
ScanOn(j) ==
  /\ Step(j, "scan", IF at[j] < Last(j) THEN "scan" ELSE "root")
  /\ at' = [at EXCEPT ![j] = IF at[j] < Last(j) THEN at[j] + 1 ELSE 1]

\* A destination that cannot be inspected counts as free.
Scan(j) ==
  /\ job[j].tree => ~cancelled[j]
  /\ ~ (Scanned(j) /\ link[j] /\ remote[Dest(j)] # Absent)
  /\ ScanOn(j)
  /\ free' = [free EXCEPT ![j] = IF Scanned(j) THEN @ \cup {Dest(j)} ELSE @]
  /\ UNCHANGED <<asked, stage, through, cancelled, link, remote, disk>>

\* So does one of an entry the walk cannot read, or whose folder it cannot:
\* filter_map(Result::ok) drops it before anything is looked at.
Overlook(j) ==
  /\ job[j].tree
  /\ ScanOn(j)
  /\ free' = [free EXCEPT ![j] = @ \cup {Dest(j)}]
  /\ UNCHANGED <<asked, stage, through, cancelled, link, remote, disk>>

Conflict(j) ==
  /\ Scanned(j) /\ link[j] /\ remote[Dest(j)] # Absent
  /\ Step(j, "scan", "failed")
  /\ UNCHANGED <<asked, at, stage, free, through, cancelled, link, remote, disk>>

\* The folder of the destination exists now; upload_directory and
\* upload_file see to it, and fail where something else has its name.
Root(j) ==
  /\ Proceeds(j)
  /\ Step(j, "root", "file")
  /\ UNCHANGED <<asked, at, stage, free, through, cancelled, link, remote, disk>>

\* The local file is opened, the mode of the destination read, the staging
\* file created.
OpenStage(j) ==
  /\ Proceeds(j)
  /\ Step(j, "file", "write")
  /\ stage' = [stage EXCEPT ![j] = [by |-> j, part |-> 0]]
  /\ UNCHANGED <<asked, at, free, through, cancelled, link, remote, disk>>

Write(j) ==
  /\ Proceeds(j) /\ pc[j] = "write" /\ ~Whole(stage[j])
  /\ stage' = [stage EXCEPT ![j].part = @ + 1]
  /\ UNCHANGED <<asked, pc, at, free, through, cancelled, link, remote, disk>>

\* MUTANT of Written: the loop ends at the first read.
WrittenOnce(j) == stage[j].part > 0

\* The end of the file is read.
Written(j) == Whole(stage[j])

\* Everything is written and flushed and the mode carried over, and the
\* flag looked at once more.
FinishStage(j) ==
  /\ Proceeds(j) /\ Written(j)
  /\ Step(j, "write", "atomic")
  /\ UNCHANGED <<asked, at, stage, free, through, cancelled, link, remote, disk>>
-----------------------------------------------------------------------------
(* rename_staging.  With overwrite: the atomic rename, the overwriting     *)
(* one, then the destination is removed and a plain rename tried.  Without *)
(* it: the atomic rename, then the plain one.                              *)

\* A rename onto a file needs a server that implements it.  The atomic
\* rename is posix-rename, which replaces whatever flags come with it.
MayReplace(rung) ==
  CASE rung = "atomic" -> server.posix
    [] rung = "overwriting" -> server.overwrite
    [] rung = "plain" -> FALSE

Takes(j, rung) == link[j] /\ (MayReplace(rung) \/ remote[Dest(j)] = Absent)

\* MUTANT of NextEntry: the last entry is left out.
NextEntryButLast(j) ==
  IF at[j] + 1 < Last(j)
  THEN at' = [at EXCEPT ![j] = @ + 1] /\ pc' = [pc EXCEPT ![j] = "file"]
  ELSE UNCHANGED at /\ pc' = [pc EXCEPT ![j] = "done"]

NextEntry(j) ==
  IF at[j] < Last(j)
  THEN at' = [at EXCEPT ![j] = @ + 1] /\ pc' = [pc EXCEPT ![j] = "file"]
  ELSE UNCHANGED at /\ pc' = [pc EXCEPT ![j] = "done"]

Rename(j, rung) ==
  /\ pc[j] = rung /\ Takes(j, rung)
  /\ remote' = [remote EXCEPT ![Dest(j)] = stage[j]]
  /\ stage' = [stage EXCEPT ![j] = Absent]
  /\ placed' = [placed EXCEPT ![j] = @ \cup {Dest(j)}]
  /\ NextEntry(j)
  /\ UNCHANGED <<asked, free, skipped, cancelled, link, disk>>

\* upload_directory drops an entry that its walk cannot read, or whose folder
\* it cannot, and goes on.
Skip(j) ==
  /\ job[j].tree /\ pc[j] = "file"
  /\ skipped' = [skipped EXCEPT ![j] = @ \cup {Dest(j)}]
  /\ NextEntry(j)
  /\ UNCHANGED <<asked, stage, free, placed, cancelled, link, remote, disk>>

\* MUTANT of NextRung: without overwrite the ladder is the same.
NextRungAlways(j) ==
  CASE pc[j] = "atomic" -> "overwriting"
    [] pc[j] = "overwriting" -> "unlink"
    [] pc[j] = "unlink" -> "plain"
    [] pc[j] = "plain" -> "failed"

NextRung(j) ==
  CASE pc[j] = "atomic" -> IF job[j].overwrite THEN "overwriting" ELSE "plain"
    [] pc[j] = "overwriting" -> "unlink"
    [] pc[j] = "unlink" -> "plain"
    [] pc[j] = "plain" -> "failed"

\* MUTANT of Discarded: the staging file is left behind.
DiscardedNot(j) == stage[j]

\* The staging file after an attempt to remove it.
Discarded(j) == IF link[j] THEN Absent ELSE stage[j]

\* A rename that fails leads to the next one, the last one to an error.
RenameFails(j) ==
  /\ pc[j] \in {"atomic", "overwriting", "plain"}
  /\ pc' = [pc EXCEPT ![j] = NextRung(j)]
  /\ stage' = IF pc[j] = "plain" THEN [stage EXCEPT ![j] = Discarded(j)] ELSE stage
  /\ UNCHANGED <<asked, at, free, through, cancelled, link, remote, disk>>

\* The server renames, and the connection is lost before it can say so.
RenameUnheard(j) ==
  /\ pc[j] \in {"atomic", "overwriting", "plain"} /\ Takes(j, pc[j])
  /\ remote' = [remote EXCEPT ![Dest(j)] = stage[j]]
  /\ stage' = [stage EXCEPT ![j] = Absent]
  /\ link' = [link EXCEPT ![j] = FALSE]
  /\ pc' = [pc EXCEPT ![j] = NextRung(j)]
  /\ UNCHANGED <<asked, at, free, through, cancelled, disk>>

\* The last resort; that it fails is ignored.
Unlink(j) ==
  /\ Step(j, "unlink", NextRung(j))
  /\ \/ link[j] /\ remote' = [remote EXCEPT ![Dest(j)] = Absent]
     \/ UNCHANGED remote
  /\ UNCHANGED <<asked, at, stage, free, through, cancelled, link, disk>>
-----------------------------------------------------------------------------
(* Errors of an upload: a call fails, the connection is lost, or a check   *)
(* of the flag finds it set.                                               *)

\* Before there is a staging file.  The scan itself cannot fail.
FailEarly(j) ==
  /\ pc[j] \in {"idle", "act"} \cup Uploading
  /\ pc[j] = "scan" => job[j].tree /\ cancelled[j]
  /\ pc' = [pc EXCEPT ![j] = "failed"]
  /\ UNCHANGED <<asked, at, stage, free, through, cancelled, link, remote, disk>>

\* While it is written, its mode is set, or before it is renamed.
FailWriting(j) ==
  /\ Step(j, "write", "failed")
  /\ stage' = [stage EXCEPT ![j] = Discarded(j)]
  /\ UNCHANGED <<asked, at, free, through, cancelled, link, remote, disk>>
-----------------------------------------------------------------------------
(* File actions are one call; their reply is an error if the flag is set   *)
(* when it has returned.  Deleting a folder is a call per entry with the   *)
(* flag looked at in between.                                              *)

\* Creating a file truncates the one that is there.
Touch(j) ==
  /\ job[j].kind = "touch"
  /\ remote' = [remote EXCEPT ![Dest(j)] = Foreign]

\* The last entry gets the name of the first, onto which it is moved.
Move(j) ==
  LET from == Entries[Len(Entries)]
  IN  /\ job[j].kind = "rename" /\ remote[from] # Absent
      /\ server.overwrite \/ remote[Dest(j)] = Absent
      /\ remote' = [remote EXCEPT ![from] = Absent, ![Dest(j)] = remote[from]]

Delete(j) ==
  /\ job[j].kind = "delete" /\ remote[Dest(j)] # Absent
  /\ remote' = [remote EXCEPT ![Dest(j)] = Absent]

Act(j) ==
  /\ Proceeds(j) /\ pc[j] = "act"
  /\ Touch(j) \/ Move(j) \/ Delete(j)
  /\ IF at[j] < Last(j)
     THEN at' = [at EXCEPT ![j] = @ + 1] /\ UNCHANGED pc
     ELSE UNCHANGED at /\ \E reply \in {"done", "failed"} : pc' = [pc EXCEPT ![j] = reply]
  /\ UNCHANGED <<asked, stage, free, through, cancelled, link, disk>>
-----------------------------------------------------------------------------
(* download_path.  A single file is staged beside its target, a folder as  *)
(* a folder whose files are fetched one after the other; both count as one *)
(* staging file here.                                                      *)

\* The size of what is to be fetched is known, the target must not exist.
Look(j) ==
  /\ local = Absent
  /\ Step(j, "look", "folder")
  /\ UNCHANGED <<asked, at, stage, free, through, cancelled, link, remote, disk>>

EnsureFolder(j) ==
  /\ Step(j, "folder", "open")
  /\ folder' = TRUE
  /\ made' = [made EXCEPT ![j] = ~folder]
  /\ UNCHANGED <<asked, at, stage, free, through, cancelled, link, remote, local>>

\* download_file creates missing parents again, fs::create_dir does not.
OpenLocal(j) ==
  /\ Proceeds(j) /\ (job[j].tree => folder)
  /\ Step(j, "open", "fetch")
  /\ folder' = TRUE
  /\ stage' = [stage EXCEPT ![j] = [by |-> j, part |-> 0]]
  /\ UNCHANGED <<asked, at, free, through, cancelled, link, remote, local, made>>

Fetch(j) ==
  /\ Proceeds(j) /\ pc[j] = "fetch" /\ ~Whole(stage[j])
  /\ stage' = [stage EXCEPT ![j].part = @ + 1]
  /\ UNCHANGED <<asked, pc, at, free, through, cancelled, link, remote, disk>>

\* The local rename replaces a file, but no folder that holds anything.
Land(j) ==
  /\ ~cancelled[j] /\ Written(j) /\ (job[j].tree => local = Absent)
  /\ Step(j, "fetch", "done")
  /\ local' = stage[j]
  /\ stage' = [stage EXCEPT ![j] = Absent]
  /\ placed' = [placed EXCEPT ![j] = Names]
  /\ UNCHANGED <<asked, at, free, skipped, cancelled, link, remote, folder, made>>

\* Removing a folder succeeds only if nothing is left in it.
Emptied(j) == local = Absent /\ \A k \in Jobs \ {j} : Downloads(k) => stage[k] = Absent

\* Whatever failed, the staging file goes, and the folder if the download
\* created it and it is empty.
FailDownload(j) ==
  /\ pc[j] \in Fetching
  /\ pc' = [pc EXCEPT ![j] = "failed"]
  /\ stage' = [stage EXCEPT ![j] = Absent]
  /\ folder' = (folder /\ ~ (made[j] /\ Emptied(j)))
  /\ UNCHANGED <<asked, at, free, through, cancelled, link, remote, local, made>>
-----------------------------------------------------------------------------
(* The user, the network, the operating system.                            *)

Cancel(j) ==
  /\ pc[j] \notin Over \/ pc[j] = "idle"
  /\ cancelled' = [cancelled EXCEPT ![j] = TRUE]
  /\ UNCHANGED <<asked, pc, at, stage, free, through, link, remote, disk>>

LoseLink(j) ==
  /\ pc[j] \notin Over
  /\ link' = [link EXCEPT ![j] = FALSE]
  /\ UNCHANGED <<asked, pc, at, stage, free, through, cancelled, remote, disk>>

Crash ==
  /\ \E j \in Jobs : pc[j] \notin Over
  /\ pc' = [j \in Jobs |-> IF pc[j] \in Over \ {"idle"} THEN pc[j] ELSE "dead"]
  /\ UNCHANGED <<asked, at, stage, free, through, cancelled, link, remote, disk>>

Upload(j) ==
  \/ Scan(j) \/ Overlook(j) \/ Conflict(j) \/ Root(j)
  \/ Skip(j) \/ OpenStage(j) \/ Write(j) \/ FinishStage(j)
  \/ \E rung \in {"atomic", "overwriting", "plain"} : Rename(j, rung)
  \/ RenameFails(j) \/ RenameUnheard(j) \/ Unlink(j) \/ FailWriting(j)

Download(j) == Look(j) \/ EnsureFolder(j) \/ OpenLocal(j) \/ Fetch(j) \/ Land(j) \/ FailDownload(j)

Next ==
  \/ \E j \in Jobs : \/ Begin(j) \/ FailEarly(j) \/ Upload(j) \/ Act(j) \/ Download(j)
                     \/ Cancel(j) \/ LoseLink(j)
  \/ Crash

Spec == Init /\ [][Next]_vars
-----------------------------------------------------------------------------
\* Whoever reads a destination finds a whole file or none, also while it is
\* replaced and after a crash: upload_file and write_file stage, and
\* download_path gives the target its name when everything is there.
NeverTorn ==
  /\ \A f \in Names : remote[f] = Absent \/ Whole(remote[f])
  /\ local = Absent \/ Whole(local)

\* A transfer that fails or is cancelled leaves no staging file behind, as
\* long as it can still reach the server that holds it; and what a download
\* removes of the folders it created never takes files of others along.
FailureCleansUp ==
  /\ \A j \in Jobs : pc[j] = "failed" /\ (link[j] \/ Downloads(j)) => stage[j] = Absent
  /\ local # Absent \/ (\E j \in Jobs : Downloads(j) /\ stage[j] # Absent) => folder

\* Nobody else has begun yet.
Alone(j) == \A k \in Jobs \ {j} : pc[k] = "idle"

Own(j) == [by |-> j, part |-> Chunks]
Target(j, i) == IF Downloads(j) THEN local ELSE remote[Entries[i]]

\* A transfer that returns Ok has put every entry in place, the one exception
\* being what the walk of upload_directory could not read, of which Ok says
\* nothing: a rename that failed, or was not heard of, is not taken for a
\* success.  As long as nobody else has touched the destinations, each of
\* them holds the whole file of this transfer.
OkIsComplete ==
  \A j \in Jobs : pc[j] = "done" /\ job[j].kind \in {"upload", "save", "download"} =>
    \A i \in 1 .. Last(j) : Entries[i] \notin skipped[j] =>
      Entries[i] \in placed[j] /\ (Alone(j) => Target(j, i) = Own(j))

\* Without overwrite nothing is put in place before all destinations were
\* gone through, and nothing where a file was found: upload_path asks for all
\* conflicts first.  Links, and entries the walk cannot read at that time,
\* are not looked for (upload_conflicts).
PlacesOnlyFree ==
  \A j \in Jobs : job[j].kind = "upload" /\ ~job[j].overwrite =>
    placed[j] \subseteq free[j] \cup Links

\* A destination disappears only when it is deleted or moved, or in the last
\* resort of a transfer with overwrite, at a time when its replacement is
\* whole and still on the server.  (The plain rename that follows may fail
\* all the same, and the replacement is then removed as well.)
RemovedForReplacement ==
  [][\A f \in Names : remote[f] # Absent /\ remote'[f] = Absent =>
       \E j \in Jobs : \/ pc[j] = "act" /\ job[j].kind \in {"rename", "delete"}
                       \/ /\ pc[j] = "unlink" /\ pc'[j] = "plain" /\ job[j].overwrite
                          /\ Dest(j) = f /\ Whole(stage'[j]) /\ stage'[j].by = j]_vars
=============================================================================
