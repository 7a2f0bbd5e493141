-------------------------------- MODULE Files --------------------------------
(***************************************************************************)
(* The files of a BOX: the five file operations and the snapshot of the    *)
(* guest agent (guest-agent fs.rs) on the workspace tree, and the upload   *)
(* and download of the command line (src/sagens/client.rs), which are      *)
(* sequences of those operations, one request each, between which programs *)
(* in the BOX and other clients change the tree.                           *)
(*                                                                         *)
(* A path is the sequence of its names.  A tree maps the paths that exist  *)
(* to nodes; contents are sequences of bytes; a symlink holds a path.      *)
(***************************************************************************)
EXTENDS Naturals, Sequences, SequencesExt, FiniteSets

CONSTANTS
    Names,        \* file names, not "." and not ".."
    Contents,     \* what files hold
    Limit,        \* the 16 MiB a download reads of a file
    LocalTrees, WorkspaceTrees,   \* the trees to start from
    MaxOthers,    \* how often somebody else changes the workspace
    MaxJobs,      \* uploads and downloads
    NoPath

VARIABLES
    tree,    \* the workspace
    local,   \* the file system of the command line
    job,     \* the upload or download going on, or the last one
    others   \* changes to the workspace by somebody else, so far

fileVars == <<tree, local, job, others>>

Dir == [kind |-> "Directory", data |-> <<>>]
File(data) == [kind |-> "File", data |-> data]
Link(path) == [kind |-> "Symlink", data |-> path]

Exists(t, p) == p \in DOMAIN t
IsDir(t, p) == Exists(t, p) /\ t[p].kind = "Directory"
Put(t, p, node) == [q \in DOMAIN t \cup {p} |-> IF q = p THEN node ELSE t[q]]
Children(t, p) == {q \in DOMAIN t : q # <<>> /\ Front(q) = p}
Under(p, q) == IsPrefix(p, q)

(* What an operation answers: the tree after it, and "ok" or the error *)
Answer(t, outcome) == [tree |-> t, outcome |-> outcome]

(* open(2) follows a last name that is a symlink; links point at files *)
Opened(t, p) == IF Exists(t, p) /\ t[p].kind = "Symlink" THEN t[p].data ELSE p

(* std::fs::create_dir_all *)
CreateDirAll(t, p) ==
    LET prefixes == {SubSeq(p, 1, n) : n \in 0..Len(p)} IN
    IF \E q \in prefixes : Exists(t, q) /\ ~IsDir(t, q) THEN Answer(t, "exists")
    ELSE Answer([q \in DOMAIN t \cup prefixes |-> IF q \in prefixes THEN Dir ELSE t[q]], "ok")

(* std::fs::write and File::create with write_all *)
WriteTo(t, p, data) ==
    LET q == Opened(t, p) IN
    IF q = <<>> \/ ~IsDir(t, Front(q)) THEN Answer(t, "no parent")
    ELSE IF IsDir(t, q) THEN Answer(t, "is a directory")
    ELSE Answer(Put(t, q, File(data)), "ok")
-----------------------------------------------------------------------------
(* The guest agent.  A request names a path by its anchor ("workspace" for  *)
(* /workspace/..., "relative", "other" for any other absolute path) and its *)
(* components.                                                              *)

validate_relative(parts) == ".." \notin ToSet(parts)

normalize_workspace_path(request) ==
    IF request.anchor = "other" \/ ~validate_relative(request.parts) THEN NoPath
    ELSE SelectSeq(request.parts, LAMBDA part : part # ".")

node_for_path(t, p) ==
    [path |-> p, kind |-> t[p].kind,
     size |-> IF t[p].kind = "File" THEN Len(t[p].data) ELSE 0,
     digest |-> IF t[p].kind = "Directory" THEN NoPath ELSE t[p].data]

list_files(t, p) ==
    IF ~Exists(t, Opened(t, p)) THEN [outcome |-> "not found", entries |-> {}]
    ELSE IF ~IsDir(t, Opened(t, p)) THEN [outcome |-> "not a directory", entries |-> {}]
    ELSE [outcome |-> "ok", entries |-> {node_for_path(t, q) : q \in Children(t, p)}]

validate_read_limit(limit) == limit <= Limit

read_file(t, p, limit) ==
    LET q == Opened(t, p) IN
    IF ~validate_read_limit(limit) \/ ~Exists(t, q) \/ IsDir(t, q)
    THEN [outcome |-> "error", data |-> <<>>, truncated |-> FALSE]
    ELSE [outcome |-> "ok", data |-> SubSeq(t[q].data, 1, IF Len(t[q].data) < limit
                                                         THEN Len(t[q].data) ELSE limit),
          truncated |-> Len(t[q].data) > limit]

write_file(t, p, data, create_parents) ==
    LET made == IF create_parents /\ p # <<>> THEN CreateDirAll(t, Front(p)) ELSE Answer(t, "ok")
    IN  IF made.outcome # "ok" THEN made ELSE WriteTo(made.tree, p, data)

make_dir(t, p, recursive) ==
    IF recursive THEN CreateDirAll(t, p)
    ELSE IF Exists(t, p) \/ ~IsDir(t, Front(p)) THEN Answer(t, "exists")
    ELSE Answer(Put(t, p, Dir), "ok")

(* The workspace itself is a mount point: its contents go, it stays *)
remove_path(t, p, recursive) ==
    IF ~Exists(t, p) THEN Answer(t, "not found")
    ELSE IF t[p].kind = "Directory" /\ ~recursive /\ (p = <<>> \/ Children(t, p) # {})
         THEN Answer(t, "not empty")
    ELSE LET gone == {q \in DOMAIN t : Under(p, q)} \ {<<>>} IN
         Answer([q \in DOMAIN t \ gone |-> t[q]], IF p = <<>> THEN "busy" ELSE "ok")

(* snapshot_workspace: every node but the root *)
walk_directory(t) == [p \in DOMAIN t \ {<<>>} |-> node_for_path(t, p)]

(* WorkspaceSnapshot::diff, which labels the changes of a checkpoint *)
diff(before, after) ==
    {[path |-> p, kind |-> CASE p \notin DOMAIN before -> "Added"
                             [] p \notin DOMAIN after -> "Deleted"
                             [] p \in DOMAIN before \cap DOMAIN after ->
                                IF before[p].kind # after[p].kind THEN "TypeChanged"
                                ELSE "Modified"] :
        p \in {q \in DOMAIN before \cup DOMAIN after :
                 ~(q \in DOMAIN before /\ q \in DOMAIN after /\ before[q] = after[q])}}
-----------------------------------------------------------------------------
(* The command line *)

Paths == DOMAIN tree \cup DOMAIN local \cup {<<n>> : n \in Names}
Idle == [op |-> "none", from |-> <<>>, to |-> <<>>, stack |-> <<>>, list |-> {}, outcome |-> "",
         number |-> job.number, before |-> tree, localBefore |-> local, quiet |-> TRUE]

FilesInit ==
    /\ tree \in WorkspaceTrees
    /\ local \in LocalTrees
    /\ others = 0
    /\ job = [op |-> "none", from |-> <<>>, to |-> <<>>, stack |-> <<>>, list |-> {},
               outcome |-> "", number |-> 0, before |-> tree, localBefore |-> local,
               quiet |-> TRUE]

Ends(outcome) == [job EXCEPT !.op = "none", !.outcome = outcome, !.stack = <<>>, !.list = {}]
Starting(op, from, to) ==
    [Idle EXCEPT !.op = op, !.from = from, !.to = to, !.number = @ + 1]
Refusal == [Idle EXCEPT !.outcome = "error", !.number = @ + 1]

(* upload_path: the entries of each directory are visited in any order, its *)
(* subdirectories depth first; the stack holds what is left at each level.  *)
upload_path(from, to) ==
    /\ job.op = "none" /\ job.number < MaxJobs
    /\ LET source == Opened(local, from)
           done == IF IsDir(local, source) THEN make_dir(tree, to, TRUE)
                   ELSE write_file(tree, to, local[source].data, TRUE)
       IN  IF ~Exists(local, source)
           THEN job' = Refusal /\ UNCHANGED tree
           ELSE /\ tree' = done.tree
                /\ job' = IF done.outcome # "ok" THEN Refusal
                          ELSE IF IsDir(local, source)
                          THEN [Starting("upload", from, to)
                                   EXCEPT !.stack = <<Children(local, source)>>]
                          ELSE [Starting("none", from, to) EXCEPT !.outcome = "uploaded"]
    /\ UNCHANGED <<local, others>>

RemotePath(p) == job.to \o SubSeq(p, Len(job.from) + 1, Len(p))

UploadEntry(p) ==
    /\ job.op = "upload" /\ job.stack # <<>> /\ p \in Last(job.stack)
    /\ LET rest == Front(job.stack) \o <<Last(job.stack) \ {p}>>
           source == Opened(local, p)
           done == IF IsDir(local, p) THEN make_dir(tree, RemotePath(p), TRUE)
                   ELSE write_file(tree, RemotePath(p), local[source].data, TRUE)
       IN  IF ~Exists(local, source) THEN job' = Ends("error") /\ UNCHANGED tree
           ELSE /\ tree' = done.tree
                /\ job' = IF done.outcome # "ok" THEN Ends("error")
                          ELSE IF IsDir(local, p)
                          THEN [job EXCEPT !.stack = rest \o <<Children(local, p)>>]
                          ELSE [job EXCEPT !.stack = rest]
    /\ UNCHANGED <<local, others>>

UploadLeaves ==
    /\ job.op = "upload" /\ Last(job.stack) = {}
    /\ job' = IF Len(job.stack) = 1 THEN Ends("uploaded")
              ELSE [job EXCEPT !.stack = Front(job.stack)]
    /\ UNCHANGED <<tree, local, others>>

resolve_download_file_path(remote, p) ==
    IF IsDir(local, p) THEN Append(p, Last(remote)) ELSE p

write_download_file(t, p, data) ==
    LET made == IF p = <<>> THEN Answer(t, "ok") ELSE CreateDirAll(t, Front(p))
    IN  IF made.outcome # "ok" THEN made ELSE WriteTo(made.tree, p, data)

(* download_path: a directory is listed first, a file read in a second request *)
download_path(from, to) ==
    /\ job.op = "none" /\ job.number < MaxJobs
    /\ LET listed == list_files(tree, from)
           made == CreateDirAll(local, to)
       IN  CASE listed.outcome = "ok" ->
                  /\ local' = made.tree
                  /\ job' = IF made.outcome = "ok"
                            THEN [Starting("download", from, to) EXCEPT !.list = listed.entries]
                            ELSE Refusal
             [] listed.outcome = "not a directory" ->
                  job' = Starting("download file", from, to) /\ UNCHANGED local
             [] OTHER -> job' = Refusal /\ UNCHANGED local
    /\ UNCHANGED <<tree, others>>

DownloadFile ==
    /\ job.op = "download file"
    /\ LET file == read_file(tree, job.from, Limit)
           done == write_download_file(local, resolve_download_file_path(job.from, job.to),
                                       file.data)
       IN  IF file.outcome # "ok" THEN job' = Ends("error") /\ UNCHANGED local
           ELSE /\ local' = done.tree
                /\ job' = Ends(IF done.outcome = "ok" THEN "downloaded" ELSE "error")
    /\ UNCHANGED <<tree, others>>

(* Mutant: an entry is read by its name alone. *)
DownloadEntryByName(entry) ==
    /\ job.op = "download" /\ entry \in job.list
    /\ LET file == read_file(tree, <<Last(entry.path)>>, Limit)
           done == write_download_file(local, job.to \o entry.path, file.data)
       IN  IF entry.kind # "File" \/ file.outcome # "ok"
           THEN job' = Ends("error") /\ UNCHANGED local
           ELSE local' = done.tree /\ job' = [job EXCEPT !.list = @ \ {entry}]
    /\ UNCHANGED <<tree, others>>

(* download_directory: the entries were listed in the order of their names, *)
(* which is left open here.  entry.path is relative to the workspace.       *)
DownloadEntry(entry) ==
    /\ job.op = "download" /\ entry \in job.list
    /\ LET at == job.to \o entry.path
           file == read_file(tree, entry.path, Limit)
           done == IF entry.kind = "Directory" THEN CreateDirAll(local, at)
                   ELSE write_download_file(local, at, file.data)
       IN  IF entry.kind = "Symlink" \/ (entry.kind = "File" /\ file.outcome # "ok")
           THEN job' = Ends("error") /\ UNCHANGED local
           ELSE /\ local' = done.tree
                /\ job' = IF done.outcome # "ok" THEN Ends("error")
                          ELSE [job EXCEPT !.list = @ \ {entry}]
    /\ UNCHANGED <<tree, others>>

DownloadEnds ==
    /\ job.op = "download" /\ job.list = {}
    /\ job' = Ends("downloaded")
    /\ UNCHANGED <<tree, local, others>>

(* Another client, or a program in the BOX, changes the workspace *)
SomebodyElse(done) ==
    /\ others < MaxOthers
    /\ others' = others + 1
    /\ tree' = done.tree
    /\ job' = [job EXCEPT !.quiet = @ /\ done.tree = tree]
    /\ UNCHANGED local

Requested ==
    {[anchor |-> a, parts |-> p] : a \in {"workspace", "relative", "other"},
                                   p \in DOMAIN tree \cup (Names \X Names)
                                         \cup (Names \X {".."} \X Names)}

OtherWrites ==
    \E request \in Requested, c \in Contents, b \in BOOLEAN :
        LET p == normalize_workspace_path(request) IN
        p # NoPath /\ SomebodyElse(write_file(tree, p, c, b))
OtherMakesDir ==
    \E request \in Requested, b \in BOOLEAN :
        LET p == normalize_workspace_path(request) IN
        p \notin {NoPath, <<>>} /\ SomebodyElse(make_dir(tree, p, b))
OtherRemoves ==
    \E request \in Requested, b \in BOOLEAN :
        LET p == normalize_workspace_path(request) IN
        p # NoPath /\ SomebodyElse(remove_path(tree, p, b))
OtherLinks ==
    \E p \in {<<n>> : n \in Names}, q \in DOMAIN tree :
        /\ ~Exists(tree, p) /\ tree[q].kind = "File"
        /\ SomebodyElse(Answer(Put(tree, p, Link(q)), "ok"))

FilesNext ==
    \/ \E from \in DOMAIN local, to \in Paths : upload_path(from, to)
    \/ \E p \in DOMAIN local : UploadEntry(p)
    \/ UploadLeaves
    \/ \E from \in DOMAIN tree, to \in Paths : download_path(from, to)
    \/ DownloadFile
    \/ \E entry \in job.list : DownloadEntry(entry)
    \/ DownloadEnds
    \/ OtherWrites \/ OtherMakesDir \/ OtherRemoves \/ OtherLinks
-----------------------------------------------------------------------------
(* Properties *)

(* Both trees stay trees, through every upload, download and change in      *)
(* between: what is there has a directory above it.                          *)
IsTree(t) == IsDir(t, <<>>) /\ \A p \in DOMAIN t \ {<<>>} : IsDir(t, Front(p))
AreTrees == IsTree(tree) /\ IsTree(local)

(* An upload that nobody interferes with puts the whole local tree, links   *)
(* replaced by what they point at, in its place in the workspace, and       *)
(* leaves everything else as it was (unless a link in the workspace makes    *)
(* two of the uploaded files one).                                           *)
UploadIsFaithful ==
    job.outcome = "uploaded" /\ job.quiet =>
        LET source == Opened(job.localBefore, job.from)
            sent == {p \in DOMAIN local : Under(source, p)}
            Sent(p) == job.to \o SubSeq(p, Len(source) + 1, Len(p))
            Lands(p) == Opened(job.before, Sent(p))
        IN  (\A p, q \in sent : Lands(p) = Lands(q) => p = q) =>
            /\ \A p \in sent : LET q == Opened(tree, Sent(p)) IN
                  IF IsDir(local, p) THEN IsDir(tree, q)
                  ELSE Exists(tree, q) /\ tree[q].kind = "File"
                       /\ tree[q].data = local[Opened(local, p)].data
            /\ \A q \in DOMAIN job.before :
                  \/ Exists(tree, q) /\ tree[q] = job.before[q]
                  \/ \E p \in sent : q = Lands(p)
            /\ \A q \in DOMAIN tree \ DOMAIN job.before :
                  \E p \in sent : Under(q, Sent(p)) \/ q = Lands(p)

(* A download that nobody interferes with brings only what the workspace    *)
(* holds, up to the limit, under the path the workspace knows it by, and    *)
(* overwrites nothing else.                                                  *)
DownloadIsFaithful ==
    job.outcome = "downloaded" /\ job.quiet =>
        \A q \in DOMAIN local :
            \/ Exists(job.localBefore, q) /\ local[q] = job.localBefore[q]
            \/ IsDir(local, q)
            \/ \E p \in DOMAIN tree :
                  /\ Under(Opened(tree, job.from), p) \/ p = Opened(tree, job.from)
                  /\ local[q].data = read_file(tree, p, Limit).data
                  /\ \/ q = Opened(local, job.to \o p)
                     \/ q = Opened(local, job.to)
                     \/ job.from # <<>> /\ q = Opened(local, Append(job.to, Last(job.from)))

(* The changes a checkpoint records are exactly what happened to the tree   *)
(* since its baseline: whoever has the baseline and replays them (adding    *)
(* and replacing from the present, deleting) has the present tree.          *)
DiffIsComplete ==
    LET was == walk_directory(job.before)
        now == walk_directory(tree)
        changes == diff(was, now)
        Of(kinds) == {c.path : c \in {d \in changes : d.kind \in kinds}}
    IN  /\ DOMAIN now = (DOMAIN was \ Of({"Deleted"})) \cup Of({"Added"})
        /\ \A p \in DOMAIN now : p \notin Of({"Added", "Modified", "TypeChanged"})
                                 => p \in DOMAIN was /\ tree[p] = job.before[p]
        /\ Of({"Deleted"}) \cap DOMAIN now = {} /\ Of({"Added"}) \cap DOMAIN was = {}

(* Files get to the workspace and back as they are, and a snapshot tells     *)
(* what changed.                                                             *)
FilesAreFaithful == AreTrees /\ UploadIsFaithful /\ DownloadIsFaithful /\ DiffIsComplete
=============================================================================
