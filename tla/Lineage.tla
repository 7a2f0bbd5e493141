------------------------------ MODULE Lineage ------------------------------
(***************************************************************************)
(* The checkpoint store of a workspace: src/workspace/checkpoints.rs over  *)
(* the files of src/workspace/lineage.rs.                                  *)
(*                                                                         *)
(* A workspace owns one disk (workspace.raw), one head.json and one        *)
(* directory per checkpoint holding a copy of the disk and a record.json.  *)
(* Nothing locks these files: every handler is a sequence of file          *)
(* operations, other connections run in between, and a handler may end     *)
(* after any of them (an I/O error, or the daemon killed), leaving a file  *)
(* half written or a directory half removed.                               *)
(*                                                                         *)
(* prepare_workspace writes head.json when the BOX is made and nothing     *)
(* removes the file alone, so ensure_workspace finds it in every handler.  *)
(***************************************************************************)
EXTENDS Integers, FiniteSets

CONSTANTS
  Workspaces,   \* workspaces; Main exists at the start, the others are forks
  Main,
  Checkpoints,          \* checkpoint ids
  Reqs,         \* connections, each with at most one handler running
  Contents,     \* what a disk can hold
  Blank,        \* a freshly formatted disk
  MaxAborts,    \* bound: handlers ended by an I/O error or a killed daemon
  Nil,
  Partial,         \* a file cut off half-way
  Mixed         \* a complete copy of a disk that changed meanwhile

ASSUME MainAssumption == Main \in Workspaces /\ Nil \notin Workspaces
ASSUME AbortsAssumption == MaxAborts \in Nat
ASSUME ContentsAssumption ==
  /\ Blank \in Contents
  /\ Nil # Partial /\ Nil # Mixed /\ Partial # Mixed
  /\ {Nil, Partial, Mixed} \cap (Contents \cup Checkpoints) = {}
  /\ Nil \notin [ws : Workspaces, at : Nat]
  /\ {Nil, Partial} \cap [source : Checkpoints \cup {Nil}] = {}

VARIABLES
  disk,     \* disk[w]: the content of workspace.raw, Nil before there is one
  head,     \* head[w]: the id in head.json
  snap,     \* snap[w][c]: the workspace.raw in the directory of c
  record,   \* record[w][c]: the record.json in the directory of c
  made,     \* made[c]: the workspace and created_at_ms of c, Nil before
  running,  \* running[w]: the BOX runs, so its guest can write the disk
  req,      \* req[r]: the handler of connection r
  aborts    \* how many handlers were ended early

lineageVars == <<disk, head, snap, record, made, running, req, aborts>>

Idle == [pc |-> "idle", op |-> Nil, ws |-> Nil, from |-> Nil, id |-> Nil,
         parent |-> Nil, copy |-> Nil, newer |-> {}, was |-> FALSE]

LineageInit ==
  /\ disk = [w \in Workspaces |-> IF w = Main THEN Blank ELSE Nil]
  /\ head = [w \in Workspaces |-> Nil]
  /\ snap = [w \in Workspaces |-> [c \in Checkpoints |-> Nil]]
  /\ record = [w \in Workspaces |-> [c \in Checkpoints |-> Nil]]
  /\ made = [c \in Checkpoints |-> Nil]
  /\ running = [w \in Workspaces |-> FALSE]
  /\ req = [r \in Reqs |-> Idle]
  /\ aborts = 0

-----------------------------------------------------------------------------
(* Reading the store *)

\* list_checkpoint_records skips directories without a record.json ...
Listed(w) == {c \in Checkpoints : record[w][c] # Nil}

\* ... fails on a half-written one ...
ListFails(w) == \E c \in Checkpoints : record[w][c] = Partial

\* ... and sorts by (created_at_ms, checkpoint_id); the times of two checkpoints
\* differ here, see Now
Older(a, b) == made[a].at < made[b].at
Oldest(c, S) == c \in S /\ \A d \in S \ {c} : Older(c, d)

\* Mutant: the target counts as newer than itself.
NewerInclusive(w, c) == {d \in Listed(w) : ~Older(d, c)}

\* restore_checkpoint's checkpoints[target_index + 1..]
NewerThan(w, c) == {d \in Listed(w) : Older(c, d)}

\* now_ms: two checkpoint handlers are at least a millisecond apart, so that each
\* checkpoint has a time of its own
Now == Cardinality({c \in Checkpoints : made[c] # Nil})

\* a copy of the disk of w under way catches part of a later write
Smeared(w) ==
  [r \in Reqs |-> IF req[r].pc = "copy_disk" /\ req[r].ws = w
                  THEN [req[r] EXCEPT !.copy = Mixed] ELSE req[r]]

\* No client knows the id of a checkpoint before its record is there. (An id that
\* was never made names as little as that of a deleted checkpoint.)
Known == {c \in Checkpoints : made[c] # Nil} \
         {req[r].id : r \in {q \in Reqs : req[q].pc \in {"save", "copy_disk", "write_record"}}}

Free(r) == req[r].pc = "idle"
Failed == Idle      \* what a client is told is no part of the store
Finished == Idle
-----------------------------------------------------------------------------
(* The BOX around the store *)

\* start_box and stop_box, as the checkpoint operations see them; the guest does
\* not come up on a disk copied half-way
StartStop(r, w) ==
  /\ Free(r)
  /\ disk[w] \in Contents \cup {Mixed}
  /\ running' = [running EXCEPT ![w] = ~@]
  /\ req' = [req EXCEPT ![r] = Idle]
  /\ UNCHANGED <<disk, head, snap, record, made, aborts>>

\* a process of a running BOX changes the disk, whether a request waits for it
\* or it runs in the background
GuestWrites(w) ==
  /\ running[w]
  /\ \E x \in Contents \ {disk[w]} : disk' = [disk EXCEPT ![w] = x]
  /\ req' = Smeared(w)
  /\ UNCHANGED <<head, snap, record, made, running, aborts>>
-----------------------------------------------------------------------------
(* create_checkpoint *)

\* ensure_runtime wants a running BOX; the head becomes source_checkpoint_id
\* and the time is taken
CreateCheckpoint(r, w) ==
  /\ Free(r)
  /\ running[w]
  /\ UNCHANGED <<disk, head, snap, record, running, aborts>>
  /\ \/ /\ head[w] = Partial
        /\ req' = [req EXCEPT ![r] = Failed]
        /\ UNCHANGED made
     \/ /\ head[w] # Partial
        /\ \E c \in {d \in Checkpoints : made[d] = Nil} :
             /\ made' = [made EXCEPT ![c] = [ws |-> w, at |-> Now + 1]]
             /\ req' = [req EXCEPT ![r] =
                          [Idle EXCEPT !.pc = "save", !.op = "create", !.ws = w,
                                       !.id = c, !.parent = head[w]]]

\* save_checkpoint: the directory, and the copy of the disk begins
SaveCheckpoint(r) ==
  LET q == req[r] IN
  /\ q.pc = "save"
  /\ snap' = [snap EXCEPT ![q.ws][q.id] = Partial]
  /\ req' = [req EXCEPT ![r] = [q EXCEPT !.pc = "copy_disk", !.copy = disk[q.ws]]]
  /\ UNCHANGED <<disk, head, record, made, running, aborts>>

\* ... the copy ends ...
CopyDisk(r) ==
  LET q == req[r] IN
  /\ q.pc = "copy_disk"
  /\ snap' = [snap EXCEPT ![q.ws][q.id] = q.copy]
  /\ req' = [req EXCEPT ![r] = [q EXCEPT !.pc = "write_record"]]
  /\ UNCHANGED <<disk, head, record, made, running, aborts>>

\* ... and record.json makes the checkpoint visible
WriteRecord(r) ==
  LET q == req[r] IN
  /\ q.pc = "write_record"
  /\ record' = [record EXCEPT ![q.ws][q.id] = [source |-> q.parent]]
  /\ req' = [req EXCEPT ![r] = [q EXCEPT !.pc = "set_head", !.parent = q.id]]
  /\ UNCHANGED <<disk, head, snap, made, running, aborts>>

\* set_head_checkpoint_id ends create, restore, fork and the deletion of the
\* head; checkpoint_restore then restarts the BOX it stopped
SetHead(r) ==
  LET q == req[r] IN
  /\ q.pc = "set_head"
  /\ head' = [head EXCEPT ![q.ws] = q.parent]
  /\ running' = [running EXCEPT ![q.ws] = @ \/ q.was]
  /\ req' = [req EXCEPT ![r] = Finished]
  /\ UNCHANGED <<disk, snap, record, made, aborts>>
-----------------------------------------------------------------------------
(* restore_checkpoint and fork_workspace *)

\* checkpoint_restore stops a running BOX; the store lists the checkpoints
\* and finds the target. The BOX stays stopped when the target is unknown.
RestoreCheckpoint(r, w, c) ==
  /\ Free(r)
  /\ disk[w] # Nil
  /\ running' = [running EXCEPT ![w] = FALSE]
  /\ UNCHANGED <<disk, head, snap, record, made, aborts>>
  /\ \/ /\ ListFails(w) \/ c \notin Listed(w)
        /\ req' = [req EXCEPT ![r] = Failed]
     \/ /\ ~ListFails(w) /\ c \in Listed(w)
        /\ \E mode \in {"rollback", "replace"} :
             req' = [req EXCEPT ![r] =
                       [Idle EXCEPT !.pc = "open_snapshot", !.op = mode, !.ws = w,
                          !.from = w, !.id = c, !.parent = c, !.was = running[w],
                          !.newer = IF mode = "rollback" THEN NewerThan(w, c)
                                                         ELSE {}]]

\* checkpoint_fork makes the BOX of the fork first; fork_workspace then looks
\* for the record, and the new BOX stays behind when it is unknown.
ForkWorkspace(r, w, c, n) ==
  /\ Free(r)
  /\ disk[w] # Nil /\ disk[n] = Nil
  /\ disk' = [disk EXCEPT ![n] = Blank]
  /\ UNCHANGED <<head, snap, record, made, running, aborts>>
  /\ \/ /\ record[w][c] \in {Nil, Partial}
        /\ req' = [req EXCEPT ![r] = Failed]
     \/ /\ record[w][c] \notin {Nil, Partial}
        /\ req' = [req EXCEPT ![r] =
                     [Idle EXCEPT !.pc = "open_snapshot", !.op = "fork", !.ws = n,
                                  !.from = w, !.id = c]]

\* copy_checkpoint_snapshot: a missing source fails before the destination is
\* truncated
OpenSnapshot(r) ==
  LET q == req[r] IN
  /\ q.pc = "open_snapshot"
  /\ UNCHANGED <<head, snap, record, made, running, aborts>>
  /\ \/ /\ snap[q.from][q.id] = Nil
        /\ req' = [req EXCEPT ![r] = Failed]
        /\ UNCHANGED disk
     \/ /\ snap[q.from][q.id] # Nil
        /\ disk' = [disk EXCEPT ![q.ws] = Partial]
        /\ req' = [Smeared(q.ws) EXCEPT ![r] =
                     [q EXCEPT !.pc = "copy_snapshot", !.copy = snap[q.from][q.id]]]

\* Mutant: a rollback keeps the newer checkpoints.
CopySnapshotSkipsPrune(r) ==
  LET q == req[r] IN
  /\ q.pc = "copy_snapshot"
  /\ disk' = [disk EXCEPT ![q.ws] = q.copy]
  /\ req' = [Smeared(q.ws) EXCEPT ![r] = [q EXCEPT !.pc = "set_head"]]
  /\ UNCHANGED <<head, snap, record, made, running, aborts>>

\* ... the copy ends, then a rollback prunes
CopySnapshot(r) ==
  LET q == req[r] IN
  /\ q.pc = "copy_snapshot"
  /\ disk' = [disk EXCEPT ![q.ws] = q.copy]
  /\ req' = [Smeared(q.ws) EXCEPT ![r] =
               [q EXCEPT !.pc = IF q.newer = {} THEN "set_head" ELSE "prune"]]
  /\ UNCHANGED <<head, snap, record, made, running, aborts>>

\* delete_checkpoint_ids removes one directory after another, the oldest first
Prune(r) ==
  LET q == req[r] IN
  /\ q.pc = "prune"
  /\ \E d \in Checkpoints :
       /\ Oldest(d, q.newer)
       /\ snap' = [snap EXCEPT ![q.ws][d] = Nil]
       /\ record' = [record EXCEPT ![q.ws][d] = Nil]
       /\ req' = [req EXCEPT ![r] =
                    [q EXCEPT !.newer = @ \ {d},
                              !.pc = IF q.newer = {d} THEN "set_head" ELSE "prune"]]
  /\ UNCHANGED <<disk, head, made, running, aborts>>
-----------------------------------------------------------------------------
(* delete_checkpoint *)

\* The head and the record are read first, a missing record is no error.
DeleteCheckpoint(r, w, c) ==
  /\ Free(r)
  /\ disk[w] # Nil
  /\ UNCHANGED <<disk, head, snap, record, made, running, aborts>>
  /\ \/ /\ head[w] = Partial \/ record[w][c] = Partial
        /\ req' = [req EXCEPT ![r] = Failed]
     \/ /\ head[w] # Partial /\ record[w][c] # Partial
        /\ req' = [req EXCEPT ![r] =
                     [Idle EXCEPT !.pc = "remove", !.op = "delete", !.ws = w, !.id = c,
                        !.copy = head[w],
                        !.parent = IF record[w][c] = Nil THEN Nil
                                   ELSE record[w][c].source]]

\* remove_dir_all; only the deletion of what was the head moves the head
RemoveDir(r) ==
  LET q == req[r] IN
  /\ q.pc = "remove"
  /\ snap' = [snap EXCEPT ![q.ws][q.id] = Nil]
  /\ record' = [record EXCEPT ![q.ws][q.id] = Nil]
  /\ req' = [req EXCEPT ![r] =
               IF q.copy = q.id THEN [q EXCEPT !.pc = "set_head"] ELSE Finished]
  /\ UNCHANGED <<disk, head, made, running, aborts>>
-----------------------------------------------------------------------------
(* Handlers that end early *)

\* fs::write truncates before it writes; remove_dir_all unlinks file by file
Abort(r) ==
  LET q == req[r] IN
  /\ ~Free(r)
  /\ aborts < MaxAborts
  /\ aborts' = aborts + 1
  /\ req' = [req EXCEPT ![r] = Failed]
  /\ UNCHANGED <<disk, made, running>>
  /\ \/ UNCHANGED <<head, snap, record>>
     \/ /\ q.pc = "set_head"
        /\ head' = [head EXCEPT ![q.ws] = Partial]
        /\ UNCHANGED <<snap, record>>
     \/ /\ q.pc = "write_record"
        /\ record' = [record EXCEPT ![q.ws][q.id] = Partial]
        /\ UNCHANGED <<head, snap>>
     \/ /\ q.pc \in {"prune", "remove"}
        /\ \E d \in Checkpoints :
           /\ IF q.pc = "prune" THEN Oldest(d, q.newer) ELSE d = q.id
           /\ \/ snap' = [snap EXCEPT ![q.ws][d] = Nil] /\ UNCHANGED record
              \/ record' = [record EXCEPT ![q.ws][d] = Nil] /\ UNCHANGED snap
        /\ UNCHANGED head
-----------------------------------------------------------------------------
LineageNext ==
  \/ \E w \in Workspaces : GuestWrites(w)
  \/ \E r \in Reqs :
    \/ \E w \in Workspaces :
         \/ StartStop(r, w)
         \/ CreateCheckpoint(r, w)
         \/ \E c \in Known :
              \/ RestoreCheckpoint(r, w, c)
              \/ DeleteCheckpoint(r, w, c)
              \/ \E n \in Workspaces : ForkWorkspace(r, w, c, n)
    \/ SaveCheckpoint(r)
    \/ CopyDisk(r)
    \/ WriteRecord(r)
    \/ SetHead(r)
    \/ OpenSnapshot(r)
    \/ CopySnapshot(r)
    \/ Prune(r)
    \/ RemoveDir(r)
    \/ Abort(r)

LineageSpec == LineageInit /\ [][LineageNext]_lineageVars
-----------------------------------------------------------------------------
(* Properties *)

Readable(w, c) == record[w][c] \notin {Nil, Partial}

\* A listed checkpoint never holds a half-made copy of the disk: save_checkpoint
\* writes record.json only once the copy is complete, wherever it is interrupted.
ListedIsWhole ==
  \A w \in Workspaces, c \in Checkpoints : c \in Listed(w) => snap[w][c] # Partial

\* The source of a checkpoint is an older checkpoint of the same workspace, so
\* following source_checkpoint_id ends, also in a fork.
LineageIsAncestral ==
  \A w \in Workspaces, c \in Checkpoints :
    Readable(w, c) /\ record[w][c].source # Nil =>
      /\ made[record[w][c].source].ws = w /\ made[c].ws = w
      /\ made[record[w][c].source].at < made[c].at

\* From the moment a restore begins to overwrite the disk until it ends, the
\* checkpoint it restores is whole: interrupted anywhere, it can be repeated.
\* (Not while another request deletes that checkpoint.)
RestoreIsRepeatable ==
  \A r \in Reqs :
    LET q == req[r] IN
    q.pc \in {"copy_snapshot", "prune", "set_head"} /\ q.op \in {"rollback", "replace"}
      => Readable(q.ws, q.id) /\ snap[q.ws][q.id] \in Contents \cup {Mixed}

\* Whatever was interrupted, a checkpoint that is listed is whole, has its place in
\* the lineage, and can be restored again.
CheckpointsAreSound == ListedIsWhole /\ LineageIsAncestral /\ RestoreIsRepeatable

Exact(q) ==
  q.op \in {"rollback", "replace", "fork"} =>
    /\ disk[q.ws] = snap[q.from][q.id]
    /\ head[q.ws] = (IF q.op = "fork" THEN Nil ELSE q.id)
    /\ q.op = "rollback" => NewerThan(q.ws, q.id) = {}

\* A restore or fork that returns Ok leaves the disk equal to the snapshot and
\* the head at the target; a rollback leaves no newer checkpoint; a fork starts
\* a lineage of its own.  (Not while other requests change the workspace.)
RestoresExactly ==
  \A r \in Reqs : \A q \in {req[r]} :
    q.pc = "set_head" /\ req'[r] = Finished /\ aborts' = aborts => Exact(q)'
RestoreIsExact == [][RestoresExactly]_lineageVars
=============================================================================
