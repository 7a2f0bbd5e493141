----------------------------- MODULE BoxService -----------------------------
(***************************************************************************)
(* The BOX manager of the daemon: LocalBoxService (src/src/boxes) on top   *)
(* of AgentSandboxService and its SessionRegistry (src/src/runtime).       *)
(*                                                                         *)
(* Every API connection is a request handler r that runs one operation at  *)
(* a time.  No lock spans an operation: a handler reads a BOX record,      *)
(* awaits, and later writes back the copy it read.  One action here is the *)
(* code between two awaits that touch shared state, so handlers interleave *)
(* at the points where the async code really yields.                       *)
(***************************************************************************)
EXTENDS Naturals, FiniteSets

CONSTANTS
    Boxes,        \* BOX ids (uuids, never reused)
    Sandboxes,    \* sandbox ids; bounds the number of launches
    Reqs,         \* request handlers, one per connection
    Ops,          \* the operations the connections issue
    Sizes,        \* workspace disk sizes
    DefaultSize,  \* workspace_config.disk_size_mib
    Faults,       \* which of the faults below the environment may inject
    None          \* the absent value (Option::None)

AllOps == {"create", "fork", "get", "peek", "list", "start", "stop", "exec",
           "set", "remove", "restore", "shutdown"}
AllFaults == {"vm_death", "vm_hang", "guest_error", "crash"}

ASSUME OpsAssumption == Ops \subseteq AllOps
ASSUME FaultsAssumption == Faults \subseteq AllFaults
ASSUME SizesAssumption == Sizes \subseteq Nat \ {0} /\ DefaultSize \in Sizes
ASSUME NoneAssumption == None \notin Boxes \cup Sandboxes \cup Sizes

VARIABLES
    born,     \* BOX ids handed out by create_box_record
    rec,      \* BoxStore: the record of every BOX on disk, or None
    disk,     \* WorkspaceStore: size of the BOX's workspace disk, 0 if absent
    active,   \* LocalBoxService.active
    live,     \* SessionRegistry.active
    history,  \* SessionRegistry.history
    boxOf,    \* the workspace a sandbox id was launched for, None if unused
    vm,       \* sandboxes whose runner process is alive
    hung,     \* those of vm whose guest no longer answers
    orphans,  \* those of vm that outlived the daemon that launched them
    req       \* the request handlers

store == <<born, rec, disk>>
daemon == <<active, live, history>>
vms == <<boxOf, vm, hung, orphans>>
vars == <<store, daemon, vms, req>>

Statuses == {"Created", "Running", "Stopped", "Failed", "Removing"}
Record == [status : Statuses, sid : Sandboxes \cup {None}, fs : Sizes]

ASSUME RecordAssumption == None \notin Record

\* A handler: where it is, the call site its last read_box returns to (k), the
\* record just read (seen), the record it will write back (copy), the sandbox
\* it works on, was_running of checkpoint_restore (again), and for list_boxes
\* and shutdown_daemon the BOXes left with the snapshot list() returned.
Idle == [pc |-> "idle", op |-> "none", k |-> "none", box |-> None,
         seen |-> None, copy |-> None, sid |-> None, arg |-> DefaultSize,
         again |-> FALSE, todo |-> {}, snap |-> [b \in Boxes |-> None]]

At(r, p) == req[r].pc = p

\* The handler returns Err: list_boxes and shutdown_daemon stop at the first.
Fail(r) == req' = [req EXCEPT ![r] = Idle]

\* The operation on one BOX returns Ok.
Returned(q) ==
    IF q.todo # {} THEN [q EXCEPT !.pc = "next", !.seen = None, !.copy = None, !.sid = None]
    ELSE IF q.op = "shutdown" THEN [Idle EXCEPT !.pc = "exit", !.op = "shutdown"]
    ELSE Idle

Return(r) == req' = [req EXCEPT ![r] = Returned(req[r])]

\* stop_box returned Ok, to the API or to remove_box or checkpoint_restore.
Stopped(q) ==
    CASE q.op = "remove"  -> [q EXCEPT !.pc = "read", !.k = "remove2"]
      [] q.op = "restore" -> [q EXCEPT !.pc = "restore"]
      [] OTHER            -> Returned(q)

----------------------------------------------------------------------------
(* Requests arrive. *)

BoxOps == {"get", "peek", "start", "stop", "exec", "set", "remove", "restore", "fork"}

Call(r) ==
    /\ At(r, "idle")
    /\ \E op \in Ops \cap BoxOps, b \in born, v \in Sizes :
          /\ op = "set" \/ v = DefaultSize
          /\ req' = [req EXCEPT ![r] = [Idle EXCEPT
                        !.pc = "read", !.op = op, !.box = b, !.arg = v,
                        !.k = IF op = "peek" THEN "tail" ELSE op]]
    /\ UNCHANGED <<store, daemon, vms>>

CallCreate(r) ==
    /\ At(r, "idle")
    /\ "create" \in Ops
    /\ req' = [req EXCEPT ![r] = [Idle EXCEPT !.pc = "prepare", !.op = "create", !.k = "create"]]
    /\ UNCHANGED <<store, daemon, vms>>

\* list_boxes reads every record first and works on that snapshot.
CallList(r) ==
    /\ At(r, "idle")
    /\ "list" \in Ops
    /\ \E b \in Boxes : rec[b] # None
    /\ req' = [req EXCEPT ![r] = [Idle EXCEPT !.pc = "next", !.op = "list", !.k = "get",
                  !.todo = {b \in Boxes : rec[b] # None}, !.snap = rec]]
    /\ UNCHANGED <<store, daemon, vms>>

\* shutdown_daemon: active_box_ids, then stop_box_for_shutdown of each.
CallShutdown(r) ==
    /\ At(r, "idle")
    /\ "shutdown" \in Ops
    /\ LET ids == {b \in Boxes : active[b] # None}
       IN  req' = [req EXCEPT ![r] = [Idle EXCEPT !.op = "shutdown", !.k = "shutdown",
                      !.pc = IF ids = {} THEN "exit" ELSE "next", !.todo = ids]]
    /\ UNCHANGED <<store, daemon, vms>>

\* Slip: the snapshot of another BOX is used.
NextBoxStaleSnapshot(r) ==
    /\ At(r, "next")
    /\ LET q == req[r] IN \E b, x \in q.todo :
          req' = [req EXCEPT ![r] = IF q.op = "list"
             THEN [q EXCEPT !.pc = "hydrate", !.k = "get", !.box = b, !.todo = q.todo \ {b},
                            !.seen = q.snap[x], !.snap = [q.snap EXCEPT ![b] = None]]
             ELSE [q EXCEPT !.pc = "read", !.k = "shutdown", !.box = b, !.todo = q.todo \ {b}]]
    /\ UNCHANGED <<store, daemon, vms>>

NextBox(r) ==
    /\ At(r, "next")
    /\ LET q == req[r] IN \E b \in q.todo :
          req' = [req EXCEPT ![r] = IF q.op = "list"
             THEN [q EXCEPT !.pc = "hydrate", !.k = "get", !.box = b, !.todo = q.todo \ {b},
                            !.seen = q.snap[b], !.snap = [q.snap EXCEPT ![b] = None]]
             ELSE [q EXCEPT !.pc = "read", !.k = "shutdown", !.box = b, !.todo = q.todo \ {b}]]
    /\ UNCHANGED <<store, daemon, vms>>

----------------------------------------------------------------------------
(* read_box: BoxStore::read, then hydrate_record. *)

Read(r) ==
    /\ At(r, "read")
    /\ LET c == rec[req[r].box]
       IN  IF c = None THEN Fail(r)
           ELSE req' = [req EXCEPT ![r].pc = "hydrate", ![r].seen = c]
    /\ UNCHANGED <<store, daemon, vms>>

\* Slip: a missing disk is not given the default size.
NormalizedBlindly(c, b) == [c EXCEPT !.fs = disk[b]]

\* normalize_settings: the recorded size follows the disk (or the default).
Normalized(c, b) == [c EXCEPT !.fs = IF disk[b] = 0 THEN DefaultSize ELSE disk[b]]

Hydrated(r) == Normalized(req[r].seen, req[r].box)

\* The read of call site k completes; the record is rewritten if it changed.
ReadBox(r, k) ==
    /\ At(r, "hydrate")
    /\ req[r].k = k
    /\ rec' = IF Hydrated(r) # req[r].seen
              THEN [rec EXCEPT ![req[r].box] = Hydrated(r)] ELSE rec
    /\ UNCHANGED <<born, disk, vms>>

\* record.active_sandbox_id, else the entry of the active map.
SandboxFor(c, b) == IF c.sid # None THEN c.sid ELSE active[b]

MarkedFailed(c) == [c EXCEPT !.status = "Failed", !.sid = None]
\* Slip: the status is left as it was.
MarkedStoppedLazily(c) == [c EXCEPT !.sid = None]

MarkedStopped(c) == [c EXCEPT !.status = "Stopped", !.sid = None]

\* set_failed and mark_stopped: forget the active entry, then write the copy.
SetFailed(q, c) == [q EXCEPT !.pc = "unlink", !.seen = None, !.copy = MarkedFailed(c)]
MarkStopped(q, c) == [q EXCEPT !.pc = "unlink", !.seen = None, !.copy = MarkedStopped(c)]

Unlink(r) ==
    /\ At(r, "unlink")
    /\ active' = [active EXCEPT ![req[r].box] = None]
    /\ req' = [req EXCEPT ![r].pc = "write"]
    /\ UNCHANGED <<store, live, history, vms>>

\* What follows BoxStore::write at each call site.
AfterWrite(q) ==
    CASE q.k = "start" /\ q.copy.status = "Running" ->
            [q EXCEPT !.pc = "stats", !.k = "get"]
      [] q.k = "get"     -> [q EXCEPT !.pc = "read", !.k = "tail", !.copy = None]
      [] q.k = "missing" -> [q EXCEPT !.pc = "read", !.k = "tail_stop", !.copy = None]
      [] q.k = "set"     -> [q EXCEPT !.pc = "hydrate", !.k = "tail", !.seen = q.copy]
      [] q.k \in {"remove", "remove2"} -> [q EXCEPT !.pc = "rmdisk", !.copy = None]
      [] q.k = "fork"    -> [q EXCEPT !.pc = "forkcopy", !.copy = None]
      [] q.k \in {"stop", "shutdown"} /\ q.copy.status = "Stopped" ->
            Stopped([q EXCEPT !.copy = None, !.sid = None])
      [] q.k = "create"  -> Returned(q)
      [] OTHER           -> Idle

Write(r) ==
    /\ At(r, "write")
    /\ rec' = [rec EXCEPT ![req[r].box] = req[r].copy]
    /\ req' = [req EXCEPT ![r] = AfterWrite(@)]
    /\ UNCHANGED <<born, disk, daemon, vms>>

\* A read whose record is only returned to the caller.
Tail(r) ==
    \/ /\ ReadBox(r, "tail")
       /\ Return(r)
       /\ UNCHANGED daemon
    \/ /\ ReadBox(r, "tail_stop")
       /\ req' = [req EXCEPT ![r] = Stopped([@ EXCEPT !.seen = None, !.sid = None])]
       /\ UNCHANGED daemon

----------------------------------------------------------------------------
(* create_box_record, for a new BOX and for a fork. *)

Fork(r) ==
    /\ ReadBox(r, "fork")
    /\ req' = [req EXCEPT ![r] = [@ EXCEPT !.pc = "prepare", !.seen = None]]
    /\ UNCHANGED daemon

PrepareRecord(r) ==
    /\ At(r, "prepare")
    /\ \E b \in Boxes \ born :
          /\ born' = born \cup {b}
          /\ disk' = [disk EXCEPT ![b] = DefaultSize]
          /\ req' = [req EXCEPT ![r] = [Idle EXCEPT !.pc = "write", !.op = req[r].op,
                        !.k = req[r].k, !.box = b,
                        !.copy = [status |-> "Created", sid |-> None, fs |-> DefaultSize]]]
    /\ UNCHANGED <<rec, daemon, vms>>

\* prepare_workspace fails (or the bound on BOXes is reached).
PrepareRecordFails(r) ==
    /\ At(r, "prepare")
    /\ Fail(r)
    /\ UNCHANGED <<store, daemon, vms>>

\* fork_workspace copies the checkpoint's disk, or fails leaving the new BOX.
ForkWorkspace(r) ==
    /\ At(r, "forkcopy")
    /\ \/ \E size \in Sizes : disk' = [disk EXCEPT ![req[r].box] = size]
       \/ UNCHANGED disk
    /\ Return(r)
    /\ UNCHANGED <<born, rec, daemon, vms>>

----------------------------------------------------------------------------
(* get_box and list_boxes: attach_runtime_usage.  ensure_runtime. *)

Get(r) ==
    /\ ReadBox(r, "get")
    /\ LET c == Hydrated(r)
           s == SandboxFor(c, req[r].box)
       IN  req' = [req EXCEPT ![r] =
              IF c.status # "Running" THEN Returned([@ EXCEPT !.seen = None])
              ELSE IF s = None THEN SetFailed(@, c)
              ELSE [@ EXCEPT !.pc = "stats", !.seen = None, !.copy = c, !.sid = s]]
    /\ UNCHANGED daemon

EnsureRuntime(r) ==
    /\ ReadBox(r, "exec")
    /\ LET c == Hydrated(r)
           s == SandboxFor(c, req[r].box)
       IN  req' = [req EXCEPT ![r] =
              IF c.status # "Running" THEN Idle
              ELSE IF s = None THEN SetFailed(@, c)
              ELSE [@ EXCEPT !.pc = "adopt", !.seen = None, !.copy = c, !.sid = s]]
    /\ UNCHANGED daemon

\* runtime_stats answers: the sandbox is registered and its guest replies.
StatsOk(r) ==
    /\ At(r, "stats")
    /\ req[r].sid \in live \cap (vm \ hung)
    /\ Return(r)
    /\ UNCHANGED <<store, daemon, vms>>

\* runtime_stats fails: unknown sandbox, dead guest, or an error the guest sent.
StatsErr(r) ==
    /\ At(r, "stats")
    /\ \/ req[r].sid \notin live \cap vm
       \/ "guest_error" \in Faults /\ req[r].sid \notin hung
    /\ req' = [req EXCEPT ![r] = SetFailed(@, @.copy)]
    /\ UNCHANGED <<store, daemon, vms>>

\* active.insert(box_id, sandbox_id) before the runtime is called.
Adopt(r) ==
    /\ At(r, "adopt")
    /\ active' = [active EXCEPT ![req[r].box] = req[r].sid]
    /\ req' = [req EXCEPT ![r].pc = IF req[r].k = "exec" THEN "stats" ELSE "destroy"]
    /\ UNCHANGED <<store, live, history, vms>>

----------------------------------------------------------------------------
(* set_box_setting.  FsSizeMib resizes the disk first; any other setting    *)
(* takes the path of an unchanged size.                                     *)

SetSetting(r) ==
    /\ ReadBox(r, "set")
    /\ LET c == Hydrated(r)
       IN  req' = [req EXCEPT ![r] =
              IF c.status = "Running" THEN Idle
              ELSE [@ EXCEPT !.pc = IF req[r].arg = c.fs THEN "write" ELSE "resize",
                             !.seen = None, !.copy = [c EXCEPT !.fs = req[r].arg]]]
    /\ UNCHANGED daemon

\* resize_workspace, which may fail before or after the file was resized.
ResizeWorkspace(r) ==
    /\ At(r, "resize")
    /\ LET b == req[r].box
           resized == [disk EXCEPT ![b] = req[r].arg]
       IN  \/ disk' = resized /\ req' = [req EXCEPT ![r].pc = "write"]
           \/ disk' = resized /\ Fail(r)
           \/ disk' = [disk EXCEPT ![b] = IF @ = 0 THEN DefaultSize ELSE @] /\ Fail(r)
    /\ UNCHANGED <<born, rec, daemon, vms>>

----------------------------------------------------------------------------
(* start_box and create_sandbox_inner. *)

Start(r) ==
    /\ ReadBox(r, "start")
    /\ LET c == Hydrated(r)
       IN  req' = [req EXCEPT ![r] =
              IF c.status = "Running" THEN Idle
              ELSE [@ EXCEPT !.pc = "create", !.seen = None, !.copy = c]]
    /\ UNCHANGED daemon

HasActiveWorkspace(b) == \E s \in live : boxOf[s] = b

\* The check of has_active_workspace, then prepare_workspace.
CheckWorkspace(r) ==
    /\ At(r, "create")
    /\ LET b == req[r].box
       IN  IF HasActiveWorkspace(b)
           THEN req' = [req EXCEPT ![r] = SetFailed(@, @.copy)] /\ UNCHANGED disk
           ELSE /\ req' = [req EXCEPT ![r].pc = "launch"]
                /\ disk' = [disk EXCEPT ![b] = IF @ = 0 THEN DefaultSize ELSE @]
    /\ UNCHANGED <<born, rec, daemon, vms>>

\* Backend::launch starts the runner process under a new sandbox id.
Launch(r) ==
    /\ At(r, "launch")
    /\ \E s \in Sandboxes :
          /\ boxOf[s] = None
          /\ boxOf' = [boxOf EXCEPT ![s] = req[r].box]
          /\ vm' = vm \cup {s}
          /\ req' = [req EXCEPT ![r].pc = "connect", ![r].sid = s]
    /\ UNCHANGED <<store, daemon, hung, orphans>>

LaunchFails(r) ==
    /\ At(r, "launch")
    /\ req' = [req EXCEPT ![r] = SetFailed(@, @.copy)]
    /\ UNCHANGED <<store, daemon, vms>>

\* GuestRpcClient::connect, then the baseline snapshot (which has no timeout).
Connect(r) ==
    /\ At(r, "connect")
    /\ req[r].sid \in vm \ hung
    /\ req' = [req EXCEPT ![r].pc = "baseline"]
    /\ UNCHANGED <<store, daemon, vms>>

\* Slip: a sandbox is registered without hearing from its guest.
BaselineUnchecked(r) ==
    /\ At(r, "baseline")
    /\ live' = live \cup {req[r].sid}
    /\ req' = [req EXCEPT ![r].pc = "publish"]
    /\ UNCHANGED <<store, active, history, vms>>

Baseline(r) ==
    /\ At(r, "baseline")
    /\ req[r].sid \in vm \ hung
    /\ live' = live \cup {req[r].sid}
    /\ req' = [req EXCEPT ![r].pc = "publish"]
    /\ UNCHANGED <<store, active, history, vms>>

\* An error return of create_sandbox_inner drops the only handle of the
\* runner, which kills it (kill_on_drop).
DropInstance(s) ==
    /\ vm' = vm \ {s}
    /\ hung' = hung \ {s}
    /\ UNCHANGED <<boxOf, orphans>>

BootFails(r) ==
    /\ \/ At(r, "connect")
       \/ At(r, "baseline") /\ req[r].sid \notin hung
    /\ DropInstance(req[r].sid)
    /\ req' = [req EXCEPT ![r] = SetFailed([@ EXCEPT !.sid = None], @.copy)]
    /\ UNCHANGED <<store, daemon>>

\* Slip: the record is written without the sandbox id.
PublishWithoutId(r) ==
    /\ At(r, "publish")
    /\ active' = [active EXCEPT ![req[r].box] = req[r].sid]
    /\ req' = [req EXCEPT ![r].pc = "write", ![r].copy.status = "Running"]
    /\ UNCHANGED <<store, live, history, vms>>

\* start_box enters the sandbox in the active map, then writes Running.
Publish(r) ==
    /\ At(r, "publish")
    /\ active' = [active EXCEPT ![req[r].box] = req[r].sid]
    /\ req' = [req EXCEPT ![r] = [@ EXCEPT !.pc = "write",
                  !.copy = [req[r].copy EXCEPT !.status = "Running", !.sid = req[r].sid]]]
    /\ UNCHANGED <<store, live, history, vms>>

----------------------------------------------------------------------------
(* stop_box, running_sandbox_id, stop_box_for_shutdown, destroy_sandbox.    *)

Stop(r) ==
    /\ ReadBox(r, "stop")
    /\ LET c == Hydrated(r)
       IN  req' = [req EXCEPT ![r] =
              IF c.status # "Running" THEN Idle
              ELSE [@ EXCEPT !.pc = "read", !.k = "running", !.seen = None, !.copy = c]]
    /\ UNCHANGED daemon

RunningSandboxId(r) ==
    /\ ReadBox(r, "running")
    /\ LET c == Hydrated(r)
           s == SandboxFor(c, req[r].box)
       IN  req' = [req EXCEPT ![r] =
              IF c.status # "Running" THEN Idle
              ELSE IF s = None THEN SetFailed(@, c)
              ELSE [@ EXCEPT !.pc = "adopt", !.k = "stop", !.seen = None, !.sid = s]]
    /\ UNCHANGED daemon

StopForShutdown(r) ==
    /\ ReadBox(r, "shutdown")
    /\ LET c == Hydrated(r)
           b == req[r].box
           s == SandboxFor(c, b)
           q == [req[r] EXCEPT !.seen = None]
       IN  IF c.status # "Running"
           THEN /\ active' = [active EXCEPT ![b] = None]
                /\ req' = [req EXCEPT ![r] = Returned(q)]
           ELSE /\ UNCHANGED active
                /\ req' = [req EXCEPT ![r] =
                      IF s = None THEN MarkStopped(q, c)
                      ELSE [q EXCEPT !.pc = "adopt", !.copy = c, !.sid = s]]
    /\ UNCHANGED <<live, history>>

\* Slip: the sandbox stays in the registry while it is torn down.
DestroyKeepsEntry(r) ==
    /\ At(r, "destroy")
    /\ req' = [req EXCEPT ![r].pc = "teardown"]
    /\ UNCHANGED <<store, daemon, vms>>

\* history_record, else remove_active: the entry leaves the registry first.
Destroy(r) ==
    /\ At(r, "destroy")
    /\ LET q == req[r]
           k == IF q.k = "stop" THEN "missing" ELSE q.k
       IN  IF q.sid \in history
           THEN req' = [req EXCEPT ![r] = MarkStopped(q, q.copy)] /\ UNCHANGED live
           ELSE IF q.sid \in live
           THEN req' = [req EXCEPT ![r].pc = "teardown"] /\ live' = live \ {q.sid}
           ELSE req' = [req EXCEPT ![r] = MarkStopped([q EXCEPT !.k = k], q.copy)] /\ UNCHANGED live
    /\ UNCHANGED <<store, active, history, vms>>

\* Slip: the session is archived without a shutdown; a shutdown without a timeout.
TeardownAfterArchive(r) ==
    /\ At(r, "teardown")
    /\ req' = [req EXCEPT ![r].pc = "archive"]
    /\ UNCHANGED <<store, daemon, vms>>

TeardownAwaitsGuest(r) ==
    /\ At(r, "teardown")
    /\ req[r].sid \notin hung
    /\ DropInstance(req[r].sid)
    /\ req' = [req EXCEPT ![r].pc = "archive"]
    /\ UNCHANGED <<store, daemon>>

\* Best-effort guest calls with a timeout, then BackendInstance::shutdown.
Teardown(r) ==
    /\ At(r, "teardown")
    /\ DropInstance(req[r].sid)
    /\ \/ req' = [req EXCEPT ![r].pc = "archive"]
       \/ req' = [req EXCEPT ![r] = SetFailed(@, @.copy)]
    /\ UNCHANGED <<store, daemon>>

Archive(r) ==
    /\ At(r, "archive")
    /\ history' = history \cup {req[r].sid}
    /\ req' = [req EXCEPT ![r] = MarkStopped(@, @.copy)]
    /\ UNCHANGED <<store, active, live, vms>>

----------------------------------------------------------------------------
(* remove_box and checkpoint_restore. *)

Remove(r) ==
    /\ \/ ReadBox(r, "remove")
       \/ ReadBox(r, "remove2")
    /\ LET c == Hydrated(r)
       IN  req' = [req EXCEPT ![r] =
              IF c.status = "Running" /\ @.k = "remove"
              THEN [@ EXCEPT !.pc = "read", !.k = "stop", !.seen = None]
              ELSE [@ EXCEPT !.pc = "write", !.seen = None,
                       !.copy = [c EXCEPT !.status = "Removing", !.sid = None]]]
    /\ UNCHANGED daemon

\* remove_workspace, which may fail having removed the disk or not.
RemoveWorkspace(r) ==
    /\ At(r, "rmdisk")
    /\ LET gone == [disk EXCEPT ![req[r].box] = 0]
       IN  \/ disk' = gone /\ req' = [req EXCEPT ![r].pc = "forget"]
           \/ disk' \in {disk, gone} /\ Fail(r)
    /\ UNCHANGED <<born, rec, daemon, vms>>

Forget(r) ==
    /\ At(r, "forget")
    /\ active' = [active EXCEPT ![req[r].box] = None]
    /\ req' = [req EXCEPT ![r].pc = "rmrec"]
    /\ UNCHANGED <<store, live, history, vms>>

RemoveRecord(r) ==
    /\ At(r, "rmrec")
    /\ rec' = [rec EXCEPT ![req[r].box] = None]
    /\ Return(r)
    /\ UNCHANGED <<born, disk, daemon, vms>>

\* Slip: the disk is replaced without stopping the BOX.
RestoreWithoutStop(r) ==
    /\ ReadBox(r, "restore")
    /\ req' = [req EXCEPT ![r] = [@ EXCEPT !.pc = "restore", !.seen = None]]
    /\ UNCHANGED daemon

Restore(r) ==
    /\ ReadBox(r, "restore")
    /\ req' = [req EXCEPT ![r] =
          IF Hydrated(r).status = "Running"
          THEN [@ EXCEPT !.pc = "read", !.k = "stop", !.seen = None, !.again = TRUE]
          ELSE [@ EXCEPT !.pc = "restore", !.seen = None]]
    /\ UNCHANGED daemon

\* restore_checkpoint replaces the disk by a snapshot, or fails; a BOX that
\* was running is started again only when it succeeds.
RestoreCheckpoint(r) ==
    /\ At(r, "restore")
    /\ LET b == req[r].box
       IN  \/ /\ \E size \in Sizes : disk' = [disk EXCEPT ![b] = size]
              /\ req' = [req EXCEPT ![r] = IF @.again THEN [@ EXCEPT !.pc = "read", !.k = "start"]
                                           ELSE Returned(@)]
           \/ /\ disk' = [disk EXCEPT ![b] = IF @ = 0 THEN DefaultSize ELSE @]
              /\ Fail(r)
    /\ UNCHANGED <<born, rec, daemon, vms>>

----------------------------------------------------------------------------
(* The environment: guests die or hang, the daemon exits or crashes. *)

VmDies(s) ==
    /\ "vm_death" \in Faults
    /\ s \in vm
    /\ DropInstance(s)
    /\ UNCHANGED <<store, daemon, req>>

VmHangs(s) ==
    /\ "vm_hang" \in Faults
    /\ s \in vm \ hung
    /\ hung' = hung \cup {s}
    /\ UNCHANGED <<store, daemon, boxOf, vm, orphans, req>>

\* Slip: a restart leaves Running records alone.
ReconciledWithoutReset(c, b) == Normalized(c, b)

\* LocalBoxService::new of the next daemon: reconcile_after_restart.
Reconciled(c, b) ==
    LET n == Normalized(c, b)
    IN  IF n.status = "Running" THEN [n EXCEPT !.status = "Failed"] ELSE n

NewDaemon ==
    /\ rec' = [b \in Boxes |-> IF rec[b] = None THEN None ELSE Reconciled(rec[b], b)]
    /\ active' = [b \in Boxes |-> None]
    /\ live' = {}
    /\ history' = {}
    /\ req' = [r \in Reqs |-> Idle]
    /\ UNCHANGED <<born, disk, boxOf>>

\* Runners whose handle this daemon still holds.
Held == live \cup {req[r].sid : r \in {q \in Reqs : req[q].pc \in {"connect", "baseline", "teardown"}}}

\* ShutdownServer: the process returns from run_foreground, dropping (killing)
\* every runner it holds; the next daemon starts.
Exit(r) ==
    /\ At(r, "exit")
    /\ NewDaemon
    /\ vm' = vm \ Held
    /\ hung' = hung \ Held
    /\ UNCHANGED orphans

\* The daemon is killed (terminate_process signals it and it has no handler):
\* no destructor runs, so its runner processes stay alive.
Crash ==
    /\ "crash" \in Faults
    /\ NewDaemon
    /\ orphans' = orphans \cup vm
    /\ UNCHANGED <<vm, hung>>

----------------------------------------------------------------------------
Init ==
    /\ born = {}
    /\ rec = [b \in Boxes |-> None]
    /\ disk = [b \in Boxes |-> 0]
    /\ active = [b \in Boxes |-> None]
    /\ live = {}
    /\ history = {}
    /\ boxOf = [s \in Sandboxes |-> None]
    /\ vm = {}
    /\ hung = {}
    /\ orphans = {}
    /\ req = [r \in Reqs |-> Idle]

\* A handler that was called takes its next step.
Progress(r) ==
    \/ NextBox(r) \/ Read(r) \/ Unlink(r) \/ Write(r) \/ Tail(r)
    \/ Fork(r) \/ PrepareRecord(r) \/ PrepareRecordFails(r) \/ ForkWorkspace(r)
    \/ Get(r) \/ EnsureRuntime(r) \/ StatsOk(r) \/ StatsErr(r) \/ Adopt(r)
    \/ SetSetting(r) \/ ResizeWorkspace(r)
    \/ Start(r) \/ CheckWorkspace(r) \/ Launch(r) \/ LaunchFails(r)
    \/ Connect(r) \/ Baseline(r) \/ BootFails(r) \/ Publish(r)
    \/ Stop(r) \/ RunningSandboxId(r) \/ StopForShutdown(r)
    \/ Destroy(r) \/ Teardown(r) \/ Archive(r)
    \/ Remove(r) \/ RemoveWorkspace(r) \/ Forget(r) \/ RemoveRecord(r)
    \/ Restore(r) \/ RestoreCheckpoint(r) \/ Exit(r)

Next ==
    \/ \E r \in Reqs :
          Call(r) \/ CallCreate(r) \/ CallList(r) \/ CallShutdown(r) \/ Progress(r)
    \/ \E s \in Sandboxes : VmDies(s) \/ VmHangs(s)
    \/ Crash

Spec == Init /\ [][Next]_vars

\* The async runtime keeps polling every handler whose await completed.
FairSpec == Spec /\ \A r \in Reqs : WF_vars(Progress(r))

----------------------------------------------------------------------------
(* Properties. *)

PCs == {"idle", "next", "read", "hydrate", "unlink", "write", "prepare", "forkcopy",
        "stats", "adopt", "resize", "create", "launch", "connect", "baseline",
        "publish", "destroy", "teardown", "archive", "rmdisk", "forget", "rmrec",
        "restore", "exit"}
Sites == {"none", "create", "fork", "get", "tail", "tail_stop", "start", "stop", "running",
          "missing", "exec", "set", "remove", "remove2", "restore", "shutdown"}

Request == [pc : PCs, op : AllOps \cup {"none"}, k : Sites, box : Boxes \cup {None},
            seen : Record \cup {None}, copy : Record \cup {None},
            sid : Sandboxes \cup {None}, arg : Sizes, again : BOOLEAN,
            todo : SUBSET Boxes, snap : [Boxes -> Record \cup {None}]]

\* What a handler's locals hold at each point of its operation.
NoBoxYet == {"idle", "next", "prepare", "exit"}
Carrying == {"unlink", "write", "stats", "adopt", "resize", "create", "launch", "connect",
             "baseline", "publish", "destroy", "teardown", "archive"}
Naming == {"stats", "adopt", "connect", "baseline", "publish", "destroy", "teardown", "archive"}

HandlerOK(q) ==
    /\ q.pc \notin NoBoxYet => q.box \in Boxes
    /\ q.pc = "hydrate" => q.seen \in Record
    /\ q.pc \in Carrying => q.copy \in Record
    /\ q.pc \in {"read", "hydrate"} /\ q.k = "running" => q.copy \in Record
    /\ q.pc \in Naming => q.sid \in Sandboxes
    /\ q.pc \in {"unlink", "resize"} => q.copy.status # "Running"
    /\ q.pc = "write" /\ q.k = "start" /\ q.copy.status = "Running" => q.sid \in Sandboxes
    /\ q.op = "list" => \A b \in q.todo : q.snap[b] \in Record

\* Every variable keeps its type, and a handler has the record, the sandbox and
\* the BOX its next step dereferences (no unwrap of an absent value).
TypeOK ==
    /\ born \subseteq Boxes
    /\ rec \in [Boxes -> Record \cup {None}]
    /\ disk \in [Boxes -> Sizes \cup {0}]
    /\ active \in [Boxes -> Sandboxes \cup {None}]
    /\ live \subseteq Sandboxes
    /\ history \subseteq Sandboxes
    /\ boxOf \in [Sandboxes -> Boxes \cup {None}]
    /\ vm \subseteq Sandboxes
    /\ hung \subseteq vm
    /\ orphans \subseteq Sandboxes
    /\ req \in [Reqs -> Request]
    /\ \A r \in Reqs : HandlerOK(req[r])

\* Every reference to a sandbox that a BOX holds (its record, the active map,
\* the copies its handlers carry) is to a sandbox launched for that very BOX:
\* no stale read or late write can make one BOX operate on another's VM.
OwnSandbox(c, b) == c # None => c.sid = None \/ boxOf[c.sid] = b

SandboxIsolation ==
    /\ \A b \in Boxes : OwnSandbox(rec[b], b) /\ (active[b] # None => boxOf[active[b]] = b)
    /\ \A r \in Reqs : LET q == req[r] IN
          /\ q.box # None => OwnSandbox(q.seen, q.box) /\ OwnSandbox(q.copy, q.box)
          /\ q.sid # None => q.box # None /\ boxOf[q.sid] = q.box
          /\ \A b \in Boxes : OwnSandbox(q.snap[b], b)

\* A runner process never leaks: each one alive is in the registry, or in the
\* hands of the one handler booting it or tearing it down, or it outlived a
\* daemon that was killed (create_sandbox_inner, destroy_sandbox_inner).
NoLeakedVm == vm \subseteq Held \cup orphans

\* However many stop, remove, restore and shutdown calls race for a sandbox,
\* one of them tears it down: remove_active hands it to a single handler.
Holding == {"connect", "baseline", "teardown", "archive"}

SingleOwner ==
    \A r1, r2 \in Reqs :
        /\ req[r1].pc \in Holding
        /\ req[r2].pc \in Holding
        /\ req[r1].sid = req[r2].sid
        => r1 = r2

\* A sandbox in the history is gone for good: its VM is down and it is not in
\* the registry, so the early Ok of destroy_sandbox on a history hit is right.
HistoryIsFinal == history \cap (vm \cup live) = {}

\* A sandbox is in one pair of hands at a time: what a handler boots or tears
\* down is neither registered, nor archived, nor left by an earlier daemon, and
\* its id was taken by that boot.  The strengthening the invariants above need.
Custody ==
    /\ \A r \in Reqs : req[r].pc \in Holding =>
          /\ req[r].sid \notin live \cup history \cup orphans
          /\ boxOf[req[r].sid] # None
          /\ req[r].pc = "archive" => req[r].sid \notin vm
    /\ live \cap orphans = {}
    /\ \A s \in live \cup history \cup orphans \cup vm : boxOf[s] # None

\* A VM is in exactly one pair of hands from its boot to the history, whatever
\* starts, stops, removals, restores, quits and kills overlap on its BOX.
VmOwnership == NoLeakedVm /\ SingleOwner /\ HistoryIsFinal /\ Custody

\* A record that says Running names its sandbox: the "missing runtime state"
\* branches of ensure_runtime, running_sandbox_id and attach_runtime_usage are
\* never taken, however the handlers' writes interleave.
RunningNamesSandbox ==
    /\ \A b \in Boxes : rec[b] # None /\ rec[b].status = "Running" => rec[b].sid # None
    /\ \A r \in Reqs : req[r].copy # None /\ req[r].copy.status = "Running" => req[r].copy.sid # None

\* A sandbox that left the registry never comes back under the same daemon, and
\* an id is launched once.
NoResurrection ==
    [][\A s \in Sandboxes :
          /\ s \in live /\ s \notin live' => s \notin vm' \/ s \in orphans' \/ \E r \in Reqs :
                req'[r].pc = "teardown" /\ req'[r].sid = s
          /\ s \notin live /\ s \in live' => s \in vm /\ s \notin history /\ s \notin orphans]_vars

----------------------------------------------------------------------------
(* Properties of one connection's sequence of operations.                   *)

Quiet == \A r \in Reqs : At(r, "idle")
SandboxesOf(b) == {s \in Sandboxes : boxOf[s] = b}

\* The next properties, and the contract, are about operations issued one after
\* another; handlers that overlap on a BOX break each of them.

\* Between operations the record, the active map and the registry agree: a
\* Running BOX is the one its registered sandbox serves, and a Created or
\* Stopped one has no sandbox and no VM, also after a crash and a restart.
Settled ==
    Quiet => \A b \in Boxes : rec[b] # None =>
        /\ rec[b].status = "Running" =>
              active[b] = rec[b].sid /\ live \cap SandboxesOf(b) = {rec[b].sid}
        /\ rec[b].status \in {"Created", "Stopped"} =>
              active[b] = None /\ (live \cup (vm \ orphans)) \cap SandboxesOf(b) = {}

\* A BOX has at most one live microVM (docs/mental-model.md:34): two VMs would
\* mount one ext4 disk read-write.
OneVmPerBox == \A s1, s2 \in vm : boxOf[s1] = boxOf[s2] => s1 = s2

\* While the host resizes, replaces or deletes a workspace disk, no VM runs on
\* it (set_box_setting, checkpoint_restore, remove_box).
DiskExclusive ==
    \A r \in Reqs : req[r].pc \in {"resize", "restore", "rmdisk"} =>
        vm \cap SandboxesOf(req[r].box) = {}

\* A workspace disk has one user: a single VM, or the host.
DiskHasOneUser == OneVmPerBox /\ DiskExclusive

\* A BOX that shows failed can be started again (docs/troubleshooting.md:46):
\* the runtime does not refuse the start.
FailedIsRestartable ==
    Quiet => \A b \in Boxes :
        rec[b] # None /\ rec[b].status = "Failed" => ~HasActiveWorkspace(b)

\* When shutdown_daemon has gone through the BOXes of its snapshot, no record is
\* left Running: a stop that failed made it stop with an error instead.
QuitStopsBoxes ==
    \A r \in Reqs : At(r, "exit") =>
        \A b \in Boxes : rec[b] # None => rec[b].status # "Running"

\* stop_box, remove_box and shutdown_daemon return although the guest hangs:
\* every guest call on their path has a timeout.
StopReturns ==
    \A r \in Reqs :
        req[r].op \in {"stop", "remove", "shutdown"} ~> At(r, "idle")
=============================================================================
