-------------------------------- MODULE Runs --------------------------------
(***************************************************************************)
(* The run directories of sandboxes (src/workspace/store.rs, prepare_run   *)
(* and recycle_run) and the pool of warm ones (src/runtime/registry.rs).   *)
(* A starting sandbox takes the directory of an ended one and renames it   *)
(* to its own id; requests start and destroy sandboxes at the same time.   *)
(***************************************************************************)
EXTENDS Sequences, Integers

CONSTANTS
    Starts,     \* the sandboxes started
    Ids,        \* the uuids new runs draw from
    NoRun,
    PoolSize    \* lifecycle.warm_pool_size

VARIABLES
    dirs,       \* the run directories that exist
    pool,       \* warm_runs
    used,       \* the ids drawn
    sandbox,    \* of every start: where it is, its run, and the warm one it took
    vms         \* the runs a virtual machine works in

Sandbox(pc, run, warm) == [pc |-> pc, run |-> run, warm |-> warm]

RunsInit ==
    /\ dirs = {} /\ pool = <<>> /\ used = {} /\ vms = {}
    /\ sandbox = [s \in Starts |-> Sandbox("idle", NoRun, NoRun)]

At(s, pc) == sandbox[s].pc = pc
Goes(s, pc, run, warm) == sandbox' = [sandbox EXCEPT ![s] = Sandbox(pc, run, warm)]

(* take_warm_run: the last one *)
TakeWarmRun(s) ==
    /\ At(s, "idle")
    /\ IF pool = <<>>
       THEN Goes(s, "prepare", NoRun, NoRun) /\ UNCHANGED pool
       ELSE /\ Goes(s, "recycle", NoRun, pool[Len(pool)])
            /\ pool' = SubSeq(pool, 1, Len(pool) - 1)
    /\ UNCHANGED <<dirs, used, vms>>

Fresh(i) == i \in Ids \ used /\ used' = used \cup {i}

PrepareRun(s) ==
    /\ At(s, "prepare")
    /\ \E i \in Ids :
        /\ Fresh(i)
        /\ dirs' = dirs \cup {i}
        /\ Goes(s, "launch", i, NoRun)
    /\ UNCHANGED <<pool, vms>>

(* recycle_run: the directory is renamed; if somebody deleted it, made anew *)
RecycleRun(s) ==
    /\ At(s, "recycle")
    /\ \E i \in Ids :
        /\ Fresh(i)
        /\ dirs' = (dirs \ {sandbox[s].warm}) \cup {i}
        /\ Goes(s, "launch", i, NoRun)
    /\ UNCHANGED <<pool, vms>>

(* The virtual machine is launched; or the start fails, and drops what it took *)
LaunchVm(s) ==
    /\ At(s, "launch")
    /\ \/ vms' = vms \cup {sandbox[s].run} /\ Goes(s, "launched", sandbox[s].run, NoRun)
       \/ Goes(s, "idle", NoRun, NoRun) /\ UNCHANGED vms
    /\ UNCHANGED <<dirs, pool, used>>

(* The guest does not connect, or its first snapshot fails: the instance is    *)
(* dropped with its virtual machine                                            *)
ConnectFails(s) ==
    /\ At(s, "launched")
    /\ vms' = vms \ {sandbox[s].run}
    /\ Goes(s, "idle", NoRun, NoRun)
    /\ UNCHANGED <<dirs, pool, used>>

(* The guest answers, and the sandbox is registered *)
Insert(s) ==
    /\ At(s, "launched")
    /\ Goes(s, "active", sandbox[s].run, NoRun)
    /\ UNCHANGED <<dirs, pool, used, vms>>

(* destroy_sandbox: remove_active lets one request through ... *)
Destroy(s) ==
    /\ At(s, "active")
    /\ Goes(s, "shutdown", sandbox[s].run, NoRun)
    /\ UNCHANGED <<dirs, pool, used, vms>>

(* Mutant: the run is offered before the virtual machine is gone. *)
ShutdownLater(s) ==
    /\ At(s, "shutdown")
    /\ Goes(s, "store", sandbox[s].run, NoRun)
    /\ UNCHANGED <<dirs, pool, used, vms>>

(* ... and the virtual machine ends before its run is offered; an error of the *)
(* shutdown leaves the run to nobody                                           *)
ShutdownVm(s) ==
    /\ At(s, "shutdown")
    /\ vms' = vms \ {sandbox[s].run}
    /\ \/ Goes(s, "store", sandbox[s].run, NoRun)
       \/ Goes(s, "idle", NoRun, NoRun)
    /\ UNCHANGED <<dirs, pool, used>>

(* store_warm_run: the oldest ones beyond the size are forgotten *)
StoreWarmRun(s) ==
    LET longer == Append(pool, sandbox[s].run) IN
    /\ At(s, "store")
    /\ pool' = SubSeq(longer, IF Len(longer) > PoolSize THEN Len(longer) - PoolSize + 1 ELSE 1,
                      Len(longer))
    /\ Goes(s, "idle", NoRun, NoRun)
    /\ UNCHANGED <<dirs, used, vms>>

(* Somebody deletes the directory of a run that has ended *)
SomebodyDeletes(i) ==
    /\ i \in dirs /\ \A s \in Starts : sandbox[s].run # i
    /\ dirs' = dirs \ {i}
    /\ UNCHANGED <<pool, used, sandbox, vms>>

RunsNext ==
    \/ \E s \in Starts :
          \/ TakeWarmRun(s) \/ PrepareRun(s) \/ RecycleRun(s) \/ LaunchVm(s) \/ ConnectFails(s)
          \/ Insert(s) \/ Destroy(s) \/ ShutdownVm(s) \/ StoreWarmRun(s)
    \/ \E i \in Ids : SomebodyDeletes(i)
-----------------------------------------------------------------------------
(* Properties *)

(* A virtual machine works in a directory of its own that is there: whatever   *)
(* starts and destroys overlap, no sandbox is given the directory of a machine *)
(* that still runs, no two are given one warm directory, and the pool offers   *)
(* every directory once and no more of them than it may                        *)
(* (create_sandbox_inner, destroy_sandbox_inner).                              *)
RunsAreApart ==
    /\ vms \subseteq dirs
    /\ \A s, t \in Starts : s # t =>
        /\ sandbox[s].run = sandbox[t].run => sandbox[s].run = NoRun
        /\ sandbox[s].warm = sandbox[t].warm => sandbox[s].warm = NoRun
    /\ \A k \in DOMAIN pool :
        /\ pool[k] \notin vms
        /\ \A s \in Starts : pool[k] \notin {sandbox[s].run, sandbox[s].warm}
        /\ \A l \in DOMAIN pool : pool[l] = pool[k] => l = k
    /\ Len(pool) <= PoolSize
=============================================================================
