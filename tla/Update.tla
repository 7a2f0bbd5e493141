------------------------------- MODULE Update -------------------------------
(***************************************************************************)
(* sagens update (src/sagens/update.rs): the running binary asks for the   *)
(* latest release, compares digests, downloads, verifies, writes the new   *)
(* binary beside the installed one, runs it once and renames it into       *)
(* place.  Several updaters may run at once, each may be killed at any     *)
(* point, and the host may lose power; releases are published meanwhile.   *)
(***************************************************************************)
EXTENDS Naturals, FiniteSets

CONSTANTS
    Updaters, Pids,
    MaxRelease,   \* releases published
    Broken,       \* releases whose binary does not run
    Attempts,     \* staging names tried: 32 in the code
    Nothing

ASSUME FirstAssumption == 1 \notin Broken
ASSUME NothingAssumption == Nothing \notin Pids \cup (Pids \X Attempts)

VARIABLES
    latest,      \* the latest release
    installed,   \* the file at the path of the executable
    files,       \* staging name |-> file, for the staging names that exist
    updater      \* what each updater is doing

updateVars == <<latest, installed, files, updater>>

(* A file: the release it is a binary of, and whether it is complete, on disk *)
(* (synced) and executable.                                                   *)
Binary(release, whole) ==
    [release |-> release, whole |-> whole, synced |-> FALSE, runnable |-> FALSE]
hash_file(file) == <<file.release, file.whole>>
StagingNames == Pids \X Attempts

Off == [pc |-> "off", pid |-> Nothing, runs |-> Nothing, release |-> Nothing,
        payload |-> Nothing, path |-> Nothing]

UpdateInit ==
    /\ latest = 1
    /\ installed = [Binary(1, TRUE) EXCEPT !.synced = TRUE, !.runnable = TRUE]
    /\ files = [n \in {} |-> installed]
    /\ updater = [u \in Updaters |-> Off]

Goes(u, pc) == updater' = [updater EXCEPT ![u].pc = pc]
Fails(u) == updater' = [updater EXCEPT ![u] = [Off EXCEPT !.pc = "failed"]]
At(u, pc) == updater[u].pc = pc

Publish == latest < MaxRelease /\ latest' = latest + 1 /\ UNCHANGED <<installed, files, updater>>

(* The process starts from the installed file, with a process id of its own *)
Launched(u, pid) ==
    /\ At(u, "off")
    /\ \A v \in Updaters : updater[v].pid # pid
    /\ updater' = [updater EXCEPT ![u] = [Off EXCEPT !.pc = "locate", !.pid = pid,
                                                     !.runs = installed]]
    /\ UNCHANGED <<latest, installed, files>>

(* current_exe names the file the process runs; once that was replaced, the *)
(* name no longer exists and hashing it fails.                               *)
Locate(u) ==
    /\ At(u, "locate")
    /\ IF updater[u].runs = installed THEN Goes(u, "release") ELSE Fails(u)
    /\ UNCHANGED <<latest, installed, files>>

(* Metadata, the two assets and the checksum manifest; requests may fail    *)
fetch_latest_release(u) ==
    /\ At(u, "release")
    /\ \/ updater' = [updater EXCEPT ![u].pc = "compare", ![u].release = latest]
       \/ Fails(u)
    /\ UNCHANGED <<latest, installed, files>>

Compare(u) ==
    /\ At(u, "compare")
    /\ Goes(u, IF hash_file(installed) = <<updater[u].release, TRUE>> THEN "current" ELSE "fetch")
    /\ UNCHANGED <<latest, installed, files>>

(* Mutant: any download is taken. *)
verify_nothing(payload, expected) == TRUE
verify_bytes_sha256(payload, expected) == hash_file(payload) = expected

(* The payload arrives as published, damaged, or not at all *)
fetch_bytes(u) ==
    /\ At(u, "fetch")
    /\ \/ \E whole \in BOOLEAN :
             LET payload == Binary(updater[u].release, whole) IN
             IF verify_bytes_sha256(payload, <<updater[u].release, TRUE>>)
             THEN updater' = [updater EXCEPT ![u].pc = "allocate", ![u].payload = payload]
             ELSE Fails(u)
       \/ Fails(u)
    /\ UNCHANGED <<latest, installed, files>>

allocate_staged_path(u) ==
    /\ At(u, "allocate")
    /\ LET free == {a \in Attempts : <<updater[u].pid, a>> \notin DOMAIN files} IN
       IF free = {} THEN Fails(u)
       ELSE \E a \in free :
               /\ \A b \in free : a <= b
               /\ updater' = [updater EXCEPT ![u].pc = "write", ![u].path = <<updater[u].pid, a>>]
    /\ UNCHANGED <<latest, installed, files>>

Store(n, file) == [m \in DOMAIN files \cup {n} |-> IF m = n THEN file ELSE files[m]]
Without(n) == [m \in DOMAIN files \ {n} |-> files[m]]

(* create_new and write_all: the file may not be created at all, and a full  *)
(* disk leaves a part of it behind                                           *)
write_staged_binary(u) ==
    /\ At(u, "write")
    /\ \/ Fails(u) /\ UNCHANGED files
       \/ /\ updater[u].path \notin DOMAIN files
          /\ \/ files' = Store(updater[u].path, updater[u].payload) /\ Goes(u, "sync")
             \/ files' = Store(updater[u].path, [updater[u].payload EXCEPT !.whole = FALSE])
                /\ Fails(u)
    /\ UNCHANGED <<latest, installed>>

SyncStaged(u) ==
    /\ At(u, "sync")
    /\ \/ /\ files' = [files EXCEPT ![updater[u].path].synced = TRUE]
          /\ Goes(u, "permissions")
       \/ Fails(u) /\ UNCHANGED files
    /\ UNCHANGED <<latest, installed>>

apply_binary_permissions(u) ==
    /\ At(u, "permissions")
    /\ files' = [files EXCEPT ![updater[u].path].runnable = TRUE]
    /\ Goes(u, "smoke test")
    /\ UNCHANGED <<latest, installed>>

(* A file that is not whole may still print its help *)
smoke_test_binary(u) ==
    /\ At(u, "smoke test")
    /\ LET file == files[updater[u].path] IN
       \/ /\ file.runnable /\ file.release \notin Broken
          /\ Goes(u, "replace") /\ UNCHANGED files
       \/ /\ ~file.runnable \/ file.release \in Broken \/ ~file.whole
          /\ files' = Without(updater[u].path) /\ Fails(u)
    /\ UNCHANGED <<latest, installed>>

replace_binary(u) ==
    /\ At(u, "replace")
    /\ \/ installed' = files[updater[u].path] /\ Goes(u, "updated")
       \/ Fails(u) /\ UNCHANGED installed
    /\ files' = Without(updater[u].path)
    /\ UNCHANGED latest

(* Killed; while writing, a part of the file may be there *)
Killed(u) ==
    /\ updater[u].pc \notin {"off", "failed", "updated", "current"}
    /\ updater' = [updater EXCEPT ![u] = Off]
    /\ \/ UNCHANGED files
       \/ /\ At(u, "write") /\ updater[u].path \notin DOMAIN files
          /\ files' = Store(updater[u].path, [updater[u].payload EXCEPT !.whole = FALSE])
    /\ UNCHANGED <<latest, installed>>

(* Power is lost: what was not synced is torn *)
TornFile(file) == IF file.synced THEN file ELSE [file EXCEPT !.whole = FALSE]
PowerLoss ==
    /\ \E u \in Updaters : updater[u].pc # "off"
    /\ installed' = TornFile(installed)
    /\ files' = [n \in DOMAIN files |-> TornFile(files[n])]
    /\ updater' = [u \in Updaters |-> Off]
    /\ UNCHANGED latest

Ended(u) ==
    /\ updater[u].pc \in {"failed", "updated", "current"}
    /\ updater' = [updater EXCEPT ![u] = Off]
    /\ UNCHANGED <<latest, installed, files>>

UpdateNext ==
    \/ Publish \/ PowerLoss
    \/ \E u \in Updaters :
        \/ \E pid \in Pids : Launched(u, pid)
        \/ Locate(u) \/ fetch_latest_release(u) \/ Compare(u) \/ fetch_bytes(u)
        \/ allocate_staged_path(u) \/ write_staged_binary(u) \/ SyncStaged(u)
        \/ apply_binary_permissions(u) \/ smoke_test_binary(u) \/ replace_binary(u)
        \/ Killed(u) \/ Ended(u)

UpdateSpec == UpdateInit /\ [][UpdateNext]_updateVars
-----------------------------------------------------------------------------
(* Properties *)

(* The installed binary is at all times one that runs: complete, durable,   *)
(* executable, the binary of a release that passed its smoke test.  No      *)
(* failed download, kill, power loss or second updater leaves another.      *)
InstalledAlwaysRuns ==
    /\ installed.whole /\ installed.synced /\ installed.runnable
    /\ installed.release \notin Broken

(* What an updater tests and installs is what it downloaded and verified:   *)
(* no staging file is shared with another updater or taken over from one    *)
(* that was killed.                                                          *)
InstallsItsOwn ==
    \A u \in Updaters : updater[u].pc \in {"sync", "permissions", "smoke test", "replace"} =>
        /\ updater[u].path \in DOMAIN files
        /\ hash_file(files[updater[u].path]) = hash_file(updater[u].payload)
        /\ \A v \in Updaters \ {u} : updater[v].path # updater[u].path

(* Updaters that overlap, fail, are killed or lose power do no harm.         *)
UpdateIsSafe == InstalledAlwaysRuns /\ InstallsItsOwn
=============================================================================
