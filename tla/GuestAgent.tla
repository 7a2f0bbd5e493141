---------------------------- MODULE GuestAgent ----------------------------
(***************************************************************************)
(* The agent inside a BOX (guest-agent/src/guest_agent/linux_server.rs and *)
(* linux_exec.rs): one loop reads the requests of the host in order, and   *)
(* every exec and shell has tasks of its own that wait for its process and *)
(* forward its output. They share two kinds of lock: the map of shells,    *)
(* and one lock per child process. The host's exec gate                    *)
(* (src/runtime/registry.rs) is included: it decides when an exec is sent. *)
(***************************************************************************)
EXTENDS Naturals, FiniteSets

CONSTANTS
  Shells, Execs,   \* session ids and exec ids the host will use
  Timed,           \* the execs that carry a timeout_ms
  MaxOutput,       \* bound: chunks of output per process
  None

ASSUME IdsAssumption == Shells \cap Execs = {} /\ Timed \subseteq Execs
ASSUME NoneAssumption == None \notin Shells \cup Execs \cup {"shell_exit"}
ASSUME OutputAssumption == MaxOutput \in Nat

Procs == Shells \cup Execs

VARIABLES
  loop,      \* the request loop: what it does, and for which shell
  shells,    \* the map of open shells
  mapLock,   \* whether the loop holds the lock of that map
  proc,      \* proc[p]: none, running, exited (not waited for) or reaped
  childLock, \* childLock[s]: whether the task of shell s holds the child's lock
  task,      \* task[p]: where the task that waits for p is
  pipe,      \* pipe[p]: output written, output forwarded, held by a descendant
  exit,      \* exit[p]: the terminal event sent for p
  gate       \* the host's exec_gate: the exec that holds the permit

vars == <<loop, shells, mapLock, proc, childLock, task, pipe, exit, gate>>

Idle == [pc |-> "read", of |-> None, left |-> {}, stop |-> FALSE]

Init ==
  /\ loop = Idle
  /\ shells = {}
  /\ mapLock = FALSE
  /\ proc = [p \in Procs |-> "none"]
  /\ childLock = [s \in Shells |-> FALSE]
  /\ task = [p \in Procs |-> "none"]
  /\ pipe = [p \in Procs |-> [written |-> 0, sent |-> 0, held |-> FALSE]]
  /\ exit = [p \in Procs |-> None]
  /\ gate = None

-----------------------------------------------------------------------------
(* Processes of the guest, not code of the agent *)

ProcessWrites(p) ==
  /\ proc[p] = "running"
  /\ pipe[p].written < MaxOutput
  /\ pipe' = [pipe EXCEPT ![p].written = @ + 1]
  /\ UNCHANGED <<loop, shells, mapLock, proc, childLock, task, exit, gate>>

ProcessExits(p) ==
  /\ proc[p] = "running"
  /\ proc' = [proc EXCEPT ![p] = "exited"]
  /\ UNCHANGED <<loop, shells, mapLock, childLock, pipe, task, exit, gate>>

\* A descendant that leaves the process group keeps the output open ...
ProcessForks(p) ==
  /\ proc[p] = "running" /\ ~pipe[p].held
  /\ pipe' = [pipe EXCEPT ![p].held = TRUE]
  /\ UNCHANGED <<loop, shells, mapLock, proc, childLock, task, exit, gate>>

\* ... until it exits
DescendantExits(p) ==
  /\ pipe[p].held
  /\ pipe' = [pipe EXCEPT ![p].held = FALSE]
  /\ UNCHANGED <<loop, shells, mapLock, proc, childLock, task, exit, gate>>

\* kill(-pid, SIGTERM): the process may obey or ignore it
Terminated(p) ==
  IF proc[p] = "running" THEN {[proc EXCEPT ![p] = "exited"], proc} ELSE {proc}
\* SIGKILL cannot be ignored
Killed(p) == IF proc[p] = "running" THEN [proc EXCEPT ![p] = "exited"] ELSE proc
-----------------------------------------------------------------------------
(* Exec: the host's gate, the spawn, and the task of the exec *)

\* exec_inner takes the permit or refuses; the loop spawns the command
Exec(e) ==
  /\ loop.pc = "read"
  /\ proc[e] = "none" /\ exit[e] = None
  /\ gate = None
  /\ gate' = e
  /\ proc' = [proc EXCEPT ![e] = "running"]
  /\ task' = [task EXCEPT ![e] = "wait"]
  /\ UNCHANGED <<loop, shells, mapLock, childLock, pipe, exit>>

\* spawn fails: an error event, which route_error turns into the end of the exec
ExecFails(e) ==
  /\ loop.pc = "read"
  /\ proc[e] = "none" /\ exit[e] = None
  /\ gate = None
  /\ exit' = [exit EXCEPT ![e] = "error"]
  /\ UNCHANGED <<loop, shells, mapLock, proc, childLock, task, pipe, gate>>

\* spawn_exec_stream drops the CommandStream, and with it the permit: after the
\* exit event, or when an output event cannot be sent to a client that is gone
HostDropsStream(e) ==
  /\ gate = e
  /\ exit[e] # None \/ pipe[e].sent > 0
  /\ gate' = None
  /\ UNCHANGED <<loop, shells, mapLock, proc, childLock, task, pipe, exit>>

\* wait_exec_status: the process ended in time ...
ExecEnds(e) ==
  /\ task[e] \in {"wait", "grace"}
  /\ proc[e] = "exited"
  /\ proc' = [proc EXCEPT ![e] = "reaped"]
  /\ task' = [task EXCEPT ![e] = IF task[e] = "wait" THEN "join" ELSE "join_timeout"]
  /\ UNCHANGED <<loop, shells, mapLock, childLock, pipe, exit, gate>>

\* ... or timeout_ms passed: SIGTERM, and kill_grace_ms begins ...
ExecTimesOut(e) ==
  /\ e \in Timed
  /\ task[e] = "wait"
  /\ proc' \in Terminated(e)
  /\ task' = [task EXCEPT ![e] = "grace"]
  /\ UNCHANGED <<loop, shells, mapLock, childLock, pipe, exit, gate>>

\* Mutant: after the grace the task no longer waits, but nothing is killed.
GivesUp(e) ==
  /\ task[e] = "grace"
  /\ task' = [task EXCEPT ![e] = "join_killed"]
  /\ UNCHANGED <<loop, shells, mapLock, proc, childLock, pipe, exit, gate>>

\* ... or that passed too: force_kill, and the child is waited for
ExecIsKilled(e) ==
  /\ task[e] = "grace"
  /\ proc' = [Killed(e) EXCEPT ![e] = "reaped"]
  /\ task' = [task EXCEPT ![e] = "join_killed"]
  /\ UNCHANGED <<loop, shells, mapLock, childLock, pipe, exit, gate>>

Eof(p) ==
  proc[p] \in {"exited", "reaped"} /\ ~pipe[p].held /\ pipe[p].sent = pipe[p].written

\* Mutant: ExecExit is sent without awaiting the output tasks.
ReportWithoutJoin(e) ==
  /\ task[e] \in {"join", "join_timeout", "join_killed"}
  /\ task' = [task EXCEPT ![e] = "done"]
  /\ exit' = [exit EXCEPT ![e] = task[e]]
  /\ UNCHANGED <<loop, shells, mapLock, proc, childLock, pipe, gate>>

\* both output tasks are awaited, then ExecExit is sent
ExecReports(e) ==
  /\ task[e] \in {"join", "join_timeout", "join_killed"}
  /\ Eof(e)
  /\ task' = [task EXCEPT ![e] = "done"]
  /\ exit' = [exit EXCEPT ![e] = task[e]]
  /\ UNCHANGED <<loop, shells, mapLock, proc, childLock, pipe, gate>>

\* stream_exec and stream_shell_output
Forward(p) ==
  /\ pipe[p].sent < pipe[p].written
  /\ pipe' = [pipe EXCEPT ![p].sent = @ + 1]
  /\ UNCHANGED <<loop, shells, mapLock, proc, childLock, task, exit, gate>>
-----------------------------------------------------------------------------
(* Shells: opening, and the task that waits for the child *)

OpenShell(s) ==
  /\ loop.pc = "read" /\ ~mapLock
  /\ proc[s] = "none" /\ exit[s] = None
  /\ proc' = [proc EXCEPT ![s] = "running"]
  /\ shells' = shells \cup {s}
  /\ task' = [task EXCEPT ![s] = "start"]
  /\ UNCHANGED <<loop, mapLock, childLock, pipe, exit, gate>>

OpenShellFails(s) ==
  /\ loop.pc = "read"
  /\ proc[s] = "none" /\ exit[s] = None
  /\ exit' = [exit EXCEPT ![s] = "error"]
  /\ UNCHANGED <<loop, shells, mapLock, proc, childLock, task, pipe, gate>>

\* wait_child: child.lock().await.wait().await keeps the lock until the exit
WaiterLocks(s) ==
  /\ task[s] = "start"
  /\ ~childLock[s]
  /\ childLock' = [childLock EXCEPT ![s] = TRUE]
  /\ task' = [task EXCEPT ![s] = "wait"]
  /\ UNCHANGED <<loop, shells, mapLock, proc, pipe, exit, gate>>

\* Mutant: the child's lock is kept until the shell is unmapped.
ReapsKeepingLock(s) ==
  /\ task[s] = "wait" /\ s \in Shells
  /\ proc[s] \in {"exited", "reaped"}
  /\ proc' = [proc EXCEPT ![s] = "reaped"]
  /\ task' = [task EXCEPT ![s] = "unmap"]
  /\ UNCHANGED <<loop, shells, mapLock, childLock, pipe, exit, gate>>

WaiterReaps(s) ==
  /\ task[s] = "wait" /\ s \in Shells
  /\ proc[s] \in {"exited", "reaped"}
  /\ proc' = [proc EXCEPT ![s] = "reaped"]
  /\ childLock' = [childLock EXCEPT ![s] = FALSE]
  /\ task' = [task EXCEPT ![s] = "unmap"]
  /\ UNCHANGED <<loop, shells, mapLock, pipe, exit, gate>>

WaiterUnmaps(s) ==
  /\ task[s] = "unmap"
  /\ ~mapLock
  /\ shells' = shells \ {s}
  /\ task' = [task EXCEPT ![s] = "report"]
  /\ UNCHANGED <<loop, mapLock, proc, childLock, pipe, exit, gate>>

WaiterReports(s) ==
  /\ task[s] = "report"
  /\ exit' = [exit EXCEPT ![s] = "shell_exit"]
  /\ task' = [task EXCEPT ![s] = "done"]
  /\ UNCHANGED <<loop, shells, mapLock, proc, childLock, pipe, gate>>
-----------------------------------------------------------------------------
(* CloseShell and Shutdown: the loop itself terminates the child *)

\* The guard of shells.lock() lives to the end of the match.
CloseShell(s) ==
  /\ loop.pc = "read" /\ ~mapLock
  /\ s \in shells
  /\ mapLock' = TRUE
  /\ shells' = shells \ {s}
  /\ loop' = [Idle EXCEPT !.pc = "term", !.of = s]
  /\ UNCHANGED <<proc, childLock, task, pipe, exit, gate>>

\* Shutdown drains the map, closing one shell after another
Shutdown ==
  /\ loop.pc = "read" /\ ~mapLock
  /\ mapLock' = TRUE
  /\ shells' = {}
  /\ loop' = [Idle EXCEPT !.pc = "next", !.left = shells, !.stop = TRUE]
  /\ UNCHANGED <<proc, childLock, task, pipe, exit, gate>>

\* Mutant: Shutdown closes the first shell only.
ShutdownClosesOne ==
  /\ loop.pc = "next"
  /\ \/ \E s \in loop.left :
          loop' = [loop EXCEPT !.pc = "term", !.of = s, !.left = {}]
     \/ loop.left = {} /\ loop' = [Idle EXCEPT !.pc = "ended"]
  /\ mapLock' = (loop'.pc # "ended")
  /\ UNCHANGED <<shells, proc, childLock, task, pipe, exit, gate>>

ShutdownNext ==
  /\ loop.pc = "next"
  /\ \/ \E s \in loop.left :
          loop' = [loop EXCEPT !.pc = "term", !.of = s, !.left = @ \ {s}]
     \/ loop.left = {} /\ loop' = [Idle EXCEPT !.pc = "ended"]
  /\ mapLock' = (loop'.pc # "ended")
  /\ UNCHANGED <<shells, proc, childLock, task, pipe, exit, gate>>

\* terminate_child: SIGTERM under the child's lock ...
TermChild(s) ==
  /\ loop.pc = "term" /\ loop.of = s
  /\ ~childLock[s]
  /\ proc' \in Terminated(s)
  /\ loop' = [loop EXCEPT !.pc = "await"]
  /\ UNCHANGED <<shells, mapLock, childLock, task, pipe, exit, gate>>

\* ... at most 250 ms for the exit, waiting for the lock included ...
AwaitChild(s) ==
  /\ loop.pc = "await" /\ loop.of = s
  /\ proc' = IF ~childLock[s] /\ proc[s] = "exited"
             THEN [proc EXCEPT ![s] = "reaped"] ELSE proc
  /\ loop' = [loop EXCEPT !.pc = "kill"]
  /\ UNCHANGED <<shells, mapLock, childLock, task, pipe, exit, gate>>

\* ... force_kill, under the lock again; the request is answered
KillChild(s) ==
  /\ loop.pc = "kill" /\ loop.of = s
  /\ ~childLock[s]
  /\ proc' = [Killed(s) EXCEPT ![s] = "reaped"]
  /\ loop' = IF loop.stop THEN [loop EXCEPT !.pc = "next", !.of = None] ELSE Idle
  /\ mapLock' = loop.stop
  /\ UNCHANGED <<shells, childLock, task, pipe, exit, gate>>

\* write_shell_input fails on the pty of a shell that is gone; the ? ends the agent
ShellInputFails(s) ==
  /\ loop.pc = "read" /\ ~mapLock
  /\ s \in shells
  /\ proc[s] # "running" /\ ~pipe[s].held
  /\ loop' = [Idle EXCEPT !.pc = "failed"]
  /\ UNCHANGED <<shells, mapLock, proc, childLock, task, pipe, exit, gate>>

-----------------------------------------------------------------------------
Up == loop.pc \notin {"ended", "failed"}

ShellTask(s) ==
  WaiterLocks(s) \/ WaiterReaps(s) \/ WaiterUnmaps(s) \/ WaiterReports(s)
ExecTask(e) ==
  ExecEnds(e) \/ ExecTimesOut(e) \/ ExecIsKilled(e) \/ ExecReports(e)
LoopStep ==
  \/ ShutdownNext
  \/ \E s \in Shells : TermChild(s) \/ AwaitChild(s) \/ KillChild(s)

Next ==
  /\ Up
  /\ \/ \E p \in Procs :
          \/ ProcessWrites(p) \/ ProcessExits(p) \/ ProcessForks(p)
          \/ DescendantExits(p) \/ Forward(p)
     \/ \E e \in Execs : Exec(e) \/ ExecFails(e) \/ HostDropsStream(e) \/ ExecTask(e)
     \/ \E s \in Shells :
          \/ OpenShell(s) \/ OpenShellFails(s) \/ ShellInputFails(s)
          \/ CloseShell(s) \/ ShellTask(s)
     \/ Shutdown
     \/ LoopStep

Spec == Init /\ [][Next]_vars

\* The runtime polls every task that can go on, and the timers fire.
Fairness ==
  /\ WF_vars(Up /\ LoopStep)
  /\ \A p \in Procs : WF_vars(Up /\ Forward(p))
  /\ \A e \in Execs : WF_vars(Up /\ ExecTask(e))
  /\ \A s \in Shells : WF_vars(Up /\ ShellTask(s))

\* The shells' programs end by themselves, as a shell without a user does not.
ShellsEnd == \A s \in Shells : WF_vars(Up /\ ProcessExits(s))

-----------------------------------------------------------------------------
(* Properties *)

\* When ExecExit is sent, the process is gone and every chunk it wrote has been
\* sent before: spawn_exec joins the output tasks first, on every exit path.
ExecExitIsLast ==
  \A e \in Execs : task[e] = "done" =>
    proc[e] = "reaped" /\ pipe[e].sent = pipe[e].written

\* A shell process that runs can be reached: it is in the map, or the loop is
\* closing it, so a Shutdown that is answered leaves no shell running. One whose
\* exit was reported is not in the map: input that comes after ShellExit is
\* answered "unknown shell session" and never reaches a dead pty.
ShellsAccounted ==
  \A s \in Shells :
    /\ proc[s] = "running" =>
         /\ s \in shells \cup loop.left \/ (s = loop.of /\ loop.pc \in {"term", "await", "kill"})
         /\ loop.pc # "ended"
    /\ exit[s] = "shell_exit" => proc[s] = "reaped" /\ s \notin shells

\* An exec with a timeout is reported, whatever its process does with SIGTERM,
\* unless a descendant keeps its output open (or the agent ends).
TimedExecEnds ==
  \A e \in Timed : (task[e] = "wait") ~> (task[e] = "done" \/ pipe[e].held \/ ~Up)

\* The loop returns to reading requests: the lock of the map and the locks of
\* the children are never waited for in a circle by CloseShell and the tasks.
LoopReturns == [](loop.pc # "read" => <>(loop.pc \in {"read", "ended", "failed"}))

\* What the Python API calls "a hard deadline": an exec with a timeout is
\* reported, and its stream on the host ends.
HardDeadline ==
  \A e \in Timed : (task[e] = "wait") ~> (task[e] = "done" \/ ~Up)

\* What exec_inner and its error message promise: a BOX runs one exec at a time.
OneExecAtATime ==
  Cardinality({e \in Execs : proc[e] = "running"}) <= 1

\* What the shell example and test rely on: by the time the exit of a shell is
\* reported, its output has been.
ShellOutputFirst ==
  \A s \in Shells : exit[s] = "shell_exit" => pipe[s].sent = pipe[s].written
=============================================================================
