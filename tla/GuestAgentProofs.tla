-------------------------- MODULE GuestAgentProofs --------------------------
(***************************************************************************)
(* The guest agent, for any number of shells and execs and any amount of   *)
(* output: what it has sent when it reports the end of an exec, which      *)
(* shells it can still reach, and who waits for whose lock.                *)
(***************************************************************************)
EXTENDS GuestAgent, TLAPS

USE IdsAssumption, NoneAssumption

LoopPcs == {"read", "next", "term", "await", "kill", "ended", "failed"}
Loop == [pc : LoopPcs, of : Shells \cup {None}, left : SUBSET Shells, stop : BOOLEAN]
Pipe == [written : Nat, sent : Nat, held : BOOLEAN]
Joining == {"join", "join_timeout", "join_killed"}
Tasks == {"none", "start", "wait", "grace", "unmap", "report", "done"} \cup Joining

Typed ==
  /\ loop \in Loop
  /\ shells \subseteq Shells
  /\ proc \in [Procs -> {"none", "running", "exited", "reaped"}]
  /\ childLock \in [Shells -> BOOLEAN]
  /\ task \in [Procs -> Tasks]
  /\ pipe \in [Procs -> Pipe]
  /\ DOMAIN exit = Procs

----------------------------------------------------------------------------
(* Types. *)

LEMMA IdleTyped ==
  /\ Idle \in Loop
  /\ Idle.pc = "read" /\ Idle.of = None /\ Idle.left = {} /\ Idle.stop = FALSE
<1>1. Idle \in Loop
  BY Zenon DEF Idle, Loop, LoopPcs
<1> QED BY <1>1 DEF Idle

\* The states of the loop that its steps make.
LEMMA LoopTyped ==
  ASSUME NEW q \in Loop, NEW c \in LoopPcs, NEW o \in Shells \cup {None}, NEW l \in SUBSET Shells
  PROVE  /\ [q EXCEPT !.pc = c] \in Loop
         /\ [q EXCEPT !.pc = c, !.of = o] \in Loop
         /\ [q EXCEPT !.pc = c, !.of = o, !.left = l] \in Loop
         /\ [q EXCEPT !.pc = c, !.left = l, !.stop = TRUE] \in Loop
BY Zenon DEF Loop

LEMMA PipeTyped ==
  ASSUME NEW p \in Pipe, NEW n \in Nat, NEW h \in BOOLEAN
  PROVE  /\ [p EXCEPT !.written = n] \in Pipe
         /\ [p EXCEPT !.sent = n] \in Pipe
         /\ [p EXCEPT !.held = h] \in Pipe
BY Zenon DEF Pipe

LEMMA TypedInit == Init => Typed
<1> SUFFICES ASSUME Init PROVE Typed
  OBVIOUS
<1>1. pipe \in [Procs -> Pipe]
  <2>1. [written |-> 0, sent |-> 0, held |-> FALSE] \in Pipe
    BY DEF Pipe
  <2> QED BY <2>1 DEF Init
<1> QED BY <1>1, IdleTyped DEF Init, Typed, Tasks

LEMMA TypedStep == ASSUME Typed, Next PROVE Typed'
<1>0. /\ loop \in Loop /\ shells \subseteq Shells
      /\ proc \in [Procs -> {"none", "running", "exited", "reaped"}]
      /\ childLock \in [Shells -> BOOLEAN]
      /\ task \in [Procs -> Tasks]
      /\ pipe \in [Procs -> Pipe]
      /\ DOMAIN exit = Procs
  BY DEF Typed
<1>1. ASSUME NEW p \in Procs, \/ ProcessWrites(p) \/ ProcessExits(p) \/ ProcessForks(p)
                              \/ DescendantExits(p) \/ Forward(p)
      PROVE  Typed'
  <2>1. pipe[p] \in Pipe /\ pipe[p].written + 1 \in Nat /\ pipe[p].sent + 1 \in Nat
    BY <1>0 DEF Pipe
  <2>2. CASE ProcessExits(p)
    BY <1>0, <2>2 DEF ProcessExits, Typed
  <2>3. CASE ~ProcessExits(p)
    <3>1. PICK q \in Pipe : pipe' = [pipe EXCEPT ![p] = q]
      BY Zenon, <1>1, <2>1, <2>3, PipeTyped
         DEF ProcessWrites, ProcessForks, DescendantExits, Forward
    <3>2. UNCHANGED <<loop, shells, proc, childLock, task, exit>>
      BY <1>1, <2>3 DEF ProcessWrites, ProcessForks, DescendantExits, Forward
    <3> QED BY <1>0, <3>1, <3>2 DEF Typed
  <2> QED BY <2>2, <2>3
<1>2. ASSUME NEW e \in Execs, Exec(e) \/ ExecFails(e) \/ HostDropsStream(e) \/ ExecTask(e)
      PROVE  Typed'
  <2>0. e \in Procs
    BY DEF Procs
  <2>1. CASE Exec(e) \/ ExecFails(e) \/ HostDropsStream(e)
    BY <1>0, <2>0, <2>1 DEF Exec, ExecFails, HostDropsStream, Tasks, Typed
  <2>2. CASE ExecEnds(e) \/ ExecReports(e)
    BY <1>0, <2>0, <2>2 DEF ExecEnds, ExecReports, Tasks, Joining, Typed
  <2>3. CASE ExecTimesOut(e) \/ ExecIsKilled(e)
    BY <1>0, <2>0, <2>3 DEF ExecTimesOut, ExecIsKilled, Terminated, Killed, Tasks, Joining, Typed
  <2> QED BY <1>2, <2>1, <2>2, <2>3 DEF ExecTask
<1>3. ASSUME NEW s \in Shells,
             \/ OpenShell(s) \/ OpenShellFails(s) \/ ShellInputFails(s) \/ CloseShell(s)
             \/ ShellTask(s)
      PROVE  Typed'
  <2>0. s \in Procs
    BY DEF Procs
  <2>1. CASE OpenShell(s) \/ OpenShellFails(s)
    BY <1>0, <2>0, <2>1 DEF OpenShell, OpenShellFails, Tasks, Typed
  <2>2. CASE ShellInputFails(s) \/ CloseShell(s)
    <3>1. [Idle EXCEPT !.pc = "failed"] \in Loop /\ [Idle EXCEPT !.pc = "term", !.of = s] \in Loop
      BY Zenon, IdleTyped, LoopTyped DEF LoopPcs
    <3>2. loop' \in Loop
      BY <2>2, <3>1 DEF ShellInputFails, CloseShell
    <3> QED BY <1>0, <2>2, <3>2 DEF ShellInputFails, CloseShell, Typed
  <2>3. CASE WaiterLocks(s) \/ WaiterReaps(s) \/ WaiterUnmaps(s) \/ WaiterReports(s)
    BY ZenonT(60), <1>0, <2>0, <2>3
       DEF WaiterLocks, WaiterReaps, WaiterUnmaps, WaiterReports, Tasks, Typed
  <2> QED BY <1>3, <2>1, <2>2, <2>3 DEF ShellTask
<1>4. CASE Shutdown
  <2>1. [Idle EXCEPT !.pc = "next", !.left = shells, !.stop = TRUE] \in Loop
    BY Zenon, <1>0, IdleTyped, LoopTyped DEF LoopPcs
  <2>2. loop' \in Loop
    BY <1>4, <2>1 DEF Shutdown
  <2> QED BY <1>0, <1>4, <2>2 DEF Shutdown, Typed
<1>5. CASE ShutdownNext
  <2>1. loop.left \subseteq Shells
    BY <1>0 DEF Loop
  <2>2. ASSUME NEW s \in loop.left
        PROVE  [loop EXCEPT !.pc = "term", !.of = s, !.left = loop.left \ {s}] \in Loop
    <3>1. loop.left \ {s} \in SUBSET Shells /\ s \in Shells \cup {None} /\ "term" \in LoopPcs
      BY <2>1 DEF LoopPcs
    <3> QED BY Zenon, <1>0, <3>1, LoopTyped
  <2>3. [Idle EXCEPT !.pc = "ended"] \in Loop
    BY Zenon, IdleTyped, LoopTyped DEF LoopPcs
  <2>4. loop' \in Loop
    BY Zenon, <1>5, <2>2, <2>3 DEF ShutdownNext
  <2> QED BY Zenon, <1>0, <1>5, <2>4 DEF ShutdownNext, Typed
<1>6. ASSUME NEW s \in Shells, TermChild(s) \/ AwaitChild(s) \/ KillChild(s) PROVE Typed'
  <2>0. /\ [loop EXCEPT !.pc = "await"] \in Loop /\ [loop EXCEPT !.pc = "kill"] \in Loop
        /\ [loop EXCEPT !.pc = "next", !.of = None] \in Loop
    BY Zenon, <1>0, LoopTyped DEF LoopPcs
  <2>1. loop' \in Loop
    BY <1>6, <2>0, IdleTyped DEF TermChild, AwaitChild, KillChild
  <2>2. proc' \in [Procs -> {"none", "running", "exited", "reaped"}]
    BY <1>0, <1>6 DEF TermChild, AwaitChild, KillChild, Terminated, Killed, Procs
  <2> QED BY <1>0, <1>6, <2>1, <2>2 DEF TermChild, AwaitChild, KillChild, Typed
<1> QED BY <1>1, <1>2, <1>3, <1>4, <1>5, <1>6 DEF Next, LoopStep

----------------------------------------------------------------------------
(* The inductive invariant. *)

\* A task that has stopped waiting has reaped its process, and the report of an
\* exec comes after all its output.
TasksInOrder ==
  /\ \A p \in Procs : task[p] \in Joining \cup {"unmap", "report", "done"} => proc[p] = "reaped"
  /\ \A s \in Shells : proc[s] = "none" => task[s] = "none"
  /\ \A e \in Execs : task[e] = "done" => pipe[e].sent = pipe[e].written
  /\ \A s \in Shells : task[s] \in {"report", "done"} => s \notin shells
  /\ \A s \in Shells : exit[s] = "shell_exit" => task[s] = "done"

Closing == {"term", "await", "kill"}

\* What the loop does with the shells it took out of the map, and that a
\* Shutdown leaves none behind.
LoopInOrder ==
  /\ loop.pc \in {"read", "failed"} => loop.left = {}
  /\ loop.pc \in {"read", "failed", "ended"} => ~loop.stop
  /\ ~loop.stop => loop.left = {}
  /\ loop.pc \in {"next", "ended"} => shells = {}
  /\ loop.stop => shells = {}
  /\ loop.pc = "next" => loop.stop
  /\ \A s \in Shells : proc[s] = "running" =>
       /\ s \in shells \cup loop.left \/ (s = loop.of /\ loop.pc \in Closing)
       /\ loop.pc # "ended"

\* The lock of the map is held by a loop that closes shells, the lock of a
\* child by the task that waits for it.
LocksInOrder ==
  /\ mapLock <=> loop.pc \in Closing \cup {"next"}
  /\ \A s \in Shells : childLock[s] <=> task[s] = "wait"

InOrder == Typed /\ TasksInOrder /\ LoopInOrder /\ LocksInOrder

LEMMA InitInOrder == Init => InOrder
<1> SUFFICES ASSUME Init PROVE InOrder
  OBVIOUS
<1>1. Typed
  BY TypedInit
<1>2. /\ loop.pc = "read" /\ loop.left = {} /\ ~loop.stop /\ shells = {} /\ ~mapLock
      /\ \A s \in Shells : ~childLock[s]
  BY Zenon, IdleTyped DEF Init
<1>3. \A p \in Procs : proc[p] = "none" /\ task[p] = "none" /\ exit[p] = None
  BY DEF Init
<1>4. TasksInOrder
  BY <1>2, <1>3 DEF TasksInOrder, Joining, Procs
<1>5. LoopInOrder
  BY <1>2, <1>3 DEF LoopInOrder, Procs
<1>6. LocksInOrder
  <2>1. \A s \in Shells : task[s] # "wait"
    BY <1>3 DEF Procs
  <2>2. loop.pc \notin Closing \cup {"next"}
    BY <1>2 DEF Closing
  <2> QED BY Zenon, <1>2, <2>1, <2>2 DEF LocksInOrder
<1> QED BY <1>1, <1>4, <1>5, <1>6 DEF InOrder

\* A step that leaves the shells, the loop and the locks alone.
LEMMA ProcessInOrder ==
  ASSUME InOrder, NEW p \in Procs,
         \/ ProcessWrites(p) \/ ProcessExits(p) \/ ProcessForks(p)
         \/ DescendantExits(p) \/ Forward(p)
  PROVE  TasksInOrder' /\ LoopInOrder' /\ LocksInOrder'
<1>0. /\ UNCHANGED <<loop, shells, mapLock, childLock, task, exit>>
      /\ proc \in [Procs -> {"none", "running", "exited", "reaped"}] /\ pipe \in [Procs -> Pipe]
  BY DEF ProcessWrites, ProcessExits, ProcessForks, DescendantExits, Forward, InOrder, Typed
<1>1. /\ \A x \in Procs : proc[x] = "reaped" => proc'[x] = "reaped"
      /\ \A x \in Procs : proc'[x] = "none" => proc[x] = "none"
      /\ \A x \in Procs : proc'[x] = "running" => proc[x] = "running"
  BY <1>0 DEF ProcessWrites, ProcessExits, ProcessForks, DescendantExits, Forward
<1>2. \A e \in Procs : proc[e] = "reaped" /\ pipe[e].sent = pipe[e].written
                       => pipe'[e].sent = pipe'[e].written
  <2>1. CASE ProcessWrites(p)
    BY <1>0, <2>1 DEF ProcessWrites
  <2>2. CASE ProcessExits(p)
    BY <1>0, <2>2 DEF ProcessExits
  <2>3. CASE ProcessForks(p) \/ DescendantExits(p)
    <3>1. PICK h : pipe' = [pipe EXCEPT ![p].held = h]
      BY <2>3 DEF ProcessForks, DescendantExits
    <3>2. pipe[p] \in Pipe
      BY <1>0
    <3>3. pipe'[p].sent = pipe[p].sent /\ pipe'[p].written = pipe[p].written
      BY <1>0, <3>1, <3>2 DEF Pipe
    <3> QED BY <1>0, <3>1, <3>3
  <2>4. CASE Forward(p)
    <3>1. pipe[p].sent \in Nat /\ pipe[p].written \in Nat
      BY <1>0 DEF Pipe
    <3>2. pipe[p].sent # pipe[p].written
      BY <2>4, <3>1 DEF Forward
    <3> QED BY <1>0, <2>4, <3>2 DEF Forward
  <2> QED BY <2>1, <2>2, <2>3, <2>4
<1>3. TasksInOrder'
  BY <1>0, <1>1, <1>2 DEF InOrder, TasksInOrder, Procs
<1>4. LoopInOrder' /\ LocksInOrder'
  BY <1>0, <1>1 DEF InOrder, LoopInOrder, LocksInOrder, Procs
<1> QED BY <1>3, <1>4

LEMMA ExecInOrder ==
  ASSUME InOrder, NEW e \in Execs, Exec(e) \/ ExecFails(e) \/ HostDropsStream(e) \/ ExecTask(e)
  PROVE  TasksInOrder' /\ LoopInOrder' /\ LocksInOrder'
<1>0. /\ UNCHANGED <<loop, shells, mapLock, childLock, pipe>> /\ e \in Procs /\ e \notin Shells
      /\ proc \in [Procs -> {"none", "running", "exited", "reaped"}] /\ task \in [Procs -> Tasks]
      /\ DOMAIN exit = Procs
  BY DEF Exec, ExecFails, HostDropsStream, ExecTask, ExecEnds, ExecTimesOut, ExecIsKilled,
         ExecReports, InOrder, Typed, Procs
<1>1. \A x \in Procs : x # e => proc'[x] = proc[x] /\ task'[x] = task[x] /\ exit'[x] = exit[x]
  BY <1>0 DEF Exec, ExecFails, HostDropsStream, ExecTask, ExecEnds, ExecTimesOut, ExecIsKilled,
              ExecReports, Terminated, Killed
<1>2. task'[e] \in Joining \cup {"unmap", "report", "done"} => proc'[e] = "reaped"
  <2>1. CASE Exec(e) \/ ExecFails(e) \/ HostDropsStream(e)
    BY <1>0, <2>1 DEF Exec, ExecFails, HostDropsStream, InOrder, TasksInOrder, Joining
  <2>2. CASE ExecEnds(e) \/ ExecTimesOut(e) \/ ExecIsKilled(e)
    BY <1>0, <2>2 DEF ExecEnds, ExecTimesOut, ExecIsKilled, Terminated, Killed, Joining
  <2>3. CASE ExecReports(e)
    BY <1>0, <2>3 DEF ExecReports, InOrder, TasksInOrder, Joining
  <2> QED BY <2>1, <2>2, <2>3 DEF ExecTask
<1>3. task'[e] = "done" => pipe[e].sent = pipe[e].written
  <2>1. CASE ExecReports(e)
    BY <2>1 DEF ExecReports, Eof
  <2>2. CASE ~ExecReports(e)
    BY <1>0, <2>2 DEF Exec, ExecFails, HostDropsStream, ExecTask, ExecEnds, ExecTimesOut,
                      ExecIsKilled, InOrder, TasksInOrder
  <2> QED BY <2>1, <2>2
<1>4. TasksInOrder'
  BY <1>0, <1>1, <1>2, <1>3 DEF InOrder, TasksInOrder, Procs
<1>5. LoopInOrder' /\ LocksInOrder'
  BY <1>0, <1>1 DEF InOrder, LoopInOrder, LocksInOrder, Procs
<1> QED BY <1>4, <1>5

LEMMA ShellInOrder ==
  ASSUME InOrder, NEW s \in Shells, OpenShell(s) \/ OpenShellFails(s) \/ ShellTask(s)
  PROVE  TasksInOrder' /\ LoopInOrder' /\ LocksInOrder'
<1>0. /\ UNCHANGED <<loop, mapLock, pipe>> /\ s \in Procs /\ s \notin Execs
      /\ proc \in [Procs -> {"none", "running", "exited", "reaped"}] /\ task \in [Procs -> Tasks]
      /\ childLock \in [Shells -> BOOLEAN] /\ DOMAIN exit = Procs
  BY DEF OpenShell, OpenShellFails, ShellTask, WaiterLocks, WaiterReaps, WaiterUnmaps,
         WaiterReports, InOrder, Typed, Procs
<1>1. /\ \A x \in Procs : x # s => proc'[x] = proc[x] /\ task'[x] = task[x] /\ exit'[x] = exit[x]
      /\ \A x \in Shells : x # s => childLock'[x] = childLock[x] /\ (x \in shells' <=> x \in shells)
  BY <1>0 DEF OpenShell, OpenShellFails, ShellTask, WaiterLocks, WaiterReaps, WaiterUnmaps,
              WaiterReports
<1>2. /\ task[s] \in {"unmap", "report", "done"} => proc[s] = "reaped"
      /\ task[s] \in {"report", "done"} => s \notin shells
      /\ exit[s] = "shell_exit" => task[s] = "done"
      /\ childLock[s] <=> task[s] = "wait"
      /\ task[s] \in Joining => proc[s] = "reaped"
      /\ proc[s] = "none" => task[s] = "none"
  BY <1>0 DEF InOrder, TasksInOrder, LocksInOrder
<1>3. /\ task'[s] \in Joining \cup {"unmap", "report", "done"} => proc'[s] = "reaped"
      /\ task'[s] \in {"report", "done"} => s \notin shells'
      /\ exit'[s] = "shell_exit" => task'[s] = "done"
      /\ childLock'[s] <=> task'[s] = "wait"
      /\ proc'[s] = "running" => s \in shells' \/ proc[s] = "running"
      /\ proc'[s] = "none" => task'[s] = "none"
  <2>1. CASE OpenShell(s)
    BY <1>0, <1>2, <2>1 DEF OpenShell, Joining
  <2>2. CASE OpenShellFails(s)
    BY <1>0, <1>2, <2>2 DEF OpenShellFails
  <2>3. CASE WaiterLocks(s)
    BY <1>0, <1>2, <2>3 DEF WaiterLocks, Joining
  <2>4. CASE WaiterReaps(s)
    BY <1>0, <1>2, <2>4 DEF WaiterReaps, Joining
  <2>5. CASE WaiterUnmaps(s)
    BY <1>0, <1>2, <2>5 DEF WaiterUnmaps, Joining
  <2>6. CASE WaiterReports(s)
    BY <1>0, <1>2, <2>6 DEF WaiterReports, Joining
  <2> QED BY <2>1, <2>2, <2>3, <2>4, <2>5, <2>6 DEF ShellTask
<1>4. /\ OpenShell(s) => loop.pc = "read"
      /\ ~OpenShell(s) => shells' \subseteq shells
      /\ s \in shells /\ s \notin shells' => proc[s] = "reaped" /\ proc' = proc
  BY <1>2 DEF OpenShell, OpenShellFails, ShellTask, WaiterLocks, WaiterReaps, WaiterUnmaps,
              WaiterReports
<1>5. TasksInOrder'
  BY <1>0, <1>1, <1>3 DEF InOrder, TasksInOrder, Procs
<1>6. LocksInOrder'
  <2>1. \A x \in Shells : childLock'[x] <=> task'[x] = "wait"
    BY Zenon, <1>1, <1>3 DEF InOrder, LocksInOrder, Procs
  <2> QED BY Zenon, <1>0, <2>1 DEF InOrder, LocksInOrder
<1>7. LoopInOrder'
  <2>1. \A x \in Shells : proc'[x] = "running" =>
           /\ x \in shells' \cup loop.left \/ (x = loop.of /\ loop.pc \in Closing)
           /\ loop.pc # "ended"
    <3> SUFFICES ASSUME NEW x \in Shells, proc'[x] = "running"
                 PROVE  /\ x \in shells' \cup loop.left \/ (x = loop.of /\ loop.pc \in Closing)
                        /\ loop.pc # "ended"
      OBVIOUS
    <3>1. CASE proc[x] = "running"
      BY <1>0, <1>1, <1>4, <3>1 DEF InOrder, LoopInOrder, Procs
    <3>2. CASE proc[x] # "running"
      <4>1. x = s /\ OpenShell(s)
        BY <1>0, <1>1, <3>2 DEF OpenShellFails, ShellTask, WaiterLocks, WaiterReaps,
           WaiterUnmaps, WaiterReports, Procs
      <4> QED BY <1>3, <1>4, <3>2, <4>1
    <3> QED BY <3>1, <3>2
  <2>2. \/ loop.pc = "read" \/ (shells = {} => shells' = {})
    BY <1>4
  <2> QED BY <1>0, <2>1, <2>2 DEF InOrder, LoopInOrder
<1> QED BY <1>5, <1>6, <1>7

\* CloseShell, Shutdown and failed input: the loop takes shells out of the map.
LEMMA TakeInOrder ==
  ASSUME InOrder,
         \/ CloseShell(loop'.of) /\ loop'.of \in Shells
         \/ Shutdown
         \/ \E s \in Shells : ShellInputFails(s)
  PROVE  TasksInOrder' /\ LoopInOrder' /\ LocksInOrder'
<1>0. UNCHANGED <<proc, childLock, task, pipe, exit>> /\ shells' \subseteq shells
  BY DEF CloseShell, Shutdown, ShellInputFails
<1>1. TasksInOrder'
  BY <1>0 DEF InOrder, TasksInOrder
<1>2. loop.pc = "read" /\ ~mapLock /\ loop.left = {}
  BY DEF CloseShell, Shutdown, ShellInputFails, InOrder, LoopInOrder
<1>3. \A s \in Shells : proc[s] = "running" => s \in shells
  BY <1>2 DEF InOrder, LoopInOrder, Closing
<1>4. CASE CloseShell(loop'.of) /\ loop'.of \in Shells
  <2> DEFINE s == loop'.of
  <2>1. /\ loop'.pc = "term" /\ loop'.left = {} /\ ~loop'.stop /\ mapLock' /\ shells' = shells \ {s}
    BY Zenon, <1>4 DEF CloseShell, Idle
  <2>2. LoopInOrder'
    BY <1>0, <1>3, <2>1 DEF LoopInOrder, Closing
  <2>3. LocksInOrder'
    BY <1>0, <2>1 DEF InOrder, LocksInOrder, Closing
  <2> QED BY <1>1, <2>2, <2>3
<1>5. CASE Shutdown
  <2>1. loop'.pc = "next" /\ loop'.left = shells /\ loop'.stop /\ mapLock' /\ shells' = {}
    BY Zenon, <1>5 DEF Shutdown, Idle
  <2>2. LoopInOrder'
    BY <1>0, <1>3, <2>1 DEF LoopInOrder, Closing
  <2>3. LocksInOrder'
    BY <1>0, <2>1 DEF InOrder, LocksInOrder, Closing
  <2> QED BY <1>1, <2>2, <2>3
<1>6. CASE \E s \in Shells : ShellInputFails(s)
  <2>1. loop' = [Idle EXCEPT !.pc = "failed"] /\ UNCHANGED <<shells, mapLock>>
    BY <1>6 DEF ShellInputFails
  <2>2. loop'.pc = "failed" /\ loop'.left = {} /\ ~loop'.stop /\ ~mapLock'
    BY Zenon, <1>2, <2>1 DEF Idle
  <2>3. LoopInOrder'
    BY <1>0, <1>3, <2>1, <2>2 DEF LoopInOrder, Closing
  <2>4. LocksInOrder'
    BY <1>0, <2>2 DEF InOrder, LocksInOrder, Closing
  <2> QED BY <1>1, <2>3, <2>4
<1> QED BY <1>4, <1>5, <1>6

LEMMA CloseInOrder ==
  ASSUME InOrder, NEW s \in Shells, CloseShell(s)
  PROVE  TasksInOrder' /\ LoopInOrder' /\ LocksInOrder'
<1>1. loop'.of = s
  BY Zenon DEF CloseShell, Idle
<1> QED BY <1>1, TakeInOrder

\* The loop closes one of the shells it took, or has closed them all.
LEMMA ShutdownNextInOrder ==
  ASSUME InOrder, ShutdownNext PROVE TasksInOrder' /\ LoopInOrder' /\ LocksInOrder'
<1>0. /\ UNCHANGED <<shells, proc, childLock, task, pipe, exit>>
      /\ loop.pc = "next" /\ loop \in Loop /\ loop.stop /\ shells = {}
  BY Zenon DEF ShutdownNext, InOrder, Typed, LoopInOrder
<1>1. TasksInOrder'
  BY <1>0 DEF InOrder, TasksInOrder
<1>2. \A s \in Shells : proc[s] = "running" => s \in loop.left
  BY <1>0 DEF InOrder, LoopInOrder, Closing
<1>3. CASE \E s \in loop.left :
             loop' = [loop EXCEPT !.pc = "term", !.of = s, !.left = loop.left \ {s}]
  <2>1. PICK s \in loop.left :
           loop' = [loop EXCEPT !.pc = "term", !.of = s, !.left = loop.left \ {s}]
    BY Zenon, <1>3
  <2>2. /\ loop'.pc = "term" /\ loop'.of = s /\ loop'.left = loop.left \ {s}
        /\ loop'.stop = loop.stop
    BY Zenon, <1>0, <2>1 DEF Loop
  <2>3. mapLock'
    BY Zenon, <2>2 DEF ShutdownNext
  <2>4. LoopInOrder'
    BY <1>0, <1>2, <2>2 DEF LoopInOrder, Closing
  <2>5. LocksInOrder'
    BY <1>0, <2>2, <2>3 DEF InOrder, LocksInOrder, Closing
  <2> QED BY <1>1, <2>4, <2>5
<1>4. CASE loop.left = {} /\ loop' = [Idle EXCEPT !.pc = "ended"]
  <2>1. loop'.pc = "ended" /\ ~loop'.stop /\ loop'.left = {}
    BY Zenon, <1>4 DEF Idle
  <2>2. ~mapLock'
    BY Zenon, <2>1 DEF ShutdownNext
  <2>3. LoopInOrder'
    BY <1>0, <1>2, <1>4, <2>1 DEF LoopInOrder
  <2>4. LocksInOrder'
    BY <1>0, <2>1, <2>2 DEF InOrder, LocksInOrder, Closing
  <2> QED BY <1>1, <2>3, <2>4
<1> QED BY ZenonT(60), <1>3, <1>4 DEF ShutdownNext

\* terminate_child goes on: it ends with the child reaped.
LEMMA TerminateInOrder ==
  ASSUME InOrder, NEW s \in Shells, TermChild(s) \/ AwaitChild(s) \/ KillChild(s)
  PROVE  TasksInOrder' /\ LoopInOrder' /\ LocksInOrder'
<1>0. /\ UNCHANGED <<shells, childLock, task, pipe, exit>> /\ s \in Procs
      /\ loop.pc \in Closing /\ loop.of = s /\ loop \in Loop
      /\ proc \in [Procs -> {"none", "running", "exited", "reaped"}]
  BY DEF TermChild, AwaitChild, KillChild, InOrder, Typed, Closing, Procs
<1>1. /\ \A x \in Procs : x # s => proc'[x] = proc[x]
      /\ proc[s] = "reaped" => proc'[s] = "reaped"
      /\ proc'[s] = "running" => proc[s] = "running"
      /\ proc'[s] = "none" => proc[s] = "none"
      /\ KillChild(s) => proc'[s] = "reaped"
  BY <1>0 DEF TermChild, AwaitChild, KillChild, Terminated, Killed
<1>2. TasksInOrder'
  BY <1>0, <1>1 DEF InOrder, TasksInOrder, Procs
<1>3. LocksInOrder'
  <2>1. CASE TermChild(s) \/ AwaitChild(s)
    <3>1. loop'.pc \in Closing /\ mapLock' = mapLock
      BY <1>0, <2>1 DEF TermChild, AwaitChild, Loop, Closing
    <3> QED BY <1>0, <3>1 DEF InOrder, LocksInOrder
  <2>2. CASE KillChild(s) /\ loop.stop
    <3>1. loop'.pc = "next" /\ mapLock'
      BY <1>0, <2>2 DEF KillChild, Loop
    <3> QED BY <1>0, <3>1 DEF InOrder, LocksInOrder
  <2>3. CASE KillChild(s) /\ ~loop.stop
    <3>1. loop'.pc = "read" /\ ~mapLock'
      BY <1>0, <2>3, IdleTyped DEF KillChild
    <3> QED BY <1>0, <3>1 DEF InOrder, LocksInOrder, Closing
  <2> QED BY <2>1, <2>2, <2>3
<1>4. LoopInOrder'
  <2>1. CASE TermChild(s) \/ AwaitChild(s)
    <3>1. /\ loop'.pc \in Closing /\ loop'.of = s /\ loop'.left = loop.left
          /\ loop'.stop = loop.stop
      BY <1>0, <2>1 DEF TermChild, AwaitChild, Loop, Closing
    <3> QED BY <1>0, <1>1, <3>1 DEF InOrder, LoopInOrder, Closing, Procs
  <2>2. CASE KillChild(s) /\ loop.stop
    <3>1. loop'.pc = "next" /\ loop'.left = loop.left /\ loop'.stop = loop.stop
      BY Zenon, <1>0, <2>2 DEF KillChild, Loop
    <3> QED BY <1>0, <1>1, <2>2, <3>1 DEF InOrder, LoopInOrder, Closing, Procs
  <2>3. CASE KillChild(s) /\ ~loop.stop
    <3>1. loop' = Idle
      BY <2>3 DEF KillChild
    <3>2. loop'.pc = "read" /\ loop'.left = {} /\ ~loop'.stop
      BY Zenon, <3>1, IdleTyped
    <3> QED BY <1>0, <1>1, <2>3, <3>2 DEF InOrder, LoopInOrder, Closing, Procs
  <2> QED BY <2>1, <2>2, <2>3
<1> QED BY <1>2, <1>3, <1>4

LEMMA NextInOrder == InOrder /\ [Next]_vars => InOrder'
<1> SUFFICES ASSUME InOrder, [Next]_vars PROVE InOrder'
  OBVIOUS
<1>1. CASE Next
  <2>1. Typed'
    BY <1>1, TypedStep DEF InOrder
  <2>2. TasksInOrder' /\ LoopInOrder' /\ LocksInOrder'
    BY <1>1, ProcessInOrder, ExecInOrder, ShellInOrder, CloseInOrder, TakeInOrder,
       ShutdownNextInOrder, TerminateInOrder
       DEF Next, LoopStep
  <2> QED BY <2>1, <2>2 DEF InOrder
<1>2. CASE UNCHANGED vars
  BY <1>2 DEF vars, InOrder, Typed, TasksInOrder, LoopInOrder, LocksInOrder
<1> QED BY <1>1, <1>2

LEMMA InOrderAlways == Spec => []InOrder
BY InitInOrder, NextInOrder, PTL DEF Spec

----------------------------------------------------------------------------
(* The theorems. *)

\* However an exec ends, and whatever its timeout and its kill race with, the
\* ExecExit of spawn_exec is sent when the process is reaped and every chunk it
\* wrote has been sent.
THEOREM ExitsComeLast == Spec => []ExecExitIsLast
<1>1. InOrder => ExecExitIsLast
  BY DEF InOrder, TasksInOrder, ExecExitIsLast, Procs
<1> QED BY <1>1, InOrderAlways, PTL

\* However opens, closes, exits and a Shutdown interleave, a shell that runs is
\* in the map or being closed, a Shutdown that ended left none, and a shell
\* whose exit was reported is out of the map.
THEOREM ShellsAreReached == Spec => []ShellsAccounted
<1>1. InOrder => ShellsAccounted
  BY DEF InOrder, TasksInOrder, LoopInOrder, ShellsAccounted, Closing, Procs
<1> QED BY <1>1, InOrderAlways, PTL

\* The loop holds the lock of the map while it waits for a child's. A child's is
\* held only by a task that waits for the process to end, never by one that
\* waits for the map.
LocksAreOrdered ==
  /\ mapLock => loop.pc \in {"next", "term", "await", "kill"}
  /\ \A s \in Shells : childLock[s] => task[s] = "wait"

\* CloseShell, Shutdown and the tasks of the shells never wait for each other in
\* a circle: only a process that does not end can hold the loop up.
THEOREM NoCircularWait == Spec => []LocksAreOrdered
<1>1. InOrder => LocksAreOrdered
  BY DEF InOrder, LocksInOrder, LocksAreOrdered, Closing
<1> QED BY <1>1, InOrderAlways, PTL

=============================================================================
