-------------------------- MODULE RefinementProofs --------------------------
(***************************************************************************)
(* The operations of one connection implement the contract of a BOX, for   *)
(* any number of BOXes and sandboxes and any operations, when guests may   *)
(* die or hang but do not send errors and the daemon is not killed.        *)
(***************************************************************************)
EXTENDS OneUserProofs, BoxRefinement

USE NoneAssumption, RecordAssumption

\* A guest that answers, answers well, and the daemon ends by a quit: with
\* either fault a record can say Failed while a VM of the BOX is alive.
NoFalseAlarm == Faults \cap {"guest_error", "crash"} = {}

----------------------------------------------------------------------------
(* The inductive invariant, on top of Known. *)

Shows(b, s) == rec[b] # None /\ rec[b].status = s
NoVm(b) == \A s \in vm : boxOf[s] # b

\* The handler has a VM that its record does not name yet.
Booting(q) ==
    \/ q.pc \in {"connect", "baseline", "publish"}
    \/ q.pc = "write" /\ q.copy.status = "Running"

\* Every VM is the one its BOX's record names, or the one being booted.
Serving ==
    \A s \in vm :
        \/ Runs(boxOf[s]) /\ rec[boxOf[s]].sid = s
        \/ \E r \in Reqs : Booting(req[r]) /\ req[r].sid = s

\* A report c of BOX b that the contract allows now.
Reportable(c, b) ==
    \/ c.status # "Running" /\ Shows(b, c.status)
    \/ c.status = "Created" /\ rec[b] = None /\ disk[b] # 0
    \/ c.status = "Running" /\ Rests(b) /\ disk[b] # 0
    \/ c.status = "Stopped" /\ Runs(b) /\ NoVm(b)
    \/ c.status = "Failed" /\ rec[b] # None /\ NoVm(b)
    \/ c.status = "Removing" /\ Rests(b)

\* Where the handler is on the way to a report, and from which call sites.
Judging == {"stats", "adopt", "destroy", "teardown", "archive", "unlink"}
Judges == {"get", "exec", "start", "stop", "running", "shutdown", "missing"}

Intent(q) ==
    /\ q.pc = "prepare" => q.k \in {"create", "fork"}
    /\ q.pc \in Judging => q.k \in Judges
    /\ q.pc \in {"teardown", "archive"} => Runs(q.box)
    /\ q.pc = "teardown" => rec[q.box].sid = q.sid
    /\ q.pc = "archive" => NoVm(q.box)
    /\ q.pc \in {"unlink", "write"} => Reportable(q.copy, q.box)
    /\ q.pc = "resize" => q.k = "set" /\ Shows(q.box, q.copy.status)
    /\ q.pc = "write" /\ q.k \in {"remove", "remove2"} => q.copy.status = "Removing"
    /\ q.pc = "write" /\ q.k = "fork" => q.copy.status = "Created"
    /\ q.pc = "forkcopy" => Shows(q.box, "Created")
    /\ q.pc \in {"rmdisk", "forget", "rmrec"} => Shows(q.box, "Removing")
    /\ q.pc \in {"forget", "rmrec"} => disk[q.box] = 0
    /\ q.pc \in {"launch", "connect", "baseline", "publish"} => disk[q.box] # 0

Calm == orphans = {} /\ Serving /\ \A r \in Reqs : Intent(req[r])

----------------------------------------------------------------------------
(* The refinement mapping. *)

Reported(b) == IF rec[b] = None THEN "Absent" ELSE rec[b].status
Refines == [Contract!ContractNext]_Contract!cvars

SameReports == \A b \in Boxes : Reported(b)' = Reported(b)
SameVms == \A b \in Boxes : NoVm(b)' <=> NoVm(b)
SameData == \A b \in Boxes : disk'[b] = 0 <=> disk[b] = 0

LEMMA RuntimeIs ==
    ASSUME TypeOK, NEW b \in Boxes PROVE vm \cap SandboxesOf(b) # {} <=> ~NoVm(b)
BY Zenon DEF TypeOK, SandboxesOf, NoVm

\* What the contract's variables are, and when they do not change.
LEMMA Mapping ==
    ASSUME TypeOK, TypeOK'
    PROVE  /\ SameReports => UNCHANGED [b \in Boxes |-> IF rec[b] = None THEN "Absent"
                                                          ELSE rec[b].status]
           /\ SameVms => UNCHANGED [b \in Boxes |-> vm \cap SandboxesOf(b) # {}]
           /\ SameData => UNCHANGED [b \in Boxes |-> disk[b] # 0]
<1>1. \A b \in Boxes : /\ vm \cap SandboxesOf(b) # {} <=> ~NoVm(b)
                       /\ (vm \cap SandboxesOf(b) # {})' <=> ~NoVm(b)'
  BY Zenon DEF TypeOK, SandboxesOf, NoVm
<1>2. SameReports => UNCHANGED [b \in Boxes |-> IF rec[b] = None THEN "Absent"
                                                          ELSE rec[b].status]
  BY Zenon DEF SameReports, Reported
<1>3. SameVms => UNCHANGED [b \in Boxes |-> vm \cap SandboxesOf(b) # {}]
  BY Zenon, <1>1 DEF SameVms
<1>4. SameData => UNCHANGED [b \in Boxes |-> disk[b] # 0]
  BY Zenon DEF SameData
<1> QED BY Zenon, <1>2, <1>3, <1>4

\* A step that changes none of them is a stutter.
LEMMA Stutter == ASSUME TypeOK, TypeOK', SameReports, SameVms, SameData PROVE Refines
BY Zenon, Mapping DEF Refines, Contract!cvars

\* A step that changes the report of one BOX, from one status to another the
\* contract allows.
LEMMA ReportStep ==
    ASSUME TypeOK, TypeOK', NEW b \in Boxes, SameVms, SameData,
           \A x \in Boxes : x # b => Reported(x)' = Reported(x),
           \/ Reported(b)' = "Created" /\ Reported(b) = "Absent" /\ disk[b] # 0
           \/ Reported(b)' = "Running" /\ Rests(b) /\ disk[b] # 0
           \/ Reported(b)' = "Stopped" /\ Runs(b) /\ NoVm(b)
           \/ Reported(b)' = "Failed" /\ rec[b] # None /\ NoVm(b)
           \/ Reported(b)' = "Removing" /\ Rests(b) /\ NoVm(b)
           \/ Reported(b)' = "Absent" /\ Shows(b, "Removing") /\ disk[b] = 0
    PROVE  Refines
<1> DEFINE status == [x \in Boxes |-> IF rec[x] = None THEN "Absent" ELSE rec[x].status]
           runtime == [x \in Boxes |-> vm \cap SandboxesOf(x) # {}]
           data == [x \in Boxes |-> disk[x] # 0]
<1>1. runtime' = runtime /\ data' = data
  BY Zenon, Mapping
<1>2. status' = [status EXCEPT ![b] = Reported(b)']
  BY Zenon DEF Reported
<1>3. runtime[b] <=> ~NoVm(b)
  BY Zenon, RuntimeIs
<1>4. status[b] = Reported(b) /\ (data[b] <=> disk[b] # 0)
  BY Zenon DEF Reported
<1>5. /\ Rests(b) => status[b] \in {"Created", "Stopped", "Failed", "Removing"}
      /\ Runs(b) => status[b] = "Running"
      /\ Shows(b, "Removing") => status[b] = "Removing"
      /\ rec[b] # None => status[b] # "Absent"
  BY Zenon DEF Rests, Runs, Shows, TypeOK, Record, Statuses
<1> HIDE DEF status, runtime, data
<1>6. \/ Contract!Register(b) \/ Contract!ReportRunning(b) \/ Contract!ReportStopped(b)
      \/ Contract!ReportFailed(b) \/ Contract!ReportRemoving(b) \/ Contract!Unregister(b)
  BY Zenon, <1>1, <1>2, <1>3, <1>4, <1>5
     DEF Contract!Register, Contract!ReportRunning, Contract!ReportStopped,
         Contract!ReportFailed, Contract!ReportRemoving, Contract!Unregister, Contract!Report,
         Contract!Startable, status, runtime, data
<1> QED BY Zenon, <1>6 DEF Refines, Contract!ContractNext

\* A step that changes the disk of one BOX.
LEMMA DataStep ==
    ASSUME TypeOK, TypeOK', NEW b \in Boxes, SameReports, SameVms,
           \A x \in Boxes : x # b => disk'[x] = disk[x],
           \/ disk'[b] = 0 <=> disk[b] = 0
           \/ disk'[b] # 0 /\ ~Runs(b) /\ NoVm(b)
           \/ disk'[b] = 0 /\ Shows(b, "Removing") /\ NoVm(b)
    PROVE  Refines
<1> DEFINE status == [x \in Boxes |-> IF rec[x] = None THEN "Absent" ELSE rec[x].status]
           runtime == [x \in Boxes |-> vm \cap SandboxesOf(x) # {}]
           data == [x \in Boxes |-> disk[x] # 0]
<1>1. runtime' = runtime /\ status' = status
  BY Zenon, Mapping
<1>2. data' = [data EXCEPT ![b] = (disk'[b] # 0)] /\ (data[b] <=> disk[b] # 0)
  BY Zenon
<1>3. runtime[b] <=> ~NoVm(b)
  BY Zenon, RuntimeIs
<1>4. /\ ~Runs(b) => status[b] \in {"Created", "Stopped", "Failed", "Removing", "Absent"}
      /\ Shows(b, "Removing") => status[b] = "Removing"
  BY Zenon DEF Runs, Shows, TypeOK, Record, Statuses
<1>5. CASE disk'[b] = 0 <=> disk[b] = 0
  BY Zenon, <1>5, Stutter DEF SameData
<1>6. CASE disk'[b] # 0 /\ disk[b] = 0 /\ ~Runs(b) /\ NoVm(b)
  <2> HIDE DEF status, runtime, data
  <2>1. data' = [data EXCEPT ![b] = TRUE] /\ ~data[b] /\ ~runtime[b]
    BY Zenon, <1>2, <1>3, <1>6
  <2>2. Contract!Provision(b)
    BY Zenon, <1>1, <1>4, <1>6, <2>1
       DEF Contract!Provision, Contract!Startable, status, runtime, data
  <2> QED BY Zenon, <2>2 DEF Refines, Contract!ContractNext
<1>7. CASE disk'[b] = 0 /\ disk[b] # 0 /\ Shows(b, "Removing") /\ NoVm(b)
  <2> HIDE DEF status, runtime, data
  <2>1. data' = [data EXCEPT ![b] = FALSE] /\ ~runtime[b]
    BY Zenon, <1>2, <1>3, <1>7
  <2>2. Contract!Discard(b)
    BY Zenon, <1>1, <1>4, <1>7, <2>1 DEF Contract!Discard, status, runtime, data
  <2> QED BY Zenon, <2>2 DEF Refines, Contract!ContractNext
<1> QED BY Zenon, <1>5, <1>6, <1>7

\* A step that starts or ends a VM of one BOX.
LEMMA VmStep ==
    ASSUME TypeOK, TypeOK', NEW b \in Boxes, SameReports, SameData,
           \A x \in Boxes : x # b => (NoVm(x)' <=> NoVm(x)),
           \/ NoVm(b)'
           \/ NoVm(b)' <=> NoVm(b)
           \/ Rests(b) /\ disk[b] # 0
    PROVE  Refines
<1> DEFINE status == [x \in Boxes |-> IF rec[x] = None THEN "Absent" ELSE rec[x].status]
           runtime == [x \in Boxes |-> vm \cap SandboxesOf(x) # {}]
           data == [x \in Boxes |-> disk[x] # 0]
<1>1. data' = data /\ status' = status
  BY Zenon, Mapping
<1>2. \A x \in Boxes : runtime[x] = (~NoVm(x)) /\ runtime'[x] = (~NoVm(x)')
  BY DEF NoVm, SandboxesOf, TypeOK
<1>3. runtime' = [runtime EXCEPT ![b] = ~NoVm(b)']
  <2>1. DOMAIN runtime = Boxes /\ DOMAIN runtime' = Boxes /\ runtime' = [x \in Boxes |-> runtime'[x]]
        /\ runtime = [x \in Boxes |-> runtime[x]]
    BY Zenon
  <2> HIDE DEF runtime
  <2> QED BY Zenon, <1>2, <2>1
<1>4. Rests(b) => status[b] \in {"Created", "Stopped", "Failed", "Removing"}
  BY Zenon DEF Rests, TypeOK, Record, Statuses
<1>5. data[b] <=> disk[b] # 0
  BY Zenon
<1>6. CASE NoVm(b)' <=> NoVm(b)
  BY Zenon, <1>6, Stutter DEF SameVms
<1>7. CASE NoVm(b)' /\ ~NoVm(b)
  <2> HIDE DEF status, runtime, data
  <2>1. runtime' = [runtime EXCEPT ![b] = FALSE] /\ runtime[b]
    BY Zenon, <1>2, <1>3, <1>7
  <2>2. Contract!PowerOff(b)
    BY Zenon, <1>1, <2>1 DEF Contract!PowerOff, status, runtime, data
  <2> QED BY Zenon, <2>2 DEF Refines, Contract!ContractNext
<1>8. CASE ~NoVm(b)' /\ NoVm(b) /\ Rests(b) /\ disk[b] # 0
  <2> HIDE DEF status, runtime, data
  <2>1. runtime' = [runtime EXCEPT ![b] = TRUE] /\ ~runtime[b]
    BY Zenon, <1>2, <1>3, <1>8
  <2>2. Contract!PowerOn(b)
    BY Zenon, <1>1, <1>4, <1>5, <1>8, <2>1
       DEF Contract!PowerOn, Contract!Startable, status, runtime, data
  <2> QED BY Zenon, <2>2 DEF Refines, Contract!ContractNext
<1> QED BY Zenon, <1>6, <1>7, <1>8

\* A step that ends every VM when no BOX runs.
LEMMA QuitStep ==
    ASSUME TypeOK, TypeOK', SameReports, SameData, vm' = {}, \A b \in Boxes : ~Runs(b)
    PROVE  Refines
<1> DEFINE status == [x \in Boxes |-> IF rec[x] = None THEN "Absent" ELSE rec[x].status]
           runtime == [x \in Boxes |-> vm \cap SandboxesOf(x) # {}]
           data == [x \in Boxes |-> disk[x] # 0]
<1>1. data' = data /\ status' = status
  BY Zenon, Mapping
<1>2. runtime' = [b \in Boxes |-> FALSE]
  BY Zenon
<1>3. \A b \in Boxes : status[b] # "Running"
  BY Zenon DEF Runs
<1>4. Contract!Quit
  BY Zenon, <1>1, <1>2, <1>3 DEF Contract!Quit
<1> QED BY Zenon, <1>4 DEF Refines, Contract!ContractNext

----------------------------------------------------------------------------
(* Steps of the one handler. *)

LEMMA CalmStep ==
    ASSUME OneConnected, NEW r \in Reqs, orphans' = {}, Serving', Intent(req[r])' PROVE Calm'
BY Zenon DEF OneConnected, Calm

\* A BOX that does not run has no VM, unless one is being booted.
LEMMA NoVmAtRest ==
    ASSUME OneConnected, Calm, NEW r \in Reqs, ~Booting(req[r]), NEW b, ~Runs(b)
    PROVE  NoVm(b)
BY Zenon DEF OneConnected, Calm, Serving, NoVm

\* The VM being booted is of the handler's BOX, so the others' are named.
LEMMA OtherVms ==
    ASSUME OneConnected, Known, Calm, NEW r \in Reqs, NEW s \in vm, boxOf[s] # req[r].box
    PROVE  Runs(boxOf[s]) /\ rec[boxOf[s]].sid = s
<1>1. Own(req[r], boxOf) /\ vm \subseteq Sandboxes
  BY Zenon DEF Known, Isolated, TypeOK
<1>2. req[r].sid = s => boxOf[s] = req[r].box
  BY Zenon, <1>1 DEF Own
<1> QED BY Zenon, <1>2 DEF OneConnected, Calm, Serving

\* Where a handler reports nothing and changes nothing yet.
Harmless == {"idle", "next", "exit", "read", "hydrate", "restore", "create"}

LEMMA HarmlessIntent == ASSUME NEW r \in Reqs, req'[r].pc \in Harmless PROVE Intent(req[r])'
BY Zenon DEF Harmless, Intent, Judging

LEMMA ReturnedHarmless ==
    ASSUME NEW q \in Request
    PROVE  Idle.pc \in Harmless /\ Returned(q).pc \in Harmless /\ Stopped(q).pc \in Harmless
<1>1. Idle.pc \in Harmless
  BY Zenon DEF Idle, Harmless
<1>2. Returned(q).pc \in Harmless
  <2>1. CASE q.todo # {}
    BY Zenon, <2>1 DEF Returned, Request, Harmless
  <2>2. CASE q.todo = {} /\ q.op = "shutdown"
    BY Zenon, <2>2 DEF Returned, Idle, Harmless
  <2>3. CASE q.todo = {} /\ q.op # "shutdown"
    BY Zenon, <2>3, <1>1 DEF Returned
  <2> QED BY Zenon, <2>1, <2>2, <2>3
<1>3. Stopped(q).pc \in Harmless
  <2>1. CASE q.op = "remove"
    BY Zenon, <2>1 DEF Stopped, Request, Harmless
  <2>2. CASE q.op = "restore"
    BY Zenon, <2>2 DEF Stopped, Request, Harmless
  <2>3. CASE q.op \notin {"remove", "restore"}
    BY Zenon, <1>2, <2>3 DEF Stopped
  <2> QED BY Zenon, <2>1, <2>2, <2>3
<1> QED BY Zenon, <1>1, <1>2, <1>3

\* A step that changes no report, no VM and no disk.
LEMMA QuietStep ==
    ASSUME OneConnected, Known, Calm, TypeOK', NEW r \in Reqs,
           SameReports, \A b \in Boxes : Runs(b) => rec'[b].sid = rec[b].sid,
           UNCHANGED <<vm, boxOf, orphans>>, SameData,
           Booting(req[r]) => Booting(req[r])' /\ req'[r].sid = req[r].sid,
           Intent(req[r])'
    PROVE  Calm' /\ Refines
<1>1. SameVms
  BY Zenon DEF SameVms, NoVm
<1>2. \A b \in Boxes : Runs(b) => Runs(b)'
  BY Zenon DEF SameReports, Reported, Runs
<1>3. \A s \in vm : boxOf[s] \in Boxes \cup {None} /\ boxOf[s] # None
  BY Zenon DEF Known, TypeOK, Safe, Custody
<1>4. Serving'
  BY <1>2, <1>3 DEF OneConnected, Calm, Serving
<1>5. Calm'
  BY Zenon, <1>4, CalmStep DEF Calm
<1> QED BY Zenon, <1>1, <1>5, Stutter DEF Known

\* read_box changes no report.
LEMMA ReadQuiet ==
    ASSUME OneConnected, Known, Calm, TypeOK', NEW r \in Reqs, NEW k, ReadBox(r, k),
           Intent(req[r])'
    PROVE  Calm' /\ Refines
<1> DEFINE q == req[r]
<1>1. /\ q.pc = "hydrate" /\ q.box \in Boxes /\ Hydrated(r) \in Record
      /\ Hydrated(r).status = q.seen.status /\ Hydrated(r).sid = q.seen.sid
      /\ disk' = disk /\ UNCHANGED <<vm, boxOf, orphans>>
  BY Zenon, ReadBoxFacts DEF Known
<1>2. q.seen = rec[q.box] /\ q.seen \in Record /\ rec \in [Boxes -> Record \cup {None}]
  BY ZenonT(60), <1>1, HandlerKnown DEF InOrder, Current, HandlerOK, Known, TypeOK
<1>3. rec' = rec \/ rec' = [rec EXCEPT ![q.box] = Hydrated(r)]
  BY Zenon DEF ReadBox
<1> HIDE DEF q
<1>4. \A b \in Boxes : /\ (rec'[b] = None) <=> (rec[b] = None)
                       /\ rec[b] # None => rec'[b].status = rec[b].status /\ rec'[b].sid = rec[b].sid
  BY Zenon, <1>1, <1>2, <1>3
<1>5. SameReports /\ (\A b \in Boxes : Runs(b) => rec'[b].sid = rec[b].sid) /\ SameData
  BY Zenon, <1>1, <1>4 DEF SameReports, Reported, Runs, SameData
<1>6. ~Booting(req[r])
  BY Zenon, <1>1 DEF Booting, q
<1> QED BY Zenon, <1>1, <1>5, <1>6, QuietStep

\* What a record that was just read says.
LEMMA ReadSays ==
    ASSUME Known, NEW r \in Reqs, NEW k, ReadBox(r, k)
    PROVE  /\ req[r] \in Request /\ req[r].k = k /\ req[r].box \in Boxes
           /\ rec'[req[r].box] = Hydrated(r) /\ Hydrated(r) \in Record /\ Hydrated(r) # None
           /\ Hydrated(r).status = rec[req[r].box].status
<1> DEFINE q == req[r]
<1>1. /\ q.pc = "hydrate" /\ q.k = k /\ q.box \in Boxes /\ Hydrated(r) \in Record
      /\ Hydrated(r).status = q.seen.status
  BY Zenon, ReadBoxFacts DEF Known
<1>2. /\ q \in Request /\ q.seen = rec[q.box] /\ rec \in [Boxes -> Record \cup {None}]
  BY Zenon, <1>1, HandlerKnown DEF InOrder, Current, Known, TypeOK
<1> QED BY Zenon, <1>1, <1>2 DEF ReadBox

LEMMA CallsCalm ==
    ASSUME OneConnected, Known, Calm, TypeOK', NEW r \in Reqs,
           Call(r) \/ CallCreate(r) \/ CallList(r) \/ CallShutdown(r)
    PROVE  Calm' /\ Refines
<1>1. /\ req[r].pc = "idle" /\ UNCHANGED <<rec, disk, vm, boxOf, orphans>>
      /\ req \in [Reqs -> Request]
  BY Zenon DEF Call, CallCreate, CallList, CallShutdown, At, store, daemon, vms, Known, TypeOK
<1>2. \/ req'[r].pc \in {"read", "next", "exit"}
      \/ req'[r].pc = "prepare" /\ req'[r].k = "create"
  <2>1. CASE Call(r)
    <3>1. PICK op, b, v, k :
            req' = [req EXCEPT ![r] = [Idle EXCEPT !.pc = "read", !.op = op, !.box = b,
                                                   !.arg = v, !.k = k]]
      BY ZenonT(60), <2>1 DEF Call
    <3> QED BY Zenon, <1>1, <3>1 DEF Idle
  <2>2. CASE CallCreate(r)
    BY Zenon, <1>1, <2>2 DEF CallCreate, Idle
  <2>3. CASE CallList(r)
    BY Zenon, <1>1, <2>3 DEF CallList, Idle
  <2>4. CASE CallShutdown(r)
    BY Zenon, <1>1, <2>4 DEF CallShutdown, Idle
  <2> QED BY Zenon, <2>1, <2>2, <2>3, <2>4
<1>3. Intent(req[r])'
  BY Zenon, <1>2 DEF Intent, Judging
<1>4. SameReports /\ SameData /\ ~Booting(req[r])
  BY Zenon, <1>1 DEF SameReports, Reported, SameData, Booting
<1> QED BY ZenonT(60), <1>1, <1>3, <1>4, QuietStep

\* The handler goes on to its next BOX, reads a record, tries the sandbox.
LEMMA MovesCalm ==
    ASSUME OneConnected, Known, Calm, TypeOK', NEW r \in Reqs,
           \/ NextBox(r) \/ Read(r) \/ Adopt(r) \/ StatsOk(r) \/ Forget(r)
           \/ PrepareRecordFails(r)
    PROVE  Calm' /\ Refines
<1> DEFINE q == req[r]
<1>1. /\ UNCHANGED <<rec, disk, vm, boxOf, orphans>>
      /\ req \in [Reqs -> Request] /\ q \in Request /\ Intent(q)
  BY ZenonT(60)
     DEF NextBox, Read, Adopt, StatsOk, Forget, PrepareRecordFails, store, daemon, vms, Known,
         TypeOK, Calm
<1>2. ~Booting(q)
  BY Zenon DEF NextBox, Read, Adopt, StatsOk, Forget, PrepareRecordFails, At, Booting
<1>3. Intent(req[r])'
  <2>1. CASE NextBox(r)
    <3>1. PICK b \in q.todo :
             \/ req' = [req EXCEPT ![r] = [q EXCEPT !.pc = "hydrate", !.k = "get", !.box = b,
                           !.todo = q.todo \ {b}, !.seen = q.snap[b],
                           !.snap = [q.snap EXCEPT ![b] = None]]]
             \/ req' = [req EXCEPT ![r] = [q EXCEPT !.pc = "read", !.k = "shutdown", !.box = b,
                           !.todo = q.todo \ {b}]]
      BY ONLY Zenon, <2>1 DEF NextBox
    <3>2. req'[r].pc \in {"hydrate", "read"}
      BY ONLY ZenonT(60), <1>1, <3>1 DEF Request
    <3> QED BY Zenon, <3>2, HarmlessIntent DEF Harmless
  <2>2. CASE Read(r)
    <3>1. req'[r].pc \in {"hydrate", "idle"}
      BY <1>1, <2>2 DEF Read, Fail, Request, Idle
    <3> QED BY Zenon, <3>1, HarmlessIntent DEF Harmless
  <2>3. CASE Adopt(r)
    <3>1. q.pc = "adopt" /\ req'[r].pc \in {"stats", "destroy"} /\ req'[r].k = q.k
      BY Zenon, <1>1, <2>3 DEF Adopt, At, Request
    <3> QED BY Zenon, <1>1, <3>1 DEF Intent, Judging
  <2>4. CASE StatsOk(r)
    <3>1. req'[r] = Returned(q)
      BY Zenon, <1>1, <2>4 DEF StatsOk, Return
    <3> QED BY Zenon, <1>1, <3>1, ReturnedHarmless, HarmlessIntent
  <2>5. CASE Forget(r)
    <3>1. q.pc = "forget" /\ req'[r].pc = "rmrec" /\ req'[r].box = q.box
      BY Zenon, <1>1, <2>5 DEF Forget, At, Request
    <3> QED BY Zenon, <1>1, <3>1 DEF Intent, Judging, Shows
  <2>6. CASE PrepareRecordFails(r)
    <3>1. req'[r] = Idle
      BY Zenon, <1>1, <2>6 DEF PrepareRecordFails, Fail
    <3> QED BY Zenon, <1>1, <3>1, ReturnedHarmless, HarmlessIntent
  <2> QED BY Zenon, <2>1, <2>2, <2>3, <2>4, <2>5, <2>6
<1>4. SameReports /\ SameData
  BY Zenon, <1>1 DEF SameReports, Reported, SameData
<1> QED BY Zenon, <1>1, <1>2, <1>3, <1>4, QuietStep

\* The reads after which the handler reports nothing yet.
LEMMA ReadsCalm ==
    ASSUME OneConnected, Known, Calm, TypeOK', NEW r \in Reqs,
           \/ Tail(r) \/ Fork(r) \/ Start(r) \/ Stop(r) \/ Restore(r)
    PROVE  Calm' /\ Refines
<1> DEFINE q == req[r]
<1>1. PICK k \in {"tail", "tail_stop", "fork", "start", "stop", "restore"} : ReadBox(r, k)
  BY Zenon DEF Tail, Fork, Start, Stop, Restore
<1>2. req \in [Reqs -> Request] /\ q \in Request /\ q.k = k
  BY Zenon, <1>1, ReadSays DEF Known, TypeOK
<1>3. Intent(req[r])'
  <2>1. CASE Tail(r)
    <3> DEFINE p == [q EXCEPT !.seen = None, !.sid = None]
    <3>1. p \in Request
      BY Zenon, <1>2 DEF Request
    <3>2. req'[r] = Returned(q) \/ req'[r] = Stopped(p)
      BY Zenon, <1>2, <2>1 DEF Tail, Return
    <3> HIDE DEF p
    <3> QED BY Zenon, <1>2, <3>1, <3>2, ReturnedHarmless, HarmlessIntent
  <2>2. CASE Fork(r)
    <3>1. req'[r].pc = "prepare" /\ req'[r].k = q.k /\ q.k = "fork"
      BY Zenon, <1>2, <2>2 DEF Fork, ReadBox, Request
    <3> QED BY Zenon, <3>1 DEF Intent, Judging
  <2>3. CASE Start(r) \/ Stop(r) \/ Restore(r)
    <3>1. \/ req'[r] = Idle
          \/ req'[r] = [q EXCEPT !.pc = "create", !.seen = None, !.copy = Hydrated(r)]
          \/ req'[r] = [q EXCEPT !.pc = "read", !.k = "running", !.seen = None,
                                 !.copy = Hydrated(r)]
          \/ req'[r] = [q EXCEPT !.pc = "read", !.k = "stop", !.seen = None, !.again = TRUE]
          \/ req'[r] = [q EXCEPT !.pc = "restore", !.seen = None]
      BY Zenon, <1>2, <2>3 DEF Start, Stop, Restore
    <3>2. req'[r].pc \in {"idle", "create", "read", "restore"}
      <4>1. CASE req'[r] = Idle
        BY <4>1 DEF Idle
      <4>2. CASE req'[r] # Idle
        BY ZenonT(60), <1>2, <3>1, <4>2 DEF Request
      <4> QED BY Zenon, <4>1, <4>2
    <3> QED BY Zenon, <3>2, HarmlessIntent DEF Harmless
  <2> QED BY Zenon, <2>1, <2>2, <2>3
<1> QED BY Zenon, <1>1, <1>3, ReadQuiet

\* The reads after which it consults the sandbox of a Running record.
LEMMA ConsultsCalm ==
    ASSUME OneConnected, Known, Calm, TypeOK', NEW r \in Reqs,
           Get(r) \/ EnsureRuntime(r) \/ RunningSandboxId(r) \/ StopForShutdown(r)
    PROVE  Calm' /\ Refines
<1> DEFINE q == req[r]
           c == Hydrated(r)
           s == SandboxFor(c, q.box)
           p == [q EXCEPT !.seen = None]
<1>1. PICK k \in {"get", "exec", "running", "shutdown"} : ReadBox(r, k)
  BY Zenon DEF Get, EnsureRuntime, RunningSandboxId, StopForShutdown
<1>2. /\ req \in [Reqs -> Request] /\ q \in Request /\ q.k = k /\ q.box \in Boxes
      /\ c.sid = q.seen.sid /\ c.status = q.seen.status
  BY Zenon, <1>1, ReadSays, ReadBoxFacts DEF Known, TypeOK
<1>3. c.status = "Running" => s # None
  <2>1. Good(q.seen, q.box, boxOf) /\ q.seen \in Record
    BY Zenon, <1>1, HydratedOwn, HandlerFacts DEF Known, Own, HandlerOK
  <2> QED BY Zenon, <1>2, <2>1 DEF Good, SandboxFor
<1>4. p \in Request
  BY Zenon, <1>2 DEF Request
<1>5. CASE c.status # "Running"
  <2>1. req'[r] = Returned(p) \/ req'[r] = Idle
    BY Zenon, <1>2, <1>5 DEF Get, EnsureRuntime, RunningSandboxId, StopForShutdown
  <2>2. Intent(req[r])'
    BY Zenon, <1>4, <2>1, ReturnedHarmless, HarmlessIntent
  <2> QED BY Zenon, <1>1, <2>2, ReadQuiet
<1>6. CASE c.status = "Running"
  <2>1. \/ req'[r] = [q EXCEPT !.pc = "stats", !.seen = None, !.copy = c, !.sid = s]
        \/ req'[r] = [q EXCEPT !.pc = "adopt", !.seen = None, !.copy = c, !.sid = s]
        \/ req'[r] = [q EXCEPT !.pc = "adopt", !.k = "stop", !.seen = None, !.sid = s]
        \/ req'[r] = [p EXCEPT !.pc = "adopt", !.copy = c, !.sid = s]
    BY Zenon, <1>2, <1>3, <1>6 DEF Get, EnsureRuntime, RunningSandboxId, StopForShutdown
  <2> HIDE DEF c, s
  <2>2. req'[r].pc \in {"stats", "adopt"} /\ req'[r].k \in {q.k, "stop"}
    BY ZenonT(60), <1>2, <2>1 DEF Request
  <2>3. Intent(req[r])'
    BY Zenon, <1>2, <2>2 DEF Intent, Judging, Judges
  <2> QED BY <1>1, <2>3, ReadQuiet
<1> QED BY Zenon, <1>5, <1>6

\* The reads after which it writes a new setting, or Removing.
LEMMA EditsCalm ==
    ASSUME OneConnected, Known, Calm, TypeOK', NEW r \in Reqs, SetSetting(r) \/ Remove(r)
    PROVE  Calm' /\ Refines
<1> DEFINE q == req[r]
           c == Hydrated(r)
<1>1. PICK k \in {"set", "remove", "remove2"} :
         ReadBox(r, k) /\ (SetSetting(r) => k = "set") /\ (Remove(r) => k # "set")
  BY Zenon DEF SetSetting, Remove, ReadBox
<1>2. /\ req \in [Reqs -> Request] /\ q \in Request /\ q.k = k /\ q.box \in Boxes
      /\ rec'[q.box] = c /\ c \in Record /\ c # None /\ c.status = rec[q.box].status
      /\ InOrder(q) /\ q.pc = "hydrate"
  BY Zenon, <1>1, ReadSays, HandlerKnown DEF Known, TypeOK, ReadBox, At
<1>3. CASE SetSetting(r)
  <2> DEFINE w == [c EXCEPT !.fs = q.arg]
  <2>1. w.status = c.status
    BY Zenon, <1>2 DEF Record
  <2>2. CASE c.status = "Running"
    <3>1. req'[r] = Idle
      BY Zenon, <1>2, <1>3, <2>2 DEF SetSetting
    <3> QED BY ZenonT(60), <1>1, <1>2, <3>1, ReturnedHarmless, HarmlessIntent, ReadQuiet
  <2>3. CASE c.status # "Running"
    <3>1. PICK p \in {"write", "resize"} :
             req'[r] = [q EXCEPT !.pc = p, !.seen = None, !.copy = w]
      BY Zenon, <1>2, <1>3, <2>3 DEF SetSetting
    <3> HIDE DEF c, w
    <3>2. req'[r].pc = p /\ req'[r].copy = w /\ req'[r].box = q.box /\ req'[r].k = "set"
      BY Zenon, <1>1, <1>2, <1>3, <3>1 DEF Request
    <3>3. Intent(req[r])'
      BY Zenon, <1>2, <2>1, <2>3, <3>2 DEF Intent, Judging, Shows, Reportable
    <3> QED BY Zenon, <1>1, <3>3, ReadQuiet
  <2> QED BY Zenon, <2>2, <2>3
<1>4. CASE Remove(r)
  <2> DEFINE w == [c EXCEPT !.status = "Removing", !.sid = None]
  <2>1. w.status = "Removing"
    BY Zenon, <1>2 DEF Record
  <2>2. CASE c.status = "Running" /\ k = "remove"
    <3>1. req'[r] = [q EXCEPT !.pc = "read", !.k = "stop", !.seen = None]
      BY Zenon, <1>2, <1>4, <2>2 DEF Remove
    <3>2. req'[r].pc = "read"
      BY Zenon, <1>2, <3>1 DEF Request
    <3> QED BY Zenon, <1>1, <3>2, HarmlessIntent, ReadQuiet DEF Harmless
  <2>3. CASE ~(c.status = "Running" /\ k = "remove")
    <3>1. req'[r] = [q EXCEPT !.pc = "write", !.seen = None, !.copy = w]
      BY Zenon, <1>2, <1>4, <2>3 DEF Remove
    <3>2. c.status # "Running"
      BY Zenon, <1>1, <1>2, <1>4, <2>3 DEF InOrder, Position, Rests
    <3> HIDE DEF c, w
    <3>3. req'[r].pc = "write" /\ req'[r].copy = w /\ req'[r].box = q.box /\ req'[r].k = k
      BY Zenon, <1>2, <3>1 DEF Request
    <3>4. Intent(req[r])'
      BY Zenon, <1>1, <1>2, <1>4, <2>1, <3>2, <3>3 DEF Intent, Judging, Rests, Reportable
    <3> QED BY Zenon, <1>1, <3>4, ReadQuiet
  <2> QED BY Zenon, <2>2, <2>3
<1> QED BY Zenon, <1>3, <1>4

\* A report that follows a failure, or a stop, when the VM is gone.
LEMMA UnlinkIntent ==
    ASSUME NEW r \in Reqs, NEW q \in Request, NEW c \in Record, q.k \in Judges,
           \/ req'[r] = SetFailed(q, c) /\ rec'[q.box] # None
           \/ req'[r] = MarkStopped(q, c) /\ rec'[q.box] # None /\ rec'[q.box].status = "Running",
           \A s \in vm' : boxOf'[s] # q.box
    PROVE  Intent(req[r])'
<1>1. /\ req'[r].pc = "unlink" /\ req'[r].k = q.k /\ req'[r].box = q.box
      /\ \/ req'[r].copy.status = "Failed"
         \/ req'[r].copy.status = "Stopped" /\ rec'[q.box].status = "Running"
      /\ rec'[q.box] # None
  BY SMTT(40), MarkFields
<1> QED BY Zenon, <1>1 DEF Intent, Judging, Reportable, Runs, NoVm

\* The steps that change nothing but the daemon's memory.
LEMMA BootsCalm ==
    ASSUME OneConnected, Known, Calm, TypeOK', NEW r \in Reqs,
           Connect(r) \/ Baseline(r) \/ Publish(r)
    PROVE  Calm' /\ Refines
<1> DEFINE q == req[r]
           c == [q.copy EXCEPT !.status = "Running", !.sid = q.sid]
<1>1. /\ UNCHANGED <<rec, disk, vm, boxOf, orphans>>
      /\ req \in [Reqs -> Request] /\ q \in Request /\ Intent(q) /\ InOrder(q) /\ HandlerOK(q)
      /\ q.pc \in {"connect", "baseline", "publish"}
  BY Zenon, HandlerKnown
     DEF Connect, Baseline, Publish, store, daemon, vms, At, Known, TypeOK, Calm
<1>2. q.copy \in Record /\ q.k = "start" /\ Rests(q.box) /\ disk[q.box] # 0
  BY Zenon, <1>1 DEF HandlerOK, Carrying, InOrder, Position, OnResting, Intent
<1>3. c.status = "Running"
  BY Zenon, <1>2 DEF Record
<1>4. SameReports /\ SameData
  BY Zenon, <1>1 DEF SameReports, Reported, SameData
<1>5. \/ req'[r] = [q EXCEPT !.pc = "baseline"] \/ req'[r] = [q EXCEPT !.pc = "publish"]
      \/ req'[r] = [q EXCEPT !.pc = "write", !.copy = c]
  BY Zenon, <1>1 DEF Connect, Baseline, Publish
<1> HIDE DEF c
<1>6. /\ req'[r].sid = q.sid /\ req'[r].box = q.box /\ req'[r].k = q.k
      /\ \/ req'[r].pc \in {"baseline", "publish"}
         \/ req'[r].pc = "write" /\ req'[r].copy = c
  BY ZenonT(60), <1>1, <1>5 DEF Request
<1>7. Intent(req[r])' /\ Booting(req[r])'
  BY Zenon, <1>1, <1>2, <1>3, <1>6 DEF Intent, Judging, Booting, Reportable, Rests
<1> QED BY ZenonT(60), <1>1, <1>4, <1>6, <1>7, QuietStep

LEMMA EndsCalm ==
    ASSUME OneConnected, NoFalseAlarm, Known, Calm, TypeOK', NEW r \in Reqs,
           Unlink(r) \/ StatsErr(r) \/ LaunchFails(r) \/ Destroy(r) \/ Archive(r)
    PROVE  Calm' /\ Refines
<1> DEFINE q == req[r]
<1>1. /\ UNCHANGED <<rec, disk, vm, boxOf, orphans>>
      /\ req \in [Reqs -> Request] /\ q \in Request /\ Intent(q) /\ InOrder(q) /\ HandlerOK(q)
      /\ q.pc \in {"unlink", "stats", "launch", "destroy", "archive"} /\ q.box \in Boxes
  BY Zenon, HandlerKnown
     DEF Unlink, StatsErr, LaunchFails, Destroy, Archive, store, daemon, vms, At,
     Known, TypeOK, Calm, NoBoxYet
<1>2. q.copy \in Record
  BY Zenon, <1>1 DEF HandlerOK, Carrying
<1>3. SameReports /\ SameData /\ ~Booting(q)
  BY Zenon, <1>1 DEF SameReports, Reported, SameData, Booting
<1>4. Intent(req[r])'
  <2>1. CASE Unlink(r)
    <3>1. /\ q.pc = "unlink" /\ req'[r].pc = "write" /\ req'[r].box = q.box
          /\ req'[r].copy = q.copy /\ req'[r].k = q.k
      BY Zenon, <1>1, <2>1 DEF Unlink, At, Request
    <3> QED BY Zenon, <1>1, <3>1 DEF Intent, Judging, Judges, Reportable, Shows, Runs, Rests, NoVm
  <2>2. CASE StatsErr(r)
    <3>1. q.pc = "stats" /\ req'[r] = SetFailed(q, q.copy) /\ q.sid \notin live \cap vm
      BY Zenon, <1>1, <2>2 DEF StatsErr, At, NoFalseAlarm
    <3>2. Runs(q.box) /\ rec[q.box].sid = q.sid /\ q.sid \in live
      BY Zenon, <1>1, <3>1 DEF InOrder, Position, OnRunning, Agreement, Agrees, Changing, Runs
    <3>3. NoVm(q.box)
      BY Zenon, <1>3, <3>1, <3>2 DEF OneConnected, Calm, Serving, NoVm
    <3>4. q.k \in Judges
      BY Zenon, <1>1, <3>1 DEF Intent, Judging
    <3> QED BY ZenonT(60), <1>1, <1>2, <3>1, <3>2, <3>3, <3>4, UnlinkIntent DEF NoVm, Runs
  <2>3. CASE LaunchFails(r)
    <3>1. q.pc = "launch" /\ req'[r] = SetFailed(q, q.copy)
      BY Zenon, <1>1, <2>3 DEF LaunchFails, At
    <3>2. Rests(q.box) /\ q.k = "start"
      BY Zenon, <1>1, <3>1 DEF InOrder, Position, OnResting
    <3>3. NoVm(q.box)
      BY Zenon, <1>3, <3>2, NoVmAtRest DEF Runs, Rests
    <3> QED BY Zenon, <1>1, <1>2, <3>1, <3>2, <3>3, UnlinkIntent DEF NoVm, Rests, Judges
  <2>4. CASE Destroy(r)
    <3>1. q.pc = "destroy"
      BY Zenon, <2>4 DEF Destroy, At
    <3>2. q.sid \in live /\ rec[q.box].sid = q.sid /\ Runs(q.box)
      BY Zenon, <1>1, <3>1 DEF InOrder, Position, OnRunning, Agreement, Agrees, Changing, Runs
    <3>3. q.sid \notin history
      BY Zenon, <3>2 DEF Known, Safe, HistoryIsFinal
    <3>4. req'[r].pc = "teardown" /\ req'[r].box = q.box /\ req'[r].k = q.k /\ req'[r].sid = q.sid
      BY SMTT(40), <1>1, <2>4, <3>2, <3>3 DEF Destroy, Request
    <3> QED BY Zenon, <1>1, <3>1, <3>2, <3>4 DEF Intent, Judging, Runs
  <2>5. CASE Archive(r)
    <3>1. q.pc = "archive" /\ req'[r] = MarkStopped(q, q.copy)
      BY Zenon, <1>1, <2>5 DEF Archive, At
    <3>2. Runs(q.box) /\ NoVm(q.box) /\ q.k \in Judges
      BY Zenon, <1>1, <3>1 DEF Intent, Judging
    <3> QED BY Zenon, <1>1, <1>2, <3>1, <3>2, UnlinkIntent DEF NoVm, Runs
  <2> QED BY Zenon, <2>1, <2>2, <2>3, <2>4, <2>5
<1> QED BY ZenonT(60), <1>1, <1>3, <1>4, QuietStep

\* A step that changes the disk of one BOX that does not run.
LEMMA DiskStep ==
    ASSUME OneConnected, Known, Calm, TypeOK', NEW r \in Reqs, NEW b \in Boxes,
           UNCHANGED <<rec, vm, boxOf, orphans>>, ~Booting(req[r]), ~Runs(b),
           \A x \in Boxes : x # b => disk'[x] = disk[x],
           disk'[b] = disk[b] \/ disk'[b] # 0 \/ Shows(b, "Removing"),
           Intent(req[r])'
    PROVE  Calm' /\ Refines
<1>1. SameReports /\ SameVms /\ NoVm(b)
  BY Zenon, NoVmAtRest DEF SameReports, Reported, SameVms, NoVm
<1>2. Serving'
  BY SMTT(40) DEF OneConnected, Calm, Serving, Runs
<1>3. Calm'
  BY Zenon, <1>2, CalmStep DEF Calm
<1> QED BY Zenon, <1>1, <1>3, DataStep DEF Known

\* A new BOX: its id is new, so there is nothing of it yet.
LEMMA PrepareRecordCalm ==
    ASSUME OneConnected, Known, Calm, TypeOK', NEW r \in Reqs, PrepareRecord(r)
    PROVE  Calm' /\ Refines
<1> DEFINE q == req[r]
           c == [status |-> "Created", sid |-> None, fs |-> DefaultSize]
<1>1. /\ q.pc = "prepare" /\ UNCHANGED <<rec, vm, boxOf, orphans>>
      /\ req \in [Reqs -> Request] /\ q \in Request /\ Intent(q) /\ NoTrace
      /\ disk \in [Boxes -> Sizes \cup {0}]
  BY Zenon, HandlerKnown DEF PrepareRecord, At, daemon, vms, Known, TypeOK, Calm
<1>2. PICK b \in Boxes \ born :
         /\ disk' = [disk EXCEPT ![b] = DefaultSize]
         /\ req' = [req EXCEPT ![r] = [Idle EXCEPT !.pc = "write", !.op = req[r].op,
                        !.k = req[r].k, !.box = b, !.copy = c]]
  BY ONLY Zenon, PrepareRecord(r) DEF PrepareRecord
<1>3. c.status = "Created"
  BY Zenon
<1> HIDE DEF c
<1>4. req'[r].pc = "write" /\ req'[r].k = q.k /\ req'[r].box = b /\ req'[r].copy = c
  BY Zenon, <1>1, <1>2 DEF Idle
<1>5. DefaultSize # 0
  BY Zenon, SizesAssumption
<1>6. rec[b] = None /\ q.k \in {"create", "fork"} /\ ~Booting(q) /\ ~Runs(b)
  BY Zenon, <1>1, <1>2 DEF NoTrace, Intent, Booting, Runs
<1>7. disk'[b] # 0 /\ \A x \in Boxes : x # b => disk'[x] = disk[x]
  BY Zenon, <1>1, <1>2, <1>5
<1>8. Intent(req[r])'
  BY ZenonT(60), <1>1, <1>3, <1>4, <1>6, <1>7 DEF Intent, Judging, Reportable
<1> QED BY Zenon, <1>1, <1>2, <1>6, <1>7, <1>8, DiskStep

\* The host replaces, resizes or makes the disk of a BOX that does not run.
LEMMA DisksCalm ==
    ASSUME OneConnected, Known, Calm, TypeOK', NEW r \in Reqs,
           ForkWorkspace(r) \/ ResizeWorkspace(r) \/ RestoreCheckpoint(r)
    PROVE  Calm' /\ Refines
<1> DEFINE q == req[r]
<1>1. /\ q.pc \in {"forkcopy", "resize", "restore"} /\ UNCHANGED <<rec, vm, boxOf, orphans>>
      /\ req \in [Reqs -> Request] /\ q \in Request /\ Intent(q) /\ InOrder(q) /\ HandlerOK(q)
      /\ disk \in [Boxes -> Sizes \cup {0}] /\ q.box \in Boxes
  BY Zenon, HandlerKnown
     DEF ForkWorkspace, ResizeWorkspace, RestoreCheckpoint, At, daemon, vms, Known,
     TypeOK, Calm, NoBoxYet
<1>2. ~Runs(q.box) /\ ~Booting(q)
  BY Zenon, <1>1 DEF Intent, Shows, InOrder, Position, OnResting, Rests, Runs, Booting
<1>3. disk' = disk \/ \E size \in Sizes : disk' = [disk EXCEPT ![q.box] = size]
  <2>1. CASE ForkWorkspace(r)
    BY Zenon, <2>1 DEF ForkWorkspace
  <2>2. CASE ResizeWorkspace(r)
    <3>1. q.arg \in Sizes
      BY Zenon, <1>1 DEF Request
    <3> QED BY Zenon, <1>1, <2>2, <3>1, SizesAssumption DEF ResizeWorkspace
  <2>3. CASE RestoreCheckpoint(r)
    BY Zenon, <1>1, <2>3, SizesAssumption DEF RestoreCheckpoint
  <2> QED BY Zenon, <2>1, <2>2, <2>3
<1>4. /\ \A x \in Boxes : x # q.box => disk'[x] = disk[x]
      /\ disk'[q.box] = disk[q.box] \/ disk'[q.box] # 0
  BY Zenon, <1>1, <1>3, SizesAssumption
<1>5. \/ q.pc = "resize" /\ req' = [req EXCEPT ![r].pc = "write"]
      \/ req'[r] = [q EXCEPT !.pc = "read", !.k = "start"]
      \/ req'[r] \in {Idle, Returned(q)}
  BY Zenon, <1>1 DEF ForkWorkspace, ResizeWorkspace, RestoreCheckpoint, Return, Fail, At
<1>6. Intent(req[r])'
  <2>1. CASE q.pc = "resize" /\ req' = [req EXCEPT ![r].pc = "write"]
    <3>1. req'[r].pc = "write" /\ req'[r].k = q.k /\ req'[r].box = q.box /\ req'[r].copy = q.copy
      BY Zenon, <1>1, <2>1 DEF Request
    <3>2. q.k = "set" /\ Shows(q.box, q.copy.status) /\ q.copy.status # "Running"
      BY Zenon, <1>1, <2>1 DEF Intent, HandlerOK
    <3> QED BY Zenon, <1>1, <3>1, <3>2 DEF Intent, Judging, Reportable, Shows
  <2>2. CASE req'[r] = [q EXCEPT !.pc = "read", !.k = "start"]
    <3>1. req'[r].pc = "read"
      BY Zenon, <1>1, <2>2 DEF Request
    <3> QED BY Zenon, <3>1, HarmlessIntent DEF Harmless
  <2>3. CASE req'[r] \in {Idle, Returned(q)}
    BY Zenon, <1>1, <2>3, ReturnedHarmless, HarmlessIntent
  <2> QED BY Zenon, <1>5, <2>1, <2>2, <2>3
<1> QED BY Zenon, <1>1, <1>2, <1>4, <1>6, DiskStep

LEMMA CheckWorkspaceCalm ==
    ASSUME OneConnected, Known, Calm, TypeOK', NEW r \in Reqs, CheckWorkspace(r)
    PROVE  Calm' /\ Refines
<1> DEFINE q == req[r]
<1>1. /\ q.pc = "create" /\ UNCHANGED <<rec, vm, boxOf, orphans>>
      /\ req \in [Reqs -> Request] /\ q \in Request /\ InOrder(q) /\ HandlerOK(q)
      /\ disk \in [Boxes -> Sizes \cup {0}] /\ q.box \in Boxes
  BY Zenon, HandlerKnown DEF CheckWorkspace, At, daemon, vms, Known, TypeOK, NoBoxYet
<1>2. Rests(q.box) /\ q.k = "start" /\ q.copy \in Record /\ ~Booting(q) /\ ~Runs(q.box)
  BY Zenon, <1>1 DEF InOrder, Position, OnResting, Rests, Runs, HandlerOK, Carrying, Booting
<1>3. CASE HasActiveWorkspace(q.box)
  <2>1. req'[r] = SetFailed(q, q.copy) /\ disk' = disk
    BY Zenon, <1>1, <1>3 DEF CheckWorkspace
  <2>2. NoVm(q.box)
    BY Zenon, <1>2, NoVmAtRest
  <2>3. Intent(req[r])'
    BY Zenon, <1>1, <1>2, <2>1, <2>2, UnlinkIntent DEF NoVm, Rests, Judges
  <2> QED BY Zenon, <1>1, <1>2, <2>1, <2>3, DiskStep
<1>4. CASE ~HasActiveWorkspace(q.box)
  <2>1. req'[r].pc = "launch" /\ req'[r].box = q.box
    BY SMTT(40), <1>1, <1>4 DEF CheckWorkspace, Request
  <2>2. disk' = [disk EXCEPT ![q.box] = IF @ = 0 THEN DefaultSize ELSE @]
    BY Zenon, <1>4 DEF CheckWorkspace
  <2>3. disk'[q.box] # 0 /\ \A x \in Boxes : x # q.box => disk'[x] = disk[x]
    BY Zenon, <1>1, <2>2, SizesAssumption
  <2>4. Intent(req[r])'
    BY Zenon, <2>1, <2>3 DEF Intent, Judging
  <2> QED BY Zenon, <1>1, <1>2, <2>3, <2>4, DiskStep
<1> QED BY Zenon, <1>3, <1>4

\* Only a removal discards a disk.
LEMMA RemoveWorkspaceCalm ==
    ASSUME OneConnected, Known, Calm, TypeOK', NEW r \in Reqs, RemoveWorkspace(r)
    PROVE  Calm' /\ Refines
<1> DEFINE q == req[r]
<1>1. /\ q.pc = "rmdisk" /\ UNCHANGED <<rec, vm, boxOf, orphans>>
      /\ req \in [Reqs -> Request] /\ q \in Request /\ Intent(q)
      /\ disk \in [Boxes -> Sizes \cup {0}] /\ q.box \in Boxes
  BY Zenon, HandlerKnown DEF RemoveWorkspace, At, daemon, vms, Known, TypeOK, Calm, NoBoxYet
<1>2. Shows(q.box, "Removing") /\ ~Runs(q.box) /\ ~Booting(q)
  BY Zenon, <1>1 DEF Intent, Shows, Runs, Booting
<1>3. \A x \in Boxes : x # q.box => disk'[x] = disk[x]
  BY Zenon, <1>1 DEF RemoveWorkspace
<1>4. Intent(req[r])'
  <2>1. CASE req'[r] = Idle
    BY Zenon, <1>1, <2>1, ReturnedHarmless, HarmlessIntent
  <2>2. CASE req'[r] # Idle
    <3>1. disk'[q.box] = 0 /\ req'[r].pc = "forget" /\ req'[r].box = q.box
      BY SMTT(40), <1>1, <2>2 DEF RemoveWorkspace, Fail, Request
    <3> QED BY Zenon, <1>1, <1>2, <3>1 DEF Intent, Judging, Shows
  <2> QED BY Zenon, <2>1, <2>2
<1> QED BY Zenon, <1>1, <1>2, <1>3, <1>4, DiskStep

----------------------------------------------------------------------------
(* Steps that start or end a VM. *)

\* The VM being booted is of a BOX that does not run.
LEMMA BootingRests ==
    ASSUME Known, Calm, NEW r \in Reqs, Booting(req[r])
    PROVE  Rests(req[r].box) /\ req[r].box \in Boxes
<1> DEFINE q == req[r]
<1>1. InOrder(q) /\ Intent(q) /\ q.box \in Boxes
  BY Zenon, HandlerKnown DEF Calm, Booting, NoBoxYet
<1>2. CASE q.pc = "write" /\ q.copy.status = "Running"
  BY Zenon, <1>1, <1>2 DEF Intent, Reportable
<1>3. CASE q.pc \in {"connect", "baseline", "publish"}
  BY Zenon, <1>1, <1>3 DEF InOrder, Position, OnResting
<1> QED BY Zenon, <1>1, <1>2, <1>3 DEF Booting

\* Two VMs of one BOX would both be named by its record, or both be booted.
LEMMA OneVmEach == ASSUME OneConnected, Known, Calm PROVE OneVmPerBox
<1> SUFFICES ASSUME NEW s \in vm, NEW t \in vm, boxOf[s] = boxOf[t] PROVE s = t
  BY Zenon DEF OneVmPerBox
<1>1. PICK r : Reqs = {r}
  BY Zenon DEF OneConnected
<1>2. Own(req[r], boxOf) /\ s \in Sandboxes /\ t \in Sandboxes
  BY Zenon, <1>1 DEF Known, Isolated, TypeOK
<1>3. CASE Booting(req[r])
  <2>1. Rests(req[r].box)
    BY Zenon, <1>1, <1>3, BootingRests
  <2>2. \A x \in Sandboxes : req[r].sid = x => boxOf[x] = req[r].box
    BY Zenon, <1>2 DEF Own
  <2> QED BY SMTT(40), <1>1, <1>2, <2>1, <2>2 DEF Calm, Serving, Runs, Rests
<1>4. CASE ~Booting(req[r])
  BY Zenon, <1>1, <1>4 DEF Calm, Serving
<1> QED BY Zenon, <1>3, <1>4

LEMMA LaunchCalm ==
    ASSUME OneConnected, Known, Calm, TypeOK', NEW r \in Reqs, Launch(r)
    PROVE  Calm' /\ Refines
<1> DEFINE q == req[r]
<1>1. /\ q.pc = "launch" /\ UNCHANGED <<rec, disk, orphans>>
      /\ req \in [Reqs -> Request] /\ q \in Request /\ InOrder(q) /\ Intent(q) /\ q.box \in Boxes
      /\ boxOf \in [Sandboxes -> Boxes \cup {None}] /\ vm \subseteq Sandboxes
  BY Zenon, HandlerKnown DEF Launch, At, store, daemon, Known, TypeOK, NoBoxYet, Calm
<1>2. Rests(q.box) /\ disk[q.box] # 0 /\ ~Booting(q)
  BY Zenon, <1>1 DEF InOrder, Position, OnResting, Intent, Booting
<1>3. PICK s \in Sandboxes : /\ boxOf[s] = None /\ boxOf' = [boxOf EXCEPT ![s] = q.box]
                             /\ vm' = vm \cup {s}
                             /\ req' = [req EXCEPT ![r].pc = "connect", ![r].sid = s]
  BY Zenon DEF Launch
<1>4. \A t \in vm : t # s /\ boxOf'[t] = boxOf[t]
  BY Zenon, <1>1, <1>3 DEF Known, Safe, Custody
<1>5. req'[r].pc = "connect" /\ req'[r].sid = s /\ req'[r].box = q.box /\ boxOf'[s] = q.box
  BY ZenonT(60), <1>1, <1>3 DEF Request
<1>6. \A x \in Boxes : x # q.box => (NoVm(x)' <=> NoVm(x))
  BY Zenon, <1>3, <1>4, <1>5 DEF NoVm
<1>7. SameReports /\ SameData
  BY Zenon, <1>1 DEF SameReports, Reported, SameData
<1>8. Refines
  BY Zenon, <1>1, <1>2, <1>6, <1>7, VmStep DEF Known
<1>9. \A t \in vm : Runs(boxOf[t]) /\ rec[boxOf[t]].sid = t
  BY Zenon, <1>2 DEF OneConnected, Calm, Serving
<1>10. Serving'
  BY ZenonT(60), <1>1, <1>3, <1>4, <1>5, <1>9 DEF Serving, Runs, Booting
<1>11. Intent(req[r])'
  BY Zenon, <1>1, <1>2, <1>5 DEF Intent, Judging
<1> QED BY Zenon, <1>1, <1>8, <1>10, <1>11, CalmStep DEF Calm

\* A VM ends.
LEMMA DropStep ==
    ASSUME OneConnected, Known, Calm, TypeOK', NEW s \in vm, DropInstance(s),
           UNCHANGED <<rec, disk>>
    PROVE  /\ Refines /\ NoVm(boxOf[s])'
           /\ \A b \in Boxes : NoVm(b) => NoVm(b)'
           /\ \A t \in vm' : t \in vm /\ t # s
<1>1. /\ vm' = vm \ {s} /\ UNCHANGED <<boxOf, orphans>>
      /\ boxOf[s] \in Boxes
  BY Zenon DEF DropInstance, Known, TypeOK, Safe, Custody
<1>2. OneVmPerBox
  BY Zenon, OneVmEach
<1>3. \A t \in vm' : boxOf'[t] # boxOf[s]
  BY Zenon, <1>1, <1>2 DEF OneVmPerBox
<1>4. NoVm(boxOf[s])'
  BY Zenon, <1>1, <1>3 DEF NoVm
<1>5. \A x \in Boxes : x # boxOf[s] => (NoVm(x)' <=> NoVm(x))
  BY Zenon, <1>1 DEF NoVm
<1>6. SameReports /\ SameData
  BY Zenon DEF SameReports, Reported, SameData
<1>7. PICK b \in Boxes : b = boxOf[s]
  BY Zenon, <1>1
<1>8. NoVm(b)' /\ \A x \in Boxes : x # b => (NoVm(x)' <=> NoVm(x))
  BY Zenon, <1>1, <1>3, <1>5, <1>7 DEF NoVm
<1>9. \A x \in Boxes : NoVm(x) => NoVm(x)'
  BY Zenon, <1>1 DEF NoVm
<1>10. \A t \in vm' : t \in vm /\ t # s
  BY Zenon, <1>1
<1>11. Refines
  BY Zenon, <1>6, <1>8, VmStep DEF Known
<1> QED BY Zenon, <1>4, <1>9, <1>10, <1>11

\* The handler gives up the VM it boots, or the one its BOX's record names.
LEMMA HandlerDrops ==
    ASSUME OneConnected, Known, Calm, TypeOK', NEW r \in Reqs, NEW b \in Boxes, NEW s \in Sandboxes,
           s = req[r].sid, b = req[r].box, boxOf[s] = b, DropInstance(s), UNCHANGED <<rec, disk>>,
           Booting(req[r]) \/ (~Booting(req[r]) /\ Runs(b) /\ rec[b].sid = s)
    PROVE  Refines /\ Serving' /\ NoVm(b)' /\ UNCHANGED <<boxOf, orphans>>
<1>1. vm' = vm \ {s} /\ UNCHANGED <<boxOf, orphans>>
  BY Zenon DEF DropInstance
<1>2. Refines
  <2>1. CASE s \in vm
    BY Zenon, <2>1, DropStep
  <2>2. CASE s \notin vm
    <3>1. SameReports /\ SameData /\ SameVms
      BY Zenon, <1>1, <2>2 DEF SameReports, Reported, SameData, SameVms, NoVm
    <3> QED BY Zenon, <3>1, Stutter DEF Known
  <2> QED BY Zenon, <2>1, <2>2
<1>3. \A t \in vm' : t \in vm /\ Runs(boxOf[t]) /\ rec[boxOf[t]].sid = t /\ t # s
  BY Zenon, <1>1 DEF OneConnected, Calm, Serving
<1>4. Booting(req[r]) => ~Runs(b)
  BY Zenon, BootingRests DEF Rests, Runs
<1>5. NoVm(b)'
  BY Zenon, <1>1, <1>3, <1>4 DEF NoVm
<1>6. Serving'
  BY Zenon, <1>1, <1>3 DEF Serving, Runs
<1> QED BY Zenon, <1>1, <1>2, <1>5, <1>6

LEMMA BootFailsCalm ==
    ASSUME OneConnected, Known, Calm, TypeOK', NEW r \in Reqs, BootFails(r)
    PROVE  Calm' /\ Refines
<1> DEFINE q == req[r]
           p == [q EXCEPT !.sid = None]
<1>1. /\ q.pc \in {"connect", "baseline"} /\ UNCHANGED <<rec, disk>> /\ DropInstance(q.sid)
      /\ req \in [Reqs -> Request] /\ q \in Request /\ InOrder(q) /\ HandlerOK(q)
      /\ q.box \in Boxes /\ q.sid \in Sandboxes /\ boxOf[q.sid] = q.box
  <2>1. /\ q.pc \in {"connect", "baseline"} /\ UNCHANGED <<rec, disk>> /\ DropInstance(q.sid)
        /\ req \in [Reqs -> Request] /\ q \in Request /\ InOrder(q) /\ HandlerOK(q)
        /\ q.box \in Boxes
    BY Zenon, HandlerKnown DEF BootFails, At, store, Known, TypeOK, NoBoxYet
  <2>2. q.sid \in Sandboxes /\ Own(q, boxOf) /\ q.sid # None
    BY Zenon, <2>1 DEF HandlerOK, Naming, Known, Isolated
  <2> QED BY Zenon, <2>1, <2>2 DEF Own
<1>2. Booting(q) /\ q.k = "start" /\ Rests(q.box) /\ q.copy \in Record
  BY Zenon, <1>1 DEF Booting, InOrder, Position, OnResting, HandlerOK, Carrying
<1>3. PICK b \in Boxes, s \in Sandboxes : b = q.box /\ s = q.sid
  BY Zenon, <1>1
<1>4. Refines /\ Serving' /\ NoVm(b)' /\ UNCHANGED <<boxOf, orphans>>
  BY Zenon, <1>1, <1>2, <1>3, HandlerDrops
<1>5. p \in Request /\ p.box = b /\ p.k = "start"
  <2>1. p \in Request
    BY Zenon, <1>1 DEF Request
  <2> QED BY Zenon, <1>1, <1>2, <1>3, <2>1 DEF Request
<1>6. req'[r] = SetFailed(p, q.copy)
  BY Zenon, <1>1 DEF BootFails
<1> HIDE DEF p
<1>7. Intent(req[r])'
  BY ZenonT(60), <1>1, <1>2, <1>3, <1>4, <1>5, <1>6, UnlinkIntent DEF NoVm, Rests, Judges
<1> QED BY Zenon, <1>4, <1>7, CalmStep DEF Calm

LEMMA TeardownCalm ==
    ASSUME OneConnected, Known, Calm, TypeOK', NEW r \in Reqs, Teardown(r)
    PROVE  Calm' /\ Refines
<1> DEFINE q == req[r]
<1>1. /\ q.pc = "teardown" /\ UNCHANGED <<rec, disk>> /\ DropInstance(q.sid)
      /\ req \in [Reqs -> Request] /\ q \in Request /\ InOrder(q) /\ HandlerOK(q) /\ Intent(q)
      /\ q.box \in Boxes /\ q.sid \in Sandboxes /\ boxOf[q.sid] = q.box
  <2>1. /\ q.pc = "teardown" /\ UNCHANGED <<rec, disk>> /\ DropInstance(q.sid)
        /\ req \in [Reqs -> Request] /\ q \in Request /\ InOrder(q) /\ HandlerOK(q) /\ Intent(q)
        /\ q.box \in Boxes
    BY Zenon, HandlerKnown DEF Teardown, At, store, Known, TypeOK, NoBoxYet, Calm
  <2>2. q.sid \in Sandboxes /\ Own(q, boxOf) /\ q.sid # None
    BY Zenon, <2>1 DEF HandlerOK, Naming, Known, Isolated
  <2> QED BY Zenon, <2>1, <2>2 DEF Own
<1>2. /\ ~Booting(q) /\ Runs(q.box) /\ rec[q.box].sid = q.sid /\ q.k \in Judges
      /\ q.copy \in Record
  BY Zenon, <1>1 DEF Booting, Intent, Judging, HandlerOK, Carrying
<1>3. PICK b \in Boxes, s \in Sandboxes : b = q.box /\ s = q.sid
  BY Zenon, <1>1
<1>4. Refines /\ Serving' /\ NoVm(b)' /\ UNCHANGED <<boxOf, orphans>>
  BY Zenon, <1>1, <1>2, <1>3, HandlerDrops
<1>5. Intent(req[r])'
  <2>1. CASE req' = [req EXCEPT ![r].pc = "archive"]
    <3>1. req'[r].pc = "archive" /\ req'[r].box = b /\ req'[r].k = q.k
      BY Zenon, <1>1, <1>3, <2>1 DEF Request
    <3> QED BY ZenonT(60), <1>1, <1>2, <1>3, <1>4, <3>1 DEF Intent, Judging, Runs, NoVm
  <2>2. CASE req' = [req EXCEPT ![r] = SetFailed(q, q.copy)]
    <3>1. req'[r] = SetFailed(q, q.copy)
      BY Zenon, <1>1, <2>2
    <3> QED BY ZenonT(60), <1>1, <1>2, <1>3, <1>4, <3>1, UnlinkIntent DEF NoVm, Runs
  <2> QED BY Zenon, <2>1, <2>2 DEF Teardown
<1> QED BY <1>4, <1>5, CalmStep DEF Calm

LEMMA GuestsCalm ==
    ASSUME OneConnected, Known, Calm, TypeOK', NEW s \in Sandboxes, VmDies(s) \/ VmHangs(s)
    PROVE  Calm' /\ Refines
<1>1. PICK r \in Reqs : TRUE
  BY Zenon DEF OneConnected
<1>2. /\ UNCHANGED <<rec, disk, boxOf, orphans, req>> /\ vm' \subseteq vm
  BY Zenon DEF VmDies, VmHangs, DropInstance, store
<1>3. \A b : NoVm(b) => \A t \in vm' : boxOf'[t] # b
  BY Zenon, <1>2 DEF NoVm
<1>4. Intent(req[r])'
  <2>1. Intent(req[r])
    BY Zenon DEF Calm
  <2> QED BY ZenonT(60), <1>2, <1>3, <2>1 DEF Intent, Reportable, Shows, Runs, Rests, NoVm
<1>5. Serving'
  BY Zenon, <1>2 DEF Calm, Serving, Runs, Booting
<1>6. Calm'
  BY Zenon, <1>2, <1>4, <1>5, CalmStep DEF Calm
<1>7. Refines
  <2>1. CASE VmDies(s)
    BY Zenon, <1>2, <2>1, DropStep DEF VmDies
  <2>2. CASE VmHangs(s)
    <3>1. SameReports /\ SameData /\ SameVms
      BY Zenon, <1>2, <2>2 DEF VmHangs, SameReports, Reported, SameData, SameVms, NoVm
    <3> QED BY Zenon, <3>1, Stutter DEF Known
  <2> QED BY Zenon, <2>1, <2>2
<1> QED BY Zenon, <1>6, <1>7

----------------------------------------------------------------------------
(* Steps that report. *)

\* A BOX that is not reported as Running has no VM at the time.
LEMMA ReportedAtRest ==
    ASSUME OneConnected, Known, Calm, NEW r \in Reqs, req[r].pc = "write",
           req[r].copy.status # "Running"
    PROVE  NoVm(req[r].box)
<1>1. Reportable(req[r].copy, req[r].box) /\ ~Booting(req[r])
  BY Zenon DEF Calm, Intent, Booting
<1>2. CASE ~Runs(req[r].box)
  BY Zenon, <1>1, <1>2, NoVmAtRest
<1>3. CASE Runs(req[r].box)
  BY Zenon, <1>1, <1>3 DEF Reportable, Shows, Runs, Rests
<1> QED BY Zenon, <1>2, <1>3

LEMMA AfterWriteIntent ==
    ASSUME NEW r \in Reqs, NEW q \in Request, req'[r] = AfterWrite(q),
           rec'[q.box] = q.copy, q.copy # None,
           q.k \in {"remove", "remove2"} => q.copy.status = "Removing",
           q.k = "fork" => q.copy.status = "Created"
    PROVE  Intent(req[r])'
<1>a. CASE q.k = "start" /\ q.copy.status = "Running"
  <2>1. req'[r] = [q EXCEPT !.pc = "stats", !.k = "get"]
    BY Zenon, <1>a DEF AfterWrite
  <2>2. req'[r].pc = "stats" /\ req'[r].k = "get"
    BY Zenon, <2>1 DEF Request
  <2> QED BY Zenon, <2>2 DEF Intent, Judging, Judges
<1>b. CASE q.k \in {"get", "missing", "set"}
  <2>1. \/ req'[r] = [q EXCEPT !.pc = "read", !.k = "tail", !.copy = None]
        \/ req'[r] = [q EXCEPT !.pc = "read", !.k = "tail_stop", !.copy = None]
        \/ req'[r] = [q EXCEPT !.pc = "hydrate", !.k = "tail", !.seen = q.copy]
    BY Zenon, <1>b DEF AfterWrite
  <2>2. req'[r].pc \in {"read", "hydrate"}
    BY Zenon, <2>1 DEF Request
  <2> QED BY Zenon, <2>2, HarmlessIntent DEF Harmless
<1>c. CASE q.k \in {"remove", "remove2"}
  <2>1. req'[r] = [q EXCEPT !.pc = "rmdisk", !.copy = None]
    BY Zenon, <1>c DEF AfterWrite
  <2>2. req'[r].pc = "rmdisk" /\ req'[r].box = q.box
    BY Zenon, <2>1 DEF Request
  <2> QED BY Zenon, <1>c, <2>2 DEF Intent, Judging, Shows
<1>d. CASE q.k = "fork"
  <2>1. req'[r] = [q EXCEPT !.pc = "forkcopy", !.copy = None]
    BY Zenon, <1>d DEF AfterWrite
  <2>2. req'[r].pc = "forkcopy" /\ req'[r].box = q.box
    BY Zenon, <2>1 DEF Request
  <2> QED BY Zenon, <1>d, <2>2 DEF Intent, Judging, Shows
<1>e. CASE q.k \in {"stop", "shutdown"} /\ q.copy.status = "Stopped"
  <2> DEFINE p == [q EXCEPT !.copy = None, !.sid = None]
  <2>1. p \in Request
    BY Zenon DEF Request
  <2>2. req'[r] = Stopped(p)
    BY Zenon, <1>e DEF AfterWrite
  <2> HIDE DEF p
  <2> QED BY Zenon, <2>1, <2>2, ReturnedHarmless, HarmlessIntent
<1>f. CASE q.k = "create"
  <2>1. req'[r] = Returned(q)
    BY Zenon, <1>f DEF AfterWrite
  <2> QED BY Zenon, <2>1, ReturnedHarmless, HarmlessIntent
<1>g. CASE /\ ~(q.k = "start" /\ q.copy.status = "Running")
           /\ q.k \notin {"get", "missing", "set", "remove", "remove2", "fork", "create"}
           /\ ~(q.k \in {"stop", "shutdown"} /\ q.copy.status = "Stopped")
  <2>1. req'[r] = Idle
    BY Zenon, <1>g DEF AfterWrite
  <2> QED BY Zenon, <2>1, ReturnedHarmless, HarmlessIntent
<1> QED BY Zenon, <1>a, <1>b, <1>c, <1>d, <1>e, <1>f, <1>g

LEMMA WriteCalm ==
    ASSUME OneConnected, Known, Calm, TypeOK', NEW r \in Reqs, Write(r)
    PROVE  Calm' /\ Refines
<1> DEFINE q == req[r]
<1>1. /\ q.pc = "write" /\ UNCHANGED <<disk, vm, boxOf, orphans>>
      /\ req \in [Reqs -> Request] /\ q \in Request /\ HandlerOK(q) /\ q.box \in Boxes
      /\ rec \in [Boxes -> Record \cup {None}] /\ rec' = [rec EXCEPT ![q.box] = q.copy]
      /\ InOrder(q) /\ Intent(q) /\ req'[r] = AfterWrite(q)
  BY ZenonT(60), HandlerKnown DEF Write, At, vms, daemon, Known, TypeOK, NoBoxYet, Calm
<1>2. rec'[q.box] = q.copy /\ \A b \in Boxes : b # q.box => rec'[b] = rec[b]
  BY ZenonT(60), <1>1
<1>3. q.copy \in Record /\ q.copy # None /\ Reportable(q.copy, q.box)
  BY ZenonT(60), <1>1 DEF HandlerOK, Carrying, Intent
<1>4. q.copy.status # "Running" => NoVm(q.box)
  BY ZenonT(60), <1>1, ReportedAtRest
<1>5. Intent(req[r])'
  BY ZenonT(60), <1>1, <1>2, <1>3, AfterWriteIntent DEF Intent
<1>6. Serving'
  <2> SUFFICES ASSUME NEW s \in vm PROVE Runs(boxOf[s])' /\ rec'[boxOf[s]].sid = s
    BY ZenonT(60), <1>1 DEF Serving
  <2>0. boxOf[s] \in Boxes
    BY ZenonT(60) DEF Known, TypeOK, Safe, Custody
  <2>1. CASE boxOf[s] # q.box
    BY ZenonT(60), <1>1, <1>2, <2>0, <2>1, OtherVms DEF Runs
  <2>2. CASE boxOf[s] = q.box
    <3>1. q.copy.status = "Running"
      BY Zenon, <1>4, <2>2 DEF NoVm
    <3>2. Rests(q.box) /\ q.copy.sid = q.sid
      BY ZenonT(60), <1>1, <1>3, <3>1 DEF Reportable, InOrder, Outcome
    <3>3. s = q.sid
      BY Zenon, <2>2, <3>2 DEF OneConnected, Calm, Serving, Runs, Rests
    <3> QED BY Zenon, <1>1, <1>2, <1>3, <2>2, <3>1, <3>2, <3>3 DEF Runs
  <2> QED BY Zenon, <2>1, <2>2
<1>7. SameVms /\ SameData
  BY Zenon, <1>1 DEF SameVms, SameData, NoVm
<1>8. PICK b \in Boxes : b = q.box
  BY Zenon, <1>1
<1>9. Reported(b)' = q.copy.status /\ \A x \in Boxes : x # b => Reported(x)' = Reported(x)
  BY Zenon, <1>2, <1>3, <1>8 DEF Reported
<1>10. Refines
  <2>1. CASE Shows(b, q.copy.status)
    <3>1. SameReports
      BY Zenon, <1>9, <2>1 DEF SameReports, Shows, Reported
    <3> QED BY Zenon, <1>7, <3>1, Stutter DEF Known
  <2>2. CASE ~Shows(b, q.copy.status)
    <3>1. rec[b] = None => Reported(b) = "Absent"
      BY Zenon DEF Reported
    <3>2. \/ q.copy.status = "Created" /\ rec[b] = None /\ disk[b] # 0
          \/ q.copy.status = "Running" /\ Rests(b) /\ disk[b] # 0
          \/ q.copy.status = "Stopped" /\ Runs(b) /\ NoVm(b)
          \/ q.copy.status = "Failed" /\ rec[b] # None /\ NoVm(b)
          \/ q.copy.status = "Removing" /\ Rests(b) /\ NoVm(b)
      BY ZenonT(60), <1>3, <1>4, <1>8, <2>2 DEF Reportable
    <3> QED BY Zenon, <1>7, <1>9, <3>1, <3>2, ReportStep DEF Known
  <2> QED BY Zenon, <2>1, <2>2
<1> QED BY Zenon, <1>1, <1>5, <1>6, <1>10, CalmStep DEF Calm

LEMMA RemoveRecordCalm ==
    ASSUME OneConnected, Known, Calm, TypeOK', NEW r \in Reqs, RemoveRecord(r)
    PROVE  Calm' /\ Refines
<1> DEFINE q == req[r]
<1>1. /\ q.pc = "rmrec" /\ UNCHANGED <<disk, vm, boxOf, orphans>>
      /\ req \in [Reqs -> Request] /\ q \in Request /\ q.box \in Boxes
      /\ rec \in [Boxes -> Record \cup {None}] /\ rec' = [rec EXCEPT ![q.box] = None]
      /\ Intent(q) /\ req'[r] = Returned(q)
  BY Zenon, HandlerKnown
     DEF RemoveRecord, Return, At, vms, daemon, Known, TypeOK, NoBoxYet, Calm
<1>2. rec'[q.box] = None /\ \A b \in Boxes : b # q.box => rec'[b] = rec[b]
  BY Zenon, <1>1
<1>3. Shows(q.box, "Removing") /\ disk[q.box] = 0 /\ ~Runs(q.box) /\ ~Booting(q)
  BY ZenonT(60), <1>1 DEF Intent, Shows, Runs, Booting
<1>4. NoVm(q.box)
  BY Zenon, <1>3, NoVmAtRest
<1>5. Intent(req[r])'
  BY ZenonT(60), <1>1, ReturnedHarmless, HarmlessIntent
<1>6. Serving'
  <2> SUFFICES ASSUME NEW s \in vm PROVE Runs(boxOf[s])' /\ rec'[boxOf[s]].sid = s
    BY Zenon, <1>1 DEF Serving
  <2>1. boxOf[s] \in Boxes /\ boxOf[s] # q.box
    BY Zenon, <1>4 DEF Known, TypeOK, Safe, Custody, NoVm
  <2> QED BY ZenonT(60), <1>1, <1>2, <2>1, OtherVms DEF Runs
<1>7. SameVms /\ SameData
  BY Zenon, <1>1 DEF SameVms, SameData, NoVm
<1>8. PICK b \in Boxes : b = q.box
  BY Zenon, <1>1
<1>9. Reported(b)' = "Absent" /\ \A x \in Boxes : x # b => Reported(x)' = Reported(x)
  BY Zenon, <1>2, <1>8 DEF Reported
<1>10. Refines
  BY Zenon, <1>3, <1>7, <1>8, <1>9, ReportStep DEF Known
<1> QED BY Zenon, <1>1, <1>5, <1>6, <1>10, CalmStep DEF Calm

\* A quit: no record says Running, and every VM is in the daemon's hands.
LEMMA ExitCalm ==
    ASSUME OneConnected, Known, Calm, TypeOK', NEW r \in Reqs, Exit(r)
    PROVE  Calm' /\ Refines
<1> DEFINE q == req[r]
<1>1. /\ q.pc = "exit" /\ disk' = disk /\ orphans' = orphans /\ vm' = vm \ Held
      /\ req'[r] = Idle /\ q \in Request /\ InOrder(q)
      /\ \A b \in Boxes : rec'[b] = IF rec[b] = None THEN None ELSE Reconciled(rec[b], b)
  BY Zenon, HandlerKnown DEF Exit, NewDaemon, At
<1>2. \A b \in Boxes : ~Runs(b)
  BY ZenonT(60), <1>1 DEF InOrder, Quitting
<1>3. vm' = {}
  BY Zenon, <1>1 DEF Known, Safe, NoLeakedVm, Calm
<1>4. ASSUME NEW b \in Boxes, rec[b] # None PROVE rec'[b] # None /\ rec'[b].status = rec[b].status
  <2> DEFINE n == Normalized(rec[b], b)
  <2>1. n \in Record /\ n.status = rec[b].status
    BY Zenon, <1>4, NormalizedTyped DEF Known, TypeOK
  <2>2. n.status # "Running"
    BY Zenon, <1>2, <1>4, <2>1 DEF Runs
  <2>3. rec'[b] = n
    BY ZenonT(60), <1>1, <1>4, <2>2 DEF Reconciled
  <2> HIDE DEF n
  <2> QED BY Zenon, <2>1, <2>3
<1>5. SameReports /\ SameData
  BY Zenon, <1>1, <1>4 DEF SameReports, Reported, SameData
<1>6. Serving' /\ Intent(req[r])'
  BY Zenon, <1>1, <1>3, ReturnedHarmless, HarmlessIntent DEF Serving
<1>7. Calm'
  BY Zenon, <1>1, <1>6, CalmStep DEF Calm
<1> QED BY Zenon, <1>2, <1>3, <1>5, <1>7, QuitStep DEF Known

----------------------------------------------------------------------------
(* The theorems. *)

LEMMA InitCalm == Init => Calm /\ Contract!ContractInit
<1> SUFFICES ASSUME Init PROVE Calm /\ Contract!ContractInit
  BY Zenon
<1>1. \A r \in Reqs : req[r].pc = "idle"
  BY Zenon DEF Init, Idle
<1>2. Calm
  BY Zenon, <1>1 DEF Init, Calm, Serving, Intent, Judging
<1>3. Contract!ContractInit
  BY Zenon DEF Init, Contract!ContractInit
<1> QED BY Zenon, <1>2, <1>3

LEMMA NextCalm ==
    ASSUME OneConnected, NoFalseAlarm
    PROVE  Known /\ Calm /\ TypeOK' /\ [Next]_vars => Calm' /\ Refines
<1> SUFFICES ASSUME Known, Calm, TypeOK', [Next]_vars PROVE Calm' /\ Refines
  BY Zenon
<1>1. ASSUME NEW r \in Reqs,
             \/ Call(r) \/ CallCreate(r) \/ CallList(r) \/ CallShutdown(r)
             \/ NextBox(r) \/ Read(r) \/ Adopt(r) \/ StatsOk(r) \/ Forget(r)
             \/ PrepareRecordFails(r) \/ Exit(r)
      PROVE  Calm' /\ Refines
  BY Zenon, <1>1, CallsCalm, MovesCalm, ExitCalm
<1>2. ASSUME NEW r \in Reqs,
             \/ Tail(r) \/ Fork(r) \/ Get(r) \/ EnsureRuntime(r) \/ SetSetting(r) \/ Start(r)
             \/ Stop(r) \/ RunningSandboxId(r) \/ StopForShutdown(r) \/ Remove(r) \/ Restore(r)
      PROVE  Calm' /\ Refines
  BY Zenon, <1>2, ReadsCalm, ConsultsCalm, EditsCalm
<1>3. ASSUME NEW r \in Reqs,
             \/ Unlink(r) \/ StatsErr(r) \/ LaunchFails(r) \/ Destroy(r) \/ Archive(r)
             \/ Connect(r) \/ Baseline(r) \/ Publish(r)
             \/ Launch(r) \/ BootFails(r) \/ Teardown(r)
      PROVE  Calm' /\ Refines
  BY Zenon, <1>3, EndsCalm, BootsCalm, LaunchCalm, BootFailsCalm, TeardownCalm
<1>4. ASSUME NEW r \in Reqs,
             \/ PrepareRecord(r) \/ ForkWorkspace(r) \/ ResizeWorkspace(r) \/ RestoreCheckpoint(r)
             \/ CheckWorkspace(r) \/ RemoveWorkspace(r) \/ Write(r) \/ RemoveRecord(r)
      PROVE  Calm' /\ Refines
  BY Zenon, <1>4, PrepareRecordCalm, DisksCalm, CheckWorkspaceCalm, RemoveWorkspaceCalm, WriteCalm,
     RemoveRecordCalm
<1>5. ASSUME NEW s \in Sandboxes, VmDies(s) \/ VmHangs(s) PROVE Calm' /\ Refines
  BY Zenon, <1>5, GuestsCalm
<1>6. ~Crash
  BY Zenon DEF NoFalseAlarm, Crash
<1>7. CASE UNCHANGED vars
  <2>1. UNCHANGED <<rec, disk, vm, boxOf, orphans, req>>
    BY Zenon, <1>7 DEF vars, store, daemon, vms
  <2>2. Calm'
    BY SMTT(40), <2>1 DEF Calm, Serving, Intent, Booting, Reportable, Shows, Runs, Rests, NoVm
  <2>3. SameReports /\ SameVms /\ SameData
    BY Zenon, <2>1 DEF SameReports, Reported, SameVms, NoVm, SameData
  <2> QED BY Zenon, <2>2, <2>3, Stutter DEF Known
<1> QED BY ZenonT(60), <1>1, <1>2, <1>3, <1>4, <1>5, <1>6, <1>7 DEF Next, Progress

LEMMA CalmAlways == ASSUME OneConnected, NoFalseAlarm PROVE Spec => []Calm
<1>1. Known => TypeOK
  BY Zenon DEF Known
<1> QED BY <1>1, InitCalm, NextCalm, KnownAlways, PTL DEF Spec

\* Between one user's operations a BOX has one live VM at most, and none while
\* the host resizes, replaces or deletes its disk, whatever guests die or hang.
THEOREM DisksAreNotShared == ASSUME OneConnected, NoFalseAlarm PROVE Spec => []DiskHasOneUser
<1>1. Known /\ Calm => DiskHasOneUser
  <2> SUFFICES ASSUME Known, Calm PROVE DiskExclusive
    BY Zenon, OneVmEach DEF DiskHasOneUser
  <2> SUFFICES ASSUME NEW r \in Reqs, req[r].pc \in {"resize", "restore", "rmdisk"}
               PROVE  vm \cap SandboxesOf(req[r].box) = {}
    BY Zenon DEF DiskExclusive
  <2>1. ~Runs(req[r].box) /\ ~Booting(req[r])
    BY Zenon, HandlerKnown DEF InOrder, Position, OnResting, Rests, Runs, Booting
  <2>2. NoVm(req[r].box)
    BY Zenon, <2>1, NoVmAtRest
  <2> QED BY Zenon, <2>2 DEF NoVm, SandboxesOf
<1> QED BY <1>1, KnownAlways, CalmAlways, PTL

\* The operations of LocalBoxService, issued one after another, implement the
\* contract of a BOX: no BOX is reported Stopped, Failed or Removing while its VM
\* is alive, and only remove_box discards a workspace.
THEOREM OperationsKeepContract ==
    ASSUME OneConnected, NoFalseAlarm PROVE Spec => ImplementsContract
<1>1. Init => Contract!ContractInit
  BY Zenon, InitCalm
<1>2. Known /\ Calm /\ TypeOK' /\ [Next]_vars => [Contract!ContractNext]_Contract!cvars
  BY Zenon, NextCalm DEF Refines
<1>3. Known => TypeOK
  BY DEF Known
<1> QED BY <1>1, <1>2, <1>3, KnownAlways, CalmAlways, PTL
        DEF Spec, ImplementsContract, Contract!ContractSpec

----------------------------------------------------------------------------
(* What follows from the contract alone. *)

LEMMA ContractKeepsData ==
    ASSUME Contract!DataIsDurable, [Contract!ContractNext]_Contract!cvars
    PROVE  Contract!DataIsDurable'
<1> DEFINE status == [x \in Boxes |-> IF rec[x] = None THEN "Absent" ELSE rec[x].status]
           runtime == [x \in Boxes |-> vm \cap SandboxesOf(x) # {}]
           data == [x \in Boxes |-> disk[x] # 0]
           Durable == \A b \in Boxes : status[b] \in {"Created", "Running", "Stopped"} => data[b]
           Report(b, s) == status' = [status EXCEPT ![b] = s] /\ UNCHANGED <<runtime, data>>
<1>1. /\ Durable /\ (Durable' => Contract!DataIsDurable')
      /\ DOMAIN status = Boxes /\ DOMAIN data = Boxes
  BY Zenon DEF Contract!DataIsDurable
<1>2. \/ UNCHANGED <<status, data>>
      \/ \E b \in Boxes : status' = status /\ data' = [data EXCEPT ![b] = TRUE]
      \/ \E b \in Boxes : /\ status' = status /\ data' = [data EXCEPT ![b] = FALSE]
                          /\ status[b] = "Removing"
      \/ \E b \in Boxes : \E s \in {"Created", "Running", "Stopped"} : Report(b, s) /\ data[b]
      \/ \E b \in Boxes : \E s \in {"Failed", "Removing", "Absent"} : Report(b, s)
  <2>1. CASE UNCHANGED Contract!cvars
    BY ZenonT(60), <2>1 DEF Contract!cvars
  <2>2. CASE Contract!Quit
    BY ZenonT(60), <2>2 DEF Contract!Quit
  <2>3. ASSUME NEW b \in Boxes,
               \/ Contract!Provision(b) \/ Contract!PowerOn(b)
               \/ Contract!PowerOff(b) \/ Contract!Discard(b)
        PROVE  \/ UNCHANGED <<status, data>>
               \/ status' = status /\ data' = [data EXCEPT ![b] = TRUE]
               \/ status' = status /\ data' = [data EXCEPT ![b] = FALSE] /\ status[b] = "Removing"
    BY ZenonT(60), <2>3
       DEF Contract!Provision, Contract!PowerOn, Contract!PowerOff, Contract!Discard
  <2>4. ASSUME NEW b \in Boxes, Contract!ReportRunning(b)
        PROVE  data[b] /\ Report(b, "Running")
    BY ZenonT(60), <2>4 DEF Contract!ReportRunning, Contract!Report
  <2>5. ASSUME NEW b \in Boxes, Contract!ReportStopped(b)
        PROVE  data[b] /\ Report(b, "Stopped")
    BY ZenonT(60), <1>1, <2>5 DEF Contract!ReportStopped, Contract!Report
  <2>6. ASSUME NEW b \in Boxes, Contract!Register(b)
        PROVE  data[b] /\ Report(b, "Created")
    BY ZenonT(60), <2>6 DEF Contract!Register, Contract!Report
  <2>7. ASSUME NEW b \in Boxes,
               Contract!ReportFailed(b) \/ Contract!ReportRemoving(b) \/ Contract!Unregister(b)
        PROVE  \E s \in {"Failed", "Removing", "Absent"} : Report(b, s)
    BY Zenon, <2>7
       DEF Contract!ReportFailed, Contract!ReportRemoving, Contract!Unregister, Contract!Report
  <2> HIDE DEF status, data, runtime, Report
  <2> QED BY ZenonT(60), <2>1, <2>2, <2>3, <2>4, <2>5, <2>6, <2>7 DEF Contract!ContractNext
<1>3. Durable'
  <2> HIDE DEF status, data, runtime
  <2> QED BY Zenon, <1>1, <1>2
<1> QED BY Zenon, <1>1, <1>3

\* A BOX reported Created, Running or Stopped has its workspace: the contract
\* lets only a removal discard it, once the record is marked.
THEOREM DataIsKept == Contract!ContractSpec => []Contract!DataIsDurable
<1>1. Contract!ContractInit => Contract!DataIsDurable
  BY Zenon DEF Contract!ContractInit, Contract!DataIsDurable
<1>2. Contract!DataIsDurable /\ [Contract!ContractNext]_Contract!cvars => Contract!DataIsDurable'
  BY Zenon, ContractKeepsData
<1> QED BY <1>1, <1>2, PTL DEF Contract!ContractSpec

\* The operations inherit it: between one user's calls a record that says
\* Created, Running or Stopped comes with its workspace disk.
THEOREM WorkspacesAreKept ==
    ASSUME OneConnected, NoFalseAlarm PROVE Spec => []Contract!DataIsDurable
BY OperationsKeepContract, DataIsKept, PTL DEF ImplementsContract
=============================================================================
