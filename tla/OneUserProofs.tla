--------------------------- MODULE OneUserProofs ---------------------------
(***************************************************************************)
(* What holds when the operations are issued one after another: for any    *)
(* number of BOXes and sandboxes, any operations and, where it says so, any *)
(* faults.                                                                 *)
(***************************************************************************)
EXTENDS IsolationProofs

USE NoneAssumption, RecordAssumption

\* The daemon has one connection.
OneConnected == \E r : Reqs = {r}

----------------------------------------------------------------------------
(* The inductive invariant. *)

Runs(b) == rec[b] # None /\ rec[b].status = "Running"
Rests(b) == rec[b] # None /\ rec[b].status # "Running"

\* A record c of BOX b agrees with the active map and the registry.
Agrees(c, b) ==
    /\ c # None /\ c.status = "Running" => active[b] = c.sid /\ c.sid \in live
    /\ c = None \/ c.status # "Running" => active[b] = None
    /\ c # None /\ c.status \in {"Created", "Stopped"} => ~HasActiveWorkspace(b)

OneSandboxEach == \A s, t \in live : boxOf[s] = boxOf[t] => s = t

\* A BOX id not handed out yet has left no trace.
NoTrace ==
    \A b \in Boxes \ born :
        rec[b] = None /\ active[b] = None /\ disk[b] = 0 /\ \A s \in Sandboxes : boxOf[s] # b

\* Where the handler has changed one of the record, the active map and the
\* registry and not yet the others.
Changing == {"publish", "teardown", "archive", "unlink", "write"}

\* Elsewhere all three agree on every BOX, and always on the other BOXes.
Agreement(q) == \A b \in Boxes : b # q.box \/ q.pc \notin Changing => Agrees(rec[b], b)

\* The BOX the handler works on, and those it has yet to visit, were created;
\* what it read of them is still what the store says.
Current(q) ==
    /\ q.pc \notin NoBoxYet => q.box \in born
    /\ q.todo \subseteq born /\ q.box \notin q.todo
    /\ q.pc = "hydrate" => q.seen = rec[q.box]
    /\ q.op = "list" => \A b \in q.todo : q.snap[b] = rec[b]

OnRunning == {"stats", "adopt", "destroy"}
OnResting == {"resize", "create", "launch", "connect", "baseline", "publish", "restore",
              "rmdisk", "forget", "rmrec"}

\* What the handler's position says of the record and the registry.
Position(q) ==
    /\ q.pc \in OnRunning => Runs(q.box) /\ rec[q.box].sid = q.sid
    /\ q.pc \in OnResting => Rests(q.box)
    /\ q.pc \in {"read", "hydrate"} /\ q.k \in {"remove2", "tail_stop"} => Rests(q.box)
    /\ q.pc \in {"launch", "connect", "baseline", "teardown", "archive"} =>
          ~HasActiveWorkspace(q.box)
    /\ q.pc \in {"create", "launch", "connect", "baseline", "publish"} => q.k = "start"
    /\ q.pc = "publish" => q.sid \in live

\* What it is about to write agrees with the active map and the registry.
Outcome(q) ==
    /\ q.pc = "unlink" => q.copy.status \in {"Failed", "Stopped"}
    /\ q.pc = "unlink" /\ q.copy.status = "Stopped" => ~HasActiveWorkspace(q.box)
    /\ q.pc \in {"resize", "write"} => Agrees(q.copy, q.box)
    /\ q.pc = "write" /\ q.copy.status = "Running" => q.k = "start" /\ q.copy.sid = q.sid

\* shutdown_daemon leaves no BOX it has passed Running.
Quitting(q) ==
    /\ q.pc = "exit" => q.op = "shutdown"
    /\ q.op = "shutdown" =>
        /\ q.pc \in {"next", "exit"} \/ q.k = "shutdown"
        /\ q.pc \in {"next", "exit", "read", "hydrate", "adopt", "destroy", "teardown",
                     "archive", "unlink", "write"}
        /\ q.pc = "exit" => q.todo = {}
        /\ \A b \in Boxes \ q.todo : b # q.box \/ q.pc \in {"next", "exit"} => ~Runs(b)

InOrder(q) == Agreement(q) /\ Current(q) /\ Position(q) /\ Outcome(q) /\ Quitting(q)

OneUser ==
    /\ NoTrace /\ OneSandboxEach
    /\ \A r \in Reqs : InOrder(req[r])

Known == TypeOK /\ Safe /\ Isolated /\ OneUser

----------------------------------------------------------------------------
(* Steps of the one handler. *)

\* The handler stays with its BOX, its operation and what it has yet to visit.
Stays(r) ==
    /\ req'[r].box = req[r].box /\ req'[r].op = req[r].op
    /\ req'[r].todo = req[r].todo /\ req'[r].snap = req[r].snap

LEMMA HandlerKnown ==
    ASSUME Known, NEW r \in Reqs
    PROVE  /\ req[r] \in Request /\ HandlerOK(req[r]) /\ InOrder(req[r])
           /\ req[r].pc \notin NoBoxYet => req[r].box \in Boxes
           /\ NoTrace /\ OneSandboxEach
BY Zenon DEF Known, TypeOK, HandlerOK, OneUser

\* The record, the active map and the registry agree on every BOX.
AllAgree == \A b \in Boxes : Agrees(rec[b], b)

LEMMA OneStep ==
    ASSUME OneConnected, NEW r \in Reqs, NoTrace', OneSandboxEach', InOrder(req[r])'
    PROVE  OneUser'
BY Zenon DEF OneConnected, OneUser

\* An operation that ends leaves everything in agreement.
LEMMA IdleKept ==
    ASSUME NEW r \in Reqs, req'[r] = Idle, AllAgree' PROVE InOrder(req[r])'
<1>1. req'[r].pc = "idle" /\ req'[r].op = "none" /\ req'[r].todo = {} /\ req'[r].box = None
  BY DEF Idle
<1>2. Agreement(req[r])'
  BY Zenon DEF AllAgree, Agreement
<1> QED BY Zenon, <1>1, <1>2 DEF InOrder, Current, Position, Outcome, Quitting, NoBoxYet, OnRunning,
           OnResting

LEMMA ReturnKept ==
    ASSUME NEW r \in Reqs, NEW p \in Request, req'[r] = Returned(p), AllAgree',
           p.todo \subseteq born', p.box \notin p.todo,
           p.op = "list" => \A b \in p.todo : p.snap[b] = rec'[b],
           p.op = "shutdown" => \A b \in Boxes \ p.todo : ~Runs(b)'
    PROVE  InOrder(req[r])'
<1>0. Agreement(req[r])'
  BY Zenon DEF AllAgree, Agreement
<1>1. CASE p.todo # {}
  <2>1. req'[r] = [p EXCEPT !.pc = "next", !.seen = None, !.copy = None, !.sid = None]
    BY Zenon, <1>1 DEF Returned
  <2>2. /\ req'[r].pc = "next" /\ req'[r].todo = p.todo /\ req'[r].box = p.box
        /\ req'[r].snap = p.snap /\ req'[r].op = p.op
    BY Zenon, <2>1 DEF Request
  <2> QED BY Zenon, <1>0, <2>2 DEF InOrder, Current, Position, Outcome, Quitting, NoBoxYet,
             OnRunning, OnResting
<1>2. CASE p.todo = {} /\ p.op = "shutdown"
  <2>1. req'[r] = [Idle EXCEPT !.pc = "exit", !.op = "shutdown"]
    BY Zenon, <1>2 DEF Returned
  <2>2. req'[r].pc = "exit" /\ req'[r].todo = {} /\ req'[r].box = None /\ req'[r].op = "shutdown"
    BY Zenon, <2>1 DEF Idle
  <2> QED BY Zenon, <1>0, <1>2, <2>2 DEF InOrder, Current, Position, Outcome, Quitting, NoBoxYet,
             OnRunning, OnResting
<1>3. CASE p.todo = {} /\ p.op # "shutdown"
  BY Zenon, <1>3, IdleKept DEF Returned
<1> QED BY Zenon, <1>1, <1>2, <1>3

\* So does a stop, whether its caller was the API, remove_box or
\* checkpoint_restore.
LEMMA StoppedKept ==
    ASSUME NEW r \in Reqs, NEW p \in Request, req'[r] = Stopped(p), AllAgree',
           p.todo \subseteq born', p.box \notin p.todo, p.box \in born',
           rec'[p.box] # None /\ rec'[p.box].status # "Running",
           p.op = "list" => \A b \in p.todo : p.snap[b] = rec'[b],
           p.op = "shutdown" => \A b \in Boxes \ p.todo : ~Runs(b)'
    PROVE  InOrder(req[r])'
<1>0. Agreement(req[r])'
  BY Zenon DEF AllAgree, Agreement
<1>1. CASE p.op = "remove"
  <2>1. req'[r] = [p EXCEPT !.pc = "read", !.k = "remove2"]
    BY Zenon, <1>1 DEF Stopped
  <2>2. /\ req'[r].pc = "read" /\ req'[r].todo = p.todo /\ req'[r].box = p.box
        /\ req'[r].snap = p.snap /\ req'[r].op = "remove"
    BY Zenon, <1>1, <2>1 DEF Request
  <2> QED BY Zenon, <1>0, <2>2 DEF InOrder, Current, Position, Outcome, Quitting, NoBoxYet,
             OnRunning, OnResting, Rests
<1>2. CASE p.op = "restore"
  <2>1. req'[r] = [p EXCEPT !.pc = "restore"]
    BY Zenon, <1>2 DEF Stopped
  <2>2. /\ req'[r].pc = "restore" /\ req'[r].todo = p.todo /\ req'[r].box = p.box
        /\ req'[r].snap = p.snap /\ req'[r].op = "restore"
    BY Zenon, <1>2, <2>1 DEF Request
  <2> QED BY Zenon, <1>0, <2>2 DEF InOrder, Current, Position, Outcome, Quitting, NoBoxYet,
             OnRunning, OnResting, Rests
<1>3. CASE p.op \notin {"remove", "restore"}
  BY Zenon, <1>3, ReturnKept DEF Stopped
<1> QED BY Zenon, <1>1, <1>2, <1>3

\* A step that stays with its BOX changes no other BOX, and is on a path of
\* shutdown_daemon when that runs.
LEMMA StaysKept ==
    ASSUME OneConnected, Known, NEW r \in Reqs, Stays(r), req[r].pc \notin NoBoxYet,
           born' = born, \A b \in Boxes : b # req[r].box => rec'[b] = rec[b],
           NoTrace', OneSandboxEach',
           Agreement(req[r])', Position(req[r])', Outcome(req[r])',
           req'[r].pc = "hydrate" => req'[r].seen = rec'[req[r].box], req'[r].pc # "exit",
           req[r].op = "shutdown" =>
              /\ req'[r].k = "shutdown"
              /\ req'[r].pc \in {"read", "hydrate", "adopt", "destroy", "teardown",
                                 "archive", "unlink", "write"}
    PROVE  OneUser'
<1>0. InOrder(req[r]) /\ req[r].box \in Boxes /\ req[r] \in Request
  BY Zenon, HandlerKnown
<1>1. req[r].todo \subseteq Boxes
  BY Zenon, <1>0 DEF Request
<1>2. Current(req[r])'
  BY Zenon, <1>0, <1>1 DEF InOrder, Current, Stays, NoBoxYet
<1>3. Quitting(req[r])'
  BY Zenon, <1>0 DEF InOrder, Quitting, Stays, Runs
<1> QED BY Zenon, <1>2, <1>3, OneStep DEF InOrder

\* read_box hands over what the store says and leaves status and sandbox alone.
LEMMA ReadKept ==
    ASSUME Known, NEW r \in Reqs, NEW k, ReadBox(r, k), live' = live,
           \A b \in Boxes : active'[b] = active[b]
    PROVE  /\ req[r] \in Request /\ req[r].pc = "hydrate" /\ req[r].k = k
           /\ req[r].box \in Boxes /\ req[r].box \in born /\ InOrder(req[r])
           /\ rec[req[r].box] \in Record /\ rec'[req[r].box] = Hydrated(r)
           /\ Hydrated(r) \in Record
           /\ Hydrated(r).status = rec[req[r].box].status
           /\ Hydrated(r).sid = rec[req[r].box].sid
           /\ \A b \in Boxes : b # req[r].box => rec'[b] = rec[b]
           /\ born' = born /\ boxOf' = boxOf /\ disk' = disk
           /\ AllAgree' /\ NoTrace' /\ OneSandboxEach'
<1> DEFINE q == req[r]
<1>1. /\ q.pc = "hydrate" /\ q.k = k /\ q.box \in Boxes /\ Hydrated(r) \in Record
      /\ Hydrated(r).status = q.seen.status /\ Hydrated(r).sid = q.seen.sid
      /\ born' = born /\ boxOf' = boxOf /\ disk' = disk
  BY Zenon, ReadBoxFacts DEF Known
<1>2. q \in Request /\ HandlerOK(q) /\ InOrder(q) /\ NoTrace /\ OneSandboxEach
  BY Zenon, HandlerKnown
<1>3. q.seen = rec[q.box] /\ q.box \in born /\ q.seen \in Record
  BY Zenon, <1>1, <1>2 DEF InOrder, Current, HandlerOK, NoBoxYet
<1>4. rec \in [Boxes -> Record \cup {None}]
  BY Zenon DEF Known, TypeOK
<1>5. rec'[q.box] = Hydrated(r) /\ \A b \in Boxes : b # q.box => rec'[b] = rec[b]
  BY Zenon, <1>1, <1>3, <1>4 DEF ReadBox
<1> HIDE DEF q
<1>6. AllAgree'
  <2>1. \A b \in Boxes : Agrees(rec[b], b)
    BY Zenon, <1>1, <1>2 DEF InOrder, Agreement, Changing, q
  <2>2. rec[q.box] # None /\ rec'[q.box] # None
    BY Zenon, <1>1, <1>3, <1>5
  <2> QED BY <1>1, <1>3, <1>5, <2>1, <2>2 DEF AllAgree, Agrees, HasActiveWorkspace
<1>7. NoTrace' /\ OneSandboxEach'
  BY Zenon, <1>1, <1>2, <1>3, <1>5 DEF NoTrace, OneSandboxEach
<1> QED BY Zenon, <1>1, <1>2, <1>3, <1>5, <1>6, <1>7 DEF q

\* A read whose operation returns.
LEMMA ReadReturns ==
    ASSUME OneConnected, Known, NEW r \in Reqs, NEW k, ReadBox(r, k), live' = live,
           \A b \in Boxes : active'[b] = active[b],
           NEW p \in Request, req'[r] = Returned(p),
           p.box = req[r].box, p.op = req[r].op, p.todo = req[r].todo, p.snap = req[r].snap,
           p.op = "shutdown" => rec[req[r].box].status # "Running"
    PROVE  OneUser'
<1> DEFINE q == req[r]
<1>1. /\ q \in Request /\ q.pc = "hydrate" /\ q.box \in Boxes /\ q.box \in born /\ InOrder(q)
      /\ Hydrated(r).status = rec[q.box].status /\ rec'[q.box] = Hydrated(r)
      /\ \A b \in Boxes : b # q.box => rec'[b] = rec[b]
      /\ born' = born /\ AllAgree' /\ NoTrace' /\ OneSandboxEach'
  BY Zenon, ReadKept
<1>2. p.todo \subseteq born' /\ p.box \notin p.todo /\ p.todo \subseteq Boxes
  BY Zenon, <1>1 DEF InOrder, Current, Request
<1>3. p.op = "list" => \A b \in p.todo : p.snap[b] = rec'[b]
  BY Zenon, <1>1, <1>2 DEF InOrder, Current
<1>4. p.op = "shutdown" => \A b \in Boxes \ p.todo : ~Runs(b)'
  BY ZenonT(60), <1>1 DEF InOrder, Quitting, Runs
<1>5. InOrder(req[r])'
  BY Zenon, <1>1, <1>2, <1>3, <1>4, ReturnKept
<1> QED BY Zenon, <1>1, <1>5, OneStep

\* A read whose operation fails.
LEMMA ReadFails ==
    ASSUME OneConnected, Known, NEW r \in Reqs, NEW k, ReadBox(r, k), live' = live,
           \A b \in Boxes : active'[b] = active[b], req'[r] = Idle
    PROVE  OneUser'
BY Zenon, ReadKept, IdleKept, OneStep

\* A read whose operation goes on with the same BOX.
LEMMA ReadGoesOn ==
    ASSUME OneConnected, Known, NEW r \in Reqs, NEW k, ReadBox(r, k), live' = live,
           \A b \in Boxes : active'[b] = active[b], Stays(r),
           req'[r].pc \notin {"hydrate", "exit"}, Position(req[r])', Outcome(req[r])',
           req[r].op = "shutdown" =>
              req'[r].k = "shutdown" /\ req'[r].pc \in {"adopt", "unlink"}
    PROVE  OneUser'
<1>1. /\ req[r].pc = "hydrate" /\ \A b \in Boxes : b # req[r].box => rec'[b] = rec[b]
      /\ born' = born /\ AllAgree' /\ NoTrace' /\ OneSandboxEach'
  BY Zenon, ReadKept
<1>2. Agreement(req[r])'
  BY Zenon, <1>1 DEF AllAgree, Agreement
<1> QED BY Zenon, <1>1, <1>2, StaysKept DEF NoBoxYet

----------------------------------------------------------------------------
(* The steps that read a record, one lemma per action. *)

\* What set_failed and mark_stopped leave to their caller.
LEMMA MarkFields ==
    ASSUME NEW q \in Request, NEW c \in Record
    PROVE  /\ SetFailed(q, c).pc = "unlink" /\ SetFailed(q, c).copy = MarkedFailed(c)
           /\ SetFailed(q, c).copy.status = "Failed"
           /\ SetFailed(q, c).box = q.box /\ SetFailed(q, c).op = q.op /\ SetFailed(q, c).k = q.k
           /\ SetFailed(q, c).todo = q.todo /\ SetFailed(q, c).snap = q.snap
           /\ MarkStopped(q, c).pc = "unlink" /\ MarkStopped(q, c).copy = MarkedStopped(c)
           /\ MarkStopped(q, c).copy.status = "Stopped"
           /\ MarkStopped(q, c).box = q.box /\ MarkStopped(q, c).op = q.op
           /\ MarkStopped(q, c).k = q.k
           /\ MarkStopped(q, c).todo = q.todo /\ MarkStopped(q, c).snap = q.snap
BY Zenon DEF SetFailed, MarkStopped, MarkedFailed, MarkedStopped, Request, Record

LEMMA TailKept == ASSUME OneConnected, Known, NEW r \in Reqs, Tail(r) PROVE OneUser'
<1> DEFINE q == req[r]
<1>0. req \in [Reqs -> Request]
  BY Zenon DEF Known, TypeOK
<1>1. CASE ReadBox(r, "tail") /\ Return(r) /\ UNCHANGED daemon
  <2>1. live' = live /\ active' = active /\ req'[r] = Returned(q)
    BY Zenon, <1>0, <1>1 DEF Return, daemon
  <2>2. q \in Request /\ InOrder(q) /\ q.pc = "hydrate" /\ q.k = "tail"
    BY Zenon, <1>1, <2>1, ReadKept
  <2>3. q.op # "shutdown"
    BY Zenon, <2>2 DEF InOrder, Quitting
  <2> QED BY Zenon, <1>1, <2>1, <2>2, <2>3, ReadReturns
<1>2. CASE /\ ReadBox(r, "tail_stop")
           /\ req' = [req EXCEPT ![r] = Stopped([@ EXCEPT !.seen = None, !.sid = None])]
           /\ UNCHANGED daemon
  <2> DEFINE p == [q EXCEPT !.seen = None, !.sid = None]
  <2>1. live' = live /\ active' = active /\ req'[r] = Stopped(p)
    BY Zenon, <1>0, <1>2 DEF daemon
  <2>2. /\ q \in Request /\ InOrder(q) /\ q.pc = "hydrate" /\ q.k = "tail_stop"
        /\ q.box \in Boxes /\ q.box \in born /\ rec[q.box] \in Record
        /\ rec'[q.box] = Hydrated(r) /\ Hydrated(r) \in Record
        /\ Hydrated(r).status = rec[q.box].status
        /\ \A b \in Boxes : b # q.box => rec'[b] = rec[b]
        /\ born' = born /\ AllAgree' /\ NoTrace' /\ OneSandboxEach'
    BY Zenon, <1>2, <2>1, ReadKept
  <2>3. p \in Request /\ p.box = q.box /\ p.op = q.op /\ p.todo = q.todo /\ p.snap = q.snap
    BY Zenon, <2>2 DEF Request
  <2>4. q.op # "shutdown" /\ rec'[q.box] # None /\ rec'[q.box].status # "Running"
    BY Zenon, <2>2 DEF InOrder, Quitting, Position, Rests
  <2>5. p.todo \subseteq born' /\ p.box \notin p.todo
    BY Zenon, <2>2, <2>3 DEF InOrder, Current
  <2>6. p.op = "list" => \A b \in p.todo : p.snap[b] = rec'[b]
    <3>1. q.todo \subseteq Boxes
      BY Zenon, <2>2 DEF Request
    <3> QED BY Zenon, <2>2, <2>3, <2>5, <3>1 DEF InOrder, Current
  <2> HIDE DEF p
  <2>7. InOrder(req[r])'
    BY Zenon, <2>1, <2>2, <2>3, <2>4, <2>5, <2>6, StoppedKept
  <2> QED BY Zenon, <2>2, <2>7, OneStep
<1> QED BY Zenon, <1>1, <1>2 DEF Tail

LEMMA ForkKept == ASSUME OneConnected, Known, NEW r \in Reqs, Fork(r) PROVE OneUser'
<1> DEFINE q == req[r]
<1>1. req \in [Reqs -> Request] /\ ReadBox(r, "fork") /\ live' = live /\ active' = active
  BY Zenon DEF Known, TypeOK, Fork, daemon
<1>2. q \in Request /\ InOrder(q) /\ q.pc = "hydrate" /\ q.k = "fork"
  BY Zenon, <1>1, ReadKept
<1>3. Stays(r) /\ req'[r].pc = "prepare"
  BY Zenon, <1>1, <1>2 DEF Fork, Stays, Request
<1>4. q.op # "shutdown"
  BY Zenon, <1>2 DEF InOrder, Quitting
<1>5. Position(req[r])' /\ Outcome(req[r])'
  BY Zenon, <1>3 DEF Position, Outcome, OnRunning, OnResting
<1> QED BY Zenon, <1>1, <1>3, <1>4, <1>5, ReadGoesOn

LEMMA GetKept == ASSUME OneConnected, Known, NEW r \in Reqs, Get(r) PROVE OneUser'
<1> DEFINE q == req[r]
           c == Hydrated(r)
           s == SandboxFor(c, q.box)
<1>1. req \in [Reqs -> Request] /\ ReadBox(r, "get") /\ live' = live /\ active' = active
  BY Zenon DEF Known, TypeOK, Get, daemon
<1>2. /\ q \in Request /\ InOrder(q) /\ q.pc = "hydrate" /\ q.k = "get" /\ q.box \in Boxes
      /\ rec[q.box] \in Record /\ rec'[q.box] = c /\ c \in Record
      /\ c.status = rec[q.box].status /\ c.sid = rec[q.box].sid
  BY Zenon, <1>1, ReadKept
<1>3. q.op # "shutdown"
  BY Zenon, <1>2 DEF InOrder, Quitting
<1>4. rec[q.box].status = "Running" => c.sid # None /\ s = c.sid
  BY Zenon, <1>2 DEF Known, Isolated, StoreOwn, Good, SandboxFor
<1>5. CASE c.status # "Running"
  <2> DEFINE p == [q EXCEPT !.seen = None]
  <2>1. req'[r] = Returned(p)
    BY Zenon, <1>1, <1>5 DEF Get
  <2>2. p \in Request /\ p.box = q.box /\ p.op = q.op /\ p.todo = q.todo /\ p.snap = q.snap
    BY Zenon, <1>2 DEF Request
  <2> HIDE DEF p
  <2> QED BY Zenon, <1>1, <1>3, <2>1, <2>2, ReadReturns
<1>6. CASE c.status = "Running"
  <2>1. req'[r] = [q EXCEPT !.pc = "stats", !.seen = None, !.copy = c, !.sid = s]
    BY Zenon, <1>1, <1>2, <1>4, <1>6 DEF Get
  <2> HIDE DEF c, s
  <2>2. Stays(r) /\ req'[r].pc = "stats" /\ req'[r].sid = s
    BY Zenon, <1>2, <2>1 DEF Stays, Request
  <2>3. Position(req[r])' /\ Outcome(req[r])'
    BY Zenon, <1>2, <1>4, <1>6, <2>2 DEF Position, Outcome, OnRunning, OnResting, Stays, Runs
  <2> QED BY Zenon, <1>1, <1>3, <2>2, <2>3, ReadGoesOn
<1> QED BY Zenon, <1>5, <1>6

LEMMA EnsureRuntimeKept ==
    ASSUME OneConnected, Known, NEW r \in Reqs, EnsureRuntime(r) PROVE OneUser'
<1> DEFINE q == req[r]
           c == Hydrated(r)
           s == SandboxFor(c, q.box)
<1>1. req \in [Reqs -> Request] /\ ReadBox(r, "exec") /\ live' = live /\ active' = active
  BY Zenon DEF Known, TypeOK, EnsureRuntime, daemon
<1>2. /\ q \in Request /\ InOrder(q) /\ q.pc = "hydrate" /\ q.k = "exec" /\ q.box \in Boxes
      /\ rec[q.box] \in Record /\ rec'[q.box] = c /\ c \in Record
      /\ c.status = rec[q.box].status /\ c.sid = rec[q.box].sid
  BY Zenon, <1>1, ReadKept
<1>3. q.op # "shutdown"
  BY Zenon, <1>2 DEF InOrder, Quitting
<1>4. rec[q.box].status = "Running" => c.sid # None /\ s = c.sid
  BY Zenon, <1>2 DEF Known, Isolated, StoreOwn, Good, SandboxFor
<1>5. CASE c.status # "Running"
  <2>1. req'[r] = Idle
    BY Zenon, <1>1, <1>5 DEF EnsureRuntime
  <2> QED BY Zenon, <1>1, <2>1, ReadFails
<1>6. CASE c.status = "Running"
  <2>1. req'[r] = [q EXCEPT !.pc = "adopt", !.seen = None, !.copy = c, !.sid = s]
    BY Zenon, <1>1, <1>2, <1>4, <1>6 DEF EnsureRuntime
  <2> HIDE DEF c, s
  <2>2. Stays(r) /\ req'[r].pc = "adopt" /\ req'[r].sid = s
    BY Zenon, <1>2, <2>1 DEF Stays, Request
  <2>3. Position(req[r])' /\ Outcome(req[r])'
    BY Zenon, <1>2, <1>4, <1>6, <2>2 DEF Position, Outcome, OnRunning, OnResting, Stays, Runs
  <2> QED BY Zenon, <1>1, <1>3, <2>2, <2>3, ReadGoesOn
<1> QED BY <1>5, <1>6

LEMMA SetSettingKept ==
    ASSUME OneConnected, Known, NEW r \in Reqs, SetSetting(r) PROVE OneUser'
<1> DEFINE q == req[r]
           c == Hydrated(r)
           w == [c EXCEPT !.fs = q.arg]
<1>1. req \in [Reqs -> Request] /\ ReadBox(r, "set") /\ live' = live /\ active' = active
  BY Zenon DEF Known, TypeOK, SetSetting, daemon
<1>2. /\ q \in Request /\ InOrder(q) /\ q.pc = "hydrate" /\ q.k = "set" /\ q.box \in Boxes
      /\ rec'[q.box] = c /\ c \in Record /\ AllAgree'
  BY Zenon, <1>1, ReadKept
<1>3. q.op # "shutdown"
  BY Zenon, <1>2 DEF InOrder, Quitting
<1>4. CASE c.status = "Running"
  <2>1. req'[r] = Idle
    BY Zenon, <1>1, <1>4 DEF SetSetting
  <2> QED BY Zenon, <1>1, <2>1, ReadFails
<1>5. CASE c.status # "Running"
  <2>1. PICK p \in {"write", "resize"} :
           req'[r] = [q EXCEPT !.pc = p, !.seen = None, !.copy = w]
    BY Zenon, <1>1, <1>5 DEF SetSetting
  <2>2. w \in Record /\ w.status = c.status
    BY Zenon, <1>2 DEF Record, Request
  <2>3. c # None /\ w # None
    BY Zenon, <1>2, <2>2
  <2> HIDE DEF c, w
  <2>4. Stays(r) /\ req'[r].pc = p /\ req'[r].copy = w
    BY Zenon, <1>2, <2>1 DEF Stays, Request
  <2>5. Position(req[r])'
    BY Zenon, <1>2, <1>5, <2>3, <2>4 DEF Position, OnRunning, OnResting, Stays, Rests
  <2>6. Outcome(req[r])'
    BY <1>2, <1>5, <2>2, <2>3, <2>4 DEF Outcome, Agrees, Stays, AllAgree, HasActiveWorkspace
  <2> QED BY Zenon, <1>1, <1>3, <2>4, <2>5, <2>6, ReadGoesOn
<1> QED BY Zenon, <1>4, <1>5

LEMMA StartKept == ASSUME OneConnected, Known, NEW r \in Reqs, Start(r) PROVE OneUser'
<1> DEFINE q == req[r]
           c == Hydrated(r)
<1>1. req \in [Reqs -> Request] /\ ReadBox(r, "start") /\ live' = live /\ active' = active
  BY Zenon DEF Known, TypeOK, Start, daemon
<1>2. /\ q \in Request /\ InOrder(q) /\ q.pc = "hydrate" /\ q.k = "start" /\ q.box \in Boxes
      /\ rec'[q.box] = c /\ c \in Record /\ AllAgree'
  BY Zenon, <1>1, ReadKept
<1>3. q.op # "shutdown"
  BY Zenon, <1>2 DEF InOrder, Quitting
<1>4. CASE c.status = "Running"
  <2>1. req'[r] = Idle
    BY Zenon, <1>1, <1>4 DEF Start
  <2> QED BY Zenon, <1>1, <2>1, ReadFails
<1>5. CASE c.status # "Running"
  <2>1. req'[r] = [q EXCEPT !.pc = "create", !.seen = None, !.copy = c]
    BY Zenon, <1>1, <1>5 DEF Start
  <2> HIDE DEF c
  <2>2. Stays(r) /\ req'[r].pc = "create" /\ req'[r].k = q.k
    BY Zenon, <1>2, <2>1 DEF Stays, Request
  <2>3. Position(req[r])' /\ Outcome(req[r])'
    BY Zenon, <1>2, <1>5, <2>2 DEF Position, Outcome, OnRunning, OnResting, Stays, Rests
  <2> QED BY Zenon, <1>1, <1>3, <2>2, <2>3, ReadGoesOn
<1> QED BY <1>4, <1>5

LEMMA StopKept == ASSUME OneConnected, Known, NEW r \in Reqs, Stop(r) PROVE OneUser'
<1> DEFINE q == req[r]
           c == Hydrated(r)
<1>1. req \in [Reqs -> Request] /\ ReadBox(r, "stop") /\ live' = live /\ active' = active
  BY Zenon DEF Known, TypeOK, Stop, daemon
<1>2. q \in Request /\ InOrder(q) /\ q.pc = "hydrate" /\ q.k = "stop"
  BY Zenon, <1>1, ReadKept
<1>3. q.op # "shutdown"
  BY Zenon, <1>2 DEF InOrder, Quitting
<1>4. CASE c.status # "Running"
  <2>1. req'[r] = Idle
    BY Zenon, <1>1, <1>4 DEF Stop
  <2> QED BY Zenon, <1>1, <2>1, ReadFails
<1>5. CASE c.status = "Running"
  <2>1. req'[r] = [q EXCEPT !.pc = "read", !.k = "running", !.seen = None, !.copy = c]
    BY Zenon, <1>1, <1>5 DEF Stop
  <2> HIDE DEF c
  <2>2. Stays(r) /\ req'[r].pc = "read" /\ req'[r].k = "running"
    BY Zenon, <1>2, <2>1 DEF Stays, Request
  <2>3. Position(req[r])' /\ Outcome(req[r])'
    BY Zenon, <2>2 DEF Position, Outcome, OnRunning, OnResting
  <2> QED BY Zenon, <1>1, <1>3, <2>2, <2>3, ReadGoesOn
<1> QED BY <1>4, <1>5

LEMMA RunningSandboxIdKept ==
    ASSUME OneConnected, Known, NEW r \in Reqs, RunningSandboxId(r) PROVE OneUser'
<1> DEFINE q == req[r]
           c == Hydrated(r)
           s == SandboxFor(c, q.box)
<1>1. req \in [Reqs -> Request] /\ ReadBox(r, "running") /\ live' = live /\ active' = active
  BY Zenon DEF Known, TypeOK, RunningSandboxId, daemon
<1>2. /\ q \in Request /\ InOrder(q) /\ q.pc = "hydrate" /\ q.k = "running" /\ q.box \in Boxes
      /\ rec[q.box] \in Record /\ rec'[q.box] = c /\ c \in Record
      /\ c.status = rec[q.box].status /\ c.sid = rec[q.box].sid
  BY Zenon, <1>1, ReadKept
<1>3. q.op # "shutdown"
  BY Zenon, <1>2 DEF InOrder, Quitting
<1>4. rec[q.box].status = "Running" => c.sid # None /\ s = c.sid
  BY Zenon, <1>2 DEF Known, Isolated, StoreOwn, Good, SandboxFor
<1>5. CASE c.status # "Running"
  <2>1. req'[r] = Idle
    BY Zenon, <1>1, <1>5 DEF RunningSandboxId
  <2> QED BY Zenon, <1>1, <2>1, ReadFails
<1>6. CASE c.status = "Running"
  <2>1. req'[r] = [q EXCEPT !.pc = "adopt", !.k = "stop", !.seen = None, !.sid = s]
    BY Zenon, <1>1, <1>2, <1>4, <1>6 DEF RunningSandboxId
  <2> HIDE DEF c, s
  <2>2. Stays(r) /\ req'[r].pc = "adopt" /\ req'[r].sid = s
    BY Zenon, <1>2, <2>1 DEF Stays, Request
  <2>3. Position(req[r])' /\ Outcome(req[r])'
    BY Zenon, <1>2, <1>4, <1>6, <2>2 DEF Position, Outcome, OnRunning, OnResting, Stays, Runs
  <2> QED BY Zenon, <1>1, <1>3, <2>2, <2>3, ReadGoesOn
<1> QED BY <1>5, <1>6

LEMMA StopForShutdownKept ==
    ASSUME OneConnected, Known, NEW r \in Reqs, StopForShutdown(r) PROVE OneUser'
<1> DEFINE q == req[r]
           c == Hydrated(r)
           s == SandboxFor(c, q.box)
           p == [q EXCEPT !.seen = None]
<1>1. /\ req \in [Reqs -> Request] /\ active \in [Boxes -> Sandboxes \cup {None}]
      /\ ReadBox(r, "shutdown") /\ live' = live
  BY Zenon DEF Known, TypeOK, StopForShutdown
<1>2. /\ q \in Request /\ HandlerOK(q) /\ InOrder(q) /\ q.pc = "hydrate" /\ q.k = "shutdown"
      /\ q.box \in Boxes /\ q.seen = rec[q.box] /\ q.seen \in Record
      /\ c.status = rec[q.box].status
  <2>1. q.pc = "hydrate" /\ q.k = "shutdown" /\ q.box \in Boxes /\ c.status = q.seen.status
    BY Zenon, <1>1, ReadBoxFacts DEF Known
  <2> QED BY Zenon, <2>1, HandlerKnown DEF InOrder, Current, HandlerOK
<1>3. \A b \in Boxes : active'[b] = active[b]
  <2>1. Agrees(rec[q.box], q.box) /\ rec[q.box] # None
    BY Zenon, <1>2 DEF InOrder, Agreement, Changing
  <2> QED BY Zenon, <1>1, <1>2, <2>1 DEF StopForShutdown, Agrees
<1>4. /\ rec[q.box] \in Record /\ rec'[q.box] = c /\ c \in Record /\ c.sid = rec[q.box].sid
  BY Zenon, <1>1, <1>3, ReadKept
<1>5. p \in Request /\ p.box = q.box /\ p.op = q.op /\ p.todo = q.todo /\ p.snap = q.snap
      /\ p.k = q.k
  BY Zenon, <1>2 DEF Request
<1>6. CASE c.status # "Running"
  <2>1. req'[r] = Returned(p)
    BY Zenon, <1>1, <1>6 DEF StopForShutdown
  <2> HIDE DEF p
  <2> QED BY Zenon, <1>1, <1>2, <1>3, <1>5, <1>6, <2>1, ReadReturns
<1>7. CASE c.status = "Running"
  <2>1. c.sid # None /\ s = c.sid
    BY Zenon, <1>2, <1>4, <1>7 DEF Known, Isolated, StoreOwn, Good, SandboxFor
  <2>2. req'[r] = [p EXCEPT !.pc = "adopt", !.copy = c, !.sid = s]
    BY Zenon, <1>1, <1>7, <2>1 DEF StopForShutdown
  <2> HIDE DEF c, s, p
  <2>3. Stays(r) /\ req'[r].pc = "adopt" /\ req'[r].sid = s /\ req'[r].k = "shutdown"
    BY Zenon, <1>2, <1>5, <2>2 DEF Stays, Request
  <2>4. Position(req[r])' /\ Outcome(req[r])'
    BY Zenon, <1>2, <1>4, <1>7, <2>1, <2>3 DEF Position, Outcome, OnRunning, OnResting, Stays, Runs
  <2> QED BY Zenon, <1>1, <1>3, <2>3, <2>4, ReadGoesOn
<1> QED BY <1>6, <1>7

LEMMA RemoveKept == ASSUME OneConnected, Known, NEW r \in Reqs, Remove(r) PROVE OneUser'
<1> DEFINE q == req[r]
           c == Hydrated(r)
           w == [c EXCEPT !.status = "Removing", !.sid = None]
<1>1. PICK k \in {"remove", "remove2"} : ReadBox(r, k)
  BY Zenon DEF Remove
<1>2. req \in [Reqs -> Request] /\ live' = live /\ active' = active
  BY Zenon DEF Known, TypeOK, Remove, daemon
<1>3. /\ q \in Request /\ InOrder(q) /\ q.pc = "hydrate" /\ q.k = k /\ q.box \in Boxes
      /\ rec[q.box] \in Record /\ rec'[q.box] = c /\ c \in Record
      /\ c.status = rec[q.box].status /\ AllAgree'
  BY Zenon, <1>1, <1>2, ReadKept
<1>4. q.op # "shutdown"
  BY Zenon, <1>3 DEF InOrder, Quitting
<1>5. CASE c.status = "Running" /\ k = "remove"
  <2>1. req'[r] = [q EXCEPT !.pc = "read", !.k = "stop", !.seen = None]
    BY Zenon, <1>2, <1>3, <1>5 DEF Remove
  <2>2. Stays(r) /\ req'[r].pc = "read" /\ req'[r].k = "stop"
    BY Zenon, <1>3, <2>1 DEF Stays, Request
  <2>3. Position(req[r])' /\ Outcome(req[r])'
    BY Zenon, <2>2 DEF Position, Outcome, OnRunning, OnResting
  <2> QED BY Zenon, <1>1, <1>2, <1>4, <2>2, <2>3, ReadGoesOn
<1>6. CASE ~(c.status = "Running" /\ k = "remove")
  <2>1. req'[r] = [q EXCEPT !.pc = "write", !.seen = None, !.copy = w]
    BY Zenon, <1>2, <1>3, <1>6 DEF Remove
  <2>2. w.status = "Removing"
    BY Zenon, <1>3 DEF Record
  <2>3. active'[q.box] = None
    <3>1. c.status # "Running"
      BY Zenon, <1>3, <1>6 DEF InOrder, Position, Rests
    <3> QED BY Zenon, <1>3, <3>1 DEF AllAgree, Agrees
  <2> HIDE DEF w
  <2>4. Stays(r) /\ req'[r].pc = "write" /\ req'[r].copy = w
    BY Zenon, <1>3, <2>1 DEF Stays, Request
  <2>5. Position(req[r])' /\ Outcome(req[r])'
    BY Zenon, <2>2, <2>3, <2>4 DEF Position, Outcome, OnRunning, OnResting, Stays, Agrees
  <2> QED BY Zenon, <1>1, <1>2, <1>4, <2>4, <2>5, ReadGoesOn
<1> QED BY Zenon, <1>5, <1>6

LEMMA RestoreKept == ASSUME OneConnected, Known, NEW r \in Reqs, Restore(r) PROVE OneUser'
<1> DEFINE q == req[r]
           c == Hydrated(r)
<1>1. req \in [Reqs -> Request] /\ ReadBox(r, "restore") /\ live' = live /\ active' = active
  BY Zenon DEF Known, TypeOK, Restore, daemon
<1>2. /\ q \in Request /\ InOrder(q) /\ q.pc = "hydrate" /\ q.k = "restore" /\ q.box \in Boxes
      /\ rec'[q.box] = c /\ c \in Record
  BY Zenon, <1>1, ReadKept
<1>3. q.op # "shutdown"
  BY Zenon, <1>2 DEF InOrder, Quitting
<1>4. CASE c.status = "Running"
  <2>1. req'[r] = [q EXCEPT !.pc = "read", !.k = "stop", !.seen = None, !.again = TRUE]
    BY Zenon, <1>1, <1>4 DEF Restore
  <2>2. Stays(r) /\ req'[r].pc = "read" /\ req'[r].k = "stop"
    BY Zenon, <1>2, <2>1 DEF Stays, Request
  <2>3. Position(req[r])' /\ Outcome(req[r])'
    BY Zenon, <2>2 DEF Position, Outcome, OnRunning, OnResting
  <2> QED BY Zenon, <1>1, <1>3, <2>2, <2>3, ReadGoesOn
<1>5. CASE c.status # "Running"
  <2>1. req'[r] = [q EXCEPT !.pc = "restore", !.seen = None]
    BY Zenon, <1>1, <1>5 DEF Restore
  <2>2. Stays(r) /\ req'[r].pc = "restore"
    BY Zenon, <1>2, <2>1 DEF Stays, Request
  <2>3. Position(req[r])' /\ Outcome(req[r])'
    BY Zenon, <1>2, <1>5, <2>2 DEF Position, Outcome, OnRunning, OnResting, Stays, Rests
  <2> QED BY Zenon, <1>1, <1>3, <2>2, <2>3, ReadGoesOn
<1> QED BY <1>4, <1>5

----------------------------------------------------------------------------
(* The other steps of an operation. *)

\* A step that touches no BOX but its own, and registers no sandbox.
LEMMA OwnBoxOnly ==
    ASSUME Known, NEW r \in Reqs, req[r].pc \notin NoBoxYet,
           born' = born, boxOf' = boxOf, live' \subseteq live,
           \A b \in Boxes : b # req[r].box =>
              rec'[b] = rec[b] /\ active'[b] = active[b] /\ disk'[b] = disk[b]
    PROVE  NoTrace' /\ OneSandboxEach'
<1>1. req[r].box \in born /\ NoTrace /\ OneSandboxEach
  BY Zenon, HandlerKnown DEF InOrder, Current
<1> QED BY Zenon, <1>1 DEF NoTrace, OneSandboxEach

\* A step outside the critical stretches that only changes a disk.
LEMMA StillAgree ==
    ASSUME Known, NEW r \in Reqs, req[r].pc \notin Changing,
           UNCHANGED <<rec, active, live, boxOf>>
    PROVE  AllAgree'
<1>1. InOrder(req[r])
  BY Zenon, HandlerKnown
<1> QED BY Zenon, <1>1 DEF InOrder, Agreement, AllAgree, Agrees, HasActiveWorkspace

\* Such a step that ends the operation, with an error or not.
LEMMA EndKept ==
    ASSUME OneConnected, Known, NEW r \in Reqs, req[r].pc \notin Changing \cup NoBoxYet,
           UNCHANGED <<born, rec, active, live, boxOf>>,
           \A b \in Boxes : b # req[r].box => disk'[b] = disk[b],
           \/ req'[r] = Idle
           \/ req'[r] = Returned(req[r]) /\ req[r].op # "shutdown"
    PROVE  OneUser'
<1>1. AllAgree' /\ NoTrace' /\ OneSandboxEach'
  BY Zenon, StillAgree, OwnBoxOnly
<1>2. InOrder(req[r]) /\ req[r] \in Request
  BY Zenon, HandlerKnown
<1>3. /\ req[r].todo \subseteq born' /\ req[r].box \notin req[r].todo
      /\ req[r].op = "list" => \A b \in req[r].todo : req[r].snap[b] = rec'[b]
  BY Zenon, <1>2 DEF InOrder, Current
<1>4. InOrder(req[r])'
  BY Zenon, <1>1, <1>2, <1>3, IdleKept, ReturnKept
<1> QED BY Zenon, <1>1, <1>4, OneStep

\* Such a step that goes on with its BOX.
LEMMA MoveKept ==
    ASSUME OneConnected, Known, NEW r \in Reqs, req[r].pc \notin Changing \cup NoBoxYet,
           UNCHANGED <<born, rec, active, live, boxOf>>, Stays(r),
           \A b \in Boxes : b # req[r].box => disk'[b] = disk[b],
           req'[r].pc \notin {"hydrate", "exit"}, Position(req[r])', Outcome(req[r])',
           req[r].op = "shutdown" =>
              /\ req'[r].k = "shutdown"
              /\ req'[r].pc \in {"read", "adopt", "destroy", "teardown", "unlink", "write"}
    PROVE  OneUser'
<1>1. AllAgree' /\ NoTrace' /\ OneSandboxEach'
  BY Zenon, StillAgree, OwnBoxOnly
<1>2. Agreement(req[r])'
  BY Zenon, <1>1 DEF AllAgree, Agreement
<1> QED BY Zenon, <1>1, <1>2, StaysKept

LEMMA CallsKept ==
    ASSUME OneConnected, Known, NEW r \in Reqs,
           Call(r) \/ CallCreate(r) \/ CallList(r) \/ CallShutdown(r)
    PROVE  OneUser'
<1> DEFINE q == req[r]
<1>1. /\ q.pc = "idle" /\ UNCHANGED <<born, rec, disk, active, live, boxOf>>
      /\ req \in [Reqs -> Request]
  BY Zenon DEF Call, CallCreate, CallList, CallShutdown, At, store, daemon, vms, Known, TypeOK
<1>2. AllAgree' /\ NoTrace /\ OneSandboxEach /\ AllAgree
  BY Zenon, <1>1, StillAgree, HandlerKnown DEF Changing, InOrder, Agreement, AllAgree
<1>3. NoTrace' /\ OneSandboxEach' /\ Agreement(req[r])'
  BY Zenon, <1>1, <1>2 DEF NoTrace, OneSandboxEach, AllAgree, Agreement
<1>4. born \subseteq Boxes
  BY Zenon DEF Known, TypeOK
<1>5. CASE Call(r)
  <2>1. PICK op \in Ops \cap BoxOps, b \in born, v \in Sizes :
           req' = [req EXCEPT ![r] = [Idle EXCEPT !.pc = "read", !.op = op, !.box = b, !.arg = v,
                                      !.k = IF op = "peek" THEN "tail" ELSE op]]
    BY Zenon, <1>5 DEF Call
  <2>2. /\ req'[r].pc = "read" /\ req'[r].op = op /\ req'[r].box = b /\ req'[r].todo = {}
        /\ req'[r].k = IF op = "peek" THEN "tail" ELSE op
    BY Zenon, <1>1, <2>1 DEF Idle
  <2>3. op \notin {"remove2", "tail_stop", "shutdown", "list"}
    BY Zenon DEF BoxOps
  <2>4. InOrder(req[r])'
    BY Zenon, <1>1, <1>3, <2>2, <2>3 DEF InOrder, Current, Position, Outcome, Quitting, NoBoxYet,
       OnRunning, OnResting
  <2> QED BY Zenon, <1>3, <2>4, OneStep
<1>6. CASE CallCreate(r)
  <2>1. req'[r] = [Idle EXCEPT !.pc = "prepare", !.op = "create", !.k = "create"]
    BY Zenon, <1>1, <1>6 DEF CallCreate
  <2>2. req'[r].pc = "prepare" /\ req'[r].op = "create" /\ req'[r].todo = {} /\ req'[r].box = None
    BY Zenon, <2>1 DEF Idle
  <2>3. InOrder(req[r])'
    BY Zenon, <1>3, <2>2 DEF InOrder, Current, Position, Outcome, Quitting, NoBoxYet, OnRunning,
       OnResting
  <2> QED BY Zenon, <1>3, <2>3, OneStep
<1>7. CASE CallList(r)
  <2> DEFINE listed == {b \in Boxes : rec[b] # None}
  <2>1. req'[r] = [Idle EXCEPT !.pc = "next", !.op = "list", !.k = "get", !.todo = listed,
                               !.snap = rec]
    BY Zenon, <1>1, <1>7 DEF CallList
  <2>2. listed \subseteq born /\ None \notin listed
    BY Zenon, <1>2 DEF NoTrace
  <2> HIDE DEF listed
  <2>3. /\ req'[r].pc = "next" /\ req'[r].op = "list" /\ req'[r].todo = listed
        /\ req'[r].snap = rec /\ req'[r].box = None
    BY Zenon, <2>1 DEF Idle
  <2>4. InOrder(req[r])'
    BY Zenon, <1>1, <1>3, <2>2, <2>3
       DEF InOrder, Current, Position, Outcome, Quitting, NoBoxYet,
       OnRunning, OnResting
  <2> QED BY <1>3, <2>4, OneStep
<1>8. CASE CallShutdown(r)
  <2> DEFINE ids == {b \in Boxes : active[b] # None}
             p == IF ids = {} THEN "exit" ELSE "next"
  <2>1. req'[r] = [Idle EXCEPT !.op = "shutdown", !.k = "shutdown", !.pc = p, !.todo = ids]
    BY Zenon, <1>1, <1>8 DEF CallShutdown
  <2>2. ids \subseteq born /\ None \notin ids
    BY Zenon, <1>2 DEF NoTrace
  <2>3. \A b \in Boxes \ ids : ~Runs(b)
    <3> SUFFICES ASSUME NEW b \in Boxes, active[b] = None, Runs(b) PROVE FALSE
      BY Zenon
    <3>1. rec[b].sid = None
      BY Zenon, <1>2 DEF AllAgree, Agrees, Runs
    <3> QED BY Zenon, <3>1 DEF Known, Isolated, StoreOwn, Good, Runs
  <2>4. p \in {"exit", "next"} /\ (p = "exit" => ids = {})
    BY Zenon
  <2> HIDE DEF ids, p
  <2>5. /\ req'[r].pc = p /\ req'[r].op = "shutdown" /\ req'[r].todo = ids /\ req'[r].box = None
    BY Zenon, <2>1 DEF Idle
  <2>6. Quitting(req[r])'
    BY Zenon, <1>1, <2>3, <2>4, <2>5 DEF Quitting, Runs
  <2>7. InOrder(req[r])'
    BY Zenon, <1>1, <1>3, <2>2, <2>4, <2>5, <2>6
       DEF InOrder, Current, Position, Outcome, NoBoxYet,
       OnRunning, OnResting
  <2> QED BY <1>3, <2>7, OneStep
<1> QED BY Zenon, <1>5, <1>6, <1>7, <1>8

LEMMA NextBoxKept == ASSUME OneConnected, Known, NEW r \in Reqs, NextBox(r) PROVE OneUser'
<1> DEFINE q == req[r]
<1>1. /\ q.pc = "next" /\ UNCHANGED <<born, rec, disk, active, live, boxOf>>
      /\ req \in [Reqs -> Request] /\ q \in Request
  BY Zenon DEF NextBox, At, store, daemon, vms, Known, TypeOK
<1>2. AllAgree' /\ NoTrace /\ OneSandboxEach /\ InOrder(q)
  BY Zenon, <1>1, StillAgree, HandlerKnown DEF Changing
<1>3. NoTrace' /\ OneSandboxEach' /\ Agreement(req[r])'
  BY Zenon, <1>1, <1>2 DEF NoTrace, OneSandboxEach, AllAgree, Agreement
<1>4. PICK b \in q.todo :
         req' = [req EXCEPT ![r] = IF q.op = "list"
             THEN [q EXCEPT !.pc = "hydrate", !.k = "get", !.box = b, !.todo = q.todo \ {b},
                            !.seen = q.snap[b], !.snap = [q.snap EXCEPT ![b] = None]]
             ELSE [q EXCEPT !.pc = "read", !.k = "shutdown", !.box = b, !.todo = q.todo \ {b}]]
  BY Zenon DEF NextBox
<1>5. /\ b \in Boxes /\ b \in born /\ q.todo \subseteq born /\ q.todo \subseteq Boxes
      /\ q.snap \in [Boxes -> Record \cup {None}]
  BY Zenon, <1>1, <1>2, <1>4 DEF InOrder, Current, Request
<1>6. CASE q.op = "list"
  <2>1. req'[r] = [q EXCEPT !.pc = "hydrate", !.k = "get", !.box = b, !.todo = q.todo \ {b},
                            !.seen = q.snap[b], !.snap = [q.snap EXCEPT ![b] = None]]
    BY Zenon, <1>1, <1>4, <1>6
  <2>2. /\ req'[r].pc = "hydrate" /\ req'[r].k = "get" /\ req'[r].box = b /\ req'[r].op = "list"
        /\ req'[r].todo = q.todo \ {b} /\ req'[r].seen = q.snap[b]
        /\ req'[r].snap = [q.snap EXCEPT ![b] = None]
    BY Zenon, <1>1, <1>6, <2>1 DEF Request
  <2>3. Current(req[r])'
    BY SMTT(40), <1>1, <1>2, <1>4, <1>5, <1>6, <2>2 DEF InOrder, Current
  <2>4. InOrder(req[r])'
    BY Zenon, <1>3, <2>2, <2>3 DEF InOrder, Position, Outcome, Quitting, OnRunning, OnResting
  <2> QED BY Zenon, <1>3, <2>4, OneStep
<1>7. CASE q.op # "list"
  <2>1. req'[r] = [q EXCEPT !.pc = "read", !.k = "shutdown", !.box = b, !.todo = q.todo \ {b}]
    BY Zenon, <1>1, <1>4, <1>7
  <2>2. /\ req'[r].pc = "read" /\ req'[r].k = "shutdown" /\ req'[r].box = b /\ req'[r].op = q.op
        /\ req'[r].todo = q.todo \ {b}
    BY Zenon, <1>1, <2>1 DEF Request
  <2>3. Current(req[r])'
    BY Zenon, <1>1, <1>2, <1>4, <1>5, <1>7, <2>2 DEF InOrder, Current
  <2>4. Quitting(req[r])'
    BY Zenon, <1>1, <1>2, <1>4, <1>5, <2>2 DEF InOrder, Quitting, Runs
  <2>5. InOrder(req[r])'
    BY Zenon, <1>3, <2>2, <2>3, <2>4 DEF InOrder, Position, Outcome, OnRunning, OnResting
  <2> QED BY <1>3, <2>5, OneStep
<1> QED BY Zenon, <1>6, <1>7

LEMMA ReadRecordKept == ASSUME OneConnected, Known, NEW r \in Reqs, Read(r) PROVE OneUser'
<1> DEFINE q == req[r]
<1>1. /\ q.pc = "read" /\ UNCHANGED <<born, rec, disk, active, live, boxOf>>
      /\ req \in [Reqs -> Request] /\ q \in Request
  BY Zenon DEF Read, At, store, daemon, vms, Known, TypeOK
<1>2. CASE rec[q.box] = None
  <2>1. req'[r] = Idle
    BY Zenon, <1>1, <1>2 DEF Read, Fail
  <2> QED BY Zenon, <1>1, <2>1, EndKept DEF Changing, NoBoxYet
<1>3. CASE rec[q.box] # None
  <2>1. req'[r] = [q EXCEPT !.pc = "hydrate", !.seen = rec[q.box]]
    BY Zenon, <1>1, <1>3 DEF Read
  <2>2. Stays(r) /\ req'[r].pc = "hydrate" /\ req'[r].seen = rec[q.box] /\ req'[r].k = q.k
    BY Zenon, <1>1, <2>1 DEF Stays, Request
  <2>3. AllAgree' /\ InOrder(q) /\ NoTrace' /\ OneSandboxEach'
    BY Zenon, <1>1, StillAgree, HandlerKnown, OwnBoxOnly DEF Changing, NoBoxYet
  <2>4. Agreement(req[r])'
    BY Zenon, <2>3 DEF AllAgree, Agreement
  <2>5. Position(req[r])' /\ Outcome(req[r])'
    BY ZenonT(60), <1>1, <2>2, <2>3
       DEF InOrder, Position, Outcome, OnRunning, OnResting, Stays, Rests
  <2>6. q.op = "shutdown" => req'[r].k = "shutdown"
    BY Zenon, <1>1, <2>2, <2>3 DEF InOrder, Quitting
  <2> QED BY Zenon, <1>1, <2>2, <2>3, <2>4, <2>5, <2>6, StaysKept DEF NoBoxYet
<1> QED BY Zenon, <1>2, <1>3

LEMMA UnlinkKept == ASSUME OneConnected, Known, NEW r \in Reqs, Unlink(r) PROVE OneUser'
<1> DEFINE q == req[r]
<1>1. /\ q.pc = "unlink" /\ UNCHANGED <<born, rec, disk, live, boxOf>>
      /\ req \in [Reqs -> Request] /\ q \in Request /\ q.box \in Boxes
      /\ active \in [Boxes -> Sandboxes \cup {None}] /\ active' = [active EXCEPT ![q.box] = None]
      /\ InOrder(q)
  BY Zenon, HandlerKnown DEF Unlink, At, store, vms, Known, TypeOK, NoBoxYet
<1>2. Stays(r) /\ req'[r].pc = "write" /\ req'[r].copy = q.copy /\ req'[r].k = q.k
  BY Zenon, <1>1 DEF Unlink, Stays, Request
<1>3. active'[q.box] = None /\ \A b \in Boxes : b # q.box => active'[b] = active[b]
  BY Zenon, <1>1
<1>4. NoTrace' /\ OneSandboxEach'
  BY Zenon, <1>1, <1>3, OwnBoxOnly DEF NoBoxYet
<1>5. Agreement(req[r])'
  BY SMTT(40), <1>1, <1>2, <1>3
     DEF InOrder, Agreement, Changing, Agrees, HasActiveWorkspace, Stays
<1>6. Position(req[r])' /\ Outcome(req[r])'
  BY Zenon, <1>1, <1>2, <1>3
     DEF InOrder, Position, Outcome, OnRunning, OnResting, Stays, Agrees,
     HasActiveWorkspace
<1>7. q.op = "shutdown" => req'[r].k = "shutdown"
  BY Zenon, <1>1, <1>2 DEF InOrder, Quitting
<1> QED BY Zenon, <1>1, <1>2, <1>4, <1>5, <1>6, <1>7, StaysKept DEF NoBoxYet

LEMMA WriteKept == ASSUME OneConnected, Known, NEW r \in Reqs, Write(r) PROVE OneUser'
<1> DEFINE q == req[r]
<1>1. /\ q.pc = "write" /\ UNCHANGED <<born, disk, active, live, boxOf>>
      /\ req \in [Reqs -> Request] /\ q \in Request /\ HandlerOK(q) /\ q.box \in Boxes
      /\ rec \in [Boxes -> Record \cup {None}] /\ rec' = [rec EXCEPT ![q.box] = q.copy]
      /\ InOrder(q) /\ req'[r] = AfterWrite(q)
  BY Zenon, HandlerKnown DEF Write, At, vms, daemon, Known, TypeOK, NoBoxYet
<1>2. rec'[q.box] = q.copy /\ \A b \in Boxes : b # q.box => rec'[b] = rec[b]
  BY Zenon, <1>1
<1>3. q.copy \in Record /\ q.copy # None
  BY Zenon, <1>1 DEF HandlerOK, Carrying
<1>4. AllAgree'
  BY SMTT(40), <1>1, <1>2 DEF InOrder, Agreement, Outcome, AllAgree, Agrees, HasActiveWorkspace
<1>5. NoTrace' /\ OneSandboxEach' /\ Agreement(req[r])'
  BY Zenon, <1>1, <1>2, <1>4, OwnBoxOnly DEF NoBoxYet, AllAgree, Agreement
<1>6. q.op = "shutdown" => q.k = "shutdown"
  BY Zenon, <1>1 DEF InOrder, Quitting
<1>7. q.copy.status = "Running" => q.k = "start" /\ q.copy.sid = q.sid
  BY Zenon, <1>1 DEF InOrder, Outcome
<1>8. /\ q.todo \subseteq born' /\ q.box \in born' /\ q.box \notin q.todo /\ q.todo \subseteq Boxes
      /\ q.op = "list" => \A b \in q.todo : q.snap[b] = rec'[b]
  <2>1. q.todo \subseteq Boxes
    BY Zenon, <1>1 DEF Request
  <2> QED BY Zenon, <1>1, <1>2, <2>1 DEF InOrder, Current, NoBoxYet
<1>a. CASE q.k = "start" /\ q.copy.status = "Running"
  <2>1. req'[r] = [q EXCEPT !.pc = "stats", !.k = "get"]
    BY Zenon, <1>1, <1>a DEF AfterWrite
  <2>2. Stays(r) /\ req'[r].pc = "stats" /\ req'[r].sid = q.sid
    BY Zenon, <1>1, <2>1 DEF Stays, Request
  <2>3. Position(req[r])' /\ Outcome(req[r])'
    BY Zenon, <1>2, <1>3, <1>7, <1>a, <2>2
       DEF Position, Outcome, OnRunning, OnResting, Stays, Runs
  <2> QED BY Zenon, <1>1, <1>2, <1>5, <1>6, <1>a, <2>2, <2>3, StaysKept DEF NoBoxYet
<1>b. CASE q.k = "get"
  <2>1. req'[r] = [q EXCEPT !.pc = "read", !.k = "tail", !.copy = None]
    BY Zenon, <1>1, <1>b DEF AfterWrite
  <2>2. Stays(r) /\ req'[r].pc = "read" /\ req'[r].k = "tail"
    BY Zenon, <1>1, <2>1 DEF Stays, Request
  <2>3. Position(req[r])' /\ Outcome(req[r])'
    BY Zenon, <2>2 DEF Position, Outcome, OnRunning, OnResting
  <2> QED BY Zenon, <1>1, <1>2, <1>5, <1>6, <1>b, <2>2, <2>3, StaysKept DEF NoBoxYet
<1>c. CASE q.k = "missing"
  <2>1. req'[r] = [q EXCEPT !.pc = "read", !.k = "tail_stop", !.copy = None]
    BY Zenon, <1>1, <1>c DEF AfterWrite
  <2>2. Stays(r) /\ req'[r].pc = "read" /\ req'[r].k = "tail_stop"
    BY Zenon, <1>1, <2>1 DEF Stays, Request
  <2>3. Position(req[r])' /\ Outcome(req[r])'
    BY Zenon, <1>2, <1>3, <1>7, <1>c, <2>2
       DEF Position, Outcome, OnRunning, OnResting, Stays, Rests
  <2> QED BY Zenon, <1>1, <1>2, <1>5, <1>6, <1>c, <2>2, <2>3, StaysKept DEF NoBoxYet
<1>d. CASE q.k = "set"
  <2>1. req'[r] = [q EXCEPT !.pc = "hydrate", !.k = "tail", !.seen = q.copy]
    BY Zenon, <1>1, <1>d DEF AfterWrite
  <2>2. Stays(r) /\ req'[r].pc = "hydrate" /\ req'[r].k = "tail" /\ req'[r].seen = q.copy
    BY Zenon, <1>1, <2>1 DEF Stays, Request
  <2>3. Position(req[r])' /\ Outcome(req[r])'
    BY Zenon, <2>2 DEF Position, Outcome, OnRunning, OnResting
  <2> QED BY Zenon, <1>1, <1>2, <1>5, <1>6, <1>d, <2>2, <2>3, StaysKept DEF NoBoxYet
<1>e. CASE q.k \in {"remove", "remove2"}
  <2>1. req'[r] = [q EXCEPT !.pc = "rmdisk", !.copy = None]
    BY Zenon, <1>1, <1>e DEF AfterWrite
  <2>2. Stays(r) /\ req'[r].pc = "rmdisk"
    BY Zenon, <1>1, <2>1 DEF Stays, Request
  <2>3. Position(req[r])' /\ Outcome(req[r])'
    BY Zenon, <1>2, <1>3, <1>7, <1>e, <2>2
       DEF Position, Outcome, OnRunning, OnResting, Stays, Rests
  <2> QED BY Zenon, <1>1, <1>2, <1>5, <1>6, <1>e, <2>2, <2>3, StaysKept DEF NoBoxYet
<1>f. CASE q.k = "fork"
  <2>1. req'[r] = [q EXCEPT !.pc = "forkcopy", !.copy = None]
    BY Zenon, <1>1, <1>f DEF AfterWrite
  <2>2. Stays(r) /\ req'[r].pc = "forkcopy"
    BY Zenon, <1>1, <2>1 DEF Stays, Request
  <2>3. Position(req[r])' /\ Outcome(req[r])'
    BY Zenon, <2>2 DEF Position, Outcome, OnRunning, OnResting
  <2> QED BY Zenon, <1>1, <1>2, <1>5, <1>6, <1>f, <2>2, <2>3, StaysKept DEF NoBoxYet
<1>g. CASE q.k \in {"stop", "shutdown"} /\ q.copy.status = "Stopped"
  <2> DEFINE p == [q EXCEPT !.copy = None, !.sid = None]
  <2>1. req'[r] = Stopped(p)
    BY Zenon, <1>1, <1>g DEF AfterWrite
  <2>2. p \in Request /\ p.box = q.box /\ p.op = q.op /\ p.todo = q.todo /\ p.snap = q.snap
    BY Zenon, <1>1 DEF Request
  <2>3. q.op = "shutdown" => \A b \in Boxes \ q.todo : ~Runs(b)'
    BY Zenon, <1>1, <1>2, <1>g DEF InOrder, Quitting, Runs
  <2> HIDE DEF p
  <2>4. InOrder(req[r])'
    BY SMTT(40), <1>2, <1>3, <1>4, <1>8, <1>g, <2>1, <2>2, <2>3, StoppedKept
  <2> QED BY Zenon, <1>5, <2>4, OneStep
<1>h. CASE q.k = "create"
  <2>1. req'[r] = Returned(q)
    BY Zenon, <1>1, <1>h DEF AfterWrite
  <2>2. InOrder(req[r])'
    BY Zenon, <1>1, <1>4, <1>6, <1>8, <1>h, <2>1, ReturnKept
  <2> QED BY <1>5, <2>2, OneStep
<1>i. CASE /\ q.k \notin {"get", "missing", "set", "remove", "remove2", "fork", "create"}
           /\ ~(q.k = "start" /\ q.copy.status = "Running")
           /\ ~(q.k \in {"stop", "shutdown"} /\ q.copy.status = "Stopped")
  <2>1. req'[r] = Idle
    BY Zenon, <1>1, <1>i DEF AfterWrite
  <2> QED BY Zenon, <1>4, <1>5, <2>1, IdleKept, OneStep
<1> QED BY Zenon, <1>a, <1>b, <1>c, <1>d, <1>e, <1>f, <1>g, <1>h, <1>i

LEMMA PrepareRecordKept ==
    ASSUME OneConnected, Known, NEW r \in Reqs, PrepareRecord(r) \/ PrepareRecordFails(r)
    PROVE  OneUser'
<1> DEFINE q == req[r]
<1>1. /\ q.pc = "prepare" /\ UNCHANGED <<rec, active, live, boxOf>>
      /\ req \in [Reqs -> Request] /\ q \in Request /\ disk \in [Boxes -> Sizes \cup {0}]
  BY Zenon DEF PrepareRecord, PrepareRecordFails, At, store, daemon, vms, Known, TypeOK
<1>2. AllAgree' /\ NoTrace /\ OneSandboxEach /\ InOrder(q)
  BY Zenon, <1>1, StillAgree, HandlerKnown DEF Changing
<1>3. CASE PrepareRecordFails(r)
  <2>1. req'[r] = Idle /\ born' = born /\ disk' = disk
    BY Zenon, <1>1, <1>3 DEF PrepareRecordFails, Fail, store
  <2>2. NoTrace' /\ OneSandboxEach'
    BY Zenon, <1>1, <1>2, <2>1 DEF NoTrace, OneSandboxEach
  <2> QED BY Zenon, <1>2, <2>1, <2>2, IdleKept, OneStep
<1>4. CASE PrepareRecord(r)
  <2> DEFINE c == [status |-> "Created", sid |-> None, fs |-> DefaultSize]
  <2>1. PICK b \in Boxes \ born :
           /\ born' = born \cup {b} /\ disk' = [disk EXCEPT ![b] = DefaultSize]
           /\ req' = [req EXCEPT ![r] = [Idle EXCEPT !.pc = "write", !.op = q.op,
                         !.k = q.k, !.box = b, !.copy = c]]
    BY Zenon, <1>4 DEF PrepareRecord
  <2>2. /\ req'[r].pc = "write" /\ req'[r].op = q.op /\ req'[r].box = b /\ req'[r].copy = c
        /\ req'[r].todo = {}
    BY Zenon, <1>1, <2>1 DEF Idle
  <2>3. NoTrace' /\ OneSandboxEach'
    BY Zenon, <1>1, <1>2, <2>1 DEF NoTrace, OneSandboxEach
  <2>4. q.op # "shutdown"
    BY Zenon, <1>1, <1>2 DEF InOrder, Quitting
  <2>5. active[b] = None /\ \A s \in live : boxOf[s] # b
    BY Zenon, <1>2, <2>1 DEF NoTrace, Known, TypeOK
  <2>6. c.status = "Created" /\ c # None
    <3>1. c \in Record
      BY Zenon, SizesAssumption DEF Record, Statuses
    <3> QED BY Zenon, <3>1
  <2> HIDE DEF c
  <2>7. Agrees(req[r].copy, req[r].box)'
    BY Zenon, <1>1, <2>2, <2>5, <2>6 DEF Agrees, HasActiveWorkspace
  <2>8. Agreement(req[r])'
    BY Zenon, <1>2 DEF AllAgree, Agreement
  <2>9. InOrder(req[r])'
    BY SMTT(40), <2>1, <2>2, <2>4, <2>6, <2>7, <2>8
       DEF InOrder, Current, Position, Outcome, Quitting,
       NoBoxYet, OnRunning, OnResting
  <2> QED BY Zenon, <2>3, <2>9, OneStep
<1> QED BY Zenon, <1>3, <1>4

LEMMA AdoptKept == ASSUME OneConnected, Known, NEW r \in Reqs, Adopt(r) PROVE OneUser'
<1> DEFINE q == req[r]
<1>0. q \in Request /\ q.pc = "adopt" /\ q.box \in Boxes /\ InOrder(q)
  BY Zenon, HandlerKnown DEF Adopt, At, NoBoxYet
<1>1. /\ Stays(r) /\ req'[r].pc \in {"stats", "destroy"}
      /\ req'[r].sid = q.sid /\ req'[r].k = q.k
      /\ q.k = "exec" <=> req'[r].pc = "stats"
  BY Zenon, <1>0 DEF Adopt, Stays, Known, TypeOK, Request
<1>2. /\ UNCHANGED <<born, rec, disk, live, boxOf>> /\ active' = [active EXCEPT ![q.box] = q.sid]
      /\ active \in [Boxes -> Sandboxes \cup {None}]
  BY Zenon DEF Adopt, store, vms, Known, TypeOK
<1>3. Runs(q.box) /\ rec[q.box].sid = q.sid
  BY Zenon, <1>0 DEF InOrder, Position, OnRunning
<1>4. active' = active
  BY Zenon, <1>0, <1>2, <1>3 DEF InOrder, Agreement, Agrees, Changing, Runs
<1>5. Position(req[r])' /\ Outcome(req[r])'
  BY Zenon, <1>1, <1>2, <1>3 DEF Position, Outcome, Stays, OnRunning, OnResting, Runs
<1>6. q.op = "shutdown" => req'[r].k = "shutdown" /\ req'[r].pc = "destroy"
  BY Zenon, <1>0, <1>1 DEF InOrder, Quitting
<1> QED BY Zenon, <1>0, <1>1, <1>2, <1>4, <1>5, <1>6, MoveKept DEF Changing, NoBoxYet

\* The steps of boot and teardown that change no record, no active entry and no
\* registration.
LEMMA EndsKept ==
    ASSUME OneConnected, Known, NEW r \in Reqs, ForkWorkspace(r) \/ StatsOk(r)
    PROVE  OneUser'
<1> DEFINE q == req[r]
<1>1. /\ q.pc \in {"forkcopy", "stats"} /\ UNCHANGED <<born, rec, active, live, boxOf>>
      /\ req \in [Reqs -> Request] /\ disk \in [Boxes -> Sizes \cup {0}]
      /\ req'[r] = Returned(q) /\ InOrder(q)
  BY Zenon, HandlerKnown DEF ForkWorkspace, StatsOk, Return, At, store, daemon, vms, Known, TypeOK
<1>2. \A b \in Boxes : b # q.box => disk'[b] = disk[b]
  BY Zenon, <1>1 DEF ForkWorkspace, StatsOk, store
<1>3. q.op # "shutdown"
  BY Zenon, <1>1 DEF InOrder, Quitting
<1> QED BY Zenon, <1>1, <1>2, <1>3, EndKept DEF Changing, NoBoxYet

LEMMA FailuresKept ==
    ASSUME OneConnected, Known, NEW r \in Reqs,
           \/ StatsErr(r)
           \/ LaunchFails(r)
           \/ CheckWorkspace(r) /\ HasActiveWorkspace(req[r].box)
           \/ BootFails(r)
    PROVE  OneUser'
<1> DEFINE q == req[r]
<1>1. /\ q.pc \in {"stats", "launch", "create", "connect", "baseline"}
      /\ UNCHANGED <<born, rec, disk, active, live, boxOf>>
      /\ req \in [Reqs -> Request] /\ q \in Request /\ HandlerOK(q) /\ InOrder(q)
  BY Zenon, HandlerKnown
     DEF StatsErr, LaunchFails, CheckWorkspace, BootFails, DropInstance, At, store, daemon, vms,
         Known, TypeOK
<1>2. q.copy \in Record
  BY Zenon, <1>1 DEF HandlerOK, Carrying
<1> DEFINE p == [q EXCEPT !.sid = None]
<1>3. p \in Request /\ p.box = q.box /\ p.op = q.op /\ p.todo = q.todo /\ p.snap = q.snap
  BY Zenon, <1>1 DEF Request
<1>4. req'[r] = SetFailed(q, q.copy) \/ req'[r] = SetFailed(p, q.copy)
  BY Zenon, <1>1 DEF StatsErr, LaunchFails, CheckWorkspace, BootFails
<1> HIDE DEF p
<1>5. Stays(r) /\ req'[r].pc = "unlink" /\ req'[r].copy.status = "Failed"
  BY SMTT(40), <1>1, <1>2, <1>3, <1>4, MarkFields DEF Stays
<1>6. Position(req[r])' /\ Outcome(req[r])'
  BY Zenon, <1>5 DEF Position, Outcome, OnRunning, OnResting
<1>7. q.op # "shutdown"
  BY Zenon, <1>1 DEF InOrder, Quitting
<1> QED BY Zenon, <1>1, <1>5, <1>6, <1>7, MoveKept DEF Changing, NoBoxYet

LEMMA ResizeKept ==
    ASSUME OneConnected, Known, NEW r \in Reqs, ResizeWorkspace(r) PROVE OneUser'
<1> DEFINE q == req[r]
<1>1. /\ q.pc = "resize" /\ UNCHANGED <<born, rec, active, live, boxOf>>
      /\ req \in [Reqs -> Request] /\ q \in Request /\ HandlerOK(q) /\ InOrder(q)
      /\ disk \in [Boxes -> Sizes \cup {0}] /\ q.box \in Boxes
  BY Zenon, HandlerKnown DEF ResizeWorkspace, At, daemon, vms, Known, TypeOK, NoBoxYet
<1>2. \A b \in Boxes : b # q.box => disk'[b] = disk[b]
  BY Zenon, <1>1 DEF ResizeWorkspace
<1>3. CASE req'[r] = Idle
  BY Zenon, <1>1, <1>2, <1>3, EndKept DEF Changing, NoBoxYet
<1>4. CASE req'[r] = [q EXCEPT !.pc = "write"]
  <2>1. Stays(r) /\ req'[r].pc = "write" /\ req'[r].copy = q.copy
    BY Zenon, <1>1, <1>4 DEF Stays, Request
  <2>2. Position(req[r])' /\ Outcome(req[r])'
    BY Zenon, <1>1, <2>1 DEF InOrder, Position, Outcome, OnRunning, OnResting, Agrees, Stays,
       HandlerOK, HasActiveWorkspace
  <2>3. q.op # "shutdown"
    BY Zenon, <1>1 DEF InOrder, Quitting
  <2> QED BY Zenon, <1>1, <1>2, <2>1, <2>2, <2>3, MoveKept DEF Changing, NoBoxYet
<1>5. req'[r] = Idle \/ req'[r] = [q EXCEPT !.pc = "write"]
  BY Zenon, <1>1 DEF ResizeWorkspace, Fail
<1> QED BY Zenon, <1>3, <1>4, <1>5

LEMMA CheckWorkspaceKept ==
    ASSUME OneConnected, Known, NEW r \in Reqs, CheckWorkspace(r) PROVE OneUser'
<1> DEFINE q == req[r]
<1>1. CASE HasActiveWorkspace(q.box)
  BY Zenon, <1>1, FailuresKept
<1>2. CASE ~HasActiveWorkspace(q.box)
  <2>1. /\ q.pc = "create" /\ UNCHANGED <<born, rec, active, live, boxOf>>
        /\ req \in [Reqs -> Request] /\ q \in Request /\ InOrder(q)
        /\ disk \in [Boxes -> Sizes \cup {0}] /\ q.box \in Boxes
        /\ disk' = [disk EXCEPT ![q.box] = IF @ = 0 THEN DefaultSize ELSE @]
    BY Zenon, <1>2, HandlerKnown DEF CheckWorkspace, At, daemon, vms, Known, TypeOK, NoBoxYet
  <2>2. Stays(r) /\ req'[r].pc = "launch" /\ req'[r].k = q.k
    BY SMTT(40), <1>2, <2>1 DEF CheckWorkspace, Stays, Request
  <2>3. Position(req[r])' /\ Outcome(req[r])'
    BY Zenon, <1>2, <2>1, <2>2
       DEF InOrder, Position, Outcome, OnRunning, OnResting, Stays, Rests,
       HasActiveWorkspace
  <2>4. q.op # "shutdown"
    BY Zenon, <2>1 DEF InOrder, Quitting
  <2> QED BY Zenon, <2>1, <2>2, <2>3, <2>4, MoveKept DEF Changing, NoBoxYet
<1> QED BY Zenon, <1>1, <1>2

LEMMA ConnectKept == ASSUME OneConnected, Known, NEW r \in Reqs, Connect(r) PROVE OneUser'
<1> DEFINE q == req[r]
<1>1. /\ q.pc = "connect" /\ UNCHANGED <<born, rec, disk, active, live, boxOf>>
      /\ req \in [Reqs -> Request] /\ q \in Request /\ InOrder(q)
  BY Zenon, HandlerKnown DEF Connect, At, store, daemon, vms, Known, TypeOK
<1>2. Stays(r) /\ req'[r].pc = "baseline" /\ req'[r].k = q.k
  BY Zenon, <1>1 DEF Connect, Stays, Request
<1>3. Position(req[r])' /\ Outcome(req[r])'
  BY Zenon, <1>1, <1>2 DEF InOrder, Position, Outcome, OnRunning, OnResting, Stays, Rests,
     HasActiveWorkspace
<1>4. q.op # "shutdown"
  BY Zenon, <1>1 DEF InOrder, Quitting
<1> QED BY Zenon, <1>1, <1>2, <1>3, <1>4, MoveKept DEF Changing, NoBoxYet

\* A sandbox id is taken: it is new, so no BOX had it.
LEMMA LaunchKept == ASSUME OneConnected, Known, NEW r \in Reqs, Launch(r) PROVE OneUser'
<1> DEFINE q == req[r]
<1>1. /\ q.pc = "launch" /\ UNCHANGED <<born, rec, disk, active, live>>
      /\ req \in [Reqs -> Request] /\ q \in Request /\ InOrder(q) /\ q.box \in Boxes
      /\ boxOf \in [Sandboxes -> Boxes \cup {None}] /\ NoTrace /\ OneSandboxEach
      /\ live \subseteq Sandboxes
  BY Zenon, HandlerKnown DEF Launch, At, store, daemon, Known, TypeOK, NoBoxYet
<1>2. PICK s \in Sandboxes :
         /\ boxOf[s] = None /\ boxOf' = [boxOf EXCEPT ![s] = q.box]
         /\ req' = [req EXCEPT ![r].pc = "connect", ![r].sid = s]
  BY Zenon DEF Launch
<1>3. Stays(r) /\ req'[r].pc = "connect" /\ req'[r].k = q.k
  BY Zenon, <1>1, <1>2 DEF Stays, Request
<1>4. s \notin live
  BY Zenon, <1>2 DEF Known, Safe, Custody
<1>5. \A t \in live : boxOf'[t] = boxOf[t]
  BY Zenon, <1>1, <1>2, <1>4
<1>6. NoTrace' /\ OneSandboxEach'
  <2>1. q.box \in born
    BY Zenon, <1>1 DEF InOrder, Current, NoBoxYet
  <2> QED BY <1>1, <1>2, <1>5, <2>1 DEF NoTrace, OneSandboxEach
<1>7. Agreement(req[r])'
  BY SMTT(40), <1>1, <1>5 DEF InOrder, Agreement, Agrees, HasActiveWorkspace, Changing
<1>8. Position(req[r])' /\ Outcome(req[r])'
  BY ZenonT(60), <1>1, <1>3, <1>5
     DEF InOrder, Position, Outcome, OnRunning, OnResting, Stays, Rests,
     HasActiveWorkspace
<1>9. q.op # "shutdown"
  BY Zenon, <1>1 DEF InOrder, Quitting
<1> QED BY ZenonT(60), <1>1, <1>3, <1>6, <1>7, <1>8, <1>9, StaysKept DEF NoBoxYet

\* It is registered: its BOX had no other sandbox.
LEMMA BaselineKept == ASSUME OneConnected, Known, NEW r \in Reqs, Baseline(r) PROVE OneUser'
<1> DEFINE q == req[r]
<1>1. /\ q.pc = "baseline" /\ UNCHANGED <<born, rec, disk, active, boxOf>>
      /\ live' = live \cup {q.sid}
      /\ req \in [Reqs -> Request] /\ q \in Request /\ InOrder(q) /\ q.box \in Boxes
      /\ NoTrace /\ OneSandboxEach
  BY Zenon, HandlerKnown DEF Baseline, At, store, vms, Known, TypeOK, NoBoxYet
<1>2. Stays(r) /\ req'[r].pc = "publish" /\ req'[r].sid = q.sid /\ req'[r].k = q.k
  BY Zenon, <1>1 DEF Baseline, Stays, Request
<1>3. boxOf[q.sid] = q.box
  <2>1. q.sid # None /\ Own(q, boxOf)
    BY Zenon, <1>1, OwnFacts DEF Known, Naming
  <2> QED BY Zenon, <2>1 DEF Own
<1>4. ~HasActiveWorkspace(q.box)
  BY Zenon, <1>1 DEF InOrder, Position
<1>5. NoTrace' /\ OneSandboxEach'
  BY SMTT(40), <1>1, <1>3, <1>4 DEF NoTrace, OneSandboxEach, HasActiveWorkspace
<1>6. Agreement(req[r])'
  <2> SUFFICES ASSUME NEW b \in Boxes, b # q.box PROVE Agrees(rec[b], b)'
    BY Zenon, <1>2 DEF Agreement, Changing, Stays
  <2>1. Agrees(rec[b], b)
    BY Zenon, <1>1 DEF InOrder, Agreement
  <2> QED BY Zenon, <1>1, <1>3, <2>1 DEF Agrees, HasActiveWorkspace
<1>7. Position(req[r])' /\ Outcome(req[r])'
  BY ZenonT(60), <1>1, <1>2 DEF InOrder, Position, Outcome, OnRunning, OnResting, Stays, Rests
<1>8. q.op # "shutdown"
  BY Zenon, <1>1 DEF InOrder, Quitting
<1> QED BY Zenon, <1>1, <1>2, <1>5, <1>6, <1>7, <1>8, StaysKept DEF NoBoxYet

LEMMA PublishKept == ASSUME OneConnected, Known, NEW r \in Reqs, Publish(r) PROVE OneUser'
<1> DEFINE q == req[r]
           w == [q.copy EXCEPT !.status = "Running", !.sid = q.sid]
<1>1. /\ q.pc = "publish" /\ UNCHANGED <<born, rec, disk, live, boxOf>>
      /\ active' = [active EXCEPT ![q.box] = q.sid]
      /\ active \in [Boxes -> Sandboxes \cup {None}]
      /\ req \in [Reqs -> Request] /\ q \in Request /\ HandlerOK(q) /\ InOrder(q)
      /\ q.box \in Boxes
      /\ req'[r] = [q EXCEPT !.pc = "write", !.copy = w]
  BY Zenon, HandlerKnown DEF Publish, At, store, vms, Known, TypeOK, NoBoxYet
<1>2. w \in Record /\ w.status = "Running" /\ w.sid = q.sid
  BY Zenon, <1>1 DEF HandlerOK, Carrying, Naming, Record, Statuses
<1> HIDE DEF w
<1>3. /\ Stays(r) /\ req'[r].pc = "write" /\ req'[r].copy = w /\ req'[r].sid = q.sid
      /\ req'[r].k = q.k
  BY Zenon, <1>1 DEF Stays, Request
<1>4. active'[q.box] = q.sid /\ \A b \in Boxes : b # q.box => active'[b] = active[b]
  BY Zenon, <1>1
<1>5. NoTrace' /\ OneSandboxEach'
  BY Zenon, <1>1, <1>4, OwnBoxOnly DEF NoBoxYet
<1>6. Agreement(req[r])'
  BY <1>1, <1>3, <1>4 DEF InOrder, Agreement, Changing, Agrees, HasActiveWorkspace, Stays
<1>7. Position(req[r])' /\ Outcome(req[r])'
  BY Zenon, <1>1, <1>2, <1>3, <1>4
     DEF InOrder, Position, Outcome, OnRunning, OnResting, Stays, Agrees
<1>8. q.op # "shutdown"
  BY Zenon, <1>1 DEF InOrder, Quitting
<1> QED BY Zenon, <1>1, <1>3, <1>5, <1>6, <1>7, <1>8, StaysKept DEF NoBoxYet

\* destroy_sandbox: the record says Running, so its sandbox is registered.
LEMMA DestroyKept == ASSUME OneConnected, Known, NEW r \in Reqs, Destroy(r) PROVE OneUser'
<1> DEFINE q == req[r]
<1>1. /\ q.pc = "destroy" /\ UNCHANGED <<born, rec, disk, active, boxOf>>
      /\ req \in [Reqs -> Request] /\ q \in Request /\ InOrder(q) /\ q.box \in Boxes
      /\ OneSandboxEach
  BY Zenon, HandlerKnown DEF Destroy, At, store, vms, Known, TypeOK, NoBoxYet
<1>2. q.sid \in live /\ rec[q.box].sid = q.sid /\ Runs(q.box)
  BY Zenon, <1>1 DEF InOrder, Position, OnRunning, Agreement, Agrees, Changing, Runs
<1>3. q.sid \notin history
  BY Zenon, <1>2 DEF Known, Safe, HistoryIsFinal
<1>4. req' = [req EXCEPT ![r].pc = "teardown"] /\ live' = live \ {q.sid}
  BY Zenon, <1>2, <1>3 DEF Destroy
<1>5. Stays(r) /\ req'[r].pc = "teardown" /\ req'[r].k = q.k
  BY Zenon, <1>1, <1>4 DEF Stays, Request
<1>6. boxOf[q.sid] = q.box
  <2>1. q.sid # None /\ Own(q, boxOf)
    BY Zenon, <1>1, OwnFacts DEF Known, Naming
  <2> QED BY <2>1 DEF Own
<1>7. NoTrace' /\ OneSandboxEach'
  BY Zenon, <1>1, <1>4, OwnBoxOnly DEF NoBoxYet
<1>8. Agreement(req[r])'
  <2> SUFFICES ASSUME NEW b \in Boxes, b # q.box PROVE Agrees(rec[b], b)'
    BY Zenon, <1>5 DEF Agreement, Changing, Stays
  <2>1. Agrees(rec[b], b) /\ Good(rec[b], b, boxOf)
    BY Zenon, <1>1 DEF InOrder, Agreement, Known, Isolated, StoreOwn
  <2> QED BY Zenon, <1>1, <1>4, <1>6, <2>1 DEF Agrees, HasActiveWorkspace, Good
<1>9. Position(req[r])' /\ Outcome(req[r])'
  BY SMTT(40), <1>1, <1>2, <1>4, <1>5, <1>6 DEF Position, Outcome, OnRunning, OnResting, Stays,
     HasActiveWorkspace, OneSandboxEach
<1>10. q.op = "shutdown" => req'[r].k = "shutdown"
  BY Zenon, <1>1, <1>5 DEF InOrder, Quitting
<1> QED BY Zenon, <1>1, <1>5, <1>7, <1>8, <1>9, <1>10, StaysKept DEF NoBoxYet

LEMMA TeardownKept ==
    ASSUME OneConnected, Known, NEW r \in Reqs, Teardown(r) \/ Archive(r) PROVE OneUser'
<1> DEFINE q == req[r]
<1>1. /\ q.pc \in {"teardown", "archive"} /\ UNCHANGED <<born, rec, disk, active, live, boxOf>>
      /\ req \in [Reqs -> Request] /\ q \in Request /\ HandlerOK(q) /\ InOrder(q)
      /\ q.box \in Boxes
  BY Zenon, HandlerKnown
     DEF Teardown, Archive, DropInstance, At, store, daemon, vms, Known, TypeOK, NoBoxYet
<1>2. q.copy \in Record
  BY Zenon, <1>1 DEF HandlerOK, Carrying
<1>3. \/ req'[r] = [q EXCEPT !.pc = "archive"]
      \/ req'[r] = SetFailed(q, q.copy)
      \/ req'[r] = MarkStopped(q, q.copy)
  BY Zenon, <1>1 DEF Teardown, Archive
<1>4. /\ Stays(r) /\ req'[r].pc \in {"archive", "unlink"} /\ req'[r].k = q.k
      /\ req'[r].pc = "unlink" => req'[r].copy.status \in {"Failed", "Stopped"}
  <2>1. CASE req'[r] = [q EXCEPT !.pc = "archive"]
    BY Zenon, <1>1, <2>1 DEF Stays, Request
  <2>2. CASE req'[r] = SetFailed(q, q.copy) \/ req'[r] = MarkStopped(q, q.copy)
    BY SMTT(40), <1>1, <1>2, <2>2, MarkFields DEF Stays
  <2> QED BY Zenon, <1>3, <2>1, <2>2
<1>5. NoTrace' /\ OneSandboxEach'
  BY Zenon, <1>1, OwnBoxOnly DEF NoBoxYet
<1>6. Agreement(req[r])'
  <2> SUFFICES ASSUME NEW b \in Boxes, b # q.box PROVE Agrees(rec[b], b)'
    BY Zenon, <1>4 DEF Agreement, Changing, Stays
  <2>1. Agrees(rec[b], b)
    BY Zenon, <1>1 DEF InOrder, Agreement
  <2> QED BY Zenon, <1>1, <2>1 DEF Agrees, HasActiveWorkspace
<1>7. Position(req[r])' /\ Outcome(req[r])'
  BY ZenonT(60), <1>1, <1>4
     DEF InOrder, Position, Outcome, OnRunning, OnResting, Stays, HasActiveWorkspace
<1>8. q.op = "shutdown" => req'[r].k = "shutdown"
  BY Zenon, <1>1, <1>4 DEF InOrder, Quitting
<1> QED BY ZenonT(60), <1>1, <1>4, <1>5, <1>6, <1>7, <1>8, StaysKept DEF NoBoxYet

LEMMA RemoveWorkspaceKept ==
    ASSUME OneConnected, Known, NEW r \in Reqs, RemoveWorkspace(r) PROVE OneUser'
<1> DEFINE q == req[r]
<1>1. /\ q.pc = "rmdisk" /\ UNCHANGED <<born, rec, active, live, boxOf>>
      /\ req \in [Reqs -> Request] /\ q \in Request /\ InOrder(q)
      /\ disk \in [Boxes -> Sizes \cup {0}] /\ q.box \in Boxes
  BY Zenon, HandlerKnown DEF RemoveWorkspace, At, daemon, vms, Known, TypeOK, NoBoxYet
<1>2. \A b \in Boxes : b # q.box => disk'[b] = disk[b]
  BY Zenon, <1>1 DEF RemoveWorkspace
<1>3. req'[r] = Idle \/ req'[r] = [q EXCEPT !.pc = "forget"]
  BY Zenon, <1>1 DEF RemoveWorkspace, Fail
<1>4. CASE req'[r] = Idle
  BY Zenon, <1>1, <1>2, <1>4, EndKept DEF Changing, NoBoxYet
<1>5. CASE req'[r] = [q EXCEPT !.pc = "forget"]
  <2>1. Stays(r) /\ req'[r].pc = "forget"
    BY Zenon, <1>1, <1>5 DEF Stays, Request
  <2>2. Position(req[r])' /\ Outcome(req[r])'
    BY ZenonT(60), <1>1, <2>1 DEF InOrder, Position, Outcome, OnRunning, OnResting, Stays, Rests
  <2>3. q.op # "shutdown"
    BY Zenon, <1>1 DEF InOrder, Quitting
  <2> QED BY Zenon, <1>1, <1>2, <2>1, <2>2, <2>3, MoveKept DEF Changing, NoBoxYet
<1> QED BY Zenon, <1>3, <1>4, <1>5

LEMMA ForgetKept == ASSUME OneConnected, Known, NEW r \in Reqs, Forget(r) PROVE OneUser'
<1> DEFINE q == req[r]
<1>1. /\ q.pc = "forget" /\ UNCHANGED <<born, rec, disk, live, boxOf>>
      /\ req \in [Reqs -> Request] /\ q \in Request /\ InOrder(q) /\ q.box \in Boxes
      /\ active \in [Boxes -> Sandboxes \cup {None}] /\ active' = [active EXCEPT ![q.box] = None]
  BY Zenon, HandlerKnown DEF Forget, At, store, vms, Known, TypeOK, NoBoxYet
<1>2. active' = active
  BY Zenon, <1>1 DEF InOrder, Position, OnResting, Rests, Agreement, Changing, Agrees
<1>3. Stays(r) /\ req'[r].pc = "rmrec"
  BY Zenon, <1>1 DEF Forget, Stays, Request
<1>4. Position(req[r])' /\ Outcome(req[r])'
  BY ZenonT(60), <1>1, <1>3 DEF InOrder, Position, Outcome, OnRunning, OnResting, Stays, Rests
<1>5. q.op # "shutdown"
  BY Zenon, <1>1 DEF InOrder, Quitting
<1> QED BY Zenon, <1>1, <1>2, <1>3, <1>4, <1>5, MoveKept DEF Changing, NoBoxYet

LEMMA RemoveRecordKept ==
    ASSUME OneConnected, Known, NEW r \in Reqs, RemoveRecord(r) PROVE OneUser'
<1> DEFINE q == req[r]
<1>1. /\ q.pc = "rmrec" /\ UNCHANGED <<born, disk, active, live, boxOf>>
      /\ req \in [Reqs -> Request] /\ q \in Request /\ InOrder(q) /\ q.box \in Boxes
      /\ rec \in [Boxes -> Record \cup {None}] /\ rec' = [rec EXCEPT ![q.box] = None]
      /\ req'[r] = Returned(q)
  BY Zenon, HandlerKnown DEF RemoveRecord, Return, At, daemon, vms, Known, TypeOK, NoBoxYet
<1>2. rec'[q.box] = None /\ \A b \in Boxes : b # q.box => rec'[b] = rec[b]
  BY Zenon, <1>1
<1>3. NoTrace' /\ OneSandboxEach'
  BY Zenon, <1>1, <1>2, OwnBoxOnly DEF NoBoxYet
<1>4. AllAgree'
  BY SMTT(40), <1>1, <1>2
     DEF InOrder, Position, OnResting, Rests, Agreement, AllAgree, Changing, Agrees,
     HasActiveWorkspace
<1>5. q.op # "shutdown"
  BY ZenonT(60), <1>1 DEF InOrder, Quitting
<1>6. /\ q.todo \subseteq born' /\ q.box \notin q.todo
      /\ q.op = "list" => \A b \in q.todo : q.snap[b] = rec'[b]
  <2>1. q.todo \subseteq Boxes
    BY Zenon, <1>1 DEF Request
  <2> QED BY Zenon, <1>1, <1>2, <2>1 DEF InOrder, Current
<1>7. InOrder(req[r])'
  BY Zenon, <1>1, <1>4, <1>5, <1>6, ReturnKept
<1> QED BY Zenon, <1>3, <1>7, OneStep

LEMMA RestoreCheckpointKept ==
    ASSUME OneConnected, Known, NEW r \in Reqs, RestoreCheckpoint(r) PROVE OneUser'
<1> DEFINE q == req[r]
<1>1. /\ q.pc = "restore" /\ UNCHANGED <<born, rec, active, live, boxOf>>
      /\ req \in [Reqs -> Request] /\ q \in Request /\ InOrder(q)
      /\ disk \in [Boxes -> Sizes \cup {0}] /\ q.box \in Boxes
  BY Zenon, HandlerKnown DEF RestoreCheckpoint, At, daemon, vms, Known, TypeOK, NoBoxYet
<1>2. \A b \in Boxes : b # q.box => disk'[b] = disk[b]
  BY Zenon, <1>1 DEF RestoreCheckpoint
<1>3. \/ req'[r] = Idle \/ req'[r] = Returned(q)
      \/ req'[r] = [q EXCEPT !.pc = "read", !.k = "start"]
  BY Zenon, <1>1 DEF RestoreCheckpoint, Fail
<1>4. q.op # "shutdown"
  BY Zenon, <1>1 DEF InOrder, Quitting
<1>5. CASE req'[r] = Idle \/ req'[r] = Returned(q)
  BY Zenon, <1>1, <1>2, <1>4, <1>5, EndKept DEF Changing, NoBoxYet
<1>6. CASE req'[r] = [q EXCEPT !.pc = "read", !.k = "start"]
  <2>1. Stays(r) /\ req'[r].pc = "read" /\ req'[r].k = "start"
    BY Zenon, <1>1, <1>6 DEF Stays, Request
  <2>2. Position(req[r])' /\ Outcome(req[r])'
    BY Zenon, <2>1 DEF Position, Outcome, OnRunning, OnResting
  <2> QED BY Zenon, <1>1, <1>2, <1>4, <2>1, <2>2, MoveKept DEF Changing, NoBoxYet
<1> QED BY Zenon, <1>3, <1>5, <1>6

\* The next daemon starts from the records alone.
LEMMA NewDaemonKept == ASSUME OneConnected, Known, NewDaemon PROVE OneUser'
<1>1. /\ born' = born /\ disk' = disk /\ boxOf' = boxOf /\ live' = {}
      /\ \A b \in Boxes : active'[b] = None
      /\ \A r \in Reqs : req'[r] = Idle
      /\ \A b \in Boxes : rec'[b] = IF rec[b] = None THEN None ELSE Reconciled(rec[b], b)
  BY Zenon DEF NewDaemon
<1>2. ASSUME NEW b \in Boxes, rec[b] # None
      PROVE  rec'[b] # None => rec'[b].status # "Running"
  <2> DEFINE n == Normalized(rec[b], b)
  <2>1. n \in Record
    BY Zenon, <1>2, NormalizedTyped DEF Known, TypeOK
  <2>2. rec'[b] = IF n.status = "Running" THEN [n EXCEPT !.status = "Failed"] ELSE n
    BY Zenon, <1>1, <1>2 DEF Reconciled
  <2> HIDE DEF n
  <2> QED BY Zenon, <2>1, <2>2 DEF Record
<1>3. AllAgree'
  BY Zenon, <1>1, <1>2 DEF AllAgree, Agrees, HasActiveWorkspace
<1>4. OneSandboxEach'
  BY Zenon, <1>1 DEF OneSandboxEach
<1>5. NoTrace'
  BY Zenon, <1>1 DEF Known, OneUser, NoTrace
<1>6. \A r \in Reqs : InOrder(req[r])'
  BY Zenon, <1>1, <1>3, IdleKept
<1> QED BY Zenon, <1>4, <1>5, <1>6 DEF OneUser

----------------------------------------------------------------------------
(* The invariant. *)

LEMMA InitOneUser == Init => OneUser
<1> SUFFICES ASSUME Init PROVE OneUser
  BY Zenon
<1>1. NoTrace /\ OneSandboxEach
  BY Zenon DEF Init, NoTrace, OneSandboxEach
<1>2. \A b \in Boxes : Agrees(rec[b], b)
  BY Zenon DEF Init, Agrees, HasActiveWorkspace
<1>3. ASSUME NEW r \in Reqs PROVE InOrder(req[r])
  <2>1. req[r].pc = "idle" /\ req[r].op = "none" /\ req[r].todo = {}
    BY Zenon DEF Init, Idle
  <2> QED BY Zenon, <1>2, <2>1
             DEF InOrder, Agreement, Current, Position, Outcome, Quitting, NoBoxYet,
             OnRunning, OnResting
<1> QED BY Zenon, <1>1, <1>3 DEF OneUser

LEMMA NextOneUser == ASSUME OneConnected PROVE Known /\ [Next]_vars => OneUser'
<1> SUFFICES ASSUME Known, [Next]_vars PROVE OneUser'
  BY Zenon
<1>1. ASSUME NEW r \in Reqs, Call(r) \/ CallCreate(r) \/ CallList(r) \/ CallShutdown(r)
      PROVE  OneUser'
  BY Zenon, <1>1, CallsKept
<1>2. ASSUME NEW r \in Reqs,
             \/ Tail(r) \/ Fork(r) \/ Get(r) \/ EnsureRuntime(r) \/ SetSetting(r) \/ Start(r)
             \/ Stop(r) \/ RunningSandboxId(r) \/ StopForShutdown(r) \/ Remove(r) \/ Restore(r)
      PROVE  OneUser'
  BY Zenon, <1>2, TailKept, ForkKept, GetKept, EnsureRuntimeKept, SetSettingKept, StartKept, StopKept,
     RunningSandboxIdKept, StopForShutdownKept, RemoveKept, RestoreKept
<1>3. ASSUME NEW r \in Reqs,
             \/ NextBox(r) \/ Read(r) \/ Unlink(r) \/ Write(r)
             \/ PrepareRecord(r) \/ PrepareRecordFails(r) \/ Adopt(r)
             \/ ForkWorkspace(r) \/ StatsOk(r) \/ StatsErr(r) \/ LaunchFails(r) \/ BootFails(r)
      PROVE  OneUser'
  BY Zenon, <1>3, NextBoxKept, ReadRecordKept, UnlinkKept, WriteKept, PrepareRecordKept, AdoptKept,
     EndsKept, FailuresKept
<1>4. ASSUME NEW r \in Reqs,
             \/ ResizeWorkspace(r) \/ CheckWorkspace(r) \/ Launch(r) \/ Connect(r) \/ Baseline(r)
             \/ Publish(r) \/ Destroy(r) \/ Teardown(r) \/ Archive(r) \/ RemoveWorkspace(r)
             \/ Forget(r) \/ RemoveRecord(r) \/ RestoreCheckpoint(r)
      PROVE  OneUser'
  BY Zenon, <1>4, ResizeKept, CheckWorkspaceKept, LaunchKept, ConnectKept, BaselineKept, PublishKept,
     DestroyKept, TeardownKept, RemoveWorkspaceKept, ForgetKept, RemoveRecordKept,
     RestoreCheckpointKept
<1>5. ASSUME NEW r \in Reqs, Exit(r) PROVE OneUser'
  BY Zenon, <1>5, NewDaemonKept DEF Exit
<1>6. CASE Crash
  BY Zenon, <1>6, NewDaemonKept DEF Crash
<1>7. CASE UNCHANGED <<born, rec, disk, active, live, boxOf, req>>
  <2>1. OneUser
    BY Zenon DEF Known
  <2> QED BY SMTT(40), <1>7, <2>1
             DEF OneUser, NoTrace, OneSandboxEach, InOrder, Agreement, Current,
             Position, Outcome, Quitting, Agrees, HasActiveWorkspace, Runs, Rests
<1>8. ASSUME NEW s \in Sandboxes, VmDies(s) \/ VmHangs(s) PROVE OneUser'
  BY Zenon, <1>7, <1>8 DEF VmDies, VmHangs, DropInstance, store, daemon
<1>9. CASE UNCHANGED vars
  BY Zenon, <1>7, <1>9 DEF vars, store, daemon, vms
<1> QED BY Zenon, <1>1, <1>2, <1>3, <1>4, <1>5, <1>6, <1>8, <1>9 DEF Next, Progress

LEMMA KnownAlways == ASSUME OneConnected PROVE Spec => []Known
<1>1. Spec => [](TypeOK /\ Safe)
  BY InitSafe, NextSafe, PTL DEF Spec
<1>2. Init => OneUser
  BY Zenon, InitOneUser
<1>3. TypeOK /\ Safe /\ Isolated /\ OneUser /\ [Next]_vars => OneUser'
  BY Zenon, NextOneUser DEF Known
<1>4. TypeOK /\ Safe /\ Isolated /\ OneUser => Known
  BY Zenon DEF Known
<1> QED BY <1>1, <1>2, <1>3, <1>4, IsolatedAlways, PTL DEF Spec

\* Between the operations of one connection a Running record, its active entry
\* and the registry name one sandbox, and a Created or Stopped BOX has neither
\* sandbox nor VM, also after crashes and restarts.
THEOREM OperationsSettle == ASSUME OneConnected PROVE Spec => []Settled
<1>1. Known => Settled
  <2> SUFFICES ASSUME Known, Quiet, NEW b \in Boxes, rec[b] # None
      PROVE  /\ rec[b].status = "Running" =>
                  active[b] = rec[b].sid /\ live \cap SandboxesOf(b) = {rec[b].sid}
             /\ rec[b].status \in {"Created", "Stopped"} =>
                  active[b] = None /\ (live \cup (vm \ orphans)) \cap SandboxesOf(b) = {}
    BY Zenon DEF Settled
  <2>1. PICK r \in Reqs : TRUE
    BY Zenon DEF OneConnected
  <2>2. Agrees(rec[b], b) /\ OneSandboxEach /\ Good(rec[b], b, boxOf) /\ live \subseteq Sandboxes
    BY ZenonT(60), HandlerKnown
       DEF Quiet, At, InOrder, Agreement, Changing, Known, Isolated, StoreOwn, TypeOK
  <2>3. vm \ orphans \subseteq live
    BY Zenon DEF Quiet, At, Known, Safe, NoLeakedVm, Held
  <2> QED BY Zenon, <2>2, <2>3 DEF Agrees, OneSandboxEach, Good, SandboxesOf, HasActiveWorkspace
<1> QED BY <1>1, KnownAlways, PTL

\* When shutdown_daemon has gone through its BOXes no record is left Running, so
\* the next daemon has nothing to reset.
THEOREM QuitLeavesNoneRunning == ASSUME OneConnected PROVE Spec => []QuitStopsBoxes
<1>1. Known => QuitStopsBoxes
  <2> SUFFICES ASSUME Known, NEW r \in Reqs, At(r, "exit"), NEW b \in Boxes, rec[b] # None
      PROVE  rec[b].status # "Running"
    BY Zenon DEF QuitStopsBoxes
  <2>1. InOrder(req[r]) /\ req[r].pc = "exit"
    BY Zenon, HandlerKnown DEF At
  <2> QED BY Zenon, <2>1 DEF InOrder, Quitting, Runs
<1> QED BY <1>1, KnownAlways, PTL

=============================================================================
