-------------------------- MODULE BoxServiceProofs --------------------------
(***************************************************************************)
(* Proofs about BoxService, for any number of BOXes, sandboxes and         *)
(* connections, any set of operations and any faults.                      *)
(***************************************************************************)
EXTENDS BoxService, TLAPS

Typed(q) == q \in Request /\ HandlerOK(q)

USE OpsAssumption, SizesAssumption, NoneAssumption

----------------------------------------------------------------------------
(* What the helpers return. *)

\* A handler that is reset is well typed.
LEMMA IdleTyped == Typed(Idle)
BY Zenon DEF Typed, Idle, Request, HandlerOK, PCs, Sites, AllOps, NoBoxYet, Carrying, Naming

\* A handler that returns to its caller is well typed, whatever it held.
LEMMA ReturnedTyped ==
    ASSUME NEW q \in Request, q.op = "list" => \A b \in q.todo : q.snap[b] \in Record
    PROVE  Typed(Returned(q)) /\ Returned(q).pc \in {"idle", "next", "exit"}
<1>1. CASE q.todo # {}
  <2>1. Returned(q) = [q EXCEPT !.pc = "next", !.seen = None, !.copy = None, !.sid = None]
    BY Zenon, <1>1 DEF Returned
  <2>2. Returned(q) \in Request
    BY Zenon, <2>1 DEF Request, PCs
  <2>3. HandlerOK(Returned(q))
    BY ZenonT(60), <2>1 DEF Request, HandlerOK, NoBoxYet, Carrying, Naming
  <2> QED BY Zenon, <2>1, <2>2, <2>3 DEF Typed, Request
<1>2. CASE q.todo = {} /\ q.op = "shutdown"
  <2>1. Returned(q) = [Idle EXCEPT !.pc = "exit", !.op = "shutdown"]
    BY Zenon, <1>2 DEF Returned
  <2>2. Returned(q) \in Request
    BY Zenon, <2>1, IdleTyped DEF Typed, Request, PCs, AllOps
  <2>3. Returned(q).pc = "exit" /\ Returned(q).op = "shutdown"
    BY Zenon, <2>1, IdleTyped DEF Typed, Request
  <2> QED BY Zenon, <2>2, <2>3 DEF Typed, HandlerOK, NoBoxYet, Carrying, Naming
<1>3. CASE q.todo = {} /\ q.op # "shutdown"
  <2>1. Returned(q) = Idle
    BY Zenon, <1>3 DEF Returned
  <2> QED BY <2>1, IdleTyped DEF Idle
<1> QED BY Zenon, <1>1, <1>2, <1>3

\* So is one whose stop_box returned.
LEMMA StoppedTyped ==
    ASSUME NEW q \in Request, q.box \in Boxes,
           q.op = "list" => \A b \in q.todo : q.snap[b] \in Record
    PROVE  Typed(Stopped(q)) /\ Stopped(q).pc \in {"idle", "next", "exit", "read", "restore"}
<1>1. CASE q.op = "remove"
  <2>1. Stopped(q) = [q EXCEPT !.pc = "read", !.k = "remove2"]
    BY Zenon, <1>1 DEF Stopped
  <2> QED BY ZenonT(60), <1>1, <2>1
             DEF Typed, Request, HandlerOK, PCs, Sites, NoBoxYet, Carrying, Naming
<1>2. CASE q.op = "restore"
  <2>1. Stopped(q) = [q EXCEPT !.pc = "restore"]
    BY Zenon, <1>2 DEF Stopped
  <2> QED BY ZenonT(60), <1>2, <2>1
             DEF Typed, Request, HandlerOK, PCs, Sites, NoBoxYet, Carrying, Naming
<1>3. CASE q.op \notin {"remove", "restore"}
  BY Zenon, <1>3, ReturnedTyped DEF Stopped
<1> QED BY Zenon, <1>1, <1>2, <1>3

\* normalize_settings keeps a record a record, with its status and sandbox.
LEMMA NormalizedTyped ==
    ASSUME TypeOK, NEW c \in Record, NEW b \in Boxes
    PROVE  /\ Normalized(c, b) \in Record
           /\ Normalized(c, b).status = c.status
           /\ Normalized(c, b).sid = c.sid
BY Zenon DEF TypeOK, Record, Normalized

\* set_failed and mark_stopped leave a handler about to unlink its BOX.
LEMMA UnlinkingTyped ==
    ASSUME NEW q \in Request, NEW c \in Record, q.box \in Boxes,
           q.op = "list" => \A b \in q.todo : q.snap[b] \in Record
    PROVE  /\ Typed(SetFailed(q, c)) /\ SetFailed(q, c).pc = "unlink"
           /\ Typed(MarkStopped(q, c)) /\ MarkStopped(q, c).pc = "unlink"
<1> DEFINE f == MarkedFailed(c)
           s == MarkedStopped(c)
<1>1. f \in Record /\ f.status = "Failed" /\ s \in Record /\ s.status = "Stopped"
  BY Zenon DEF Record, Statuses, MarkedFailed, MarkedStopped
<1>2. SetFailed(q, c) = [q EXCEPT !.pc = "unlink", !.seen = None, !.copy = f]
  BY Zenon DEF SetFailed
<1>3. MarkStopped(q, c) = [q EXCEPT !.pc = "unlink", !.seen = None, !.copy = s]
  BY DEF MarkStopped
<1> HIDE DEF f, s
<1>4. Typed(SetFailed(q, c)) /\ SetFailed(q, c).pc = "unlink"
  BY ZenonT(60), <1>1, <1>2 DEF Typed, Request, HandlerOK, PCs, NoBoxYet, Carrying, Naming
<1>5. Typed(MarkStopped(q, c)) /\ MarkStopped(q, c).pc = "unlink"
  BY ZenonT(60), <1>1, <1>3 DEF Typed, Request, HandlerOK, PCs, NoBoxYet, Carrying, Naming
<1> QED BY Zenon, <1>4, <1>5

\* After a write the handler is well typed and holds no sandbox exclusively.
LEMMA AfterWriteTyped ==
    ASSUME NEW q \in Request, HandlerOK(q), q.pc = "write"
    PROVE  Typed(AfterWrite(q)) /\ AfterWrite(q).pc \notin Holding
<1>0. q.box \in Boxes /\ q.copy \in Record
  BY Zenon DEF HandlerOK, NoBoxYet, Carrying
<1>a. q.op = "list" => \A b \in q.todo : q.snap[b] \in Record
  BY Zenon DEF HandlerOK
<1>1. CASE q.k = "start" /\ q.copy.status = "Running"
  <2>1. AfterWrite(q) = [q EXCEPT !.pc = "stats", !.k = "get"]
    BY Zenon, <1>1 DEF AfterWrite
  <2>2. q.sid \in Sandboxes
    BY Zenon, <1>1 DEF HandlerOK
  <2> QED BY ZenonT(60), <2>1, <2>2, <1>0, <1>a
             DEF Typed, Request, HandlerOK, PCs, Sites, NoBoxYet,
             Carrying, Naming, Holding
<1>2. CASE q.k = "get"
  <2>1. AfterWrite(q) = [q EXCEPT !.pc = "read", !.k = "tail", !.copy = None]
    BY Zenon, <1>2 DEF AfterWrite
  <2> QED BY ZenonT(60), <2>1, <1>0, <1>a DEF Typed, Request, HandlerOK, PCs, Sites, NoBoxYet,
             Carrying, Naming, Holding
<1>3. CASE q.k = "missing"
  <2>1. AfterWrite(q) = [q EXCEPT !.pc = "read", !.k = "tail_stop", !.copy = None]
    BY Zenon, <1>3 DEF AfterWrite
  <2> QED BY ZenonT(60), <2>1, <1>0, <1>a DEF Typed, Request, HandlerOK, PCs, Sites, NoBoxYet,
             Carrying, Naming, Holding
<1>4. CASE q.k = "set"
  <2>1. AfterWrite(q) = [q EXCEPT !.pc = "hydrate", !.k = "tail", !.seen = q.copy]
    BY Zenon, <1>4 DEF AfterWrite
  <2> QED BY ZenonT(60), <2>1, <1>0, <1>a DEF Typed, Request, HandlerOK, PCs, Sites, NoBoxYet,
             Carrying, Naming, Holding
<1>5. CASE q.k \in {"remove", "remove2"}
  <2>1. AfterWrite(q) = [q EXCEPT !.pc = "rmdisk", !.copy = None]
    BY Zenon, <1>5 DEF AfterWrite
  <2> QED BY ZenonT(60), <2>1, <1>0, <1>a DEF Typed, Request, HandlerOK, PCs, Sites, NoBoxYet,
             Carrying, Naming, Holding
<1>6. CASE q.k = "fork"
  <2>1. AfterWrite(q) = [q EXCEPT !.pc = "forkcopy", !.copy = None]
    BY Zenon, <1>6 DEF AfterWrite
  <2> QED BY ZenonT(60), <2>1, <1>0, <1>a DEF Typed, Request, HandlerOK, PCs, Sites, NoBoxYet,
             Carrying, Naming, Holding
<1>7. CASE q.k \in {"stop", "shutdown"} /\ q.copy.status = "Stopped"
  <2> DEFINE p == [q EXCEPT !.copy = None, !.sid = None]
  <2>1. AfterWrite(q) = Stopped(p)
    BY Zenon, <1>7 DEF AfterWrite
  <2>2. p \in Request /\ p.box = q.box /\ p.op = q.op /\ p.todo = q.todo /\ p.snap = q.snap
    BY Zenon DEF Request
  <2> HIDE DEF p
  <2> QED BY Zenon, <2>1, <2>2, <1>0, <1>a, StoppedTyped DEF Holding
<1>8. CASE q.k = "create"
  <2>1. AfterWrite(q) = Returned(q)
    BY Zenon, <1>8 DEF AfterWrite
  <2> QED BY Zenon, <2>1, <1>a, ReturnedTyped DEF Holding
<1>9. CASE /\ q.k \notin {"get", "missing", "set", "remove", "remove2", "fork", "create"}
           /\ ~(q.k = "start" /\ q.copy.status = "Running")
           /\ ~(q.k \in {"stop", "shutdown"} /\ q.copy.status = "Stopped")
  <2>1. AfterWrite(q) = Idle
    BY Zenon, <1>9 DEF AfterWrite
  <2> QED BY <2>1, IdleTyped DEF Idle, Holding
<1> QED BY Zenon, <1>1, <1>2, <1>3, <1>4, <1>5, <1>6, <1>7, <1>8, <1>9

----------------------------------------------------------------------------
(* Steps of one handler. *)

\* Replacing one handler's state by a well-typed one keeps them all typed.
LEMMA HandlerStep ==
    ASSUME TypeOK, NEW r \in Reqs, NEW X, Typed(X), req' = [req EXCEPT ![r] = X]
    PROVE  /\ req' \in [Reqs -> Request]
           /\ \A p \in Reqs : HandlerOK(req'[p])
           /\ req'[r] = X
           /\ \A p \in Reqs \ {r} : req'[p] = req[p]
BY Zenon DEF TypeOK, Typed

\* What a handler inside an operation holds.
LEMMA HandlerFacts ==
    ASSUME TypeOK, NEW r \in Reqs
    PROVE  /\ req[r] \in Request
           /\ HandlerOK(req[r])
           /\ req[r].op = "list" => \A b \in req[r].todo : req[r].snap[b] \in Record
BY Zenon DEF TypeOK, HandlerOK

\* read_box hands over a record with the status and sandbox of the one read,
\* and changes the store at most for its own BOX.
LEMMA ReadBoxFacts ==
    ASSUME TypeOK, NEW r \in Reqs, NEW k, ReadBox(r, k)
    PROVE  /\ req[r].pc = "hydrate" /\ req[r].k = k
           /\ req[r].box \in Boxes
           /\ Hydrated(r) \in Record
           /\ Hydrated(r).status = req[r].seen.status
           /\ Hydrated(r).sid = req[r].seen.sid
           /\ rec' \in [Boxes -> Record \cup {None}]
           /\ UNCHANGED <<born, disk, boxOf, vm, hung, orphans>>
<1>1. req[r].pc = "hydrate" /\ req[r].k = k
  BY Zenon DEF ReadBox, At
<1>2. req[r].box \in Boxes /\ req[r].seen \in Record
  BY Zenon, <1>1, HandlerFacts DEF HandlerOK, NoBoxYet
<1>3. /\ Hydrated(r) \in Record
      /\ Hydrated(r).status = req[r].seen.status
      /\ Hydrated(r).sid = req[r].seen.sid
  BY Zenon, <1>2, NormalizedTyped DEF Hydrated
<1>4. rec' = rec \/ rec' = [rec EXCEPT ![req[r].box] = Hydrated(r)]
  BY Zenon DEF ReadBox
<1>5. rec' \in [Boxes -> Record \cup {None}]
  BY Zenon, <1>2, <1>3, <1>4 DEF TypeOK
<1> QED BY Zenon, <1>1, <1>2, <1>3, <1>5 DEF ReadBox, vms

\* The sandbox of a record is a sandbox or nothing.
LEMMA SandboxForTyped ==
    ASSUME TypeOK, NEW c \in Record, NEW b \in Boxes
    PROVE  SandboxFor(c, b) \in Sandboxes \cup {None}
BY Zenon DEF TypeOK, Record, SandboxFor

\* A local step: the handler holds no sandbox exclusively before or after, and
\* neither the registry nor any VM changes.
Local(r) ==
    /\ req[r].pc \notin Holding /\ req'[r].pc \notin Holding
    /\ \A p \in Reqs \ {r} : req'[p] = req[p]
    /\ UNCHANGED <<live, history, boxOf, vm, hung, orphans>>

\* A well-typed change of one handler and of the stores is a local step.
LEMMA LocalUpdate ==
    ASSUME TypeOK, NEW r \in Reqs, NEW X, Typed(X), X.pc \notin Holding,
           req[r].pc \notin Holding, req' = [req EXCEPT ![r] = X],
           born' \subseteq Boxes,
           rec' \in [Boxes -> Record \cup {None}],
           disk' \in [Boxes -> Sizes \cup {0}],
           active' \in [Boxes -> Sandboxes \cup {None}],
           UNCHANGED <<live, history, boxOf, vm, hung, orphans>>
    PROVE  TypeOK' /\ Local(r)
<1>1. /\ req' \in [Reqs -> Request]
      /\ \A p \in Reqs : HandlerOK(req'[p])
      /\ req'[r] = X
      /\ \A p \in Reqs \ {r} : req'[p] = req[p]
  BY Zenon, HandlerStep
<1> QED BY Zenon, <1>1 DEF TypeOK, Local

\* The same after read_box, for the steps that leave the active map alone.
LEMMA ReadUpdate ==
    ASSUME TypeOK, NEW r \in Reqs, NEW k, ReadBox(r, k), UNCHANGED daemon,
           NEW X, Typed(X), X.pc \notin Holding, req' = [req EXCEPT ![r] = X]
    PROVE  TypeOK' /\ Local(r)
<1>1. /\ req[r].pc = "hydrate"
      /\ rec' \in [Boxes -> Record \cup {None}]
      /\ UNCHANGED <<born, disk, boxOf, vm, hung, orphans>>
  BY Zenon, ReadBoxFacts
<1>2. /\ born' \subseteq Boxes
      /\ disk' \in [Boxes -> Sizes \cup {0}]
      /\ active' \in [Boxes -> Sandboxes \cup {None}]
      /\ UNCHANGED <<live, history, boxOf, vm, hung, orphans>>
      /\ req[r].pc \notin Holding
  BY Zenon, <1>1 DEF TypeOK, daemon, Holding
<1> QED BY Zenon, <1>1, <1>2, LocalUpdate

\* A request arrives.
LEMMA CallStep == ASSUME TypeOK, NEW r \in Reqs, Call(r) PROVE TypeOK' /\ Local(r)
<1>1. PICK op \in Ops \cap BoxOps, b \in born, v \in Sizes :
         req' = [req EXCEPT ![r] = [Idle EXCEPT
                        !.pc = "read", !.op = op, !.box = b, !.arg = v,
                        !.k = IF op = "peek" THEN "tail" ELSE op]]
  BY Zenon DEF Call
<1> DEFINE k == IF op = "peek" THEN "tail" ELSE op
           X == [Idle EXCEPT !.pc = "read", !.op = op, !.box = b, !.arg = v, !.k = k]
<1>2. k \in Sites /\ k # "running"
  BY Zenon DEF BoxOps, Sites
<1>3. b \in Boxes /\ op \in AllOps /\ op # "list"
  BY Zenon DEF TypeOK, BoxOps
<1>4. X \in Request /\ X.pc = "read" /\ X.k = k /\ X.box = b /\ X.op = op
  BY ZenonT(60), <1>2, <1>3, IdleTyped DEF Typed, Request, PCs
<1>5. Typed(X) /\ X.pc \notin Holding
  BY Zenon, <1>2, <1>3, <1>4 DEF Typed, HandlerOK, NoBoxYet, Carrying, Naming, Holding
<1>6. req' = [req EXCEPT ![r] = X]
  BY Zenon, <1>1
<1> HIDE DEF X
<1>7. req[r].pc \notin Holding
  BY Zenon DEF Call, At, Holding
<1> QED BY Zenon, <1>5, <1>6, <1>7, LocalUpdate DEF Call, TypeOK, store, daemon, vms

LEMMA CallCreateStep == ASSUME TypeOK, NEW r \in Reqs, CallCreate(r) PROVE TypeOK' /\ Local(r)
<1> DEFINE X == [Idle EXCEPT !.pc = "prepare", !.op = "create", !.k = "create"]
<1>1. req' = [req EXCEPT ![r] = X]
  BY Zenon DEF CallCreate
<1>2. X \in Request /\ X.pc = "prepare" /\ X.op = "create"
  BY ZenonT(60), IdleTyped DEF Typed, Request, PCs, AllOps, Sites
<1>3. Typed(X) /\ X.pc \notin Holding
  BY Zenon, <1>2 DEF Typed, HandlerOK, NoBoxYet, Carrying, Naming, Holding
<1> HIDE DEF X
<1>4. req[r].pc \notin Holding
  BY Zenon DEF CallCreate, At, Holding
<1> QED BY Zenon, <1>1, <1>3, <1>4, LocalUpdate DEF CallCreate, TypeOK, store, daemon, vms

LEMMA CallListStep == ASSUME TypeOK, NEW r \in Reqs, CallList(r) PROVE TypeOK' /\ Local(r)
<1> DEFINE listed == {b \in Boxes : rec[b] # None}
           X == [Idle EXCEPT !.pc = "next", !.op = "list", !.k = "get",
                             !.todo = listed, !.snap = rec]
<1>1. req' = [req EXCEPT ![r] = X]
  BY Zenon DEF CallList
<1>2. rec \in [Boxes -> Record \cup {None}]
  BY Zenon DEF TypeOK
<1>3. \A b \in listed : rec[b] \in Record
  BY Zenon, <1>2
<1> HIDE DEF listed
<1>4. listed \subseteq Boxes
  BY Zenon DEF listed
<1>5. /\ X \in Request /\ X.pc = "next" /\ X.op = "list"
      /\ X.todo = listed /\ X.snap = rec
  BY ZenonT(60), <1>2, <1>4, IdleTyped DEF Typed, Request, PCs, AllOps, Sites
<1>6. Typed(X) /\ X.pc \notin Holding
  BY Zenon, <1>3, <1>5 DEF Typed, HandlerOK, NoBoxYet, Carrying, Naming, Holding
<1> HIDE DEF X
<1>7. req[r].pc \notin Holding
  BY Zenon DEF CallList, At, Holding
<1> QED BY Zenon, <1>1, <1>6, <1>7, LocalUpdate DEF CallList, TypeOK, store, daemon, vms

LEMMA CallShutdownStep ==
    ASSUME TypeOK, NEW r \in Reqs, CallShutdown(r) PROVE TypeOK' /\ Local(r)
<1> DEFINE ids == {b \in Boxes : active[b] # None}
           p == IF ids = {} THEN "exit" ELSE "next"
           X == [Idle EXCEPT !.op = "shutdown", !.k = "shutdown", !.pc = p, !.todo = ids]
<1>1. req' = [req EXCEPT ![r] = X]
  BY Zenon DEF CallShutdown
<1>2. ids \in SUBSET Boxes /\ p \in {"exit", "next"}
  BY Zenon
<1> HIDE DEF ids, p
<1>a. p \in PCs /\ "shutdown" \in Sites /\ "shutdown" \in AllOps
  BY Zenon, <1>2 DEF PCs, Sites, AllOps
<1>b. X \in Request
  BY Zenon, <1>2, <1>a, IdleTyped DEF Typed, Request
<1>3. X \in Request /\ X.pc \in {"exit", "next"} /\ X.op = "shutdown"
  BY Zenon, <1>2, <1>b, IdleTyped DEF Typed, Request
<1>4. Typed(X) /\ X.pc \notin Holding
  BY Zenon, <1>3 DEF Typed, HandlerOK, NoBoxYet, Carrying, Naming, Holding
<1> HIDE DEF X
<1>5. req[r].pc \notin Holding
  BY Zenon DEF CallShutdown, At, Holding
<1> QED BY Zenon, <1>1, <1>4, <1>5, LocalUpdate DEF CallShutdown, TypeOK, store, daemon, vms
----------------------------------------------------------------------------
(* The local steps, one lemma per action. *)

\* list_boxes and shutdown_daemon go on to their next BOX.
LEMMA NextBoxStep == ASSUME TypeOK, NEW r \in Reqs, NextBox(r) PROVE TypeOK' /\ Local(r)
<1> DEFINE q == req[r]
<1>0. q \in Request /\ HandlerOK(q) /\ req[r].pc \notin Holding
  BY Zenon, HandlerFacts DEF NextBox, At, Holding
<1>1. PICK b \in q.todo :
         req' = [req EXCEPT ![r] = IF q.op = "list"
            THEN [q EXCEPT !.pc = "hydrate", !.k = "get", !.box = b, !.todo = q.todo \ {b},
                           !.seen = q.snap[b], !.snap = [q.snap EXCEPT ![b] = None]]
            ELSE [q EXCEPT !.pc = "read", !.k = "shutdown", !.box = b, !.todo = q.todo \ {b}]]
  BY Zenon DEF NextBox
<1>2. b \in Boxes
  BY Zenon, <1>0 DEF Request
<1>3. CASE q.op = "list"
  <2> DEFINE n == [q.snap EXCEPT ![b] = None]
             d == q.todo \ {b}
             X == [q EXCEPT !.pc = "hydrate", !.k = "get", !.box = b, !.todo = d,
                            !.seen = q.snap[b], !.snap = n]
  <2>1. req' = [req EXCEPT ![r] = X]
    BY Zenon, <1>1, <1>3
  <2>2. /\ n \in [Boxes -> Record \cup {None}] /\ d \in SUBSET Boxes
        /\ q.snap[b] \in Record /\ \A x \in d : n[x] \in Record
    BY Zenon, <1>0, <1>2, <1>3 DEF Request, HandlerOK
  <2> HIDE DEF n, d
  <2>3. X \in Request
    BY Zenon, <1>0, <1>2, <2>2 DEF Request, PCs, Sites
  <2>4. /\ X.pc = "hydrate" /\ X.k = "get" /\ X.box = b /\ X.todo = d
        /\ X.seen = q.snap[b] /\ X.snap = n
    BY Zenon, <1>0 DEF Request
  <2>5. Typed(X) /\ X.pc \notin Holding
    BY Zenon, <1>2, <2>2, <2>3, <2>4 DEF Typed, HandlerOK, NoBoxYet, Carrying, Naming, Holding
  <2> HIDE DEF X
  <2> QED BY Zenon, <1>0, <2>1, <2>5, LocalUpdate DEF NextBox, TypeOK, store, daemon, vms
<1>4. CASE q.op # "list"
  <2> DEFINE d == q.todo \ {b}
             X == [q EXCEPT !.pc = "read", !.k = "shutdown", !.box = b, !.todo = d]
  <2>1. req' = [req EXCEPT ![r] = X] /\ d \in SUBSET Boxes
    BY Zenon, <1>0, <1>1, <1>4 DEF Request
  <2> HIDE DEF d
  <2>a. "read" \in PCs /\ "shutdown" \in Sites
    BY Zenon DEF PCs, Sites
  <2>b. X \in Request
    BY Zenon, <1>0, <1>2, <2>1, <2>a DEF Request
  <2>2. X \in Request /\ X.pc = "read" /\ X.k = "shutdown" /\ X.box = b /\ X.op # "list"
    BY Zenon, <1>0, <1>4, <2>b DEF Request
  <2>3. Typed(X) /\ X.pc \notin Holding
    BY Zenon, <1>2, <2>2 DEF Typed, HandlerOK, NoBoxYet, Carrying, Naming, Holding
  <2> HIDE DEF X
  <2> QED BY Zenon, <1>0, <2>1, <2>3, LocalUpdate DEF NextBox, TypeOK, store, daemon, vms
<1> QED BY Zenon, <1>3, <1>4

\* BoxStore::read.
LEMMA ReadStep == ASSUME TypeOK, NEW r \in Reqs, Read(r) PROVE TypeOK' /\ Local(r)
<1> DEFINE q == req[r]
           c == rec[q.box]
           X == IF c = None THEN Idle ELSE [q EXCEPT !.pc = "hydrate", !.seen = c]
<1>0. q \in Request /\ HandlerOK(q) /\ req[r].pc \notin Holding /\ q.pc = "read"
  BY Zenon, HandlerFacts DEF Read, At, Holding
<1>1. req' = [req EXCEPT ![r] = X]
  BY Zenon DEF Read, Fail
<1>2. q.box \in Boxes /\ c \in Record \cup {None}
  BY Zenon, <1>0 DEF HandlerOK, NoBoxYet, TypeOK
<1> HIDE DEF c
<1>3. CASE c = None
  BY Zenon, <1>0, <1>1, <1>3, IdleTyped, LocalUpdate
     DEF Read, Idle, Holding, TypeOK, store, daemon, vms
<1>4. CASE c # None
  <2>1. X = [q EXCEPT !.pc = "hydrate", !.seen = c]
    BY Zenon, <1>4
  <2>2. Typed(X) /\ X.pc \notin Holding
    BY Zenon, <1>0, <1>2, <1>4, <2>1
       DEF Typed, Request, HandlerOK, PCs, NoBoxYet, Carrying, Naming, Holding
  <2> HIDE DEF X
  <2> QED BY Zenon, <1>0, <1>1, <2>2, LocalUpdate DEF Read, TypeOK, store, daemon, vms
<1> QED BY Zenon, <1>3, <1>4

\* active.remove(box_id).
LEMMA UnlinkStep == ASSUME TypeOK, NEW r \in Reqs, Unlink(r) PROVE TypeOK' /\ Local(r)
<1> DEFINE q == req[r]
           X == [q EXCEPT !.pc = "write"]
<1>0. q \in Request /\ HandlerOK(q) /\ req[r].pc \notin Holding
  BY Zenon, HandlerFacts DEF Unlink, At, Holding
<1>1. req' = [req EXCEPT ![r] = X]
  BY Zenon DEF Unlink
<1>2. Typed(X) /\ X.pc \notin Holding
  BY <1>0 DEF Unlink, At, Typed, Request, HandlerOK, PCs, Sites, NoBoxYet, Carrying, Naming, Holding
<1> HIDE DEF X
<1> QED BY Zenon, <1>0, <1>1, <1>2, LocalUpdate
           DEF Unlink, At, HandlerOK, Request, NoBoxYet, Carrying, Naming, TypeOK, store, daemon, vms

\* BoxStore::write.
LEMMA WriteStep == ASSUME TypeOK, NEW r \in Reqs, Write(r) PROVE TypeOK' /\ Local(r)
<1> DEFINE q == req[r]
<1>0. q \in Request /\ HandlerOK(q) /\ req[r].pc \notin Holding /\ q.pc = "write"
  BY Zenon, HandlerFacts DEF Write, At, Holding
<1>1. q.box \in Boxes /\ q.copy \in Record
  BY Zenon, <1>0 DEF HandlerOK, NoBoxYet, Carrying
<1>2. Typed(AfterWrite(q)) /\ AfterWrite(q).pc \notin Holding
  BY Zenon, <1>0, AfterWriteTyped
<1>3. req' = [req EXCEPT ![r] = AfterWrite(q)]
  BY Zenon DEF Write
<1> QED BY Zenon, <1>0, <1>1, <1>2, <1>3, LocalUpdate DEF Write, TypeOK, daemon, vms
\* What a handler holds when its read_box completes.
LEMMA ReadFacts ==
    ASSUME TypeOK, NEW r \in Reqs, NEW k, ReadBox(r, k)
    PROVE  /\ req[r] \in Request /\ req[r].box \in Boxes
           /\ req[r].op = "list" => \A b \in req[r].todo : req[r].snap[b] \in Record
           /\ Hydrated(r) \in Record
           /\ SandboxFor(Hydrated(r), req[r].box) \in Sandboxes \cup {None}
           /\ req[r].pc = "hydrate" /\ req[r].k = k
BY Zenon, HandlerFacts, ReadBoxFacts, SandboxForTyped

\* A handler that drops the record it read can return.
LEMMA DropSeen ==
    ASSUME NEW q \in Request, q.op = "list" => \A b \in q.todo : q.snap[b] \in Record
    PROVE  LET p == [q EXCEPT !.seen = None] IN
           /\ p \in Request /\ p.box = q.box /\ p.op = q.op
           /\ p.op = "list" => \A b \in p.todo : p.snap[b] \in Record
           /\ Typed(Returned(p)) /\ Returned(p).pc \notin Holding
<1> DEFINE p == [q EXCEPT !.seen = None]
<1>1. /\ p \in Request /\ p.box = q.box /\ p.op = q.op /\ p.todo = q.todo /\ p.snap = q.snap
  BY Zenon DEF Request
<1> HIDE DEF p
<1>2. p.op = "list" => \A b \in p.todo : p.snap[b] \in Record
  BY Zenon, <1>1
<1>3. Typed(Returned(p)) /\ Returned(p).pc \notin Holding
  BY Zenon, <1>1, <1>2, ReturnedTyped DEF Holding
<1> QED BY Zenon, <1>1, <1>2, <1>3 DEF p

\* checkpoint_fork, after the source BOX was read.
LEMMA ForkStep == ASSUME TypeOK, NEW r \in Reqs, Fork(r) PROVE TypeOK' /\ Local(r)
<1> DEFINE q == req[r]
           c == Hydrated(r)
           s == SandboxFor(c, q.box)
           X == [q EXCEPT !.pc = "prepare", !.seen = None]
<1>0. /\ q \in Request /\ q.box \in Boxes /\ c \in Record /\ s \in Sandboxes \cup {None}
      /\ q.op = "list" => \A b \in q.todo : q.snap[b] \in Record
      /\ q.pc = "hydrate" /\ q.k = "fork"
  BY Zenon, ReadFacts DEF Fork
<1>1. req' = [req EXCEPT ![r] = X]
  BY Zenon DEF Fork
<1>a. HandlerOK(q)
  BY Zenon, HandlerFacts
<1> HIDE DEF c, s
<1>2. Typed(X) /\ X.pc \notin Holding
  BY Zenon, <1>0, <1>a
     DEF Typed, Request, HandlerOK, PCs, Sites, NoBoxYet, Carrying, Naming, Holding
<1> HIDE DEF X
<1> QED BY Zenon, <1>1, <1>2, ReadUpdate DEF Fork

\* attach_runtime_usage.
LEMMA GetStep == ASSUME TypeOK, NEW r \in Reqs, Get(r) PROVE TypeOK' /\ Local(r)
<1> DEFINE q == req[r]
           c == Hydrated(r)
           s == SandboxFor(c, q.box)
           X == IF c.status # "Running" THEN Returned([q EXCEPT !.seen = None])
                ELSE IF s = None THEN SetFailed(q, c)
                ELSE [q EXCEPT !.pc = "stats", !.seen = None, !.copy = c, !.sid = s]
<1>0. /\ q \in Request /\ q.box \in Boxes /\ c \in Record /\ s \in Sandboxes \cup {None}
      /\ q.op = "list" => \A b \in q.todo : q.snap[b] \in Record
      /\ q.pc = "hydrate" /\ q.k = "get"
  BY Zenon, ReadFacts DEF Get
<1>1. req' = [req EXCEPT ![r] = X]
  BY Zenon DEF Get
<1>a. HandlerOK(q)
  BY HandlerFacts
<1> HIDE DEF c, s
<1>2. ASSUME c.status # "Running" PROVE Typed(X) /\ X.pc \notin Holding
  <2>1. X = Returned([q EXCEPT !.seen = None])
    BY Zenon, <1>2
  <2> QED BY Zenon, <1>0, <2>1, DropSeen
<1>3. ASSUME ~(c.status # "Running") /\ s = None PROVE Typed(X) /\ X.pc \notin Holding
  <2>1. X = SetFailed(q, c)
    BY Zenon, <1>3
  <2> QED BY Zenon, <1>0, <2>1, UnlinkingTyped DEF Holding
<1>4. ASSUME ~(c.status # "Running") /\ ~(s = None) PROVE Typed(X) /\ X.pc \notin Holding
  <2>1. X = [q EXCEPT !.pc = "stats", !.seen = None, !.copy = c, !.sid = s]
    BY Zenon, <1>4
  <2> QED BY Zenon, <1>0, <1>a, <2>1, <1>4
             DEF Typed, Request, HandlerOK, PCs, Sites, NoBoxYet, Carrying, Naming, Holding
<1>9. Typed(X) /\ X.pc \notin Holding
  BY Zenon, <1>2, <1>3, <1>4
<1> HIDE DEF X
<1> QED BY Zenon, <1>1, <1>9, ReadUpdate DEF Get

\* ensure_runtime.
LEMMA EnsureRuntimeStep == ASSUME TypeOK, NEW r \in Reqs, EnsureRuntime(r) PROVE TypeOK' /\ Local(r)
<1> DEFINE q == req[r]
           c == Hydrated(r)
           s == SandboxFor(c, q.box)
           X == IF c.status # "Running" THEN Idle
                ELSE IF s = None THEN SetFailed(q, c)
                ELSE [q EXCEPT !.pc = "adopt", !.seen = None, !.copy = c, !.sid = s]
<1>0. /\ q \in Request /\ q.box \in Boxes /\ c \in Record /\ s \in Sandboxes \cup {None}
      /\ q.op = "list" => \A b \in q.todo : q.snap[b] \in Record
      /\ q.pc = "hydrate" /\ q.k = "exec"
  BY Zenon, ReadFacts DEF EnsureRuntime
<1>1. req' = [req EXCEPT ![r] = X]
  BY Zenon DEF EnsureRuntime
<1>a. HandlerOK(q)
  BY HandlerFacts
<1> HIDE DEF c, s
<1>2. ASSUME c.status # "Running" PROVE Typed(X) /\ X.pc \notin Holding
  <2>1. X = Idle
    BY Zenon, <1>2
  <2> QED BY <2>1, IdleTyped DEF Idle, Holding
<1>3. ASSUME ~(c.status # "Running") /\ s = None PROVE Typed(X) /\ X.pc \notin Holding
  <2>1. X = SetFailed(q, c)
    BY Zenon, <1>3
  <2> QED BY Zenon, <1>0, <2>1, UnlinkingTyped DEF Holding
<1>4. ASSUME ~(c.status # "Running") /\ ~(s = None) PROVE Typed(X) /\ X.pc \notin Holding
  <2>1. X = [q EXCEPT !.pc = "adopt", !.seen = None, !.copy = c, !.sid = s]
    BY Zenon, <1>4
  <2> QED BY Zenon, <1>0, <1>a, <2>1, <1>4
             DEF Typed, Request, HandlerOK, PCs, Sites, NoBoxYet, Carrying, Naming, Holding
<1>9. Typed(X) /\ X.pc \notin Holding
  BY Zenon, <1>2, <1>3, <1>4
<1> HIDE DEF X
<1> QED BY Zenon, <1>1, <1>9, ReadUpdate DEF EnsureRuntime

\* start_box.
LEMMA StartStep == ASSUME TypeOK, NEW r \in Reqs, Start(r) PROVE TypeOK' /\ Local(r)
<1> DEFINE q == req[r]
           c == Hydrated(r)
           s == SandboxFor(c, q.box)
           X == IF c.status = "Running" THEN Idle
                ELSE [q EXCEPT !.pc = "create", !.seen = None, !.copy = c]
<1>0. /\ q \in Request /\ q.box \in Boxes /\ c \in Record /\ s \in Sandboxes \cup {None}
      /\ q.op = "list" => \A b \in q.todo : q.snap[b] \in Record
      /\ q.pc = "hydrate" /\ q.k = "start"
  BY Zenon, ReadFacts DEF Start
<1>1. req' = [req EXCEPT ![r] = X]
  BY Zenon DEF Start
<1>a. HandlerOK(q)
  BY HandlerFacts
<1> HIDE DEF c, s
<1>2. ASSUME c.status = "Running" PROVE Typed(X) /\ X.pc \notin Holding
  <2>1. X = Idle
    BY Zenon, <1>2
  <2> QED BY Zenon, <2>1, IdleTyped DEF Idle, Holding
<1>3. ASSUME ~(c.status = "Running") PROVE Typed(X) /\ X.pc \notin Holding
  <2>1. X = [q EXCEPT !.pc = "create", !.seen = None, !.copy = c]
    BY Zenon, <1>3
  <2> QED BY ZenonT(60), <1>0, <1>a, <2>1
             DEF Typed, Request, HandlerOK, PCs, Sites, NoBoxYet, Carrying, Naming, Holding
<1>9. Typed(X) /\ X.pc \notin Holding
  BY Zenon, <1>2, <1>3
<1> HIDE DEF X
<1> QED BY Zenon, <1>1, <1>9, ReadUpdate DEF Start

\* stop_box.
LEMMA StopStep == ASSUME TypeOK, NEW r \in Reqs, Stop(r) PROVE TypeOK' /\ Local(r)
<1> DEFINE q == req[r]
           c == Hydrated(r)
           s == SandboxFor(c, q.box)
           X == IF c.status # "Running" THEN Idle
                ELSE [q EXCEPT !.pc = "read", !.k = "running", !.seen = None, !.copy = c]
<1>0. /\ q \in Request /\ q.box \in Boxes /\ c \in Record /\ s \in Sandboxes \cup {None}
      /\ q.op = "list" => \A b \in q.todo : q.snap[b] \in Record
      /\ q.pc = "hydrate" /\ q.k = "stop"
  BY Zenon, ReadFacts DEF Stop
<1>1. req' = [req EXCEPT ![r] = X]
  BY Zenon DEF Stop
<1>a. HandlerOK(q)
  BY HandlerFacts
<1> HIDE DEF c, s
<1>2. ASSUME c.status # "Running" PROVE Typed(X) /\ X.pc \notin Holding
  <2>1. X = Idle
    BY Zenon, <1>2
  <2> QED BY Zenon, <2>1, IdleTyped DEF Idle, Holding
<1>3. ASSUME ~(c.status # "Running") PROVE Typed(X) /\ X.pc \notin Holding
  <2>1. X = [q EXCEPT !.pc = "read", !.k = "running", !.seen = None, !.copy = c]
    BY Zenon, <1>3
  <2> QED BY ZenonT(60), <1>0, <1>a, <2>1
             DEF Typed, Request, HandlerOK, PCs, Sites, NoBoxYet, Carrying, Naming, Holding
<1>9. Typed(X) /\ X.pc \notin Holding
  BY Zenon, <1>2, <1>3
<1> HIDE DEF X
<1> QED BY Zenon, <1>1, <1>9, ReadUpdate DEF Stop
\* running_sandbox_id.
LEMMA RunningSandboxIdStep == ASSUME TypeOK, NEW r \in Reqs, RunningSandboxId(r) PROVE TypeOK' /\ Local(r)
<1> DEFINE q == req[r]
           c == Hydrated(r)
           s == SandboxFor(c, q.box)
           X == IF c.status # "Running" THEN Idle
                ELSE IF s = None THEN SetFailed(q, c)
                ELSE [q EXCEPT !.pc = "adopt", !.k = "stop", !.seen = None, !.sid = s]
<1>0. /\ q \in Request /\ q.box \in Boxes /\ c \in Record /\ s \in Sandboxes \cup {None}
      /\ q.op = "list" => \A b \in q.todo : q.snap[b] \in Record
      /\ q.pc = "hydrate" /\ q.k = "running"
  BY Zenon, ReadFacts DEF RunningSandboxId
<1>1. req' = [req EXCEPT ![r] = X]
  BY Zenon DEF RunningSandboxId
<1>a. HandlerOK(q)
  BY HandlerFacts
<1> HIDE DEF c, s
<1>2. ASSUME c.status # "Running" PROVE Typed(X) /\ X.pc \notin Holding
  <2>1. X = Idle
    BY Zenon, <1>2
  <2> QED BY <2>1, IdleTyped DEF Idle, Holding
<1>3. ASSUME ~(c.status # "Running") /\ s = None PROVE Typed(X) /\ X.pc \notin Holding
  <2>1. X = SetFailed(q, c)
    BY Zenon, <1>3
  <2> QED BY Zenon, <1>0, <2>1, UnlinkingTyped DEF Holding
<1>4. ASSUME ~(c.status # "Running") /\ ~(s = None) PROVE Typed(X) /\ X.pc \notin Holding
  <2>1. X = [q EXCEPT !.pc = "adopt", !.k = "stop", !.seen = None, !.sid = s]
    BY Zenon, <1>4
  <2> QED BY Zenon, <1>0, <1>a, <2>1, <1>4
             DEF Typed, Request, HandlerOK, PCs, Sites, NoBoxYet, Carrying, Naming, Holding
<1>9. Typed(X) /\ X.pc \notin Holding
  BY Zenon, <1>2, <1>3, <1>4
<1> HIDE DEF X
<1> QED BY Zenon, <1>1, <1>9, ReadUpdate DEF RunningSandboxId

\* checkpoint_restore.
LEMMA RestoreStep == ASSUME TypeOK, NEW r \in Reqs, Restore(r) PROVE TypeOK' /\ Local(r)
<1> DEFINE q == req[r]
           c == Hydrated(r)
           s == SandboxFor(c, q.box)
           X == IF c.status = "Running" THEN [q EXCEPT !.pc = "read", !.k = "stop", !.seen = None, !.again = TRUE]
                ELSE [q EXCEPT !.pc = "restore", !.seen = None]
<1>0. /\ q \in Request /\ q.box \in Boxes /\ c \in Record /\ s \in Sandboxes \cup {None}
      /\ q.op = "list" => \A b \in q.todo : q.snap[b] \in Record
      /\ q.pc = "hydrate" /\ q.k = "restore"
  BY Zenon, ReadFacts DEF Restore
<1>1. req' = [req EXCEPT ![r] = X]
  BY Zenon DEF Restore
<1>a. HandlerOK(q)
  BY HandlerFacts
<1> HIDE DEF c, s
<1>2. ASSUME c.status = "Running" PROVE Typed(X) /\ X.pc \notin Holding
  <2>1. X = [q EXCEPT !.pc = "read", !.k = "stop", !.seen = None, !.again = TRUE]
    BY Zenon, <1>2
  <2> QED BY ZenonT(60), <1>0, <1>a, <2>1
             DEF Typed, Request, HandlerOK, PCs, Sites, NoBoxYet, Carrying, Naming, Holding
<1>3. ASSUME ~(c.status = "Running") PROVE Typed(X) /\ X.pc \notin Holding
  <2>1. X = [q EXCEPT !.pc = "restore", !.seen = None]
    BY Zenon, <1>3
  <2> QED BY ZenonT(60), <1>0, <1>a, <2>1
             DEF Typed, Request, HandlerOK, PCs, Sites, NoBoxYet, Carrying, Naming, Holding
<1>9. Typed(X) /\ X.pc \notin Holding
  BY Zenon, <1>2, <1>3
<1> HIDE DEF X
<1> QED BY Zenon, <1>1, <1>9, ReadUpdate DEF Restore

\* set_box_setting.
LEMMA SetSettingStep == ASSUME TypeOK, NEW r \in Reqs, SetSetting(r) PROVE TypeOK' /\ Local(r)
<1> DEFINE q == req[r]
           c == Hydrated(r)
           s == SandboxFor(c, q.box)
           p == IF q.arg = c.fs THEN "write" ELSE "resize"
           n == [c EXCEPT !.fs = q.arg]
           X == IF c.status = "Running" THEN Idle
                ELSE [q EXCEPT !.pc = p, !.seen = None, !.copy = n]
<1>0. /\ q \in Request /\ q.box \in Boxes /\ c \in Record /\ s \in Sandboxes \cup {None}
      /\ q.op = "list" => \A b \in q.todo : q.snap[b] \in Record
      /\ q.pc = "hydrate" /\ q.k = "set"
  BY Zenon, ReadFacts DEF SetSetting
<1>1. req' = [req EXCEPT ![r] = X]
  BY Zenon DEF SetSetting
<1>a. HandlerOK(q)
  BY HandlerFacts
<1>b. n \in Record /\ n.status = c.status /\ p \in {"write", "resize"}
  BY Zenon, <1>0 DEF Record, Request
<1> HIDE DEF c, s, n, p
<1>2. ASSUME c.status = "Running" PROVE Typed(X) /\ X.pc \notin Holding
  <2>1. X = Idle
    BY Zenon, <1>2
  <2> QED BY Zenon, <2>1, IdleTyped DEF Idle, Holding
<1>3. ASSUME ~(c.status = "Running") PROVE Typed(X) /\ X.pc \notin Holding
  <2>1. X = [q EXCEPT !.pc = p, !.seen = None, !.copy = n]
    BY Zenon, <1>3
  <2> QED BY Zenon, <1>0, <1>a, <1>b, <1>3, <2>1
             DEF Typed, Request, HandlerOK, PCs, Sites, NoBoxYet, Carrying, Naming, Holding
<1>9. Typed(X) /\ X.pc \notin Holding
  BY Zenon, <1>2, <1>3
<1> HIDE DEF X
<1> QED BY Zenon, <1>1, <1>9, ReadUpdate DEF SetSetting

\* remove_box.
LEMMA RemoveStep == ASSUME TypeOK, NEW r \in Reqs, Remove(r) PROVE TypeOK' /\ Local(r)
<1> DEFINE q == req[r]
           c == Hydrated(r)
           n == [c EXCEPT !.status = "Removing", !.sid = None]
           X == IF c.status = "Running" /\ q.k = "remove"
                THEN [q EXCEPT !.pc = "read", !.k = "stop", !.seen = None]
                ELSE [q EXCEPT !.pc = "write", !.seen = None, !.copy = n]
<1>1. PICK k \in {"remove", "remove2"} : ReadBox(r, k)
  BY Zenon DEF Remove
<1>0. /\ q \in Request /\ q.box \in Boxes /\ c \in Record
      /\ q.op = "list" => \A b \in q.todo : q.snap[b] \in Record
      /\ q.k = k
  BY Zenon, <1>1, ReadFacts
<1>2. req' = [req EXCEPT ![r] = X]
  BY Zenon DEF Remove
<1>3. n \in Record
  BY Zenon, <1>0 DEF Record, Statuses
<1> HIDE DEF c, n
<1>4. ASSUME c.status = "Running" /\ q.k = "remove" PROVE Typed(X) /\ X.pc \notin Holding
  <2>1. X = [q EXCEPT !.pc = "read", !.k = "stop", !.seen = None]
    BY Zenon, <1>4
  <2> QED BY ZenonT(60), <1>0, <2>1
             DEF Typed, Request, HandlerOK, PCs, Sites, NoBoxYet, Carrying, Naming, Holding
<1>5. ASSUME ~(c.status = "Running" /\ q.k = "remove") PROVE Typed(X) /\ X.pc \notin Holding
  <2>1. X = [q EXCEPT !.pc = "write", !.seen = None, !.copy = n]
    BY Zenon, <1>5
  <2> QED BY ZenonT(60), <1>0, <1>3, <2>1
             DEF Typed, Request, HandlerOK, PCs, Sites, NoBoxYet, Carrying, Naming, Holding
<1> HIDE DEF X
<1> QED BY Zenon, <1>1, <1>2, <1>4, <1>5, ReadUpdate DEF Remove

\* A read whose record is only returned.
LEMMA TailStep == ASSUME TypeOK, NEW r \in Reqs, Tail(r) PROVE TypeOK' /\ Local(r)
<1> DEFINE q == req[r]
<1>1. CASE ReadBox(r, "tail") /\ Return(r) /\ UNCHANGED daemon
  <2>1. Typed(Returned(q)) /\ Returned(q).pc \notin Holding
    BY Zenon, <1>1, ReadFacts, ReturnedTyped DEF Holding
  <2> QED BY Zenon, <1>1, <2>1, ReadUpdate DEF Return
<1>2. CASE /\ ReadBox(r, "tail_stop")
           /\ req' = [req EXCEPT ![r] = Stopped([@ EXCEPT !.seen = None, !.sid = None])]
           /\ UNCHANGED daemon
  <2> DEFINE p == [q EXCEPT !.seen = None, !.sid = None]
  <2>1. /\ q \in Request /\ q.box \in Boxes
        /\ q.op = "list" => \A b \in q.todo : q.snap[b] \in Record
    BY Zenon, <1>2, ReadFacts
  <2>2. p \in Request /\ p.box = q.box /\ p.op = q.op /\ p.todo = q.todo /\ p.snap = q.snap
    BY Zenon, <2>1 DEF Request
  <2>3. req' = [req EXCEPT ![r] = Stopped(p)]
    BY Zenon, <1>2
  <2> HIDE DEF p
  <2>4. Typed(Stopped(p)) /\ Stopped(p).pc \notin Holding
    BY Zenon, <2>1, <2>2, StoppedTyped DEF Holding
  <2> QED BY Zenon, <1>2, <2>3, <2>4, ReadUpdate
<1> QED BY Zenon, <1>1, <1>2 DEF Tail

\* stop_box_for_shutdown.
LEMMA StopForShutdownStep == ASSUME TypeOK, NEW r \in Reqs, StopForShutdown(r) PROVE TypeOK' /\ Local(r)
<1> DEFINE p == req[r]
           q == [p EXCEPT !.seen = None]
           c == Hydrated(r)
           s == SandboxFor(c, p.box)
<1>0. /\ p \in Request /\ p.box \in Boxes /\ c \in Record /\ s \in Sandboxes \cup {None}
      /\ p.op = "list" => \A b \in p.todo : p.snap[b] \in Record
      /\ p.pc = "hydrate" /\ p.k = "shutdown"
  BY Zenon, ReadFacts DEF StopForShutdown
<1>1. /\ q \in Request /\ q.box = p.box /\ q.op = p.op
      /\ q.op = "list" => \A b \in q.todo : q.snap[b] \in Record
      /\ Typed(Returned(q)) /\ Returned(q).pc \notin Holding
  BY Zenon, <1>0, DropSeen
<1>2. /\ rec' \in [Boxes -> Record \cup {None}]
      /\ UNCHANGED <<born, disk, boxOf, vm, hung, orphans, live, history>>
  BY Zenon, ReadBoxFacts DEF StopForShutdown
<1>3. CASE c.status # "Running"
  <2>1. req' = [req EXCEPT ![r] = Returned(q)] /\ active' = [active EXCEPT ![p.box] = None]
    BY Zenon, <1>3 DEF StopForShutdown
  <2> HIDE DEF q
  <2> QED BY Zenon, <1>0, <1>1, <1>2, <2>1, LocalUpdate DEF TypeOK, Holding
<1>4. CASE c.status = "Running"
  <2> DEFINE X == IF s = None THEN MarkStopped(q, c)
                  ELSE [q EXCEPT !.pc = "adopt", !.copy = c, !.sid = s]
  <2>1. req' = [req EXCEPT ![r] = X] /\ active' = active
    BY Zenon, <1>4 DEF StopForShutdown
  <2> HIDE DEF q, c, s
  <2>2. ASSUME s = None PROVE Typed(X) /\ X.pc \notin Holding
    BY Zenon, <1>0, <1>1, <2>2, UnlinkingTyped DEF Holding
  <2>3. ASSUME s # None PROVE Typed(X) /\ X.pc \notin Holding
    <3>1. X = [q EXCEPT !.pc = "adopt", !.copy = c, !.sid = s]
      BY Zenon, <2>3
    <3>2. X \in Request
      BY Zenon, <1>0, <1>1, <2>3, <3>1 DEF Request, PCs
    <3>3. /\ X.pc = "adopt" /\ X.copy = c /\ X.sid = s /\ X.box = q.box
          /\ X.op = q.op /\ X.todo = q.todo /\ X.snap = q.snap
      BY Zenon, <1>1, <3>1 DEF Request
    <3> QED BY Zenon, <1>0, <1>1, <2>3, <3>2, <3>3
            DEF Typed, HandlerOK, NoBoxYet, Carrying, Naming, Holding
  <2> HIDE DEF X
  <2> QED BY Zenon, <1>0, <1>2, <2>1, <2>2, <2>3, LocalUpdate DEF TypeOK, Holding
<1> QED BY Zenon, <1>3, <1>4
\* create_box_record prepares a workspace for a fresh id.
LEMMA PrepareRecordStep == ASSUME TypeOK, NEW r \in Reqs, PrepareRecord(r) PROVE TypeOK' /\ Local(r)
<1> DEFINE q == req[r]
<1>0. q \in Request /\ HandlerOK(q) /\ q.pc = "prepare" /\ req[r].pc \notin Holding
  BY Zenon, HandlerFacts DEF PrepareRecord, At, Holding
<1>1. /\ q.op = "list" => \A b \in q.todo : q.snap[b] \in Record
  BY Zenon, <1>0 DEF HandlerOK, NoBoxYet, Carrying, Naming
<1> DEFINE n == [status |-> "Created", sid |-> None, fs |-> DefaultSize]
<1>2. PICK b \in Boxes \ born :
         /\ born' = born \cup {b}
         /\ disk' = [disk EXCEPT ![b] = DefaultSize]
         /\ req' = [req EXCEPT ![r] = [Idle EXCEPT !.pc = "write", !.op = q.op, !.k = q.k,
                                       !.box = b, !.copy = n]]
  BY Zenon DEF PrepareRecord
<1> DEFINE X == [Idle EXCEPT !.pc = "write", !.op = q.op, !.k = q.k, !.box = b, !.copy = n]
<1>3. req' = [req EXCEPT ![r] = X]
  BY Zenon, <1>2
<1>4. n \in Record /\ n.status = "Created"
  BY Zenon DEF Record, Statuses
<1> HIDE DEF n
<1>5. Typed(X) /\ X.pc \notin Holding
  <2>1. X \in Request /\ X.todo = {} /\ X.pc = "write" /\ X.box = b /\ X.copy = n
    BY ZenonT(60), <1>0, <1>4 DEF Idle, Request, PCs, Sites, AllOps
  <2> HIDE DEF X
  <2> QED BY Zenon, <1>4, <2>1 DEF Typed, HandlerOK, NoBoxYet, Carrying, Naming, Holding
<1> HIDE DEF X
<1>6. born' \subseteq Boxes /\ disk' \in [Boxes -> Sizes \cup {0}]
  BY Zenon, <1>2 DEF TypeOK
<1> QED BY Zenon, <1>0, <1>3, <1>5, <1>6, LocalUpdate DEF PrepareRecord, TypeOK, daemon, vms

LEMMA PrepareRecordFailsStep == ASSUME TypeOK, NEW r \in Reqs, PrepareRecordFails(r) PROVE TypeOK' /\ Local(r)
<1> DEFINE q == req[r]
<1>0. q \in Request /\ HandlerOK(q) /\ q.pc = "prepare" /\ req[r].pc \notin Holding
  BY Zenon, HandlerFacts DEF PrepareRecordFails, At, Holding
<1>1. /\ q.op = "list" => \A b \in q.todo : q.snap[b] \in Record
  BY <1>0 DEF HandlerOK, NoBoxYet, Carrying, Naming
<1> DEFINE X == Idle
<1>2. req' = [req EXCEPT ![r] = X]
  BY Zenon DEF PrepareRecordFails, Fail, Return
<1>3. Typed(X) /\ X.pc \notin Holding
  BY Zenon, IdleTyped DEF Idle, Holding
<1> HIDE DEF X
<1> QED BY Zenon, <1>0, <1>1, <1>2, <1>3, LocalUpdate
           DEF PrepareRecordFails, TypeOK, store, daemon, vms

\* fork_workspace.
LEMMA ForkWorkspaceStep == ASSUME TypeOK, NEW r \in Reqs, ForkWorkspace(r) PROVE TypeOK' /\ Local(r)
<1> DEFINE q == req[r]
<1>0. q \in Request /\ HandlerOK(q) /\ q.pc = "forkcopy" /\ req[r].pc \notin Holding
  BY Zenon, HandlerFacts DEF ForkWorkspace, At, Holding
<1>1. /\ q.op = "list" => \A b \in q.todo : q.snap[b] \in Record
      /\ q.box \in Boxes
  BY Zenon, <1>0 DEF HandlerOK, NoBoxYet, Carrying, Naming
<1> DEFINE X == Returned(q)
<1>2. req' = [req EXCEPT ![r] = X]
  BY Zenon DEF ForkWorkspace, Fail, Return
<1>3. Typed(X) /\ X.pc \notin Holding
  BY Zenon, <1>0, <1>1, ReturnedTyped DEF Holding
<1> HIDE DEF X
<1>4. disk' \in [Boxes -> Sizes \cup {0}]
  BY Zenon, <1>1 DEF ForkWorkspace, TypeOK
<1> QED BY Zenon, <1>0, <1>2, <1>3, <1>4, LocalUpdate DEF ForkWorkspace, TypeOK, daemon, vms

\* runtime_stats answers.
LEMMA StatsOkStep == ASSUME TypeOK, NEW r \in Reqs, StatsOk(r) PROVE TypeOK' /\ Local(r)
<1> DEFINE q == req[r]
<1>0. q \in Request /\ HandlerOK(q) /\ q.pc = "stats" /\ req[r].pc \notin Holding
  BY Zenon, HandlerFacts DEF StatsOk, At, Holding
<1>1. /\ q.op = "list" => \A b \in q.todo : q.snap[b] \in Record
  BY Zenon, <1>0 DEF HandlerOK, NoBoxYet, Carrying, Naming
<1> DEFINE X == Returned(q)
<1>2. req' = [req EXCEPT ![r] = X]
  BY Zenon DEF StatsOk, Fail, Return
<1>3. Typed(X) /\ X.pc \notin Holding
  BY Zenon, <1>0, <1>1, ReturnedTyped DEF Holding
<1> HIDE DEF X
<1> QED BY Zenon, <1>0, <1>1, <1>2, <1>3, LocalUpdate DEF StatsOk, TypeOK, store, daemon, vms

\* runtime_stats fails.
LEMMA StatsErrStep == ASSUME TypeOK, NEW r \in Reqs, StatsErr(r) PROVE TypeOK' /\ Local(r)
<1> DEFINE q == req[r]
<1>0. q \in Request /\ HandlerOK(q) /\ q.pc = "stats" /\ req[r].pc \notin Holding
  BY Zenon, HandlerFacts DEF StatsErr, At, Holding
<1>1. /\ q.op = "list" => \A b \in q.todo : q.snap[b] \in Record
      /\ q.box \in Boxes
      /\ q.copy \in Record
  BY Zenon, <1>0 DEF HandlerOK, NoBoxYet, Carrying, Naming
<1> DEFINE X == SetFailed(q, q.copy)
<1>2. req' = [req EXCEPT ![r] = X]
  BY Zenon DEF StatsErr, Fail, Return
<1>3. Typed(X) /\ X.pc \notin Holding
  BY Zenon, <1>0, <1>1, UnlinkingTyped DEF Holding
<1> HIDE DEF X
<1> QED BY Zenon, <1>0, <1>1, <1>2, <1>3, LocalUpdate DEF StatsErr, TypeOK, store, daemon, vms

\* launch fails.
LEMMA LaunchFailsStep == ASSUME TypeOK, NEW r \in Reqs, LaunchFails(r) PROVE TypeOK' /\ Local(r)
<1> DEFINE q == req[r]
<1>0. q \in Request /\ HandlerOK(q) /\ q.pc = "launch" /\ req[r].pc \notin Holding
  BY Zenon, HandlerFacts DEF LaunchFails, At, Holding
<1>1. /\ q.op = "list" => \A b \in q.todo : q.snap[b] \in Record
      /\ q.box \in Boxes
      /\ q.copy \in Record
  BY Zenon, <1>0 DEF HandlerOK, NoBoxYet, Carrying, Naming
<1> DEFINE X == SetFailed(q, q.copy)
<1>2. req' = [req EXCEPT ![r] = X]
  BY Zenon DEF LaunchFails, Fail, Return
<1>3. Typed(X) /\ X.pc \notin Holding
  BY Zenon, <1>0, <1>1, UnlinkingTyped DEF Holding
<1> HIDE DEF X
<1> QED BY Zenon, <1>0, <1>1, <1>2, <1>3, LocalUpdate DEF LaunchFails, TypeOK, store, daemon, vms

\* active.insert(box_id, sandbox_id).
LEMMA AdoptStep == ASSUME TypeOK, NEW r \in Reqs, Adopt(r) PROVE TypeOK' /\ Local(r)
<1> DEFINE q == req[r]
<1>0. q \in Request /\ HandlerOK(q) /\ q.pc = "adopt" /\ req[r].pc \notin Holding
  BY Zenon, HandlerFacts DEF Adopt, At, Holding
<1>1. /\ q.op = "list" => \A b \in q.todo : q.snap[b] \in Record
      /\ q.box \in Boxes
      /\ q.copy \in Record
      /\ q.sid \in Sandboxes
  BY Zenon, <1>0 DEF HandlerOK, NoBoxYet, Carrying, Naming
<1> DEFINE p == IF q.k = "exec" THEN "stats" ELSE "destroy"
           X == [q EXCEPT !.pc = p]
<1>2. req' = [req EXCEPT ![r] = X] /\ p \in {"stats", "destroy"}
  BY Zenon DEF Adopt
<1> HIDE DEF p
<1>3. Typed(X) /\ X.pc \notin Holding
  BY Zenon, <1>0, <1>1, <1>2
     DEF Typed, Request, HandlerOK, PCs, Sites, NoBoxYet, Carrying, Naming, Holding
<1> HIDE DEF X
<1> QED BY Zenon, <1>0, <1>1, <1>2, <1>3, LocalUpdate DEF Adopt, TypeOK, store, daemon, vms

\* remove_box forgets the BOX's active entry.
LEMMA ForgetStep == ASSUME TypeOK, NEW r \in Reqs, Forget(r) PROVE TypeOK' /\ Local(r)
<1> DEFINE q == req[r]
<1>0. q \in Request /\ HandlerOK(q) /\ q.pc = "forget" /\ req[r].pc \notin Holding
  BY Zenon, HandlerFacts DEF Forget, At, Holding
<1>1. /\ q.op = "list" => \A b \in q.todo : q.snap[b] \in Record
      /\ q.box \in Boxes
  BY Zenon, <1>0 DEF HandlerOK, NoBoxYet, Carrying, Naming
<1> DEFINE X == [q EXCEPT !.pc = "rmrec"]
<1>2. req' = [req EXCEPT ![r] = X]
  BY Zenon DEF Forget, Fail, Return
<1>3. Typed(X) /\ X.pc \notin Holding
  BY <1>0, <1>1 DEF Typed, Request, HandlerOK, PCs, Sites, NoBoxYet, Carrying, Naming, Holding
<1> HIDE DEF X
<1> QED BY Zenon, <1>0, <1>1, <1>2, <1>3, LocalUpdate DEF Forget, TypeOK, store, daemon, vms

\* BoxStore::remove.
LEMMA RemoveRecordStep == ASSUME TypeOK, NEW r \in Reqs, RemoveRecord(r) PROVE TypeOK' /\ Local(r)
<1> DEFINE q == req[r]
<1>0. q \in Request /\ HandlerOK(q) /\ q.pc = "rmrec" /\ req[r].pc \notin Holding
  BY Zenon, HandlerFacts DEF RemoveRecord, At, Holding
<1>1. /\ q.op = "list" => \A b \in q.todo : q.snap[b] \in Record
      /\ q.box \in Boxes
  BY Zenon, <1>0 DEF HandlerOK, NoBoxYet, Carrying, Naming
<1> DEFINE X == Returned(q)
<1>2. req' = [req EXCEPT ![r] = X]
  BY Zenon DEF RemoveRecord, Fail, Return
<1>3. Typed(X) /\ X.pc \notin Holding
  BY Zenon, <1>0, <1>1, ReturnedTyped DEF Holding
<1> HIDE DEF X
<1> QED BY Zenon, <1>0, <1>1, <1>2, <1>3, LocalUpdate DEF RemoveRecord, TypeOK, store, daemon, vms

\* start_box publishes the sandbox.
LEMMA PublishStep == ASSUME TypeOK, NEW r \in Reqs, Publish(r) PROVE TypeOK' /\ Local(r)
<1> DEFINE q == req[r]
<1>0. q \in Request /\ HandlerOK(q) /\ q.pc = "publish" /\ req[r].pc \notin Holding
  BY Zenon, HandlerFacts DEF Publish, At, Holding
<1>1. /\ q.op = "list" => \A b \in q.todo : q.snap[b] \in Record
      /\ q.box \in Boxes
      /\ q.copy \in Record
      /\ q.sid \in Sandboxes
  BY Zenon, <1>0 DEF HandlerOK, NoBoxYet, Carrying, Naming
<1> DEFINE n == [q.copy EXCEPT !.status = "Running", !.sid = q.sid]
           X == [q EXCEPT !.pc = "write", !.copy = n]
<1>2. req' = [req EXCEPT ![r] = X]
  BY Zenon DEF Publish, Fail, Return
<1>a. n \in Record
  BY Zenon, <1>1 DEF Record, Statuses
<1> HIDE DEF n
<1>3. Typed(X) /\ X.pc \notin Holding
  BY ZenonT(60), <1>0, <1>1, <1>a
     DEF Typed, Request, HandlerOK, PCs, Sites, NoBoxYet, Carrying, Naming, Holding
<1> HIDE DEF X
<1> QED BY Zenon, <1>0, <1>1, <1>2, <1>3, LocalUpdate DEF Publish, TypeOK, store, daemon, vms

\* resize_workspace.
LEMMA ResizeWorkspaceStep == ASSUME TypeOK, NEW r \in Reqs, ResizeWorkspace(r) PROVE TypeOK' /\ Local(r)
<1> DEFINE q == req[r]
<1>0. q \in Request /\ HandlerOK(q) /\ q.pc = "resize" /\ req[r].pc \notin Holding
  BY Zenon, HandlerFacts DEF ResizeWorkspace, At, Holding
<1>1. /\ q.op = "list" => \A b \in q.todo : q.snap[b] \in Record
      /\ q.box \in Boxes
      /\ q.copy \in Record
  BY Zenon, <1>0 DEF HandlerOK, NoBoxYet, Carrying, Naming
<1>2. disk' \in [Boxes -> Sizes \cup {0}]
  BY <1>0, <1>1 DEF ResizeWorkspace, TypeOK, Request
<1>3. CASE req' = [req EXCEPT ![r].pc = "write"]
  <2> DEFINE X == [q EXCEPT !.pc = "write"]
  <2>1. req' = [req EXCEPT ![r] = X]
    BY Zenon, <1>3
  <2>2. X \in Request /\ X.pc = "write" /\ X.copy = q.copy /\ X.box = q.box
    BY Zenon, <1>0 DEF Request, PCs
  <2>3. q.copy.status # "Running"
    BY Zenon, <1>0 DEF HandlerOK
  <2>4. Typed(X) /\ X.pc \notin Holding
    BY Zenon, <1>0, <1>1, <2>2, <2>3
       DEF Typed, Request, HandlerOK, NoBoxYet, Carrying, Naming, Holding
  <2> HIDE DEF X
  <2> QED BY Zenon, <1>0, <1>2, <2>1, <2>4, LocalUpdate DEF ResizeWorkspace, TypeOK, daemon, vms
<1>4. CASE Fail(r)
  BY Zenon, <1>0, <1>2, <1>4, IdleTyped, LocalUpdate
     DEF Fail, Idle, Holding, ResizeWorkspace, TypeOK, daemon, vms
<1> QED BY Zenon, <1>3, <1>4 DEF ResizeWorkspace

\* The check of has_active_workspace.
LEMMA CheckWorkspaceStep == ASSUME TypeOK, NEW r \in Reqs, CheckWorkspace(r) PROVE TypeOK' /\ Local(r)
<1> DEFINE q == req[r]
<1>0. q \in Request /\ HandlerOK(q) /\ q.pc = "create" /\ req[r].pc \notin Holding
  BY Zenon, HandlerFacts DEF CheckWorkspace, At, Holding
<1>1. /\ q.op = "list" => \A b \in q.todo : q.snap[b] \in Record
      /\ q.box \in Boxes
      /\ q.copy \in Record
  BY Zenon, <1>0 DEF HandlerOK, NoBoxYet, Carrying, Naming
<1>2. disk' \in [Boxes -> Sizes \cup {0}]
  BY <1>0, <1>1 DEF CheckWorkspace, TypeOK
<1>3. CASE req' = [req EXCEPT ![r].pc = "launch"]
  <2> DEFINE X == [q EXCEPT !.pc = "launch"]
  <2>1. req' = [req EXCEPT ![r] = X]
    BY Zenon, <1>3
  <2>2. Typed(X) /\ X.pc \notin Holding
    BY <1>0, <1>1 DEF Typed, Request, HandlerOK, PCs, Sites, NoBoxYet, Carrying, Naming, Holding
  <2> HIDE DEF X
  <2> QED BY Zenon, <1>0, <1>2, <2>1, <2>2, LocalUpdate DEF CheckWorkspace, TypeOK, daemon, vms
<1>4. CASE req' = [req EXCEPT ![r] = SetFailed(q, q.copy)]
  BY Zenon, <1>0, <1>1, <1>2, <1>4, UnlinkingTyped, LocalUpdate
     DEF Holding, CheckWorkspace, TypeOK, daemon, vms
<1> QED BY Zenon, <1>3, <1>4 DEF CheckWorkspace

\* remove_workspace.
LEMMA RemoveWorkspaceStep == ASSUME TypeOK, NEW r \in Reqs, RemoveWorkspace(r) PROVE TypeOK' /\ Local(r)
<1> DEFINE q == req[r]
<1>0. q \in Request /\ HandlerOK(q) /\ q.pc = "rmdisk" /\ req[r].pc \notin Holding
  BY Zenon, HandlerFacts DEF RemoveWorkspace, At, Holding
<1>1. /\ q.op = "list" => \A b \in q.todo : q.snap[b] \in Record
      /\ q.box \in Boxes
  BY Zenon, <1>0 DEF HandlerOK, NoBoxYet, Carrying, Naming
<1>2. disk' \in [Boxes -> Sizes \cup {0}]
  BY Zenon, <1>0, <1>1 DEF RemoveWorkspace, TypeOK
<1>3. CASE req' = [req EXCEPT ![r].pc = "forget"]
  <2> DEFINE X == [q EXCEPT !.pc = "forget"]
  <2>1. req' = [req EXCEPT ![r] = X]
    BY Zenon, <1>3
  <2>2. Typed(X) /\ X.pc \notin Holding
    BY <1>0, <1>1 DEF Typed, Request, HandlerOK, PCs, Sites, NoBoxYet, Carrying, Naming, Holding
  <2> HIDE DEF X
  <2> QED BY Zenon, <1>0, <1>2, <2>1, <2>2, LocalUpdate DEF RemoveWorkspace, TypeOK, daemon, vms
<1>4. CASE Fail(r)
  BY Zenon, <1>0, <1>2, <1>4, IdleTyped, LocalUpdate
     DEF Fail, Idle, Holding, RemoveWorkspace, TypeOK, daemon, vms
<1> QED BY Zenon, <1>3, <1>4 DEF RemoveWorkspace

\* restore_checkpoint.
LEMMA RestoreCheckpointStep == ASSUME TypeOK, NEW r \in Reqs, RestoreCheckpoint(r) PROVE TypeOK' /\ Local(r)
<1> DEFINE q == req[r]
<1>0. q \in Request /\ HandlerOK(q) /\ q.pc = "restore" /\ req[r].pc \notin Holding
  BY Zenon, HandlerFacts DEF RestoreCheckpoint, At, Holding
<1>1. /\ q.op = "list" => \A b \in q.todo : q.snap[b] \in Record
      /\ q.box \in Boxes
  BY Zenon, <1>0 DEF HandlerOK, NoBoxYet, Carrying, Naming
<1>2. disk' \in [Boxes -> Sizes \cup {0}]
  BY <1>0, <1>1 DEF RestoreCheckpoint, TypeOK
<1>3. CASE req' = [req EXCEPT ![r] = IF q.again THEN [q EXCEPT !.pc = "read", !.k = "start"]
                                     ELSE Returned(q)]
  <2> DEFINE X == IF q.again THEN [q EXCEPT !.pc = "read", !.k = "start"] ELSE Returned(q)
  <2>1. ASSUME q.again PROVE Typed(X) /\ X.pc \notin Holding
    <3>1. X = [q EXCEPT !.pc = "read", !.k = "start"]
      BY Zenon, <2>1
    <3>2. X \in Request
      BY ZenonT(60), <1>0, <3>1 DEF Request, PCs, Sites
    <3>3. /\ X.pc = "read" /\ X.k = "start" /\ X.box = q.box
          /\ X.op = q.op /\ X.todo = q.todo /\ X.snap = q.snap
      BY Zenon, <1>0, <3>1 DEF Request
    <3> QED BY Zenon, <1>1, <3>2, <3>3 DEF Typed, HandlerOK, NoBoxYet, Carrying, Naming, Holding
  <2>2. ASSUME ~q.again PROVE Typed(X) /\ X.pc \notin Holding
    BY Zenon, <1>0, <1>1, <2>2, ReturnedTyped DEF Holding
  <2>3. req' = [req EXCEPT ![r] = X]
    BY Zenon, <1>3
  <2> HIDE DEF X
  <2> QED BY Zenon, <1>0, <1>2, <2>1, <2>2, <2>3, LocalUpdate
             DEF RestoreCheckpoint, TypeOK, daemon, vms
<1>4. CASE Fail(r)
  BY Zenon, <1>0, <1>2, <1>4, IdleTyped, LocalUpdate
     DEF Fail, Idle, Holding, RestoreCheckpoint, TypeOK, daemon, vms
<1> QED BY Zenon, <1>3, <1>4 DEF RestoreCheckpoint

----------------------------------------------------------------------------
(* Custody of the sandboxes. *)

\* The inductive invariant: the three safety properties and who holds what.
Safe == NoLeakedVm /\ SingleOwner /\ HistoryIsFinal /\ Custody

\* The handlers that hold the handle of a runner.
WithRunner == {"connect", "baseline", "teardown"}

LEMMA HeldFacts ==
    /\ \A s : s \in Held <=> s \in live \/ \E p \in Reqs : req[p].pc \in WithRunner /\ req[p].sid = s
    /\ \A s : s \in Held' <=> s \in live' \/ \E p \in Reqs : req'[p].pc \in WithRunner /\ req'[p].sid = s
BY Zenon DEF Held, WithRunner

\* A local step changes nobody's custody.
LEMMA LocalSafe ==
    ASSUME Safe, NEW r \in Reqs, Local(r)
    PROVE  Safe'
<1>0. \A p \in Reqs : req'[p].pc \in Holding => p # r /\ req'[p] = req[p]
  BY Zenon DEF Local
<1>1. SingleOwner'
  BY Zenon, <1>0 DEF Safe, SingleOwner
<1>2. HistoryIsFinal'
  BY Zenon DEF Safe, HistoryIsFinal, Local
<1>3. Custody'
  BY Zenon, <1>0 DEF Safe, Custody, Local
<1>4. NoLeakedVm'
  <2>1. \A p \in Reqs : req[p].pc \in WithRunner => p # r /\ req'[p] = req[p]
    BY Zenon DEF Local, WithRunner, Holding
  <2>2. Held \subseteq Held'
    BY Zenon, <2>1, HeldFacts DEF Local
  <2> QED BY Zenon, <2>2 DEF Safe, NoLeakedVm, Local
<1> QED BY Zenon, <1>1, <1>2, <1>3, <1>4 DEF Safe

\* The handlers other than r are left alone by a step that sets r's handler.
LEMMA OneHandler ==
    ASSUME TypeOK, NEW r \in Reqs, NEW X, Typed(X), req' = [req EXCEPT ![r] = X]
    PROVE  /\ req'[r] = X
           /\ \A p \in Reqs : p # r => req'[p] = req[p]
           /\ \A p \in Reqs : req[p] \in Request
BY Zenon, HandlerStep DEF TypeOK

\* A launch takes an unused id: nobody else holds it.
LEMMA LaunchStep ==
    ASSUME TypeOK, Safe, NEW r \in Reqs, Launch(r)
    PROVE  TypeOK' /\ Safe'
<1> DEFINE q == req[r]
<1>0. q \in Request /\ HandlerOK(q) /\ q.pc = "launch"
  BY Zenon, HandlerFacts DEF Launch, At
<1>1. /\ q.op = "list" => \A b \in q.todo : q.snap[b] \in Record
      /\ q.box \in Boxes /\ q.copy \in Record
  BY Zenon, <1>0 DEF HandlerOK, NoBoxYet, Carrying
<1>2. PICK s \in Sandboxes :
         /\ boxOf[s] = None
         /\ boxOf' = [boxOf EXCEPT ![s] = q.box]
         /\ vm' = vm \cup {s}
         /\ req' = [req EXCEPT ![r].pc = "connect", ![r].sid = s]
  BY Zenon DEF Launch
<1> DEFINE X == [q EXCEPT !.pc = "connect", !.sid = s]
<1>3. req' = [req EXCEPT ![r] = X]
  BY Zenon, <1>2
<1>4. Typed(X) /\ X.pc = "connect" /\ X.sid = s
  BY ZenonT(60), <1>0, <1>1 DEF Typed, Request, HandlerOK, PCs, Sites, NoBoxYet, Carrying, Naming
<1> HIDE DEF X
<1>5. UNCHANGED <<born, rec, disk, active, live, history, hung, orphans>>
  BY Zenon DEF Launch, store, daemon
<1>6. TypeOK'
  BY Zenon, <1>1, <1>2, <1>3, <1>4, <1>5, HandlerStep DEF TypeOK
<1>7. /\ req'[r] = X
      /\ \A p \in Reqs : p # r => req'[p] = req[p]
  BY Zenon, <1>3, <1>4, OneHandler
<1>8. /\ s \notin live \cup history \cup orphans \cup vm
      /\ \A p \in Reqs : req[p].pc \in Holding => req[p].sid # s
      /\ \A x \in Sandboxes : boxOf[x] # None => boxOf'[x] # None
      /\ boxOf'[s] # None
  BY Zenon, <1>1, <1>2 DEF Safe, Custody, TypeOK
<1>9. NoLeakedVm'
  <2>1. Held \subseteq Held' /\ s \in Held'
    BY <1>0, <1>4, <1>5, <1>7, HeldFacts DEF WithRunner
  <2> QED BY Zenon, <1>2, <1>5, <2>1 DEF Safe, NoLeakedVm
<1>10. SingleOwner'
  BY Zenon, <1>4, <1>7, <1>8 DEF Safe, SingleOwner
<1>11. HistoryIsFinal'
  BY Zenon, <1>2, <1>5, <1>8 DEF Safe, HistoryIsFinal
<1>12. Custody'
  <2>1. /\ live \cup history \cup orphans \cup vm \subseteq Sandboxes
        /\ \A p \in Reqs : req[p].pc \in Holding => req[p].sid \in Sandboxes
    BY Zenon DEF TypeOK, HandlerOK, Holding, Naming
  <2>2. ASSUME NEW p \in Reqs, req'[p].pc \in Holding
        PROVE  /\ req'[p].sid \notin live' \cup history' \cup orphans'
               /\ boxOf'[req'[p].sid] # None
               /\ req'[p].pc = "archive" => req'[p].sid \notin vm'
    <3>1. CASE p = r
      BY Zenon, <1>4, <1>5, <1>7, <1>8, <3>1
    <3>2. CASE p # r
      <4>1. req'[p] = req[p] /\ req[p].pc \in Holding
        BY Zenon, <1>7, <2>2, <3>2
      <4>2. /\ req[p].sid \notin live \cup history \cup orphans /\ boxOf[req[p].sid] # None
            /\ req[p].pc = "archive" => req[p].sid \notin vm
        BY Zenon, <4>1 DEF Safe, Custody
      <4>3. req[p].sid \in Sandboxes /\ req[p].sid # s
        BY Zenon, <1>8, <2>1, <4>1
      <4> QED BY <1>2, <1>5, <1>8, <4>1, <4>2, <4>3
    <3> QED BY Zenon, <3>1, <3>2
  <2>3. \A x \in live' \cup history' \cup orphans' \cup vm' : boxOf'[x] # None
    BY Zenon, <1>2, <1>5, <1>8, <2>1 DEF Safe, Custody
  <2> QED BY Zenon, <1>5, <2>2, <2>3 DEF Safe, Custody
<1> QED BY Zenon, <1>6, <1>9, <1>10, <1>11, <1>12 DEF Safe

\* A step of the one handler r responsible for sandbox s that changes only what
\* happens to s, and leaves s registered, held by r, archived or dead.
LEMMA Handover ==
    ASSUME Safe, NEW r \in Reqs, NEW s,
           boxOf[s] # None, s \notin orphans,
           \A p \in Reqs : p # r => req'[p] = req[p],
           \A p \in Reqs : p # r /\ req[p].pc \in Holding => req[p].sid # s,
           req[r].pc \in Holding => req[r].sid = s,
           live' \ {s} = live \ {s}, history' \ {s} = history \ {s}, vm' \ {s} = vm \ {s},
           orphans' = orphans, boxOf' = boxOf,
           req'[r].pc \in Holding =>
               /\ req'[r].sid = s /\ s \notin live' \cup history'
               /\ req'[r].pc = "archive" => s \notin vm',
           s \in vm' => s \in live' \/ (req'[r].pc \in WithRunner /\ req'[r].sid = s),
           s \in history' => s \notin vm' \cup live'
    PROVE  Safe'
<1>1. NoLeakedVm'
  <2>1. ASSUME NEW x \in vm', x # s PROVE x \in Held' \cup orphans'
    <3>1. x \in Held \cup orphans
      BY Zenon, <2>1 DEF Safe, NoLeakedVm
    <3>2. \A p \in Reqs : req[p].pc \in WithRunner /\ req[p].sid = x => req'[p] = req[p]
      BY Zenon, <2>1 DEF WithRunner, Holding
    <3>3. x \in live => x \in live'
      BY Zenon, <2>1
    <3> QED BY <3>1, <3>2, <3>3, HeldFacts
  <2>2. s \in vm' => s \in Held'
    BY Zenon, HeldFacts
  <2> QED BY Zenon, <2>1, <2>2 DEF NoLeakedVm
<1>2. SingleOwner'
  <2>1. ASSUME NEW a \in Reqs, NEW b \in Reqs, req'[a].pc \in Holding, req'[b].pc \in Holding,
               req'[a].sid = req'[b].sid
        PROVE  a = b
    <3>1. CASE a # r /\ b # r
      BY Zenon, <2>1, <3>1 DEF Safe, SingleOwner
    <3>2. CASE a = r /\ b # r
      BY Zenon, <2>1, <3>2
    <3>3. CASE a # r /\ b = r
      BY Zenon, <2>1, <3>3
    <3> QED BY Zenon, <3>1, <3>2, <3>3
  <2> QED BY Zenon, <2>1 DEF SingleOwner
<1>3. HistoryIsFinal'
  BY Zenon DEF Safe, HistoryIsFinal
<1>4. Custody'
  <2>1. ASSUME NEW p \in Reqs, req'[p].pc \in Holding
        PROVE  /\ req'[p].sid \notin live' \cup history' \cup orphans'
               /\ boxOf'[req'[p].sid] # None
               /\ req'[p].pc = "archive" => req'[p].sid \notin vm'
    <3>1. CASE p = r
      BY Zenon, <2>1, <3>1
    <3>2. CASE p # r
      <4>1. req'[p] = req[p] /\ req[p].pc \in Holding /\ req[p].sid # s
        BY Zenon, <2>1, <3>2
      <4>2. /\ req[p].sid \notin live \cup history \cup orphans /\ boxOf[req[p].sid] # None
            /\ req[p].pc = "archive" => req[p].sid \notin vm
        BY Zenon, <4>1 DEF Safe, Custody
      <4> QED BY Zenon, <4>1, <4>2
    <3> QED BY Zenon, <3>1, <3>2
  <2>2. live' \cap orphans' = {}
    BY Zenon DEF Safe, Custody
  <2>3. \A x \in live' \cup history' \cup orphans' \cup vm' : boxOf'[x] # None
    BY Zenon DEF Safe, Custody
  <2> QED BY Zenon, <2>1, <2>2, <2>3 DEF Custody
<1> QED BY Zenon, <1>1, <1>2, <1>3, <1>4 DEF Safe

\* What a handler that holds a sandbox knows of it.
LEMMA HolderFacts ==
    ASSUME TypeOK, Safe, NEW r \in Reqs, req[r].pc \in Holding
    PROVE  /\ req[r] \in Request /\ HandlerOK(req[r])
           /\ req[r].box \in Boxes /\ req[r].copy \in Record /\ req[r].sid \in Sandboxes
           /\ req[r].op = "list" => \A b \in req[r].todo : req[r].snap[b] \in Record
           /\ req[r].sid \notin live \cup history \cup orphans
           /\ boxOf[req[r].sid] # None
           /\ \A p \in Reqs : p # r /\ req[p].pc \in Holding => req[p].sid # req[r].sid
<1>1. req[r] \in Request /\ HandlerOK(req[r])
  BY Zenon, HandlerFacts
<1>2. /\ req[r].box \in Boxes /\ req[r].copy \in Record /\ req[r].sid \in Sandboxes
      /\ req[r].op = "list" => \A b \in req[r].todo : req[r].snap[b] \in Record
  BY Zenon, <1>1 DEF HandlerOK, Holding, NoBoxYet, Carrying, Naming
<1> QED BY Zenon, <1>1, <1>2 DEF Safe, Custody, SingleOwner

\* The guest answers the connection.
LEMMA ConnectStep ==
    ASSUME TypeOK, Safe, NEW r \in Reqs, Connect(r)
    PROVE  TypeOK' /\ Safe'
<1> DEFINE q == req[r]
           s == q.sid
<1>0. q.pc \in Holding /\ q.pc = "connect"
  BY Zenon DEF Connect, At, Holding
<1>1. /\ q \in Request /\ HandlerOK(q) /\ q.box \in Boxes /\ q.copy \in Record /\ s \in Sandboxes
      /\ q.op = "list" => \A b \in q.todo : q.snap[b] \in Record
      /\ s \notin live \cup history \cup orphans /\ boxOf[s] # None
      /\ \A p \in Reqs : p # r /\ req[p].pc \in Holding => req[p].sid # s
  BY Zenon, <1>0, HolderFacts
<1> DEFINE X == [q EXCEPT !.pc = "baseline"]
<1>2. req' = [req EXCEPT ![r] = X]
  BY Zenon DEF Connect
<1>3. Typed(X) /\ X.pc = "baseline" /\ X.sid = s
  BY ZenonT(60), <1>1 DEF Typed, Request, HandlerOK, PCs, NoBoxYet, Carrying, Naming
<1> HIDE DEF X
<1>4. UNCHANGED <<born, rec, disk, active, live, history, boxOf, vm, hung, orphans>>
  BY Zenon DEF Connect, store, daemon, vms, DropInstance
<1>5. TypeOK'
  BY Zenon, <1>1, <1>2, <1>3, <1>4, HandlerStep DEF TypeOK
<1>6. req'[r] = X /\ \A p \in Reqs : p # r => req'[p] = req[p]
  BY Zenon, <1>2, <1>3, OneHandler
<1>7. Safe'
  BY Zenon, <1>0, <1>1, <1>3, <1>4, <1>6, Handover DEF WithRunner, Holding
<1> QED BY Zenon, <1>5, <1>7

\* registry.insert: the handler hands the sandbox to the registry.
LEMMA BaselineStep ==
    ASSUME TypeOK, Safe, NEW r \in Reqs, Baseline(r)
    PROVE  TypeOK' /\ Safe'
<1> DEFINE q == req[r]
           s == q.sid
<1>0. q.pc \in Holding /\ q.pc = "baseline" /\ s \in vm
  BY Zenon DEF Baseline, At, Holding
<1>1. /\ q \in Request /\ HandlerOK(q) /\ q.box \in Boxes /\ q.copy \in Record /\ s \in Sandboxes
      /\ q.op = "list" => \A b \in q.todo : q.snap[b] \in Record
      /\ s \notin live \cup history \cup orphans /\ boxOf[s] # None
      /\ \A p \in Reqs : p # r /\ req[p].pc \in Holding => req[p].sid # s
  BY Zenon, <1>0, HolderFacts
<1> DEFINE X == [q EXCEPT !.pc = "publish"]
<1>2. req' = [req EXCEPT ![r] = X]
  BY Zenon DEF Baseline
<1>3. Typed(X) /\ X.pc = "publish" /\ X.sid = s
  BY ZenonT(60), <1>1 DEF Typed, Request, HandlerOK, PCs, NoBoxYet, Carrying, Naming
<1> HIDE DEF X
<1>4. live' = live \cup {s} /\ UNCHANGED <<born, rec, disk, active, history, boxOf, vm, hung, orphans>>
  BY Zenon DEF Baseline, store, daemon, vms, DropInstance
<1>5. TypeOK'
  BY Zenon, <1>1, <1>2, <1>3, <1>4, HandlerStep DEF TypeOK
<1>6. req'[r] = X /\ \A p \in Reqs : p # r => req'[p] = req[p]
  BY Zenon, <1>2, <1>3, OneHandler
<1>7. Safe'
  BY SMTT(40), <1>0, <1>1, <1>3, <1>4, <1>6, Handover DEF WithRunner, Holding
<1> QED BY <1>5, <1>7

\* A failed boot drops the runner, killing it.
LEMMA BootFailsStep ==
    ASSUME TypeOK, Safe, NEW r \in Reqs, BootFails(r)
    PROVE  TypeOK' /\ Safe'
<1> DEFINE q == req[r]
           s == q.sid
<1>0. q.pc \in Holding /\ q.pc \in {"connect", "baseline"}
  BY Zenon DEF BootFails, At, Holding
<1>1. /\ q \in Request /\ HandlerOK(q) /\ q.box \in Boxes /\ q.copy \in Record /\ s \in Sandboxes
      /\ q.op = "list" => \A b \in q.todo : q.snap[b] \in Record
      /\ s \notin live \cup history \cup orphans /\ boxOf[s] # None
      /\ \A p \in Reqs : p # r /\ req[p].pc \in Holding => req[p].sid # s
  BY Zenon, <1>0, HolderFacts
<1> DEFINE u == [q EXCEPT !.sid = None]
           X == SetFailed(u, q.copy)
<1>2. req' = [req EXCEPT ![r] = X]
  BY Zenon DEF BootFails
<1>a. u \in Request /\ u.box = q.box /\ u.op = q.op /\ u.todo = q.todo /\ u.snap = q.snap
  BY Zenon, <1>1 DEF Request
<1> HIDE DEF u
<1>3. Typed(X) /\ X.pc = "unlink"
  BY Zenon, <1>1, <1>a, UnlinkingTyped
<1> HIDE DEF X
<1>4. vm' = vm \ {s} /\ hung' = hung \ {s} /\ UNCHANGED <<born, rec, disk, active, live, history, boxOf, orphans>>
  BY Zenon DEF BootFails, store, daemon, vms, DropInstance
<1>5. TypeOK'
  BY Zenon, <1>1, <1>2, <1>3, <1>4, HandlerStep DEF TypeOK
<1>6. req'[r] = X /\ \A p \in Reqs : p # r => req'[p] = req[p]
  BY Zenon, <1>2, <1>3, OneHandler
<1>7. Safe'
  BY SMTT(40), <1>0, <1>1, <1>3, <1>4, <1>6, Handover DEF WithRunner, Holding
<1> QED BY <1>5, <1>7

\* The session enters the history once its VM is down.
LEMMA ArchiveStep ==
    ASSUME TypeOK, Safe, NEW r \in Reqs, Archive(r)
    PROVE  TypeOK' /\ Safe'
<1> DEFINE q == req[r]
           s == q.sid
<1>0. q.pc \in Holding /\ q.pc = "archive" /\ s \notin vm
  BY Zenon DEF Archive, At, Holding, Safe, Custody
<1>1. /\ q \in Request /\ HandlerOK(q) /\ q.box \in Boxes /\ q.copy \in Record /\ s \in Sandboxes
      /\ q.op = "list" => \A b \in q.todo : q.snap[b] \in Record
      /\ s \notin live \cup history \cup orphans /\ boxOf[s] # None
      /\ \A p \in Reqs : p # r /\ req[p].pc \in Holding => req[p].sid # s
  BY Zenon, <1>0, HolderFacts
<1> DEFINE X == MarkStopped(q, q.copy)
<1>2. req' = [req EXCEPT ![r] = X]
  BY Zenon DEF Archive
<1>3. Typed(X) /\ X.pc = "unlink"
  BY Zenon, <1>1, UnlinkingTyped
<1> HIDE DEF X
<1>4. history' = history \cup {s} /\ UNCHANGED <<born, rec, disk, active, live, boxOf, vm, hung, orphans>>
  BY Zenon DEF Archive, store, daemon, vms, DropInstance
<1>5. TypeOK'
  BY Zenon, <1>1, <1>2, <1>3, <1>4, HandlerStep DEF TypeOK
<1>6. req'[r] = X /\ \A p \in Reqs : p # r => req'[p] = req[p]
  BY Zenon, <1>2, <1>3, OneHandler
<1>7. Safe'
  BY SMTT(40), <1>0, <1>1, <1>3, <1>4, <1>6, Handover DEF WithRunner, Holding
<1> QED BY <1>5, <1>7

\* shutdown kills the runner, whether or not it succeeds.
LEMMA TeardownStep ==
    ASSUME TypeOK, Safe, NEW r \in Reqs, Teardown(r)
    PROVE  TypeOK' /\ Safe'
<1> DEFINE q == req[r]
           s == q.sid
<1>0. q.pc \in Holding /\ q.pc = "teardown"
  BY Zenon DEF Teardown, At, Holding
<1>1. /\ q \in Request /\ HandlerOK(q) /\ q.box \in Boxes /\ q.copy \in Record /\ s \in Sandboxes
      /\ q.op = "list" => \A b \in q.todo : q.snap[b] \in Record
      /\ s \notin live \cup history \cup orphans /\ boxOf[s] # None
      /\ \A p \in Reqs : p # r /\ req[p].pc \in Holding => req[p].sid # s
  BY Zenon, <1>0, HolderFacts
<1> DEFINE archiving == [q EXCEPT !.pc = "archive"]
           failing == SetFailed(q, q.copy)
<1>a. Typed(archiving) /\ archiving.pc = "archive" /\ archiving.sid = s
  BY ZenonT(60), <1>1 DEF Typed, Request, HandlerOK, PCs, NoBoxYet, Carrying, Naming
<1>b. Typed(failing) /\ failing.pc = "unlink"
  BY Zenon, <1>1, UnlinkingTyped
<1>c. req' = [req EXCEPT ![r] = archiving] \/ req' = [req EXCEPT ![r] = failing]
  BY Zenon DEF Teardown
<1> HIDE DEF archiving, failing
<1>2. PICK X \in {archiving, failing} : req' = [req EXCEPT ![r] = X]
  BY Zenon, <1>c
<1>3. Typed(X) /\ (X.pc = "unlink" \/ (X.pc = "archive" /\ X.sid = s))
  BY Zenon, <1>2, <1>a, <1>b
<1>4. vm' = vm \ {s} /\ hung' = hung \ {s} /\ UNCHANGED <<born, rec, disk, active, live, history, boxOf, orphans>>
  BY Zenon DEF Teardown, store, daemon, vms, DropInstance
<1>5. TypeOK'
  BY Zenon, <1>1, <1>2, <1>3, <1>4, HandlerStep DEF TypeOK
<1>6. req'[r] = X /\ \A p \in Reqs : p # r => req'[p] = req[p]
  BY Zenon, <1>2, <1>3, OneHandler
<1>7. Safe'
  BY SMTT(40), <1>0, <1>1, <1>3, <1>4, <1>6, Handover DEF WithRunner, Holding
<1> QED BY Zenon, <1>5, <1>7

\* remove_active hands the sandbox to one handler; the other outcomes are local.
LEMMA DestroyStep ==
    ASSUME TypeOK, Safe, NEW r \in Reqs, Destroy(r)
    PROVE  TypeOK' /\ Safe'
<1> DEFINE q == req[r]
           s == q.sid
<1>0. q \in Request /\ HandlerOK(q) /\ q.pc = "destroy" /\ req[r].pc \notin Holding
  BY Zenon, HandlerFacts DEF Destroy, At, Holding
<1>1. /\ q.op = "list" => \A b \in q.todo : q.snap[b] \in Record
      /\ q.box \in Boxes /\ q.copy \in Record /\ s \in Sandboxes
  BY Zenon, <1>0 DEF HandlerOK, NoBoxYet, Carrying, Naming
<1>2. UNCHANGED <<born, rec, disk, active, history, boxOf, vm, hung, orphans>>
  BY Zenon DEF Destroy, store, vms
<1>3. CASE s \in history
  <2>1. req' = [req EXCEPT ![r] = MarkStopped(q, q.copy)] /\ live' = live
    BY Zenon, <1>3 DEF Destroy
  <2>2. Typed(MarkStopped(q, q.copy)) /\ MarkStopped(q, q.copy).pc \notin Holding
    BY Zenon, <1>0, <1>1, UnlinkingTyped DEF Holding
  <2> QED BY Zenon, <1>0, <1>2, <2>1, <2>2, LocalUpdate, LocalSafe DEF TypeOK
<1>4. CASE s \notin history /\ s \in live
  <2> DEFINE X == [q EXCEPT !.pc = "teardown"]
  <2>1. req' = [req EXCEPT ![r] = X] /\ live' = live \ {s}
    BY Zenon, <1>4 DEF Destroy
  <2>2. Typed(X) /\ X.pc = "teardown" /\ X.sid = s
    BY Zenon, <1>0, <1>1 DEF Typed, Request, HandlerOK, PCs, NoBoxYet, Carrying, Naming
  <2> HIDE DEF X
  <2>3. TypeOK'
    BY Zenon, <1>2, <2>1, <2>2, HandlerStep DEF TypeOK
  <2>4. req'[r] = X /\ \A p \in Reqs : p # r => req'[p] = req[p]
    BY Zenon, <2>1, <2>2, OneHandler
  <2>5. /\ s \notin orphans /\ boxOf[s] # None
        /\ \A p \in Reqs : p # r /\ req[p].pc \in Holding => req[p].sid # s
    BY Zenon, <1>4 DEF Safe, Custody
  <2>6. Safe'
    BY SMTT(40), <1>0, <1>2, <1>4, <2>1, <2>2, <2>4, <2>5, Handover DEF WithRunner, Holding
  <2> QED BY <2>3, <2>6
<1>5. CASE s \notin history /\ s \notin live
  <2> DEFINE k == IF q.k = "stop" THEN "missing" ELSE q.k
             p == [q EXCEPT !.k = k]
             X == MarkStopped(p, q.copy)
  <2>1. req' = [req EXCEPT ![r] = X] /\ live' = live
    BY Zenon, <1>5 DEF Destroy
  <2>2. k \in Sites
    BY Zenon, <1>0 DEF Request, Sites
  <2> HIDE DEF k
  <2>3. p \in Request /\ p.box = q.box /\ p.op = q.op /\ p.todo = q.todo /\ p.snap = q.snap
    BY Zenon, <1>0, <2>2 DEF Request
  <2> HIDE DEF p
  <2>4. Typed(X) /\ X.pc \notin Holding
    BY Zenon, <1>1, <2>3, UnlinkingTyped DEF Holding
  <2> HIDE DEF X
  <2> QED BY Zenon, <1>0, <1>2, <2>1, <2>4, LocalUpdate, LocalSafe DEF TypeOK
<1> QED BY Zenon, <1>3, <1>4, <1>5

----------------------------------------------------------------------------
(* The environment. *)

\* A VM that dies leaves everything but itself in place.
LEMMA VmDiesStep == ASSUME TypeOK, Safe, NEW s \in Sandboxes, VmDies(s) PROVE TypeOK' /\ Safe'
<1>1. /\ vm' = vm \ {s} /\ hung' = hung \ {s}
      /\ UNCHANGED <<born, rec, disk, active, live, history, boxOf, orphans, req>>
  BY Zenon DEF VmDies, DropInstance, store, daemon
<1>2. TypeOK'
  BY Zenon, <1>1 DEF TypeOK
<1>3. Held' = Held
  BY Zenon, <1>1 DEF Held
<1>4. NoLeakedVm' /\ SingleOwner' /\ HistoryIsFinal'
  BY Zenon, <1>1, <1>3 DEF Safe, NoLeakedVm, SingleOwner, HistoryIsFinal
<1>5. Custody'
  BY Zenon, <1>1 DEF Safe, Custody
<1> QED BY Zenon, <1>2, <1>4, <1>5 DEF Safe

LEMMA VmHangsStep == ASSUME TypeOK, Safe, NEW s \in Sandboxes, VmHangs(s) PROVE TypeOK' /\ Safe'
<1>1. /\ hung' \subseteq vm
      /\ UNCHANGED <<born, rec, disk, active, live, history, boxOf, vm, orphans, req>>
  BY Zenon DEF VmHangs, store, daemon, TypeOK
<1>2. TypeOK'
  BY Zenon, <1>1 DEF TypeOK
<1>3. Held' = Held
  BY Zenon, <1>1 DEF Held
<1>4. NoLeakedVm' /\ SingleOwner' /\ HistoryIsFinal'
  BY Zenon, <1>1, <1>3 DEF Safe, NoLeakedVm, SingleOwner, HistoryIsFinal
<1>5. Custody'
  BY Zenon, <1>1 DEF Safe, Custody
<1> QED BY <1>2, <1>4, <1>5 DEF Safe

\* The next daemon starts with reconciled records and idle handlers.
LEMMA NewDaemonFacts ==
    ASSUME TypeOK, NewDaemon
    PROVE  /\ rec' \in [Boxes -> Record \cup {None}]
           /\ active' \in [Boxes -> Sandboxes \cup {None}]
           /\ live' = {} /\ history' = {}
           /\ req' \in [Reqs -> Request] /\ \A r \in Reqs : HandlerOK(req'[r])
           /\ \A r \in Reqs : req'[r].pc \notin Holding
           /\ UNCHANGED <<born, disk, boxOf>>
<1>1. ASSUME NEW b \in Boxes, rec[b] # None PROVE Reconciled(rec[b], b) \in Record
  <2> DEFINE n == Normalized(rec[b], b)
  <2>1. n \in Record
    BY Zenon, <1>1, NormalizedTyped DEF TypeOK
  <2> HIDE DEF n
  <2>2. Reconciled(rec[b], b) = IF n.status = "Running" THEN [n EXCEPT !.status = "Failed"] ELSE n
    BY Zenon DEF Reconciled, n
  <2> QED BY Zenon, <2>1, <2>2 DEF Record, Statuses
<1>2. rec' \in [Boxes -> Record \cup {None}]
  BY Zenon, <1>1 DEF NewDaemon
<1>3. req' \in [Reqs -> Request] /\ \A r \in Reqs : req'[r] = Idle
  BY Zenon, IdleTyped DEF NewDaemon, Typed
<1>4. Idle.pc \notin Holding
  BY Zenon DEF Idle, Holding
<1> QED BY Zenon, <1>2, <1>3, <1>4, IdleTyped DEF NewDaemon, Typed

LEMMA ExitStep == ASSUME TypeOK, Safe, NEW r \in Reqs, Exit(r) PROVE TypeOK' /\ Safe'
<1>1. NewDaemon /\ vm' = vm \ Held /\ hung' = hung \ Held /\ orphans' = orphans
  BY Zenon DEF Exit
<1>2. TypeOK'
  BY Zenon, <1>1, NewDaemonFacts DEF TypeOK
<1>3. NoLeakedVm' /\ HistoryIsFinal'
  BY Zenon, <1>1, NewDaemonFacts DEF Safe, NoLeakedVm, HistoryIsFinal
<1>4. SingleOwner' /\ Custody'
  BY Zenon, <1>1, NewDaemonFacts DEF Safe, SingleOwner, Custody
<1> QED BY Zenon, <1>2, <1>3, <1>4 DEF Safe

LEMMA CrashStep == ASSUME TypeOK, Safe, Crash PROVE TypeOK' /\ Safe'
<1>1. NewDaemon /\ vm' = vm /\ hung' = hung /\ orphans' = orphans \cup vm
  BY Zenon DEF Crash
<1>2. TypeOK'
  BY Zenon, <1>1, NewDaemonFacts DEF TypeOK
<1>3. NoLeakedVm' /\ HistoryIsFinal'
  BY Zenon, <1>1, NewDaemonFacts DEF Safe, NoLeakedVm, HistoryIsFinal
<1>4. SingleOwner' /\ Custody'
  BY Zenon, <1>1, NewDaemonFacts DEF Safe, SingleOwner, Custody
<1> QED BY Zenon, <1>2, <1>3, <1>4 DEF Safe

----------------------------------------------------------------------------
(* The theorems. *)

\* The initial state satisfies the inductive invariant.
LEMMA InitSafe == Init => TypeOK /\ Safe
<1> SUFFICES ASSUME Init PROVE TypeOK /\ Safe
  BY Zenon
<1>1. \A r \in Reqs : req[r] = Idle
  BY Zenon DEF Init
<1>2. TypeOK
  BY Zenon, <1>1, IdleTyped DEF Init, TypeOK, Typed
<1>3. Idle.pc \notin Holding
  BY Zenon DEF Idle, Holding
<1>4. SingleOwner /\ Custody
  BY Zenon, <1>1, <1>3 DEF Init, SingleOwner, Custody
<1>5. NoLeakedVm /\ HistoryIsFinal
  BY Zenon DEF Init, NoLeakedVm, HistoryIsFinal
<1> QED BY Zenon, <1>2, <1>4, <1>5 DEF Safe

\* Every step of a local operation leaves the custody of the sandboxes alone.
LocalAction(r) ==
    \/ Call(r) \/ CallCreate(r) \/ CallList(r) \/ CallShutdown(r) \/ NextBox(r)
    \/ Read(r) \/ Unlink(r) \/ Write(r) \/ Tail(r) \/ Fork(r)
    \/ PrepareRecord(r) \/ PrepareRecordFails(r) \/ ForkWorkspace(r) \/ Get(r) \/ EnsureRuntime(r)
    \/ StatsOk(r) \/ StatsErr(r) \/ Adopt(r) \/ SetSetting(r) \/ ResizeWorkspace(r)
    \/ Start(r) \/ CheckWorkspace(r) \/ LaunchFails(r) \/ Publish(r) \/ Stop(r)
    \/ RunningSandboxId(r) \/ StopForShutdown(r) \/ Remove(r) \/ RemoveWorkspace(r) \/ Forget(r)
    \/ RemoveRecord(r) \/ Restore(r) \/ RestoreCheckpoint(r)

LEMMA LocalActionStep ==
    ASSUME TypeOK, NEW r \in Reqs, LocalAction(r)
    PROVE  TypeOK' /\ Local(r)
BY Zenon, CallStep, CallCreateStep, CallListStep, CallShutdownStep, NextBoxStep,
   ReadStep, UnlinkStep, WriteStep, TailStep, ForkStep,
   PrepareRecordStep, PrepareRecordFailsStep, ForkWorkspaceStep, GetStep, EnsureRuntimeStep,
   StatsOkStep, StatsErrStep, AdoptStep, SetSettingStep, ResizeWorkspaceStep,
   StartStep, CheckWorkspaceStep, LaunchFailsStep, PublishStep, StopStep,
   RunningSandboxIdStep, StopForShutdownStep, RemoveStep, RemoveWorkspaceStep, ForgetStep,
   RemoveRecordStep, RestoreStep, RestoreCheckpointStep
   DEF LocalAction

\* Every step preserves the inductive invariant.
LEMMA NextSafe == TypeOK /\ Safe /\ [Next]_vars => TypeOK' /\ Safe'
<1> SUFFICES ASSUME TypeOK, Safe, [Next]_vars PROVE TypeOK' /\ Safe'
  BY Zenon
<1>1. ASSUME NEW r \in Reqs, LocalAction(r) PROVE TypeOK' /\ Safe'
  BY Zenon, <1>1, LocalActionStep, LocalSafe
<1>2. ASSUME NEW r \in Reqs, Launch(r) PROVE TypeOK' /\ Safe'
  BY Zenon, <1>2, LaunchStep
<1>3. ASSUME NEW r \in Reqs, Connect(r) PROVE TypeOK' /\ Safe'
  BY Zenon, <1>3, ConnectStep
<1>4. ASSUME NEW r \in Reqs, Baseline(r) PROVE TypeOK' /\ Safe'
  BY <1>4, BaselineStep
<1>5. ASSUME NEW r \in Reqs, BootFails(r) PROVE TypeOK' /\ Safe'
  BY <1>5, BootFailsStep
<1>6. ASSUME NEW r \in Reqs, Destroy(r) PROVE TypeOK' /\ Safe'
  BY <1>6, DestroyStep
<1>7. ASSUME NEW r \in Reqs, Teardown(r) PROVE TypeOK' /\ Safe'
  BY <1>7, TeardownStep
<1>8. ASSUME NEW r \in Reqs, Archive(r) PROVE TypeOK' /\ Safe'
  BY <1>8, ArchiveStep
<1>9. ASSUME NEW r \in Reqs, Exit(r) PROVE TypeOK' /\ Safe'
  BY <1>9, ExitStep
<1>10. ASSUME NEW s \in Sandboxes, VmDies(s) \/ VmHangs(s) PROVE TypeOK' /\ Safe'
  BY Zenon, <1>10, VmDiesStep, VmHangsStep
<1>11. CASE Crash
  BY Zenon, <1>11, CrashStep
<1>12. CASE UNCHANGED vars
  BY <1>12 DEF vars, store, daemon, vms, TypeOK, Safe, NoLeakedVm, Held, SingleOwner, HistoryIsFinal, Custody
<1> QED BY Zenon, <1>1, <1>2, <1>3, <1>4, <1>5, <1>6, <1>7, <1>8, <1>9, <1>10, <1>11, <1>12
           DEF Next, Progress, LocalAction

\* The inductive invariant holds throughout.
LEMMA Invariance == Spec => [](TypeOK /\ Safe)
BY InitSafe, NextSafe, PTL DEF Spec

\* Every variable keeps its type, and no handler dereferences a BOX, record or
\* sandbox it does not have.
THEOREM TypeCorrect == Spec => []TypeOK
BY Invariance, PTL

\* A VM is in exactly one pair of hands: no runner process leaks, one handler
\* tears a sandbox down however many destroys race for it, and what the history
\* names is down for good (create_sandbox_inner, destroy_sandbox_inner).
THEOREM VmsAreOwned == Spec => []VmOwnership
<1>1. Safe => VmOwnership
  BY Zenon DEF Safe, VmOwnership
<1> QED BY <1>1, Invariance, PTL

\* A registered sandbox leaves the registry only into a teardown or dead, and
\* only a live VM that was never archived enters it.
RegistryStep ==
    \A s \in Sandboxes :
        /\ s \in live /\ s \notin live' => s \notin vm' \/ s \in orphans' \/ \E r \in Reqs :
              req'[r].pc = "teardown" /\ req'[r].sid = s
        /\ s \notin live /\ s \in live' => s \in vm /\ s \notin history /\ s \notin orphans

LEMMA NextRegistry == TypeOK /\ Safe /\ [Next]_vars => RegistryStep
<1> SUFFICES ASSUME TypeOK, Safe, [Next]_vars PROVE RegistryStep
  BY Zenon
<1>1. CASE live' = live
  BY Zenon, <1>1 DEF RegistryStep
<1>2. ASSUME NEW r \in Reqs, LocalAction(r) PROVE live' = live
  BY Zenon, <1>2, LocalActionStep DEF Local
<1>3. ASSUME NEW r \in Reqs, Launch(r) \/ Connect(r) \/ BootFails(r) \/ Teardown(r) \/ Archive(r)
      PROVE  live' = live
  BY Zenon, <1>3 DEF Launch, Connect, BootFails, Teardown, Archive, daemon
<1>4. ASSUME NEW r \in Reqs, Baseline(r) PROVE RegistryStep
  <2>1. live' = live \cup {req[r].sid} /\ req[r].sid \in vm /\ req[r].pc \in Holding
    BY Zenon, <1>4 DEF Baseline, At, Holding
  <2>2. req[r].sid \notin history \cup orphans
    BY Zenon, <2>1, HolderFacts
  <2> QED BY Zenon, <2>1, <2>2 DEF RegistryStep
<1>5. ASSUME NEW r \in Reqs, Destroy(r) PROVE RegistryStep
  <2>1. CASE live' = live
    BY Zenon, <2>1 DEF RegistryStep
  <2>2. CASE live' = live \ {req[r].sid} /\ req' = [req EXCEPT ![r].pc = "teardown"]
    <3>1. req'[r].pc = "teardown" /\ req'[r].sid = req[r].sid
      BY <2>2 DEF TypeOK, Request
    <3> QED BY Zenon, <2>2, <3>1 DEF RegistryStep
  <2> QED BY Zenon, <1>5, <2>1, <2>2 DEF Destroy
<1>6. ASSUME NEW r \in Reqs, Exit(r) PROVE RegistryStep
  BY Zenon, <1>6 DEF Exit, NewDaemon, Held, RegistryStep
<1>7. ASSUME NEW s \in Sandboxes, VmDies(s) \/ VmHangs(s) PROVE live' = live
  BY Zenon, <1>7 DEF VmDies, VmHangs, daemon
<1>8. CASE Crash
  BY Zenon, <1>8 DEF Crash, NewDaemon, RegistryStep
<1>9. CASE UNCHANGED vars
  BY Zenon, <1>1, <1>9 DEF vars, daemon
<1> QED BY Zenon, <1>1, <1>2, <1>3, <1>4, <1>5, <1>6, <1>7, <1>8, <1>9
           DEF Next, Progress, LocalAction

\* A sandbox that left the registry never comes back, for any instance.
THEOREM RegistryIsOneWay == Spec => NoResurrection
<1>1. TypeOK /\ Safe /\ [Next]_vars => [RegistryStep]_vars
  BY Zenon, NextRegistry
<1>2. Spec => [][RegistryStep]_vars
  BY <1>1, Invariance, PTL DEF Spec
<1> QED BY Zenon, <1>2 DEF NoResurrection, RegistryStep
=============================================================================
