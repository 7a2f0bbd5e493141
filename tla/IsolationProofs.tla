-------------------------- MODULE IsolationProofs --------------------------
(***************************************************************************)
(* No BOX ever refers to another BOX's sandbox, and a record that says     *)
(* Running names one: for any number of BOXes, sandboxes and connections,  *)
(* any set of operations and any faults.                                   *)
(***************************************************************************)
EXTENDS BoxServiceProofs

USE NoneAssumption, RecordAssumption

\* A record of BOX b, when the sandboxes were launched for the BOXes f.
Good(c, b, f) ==
    c # None => /\ c.sid # None => f[c.sid] = b
                /\ c.status = "Running" => c.sid # None

\* What a handler carries is of the BOX it works on; between two BOXes it
\* carries nothing, so the next one inherits nothing.
Own(q, f) ==
    /\ q.box # None => Good(q.seen, q.box, f) /\ Good(q.copy, q.box, f)
    /\ q.copy # None => q.box # None
    /\ q.sid # None => q.box # None /\ f[q.sid] = q.box
    /\ \A b \in Boxes : Good(q.snap[b], b, f)
    /\ q.pc = "next" => q.seen = None /\ q.copy = None /\ q.sid = None

StoreOwn(f) == \A b \in Boxes : Good(rec[b], b, f)
ActiveOwn(f) == \A b \in Boxes : active[b] # None => f[active[b]] = b

Isolated ==
    /\ StoreOwn(boxOf)
    /\ ActiveOwn(boxOf)
    /\ \A r \in Reqs : Own(req[r], boxOf)

----------------------------------------------------------------------------
(* What the helpers return. *)

LEMMA NoneGood == \A b, f : Good(None, b, f)
BY Zenon DEF Good

\* A reset handler carries nothing.
LEMMA IdleOwn == \A f : Own(Idle, f)
BY Zenon DEF Own, Idle, Good

\* A handler that stays with its BOX is judged by what it carries for it.
LEMMA SameBoxOwn ==
    ASSUME NEW f, NEW q, NEW X, Own(q, f), q.box # None,
           X.box = q.box, X.snap = q.snap, X.pc # "next",
           Good(X.seen, q.box, f), Good(X.copy, q.box, f),
           X.sid # None => f[X.sid] = q.box
    PROVE  Own(X, f)
BY Zenon DEF Own

\* So is one that goes on to another point of its operation with what it has.
LEMMA MovedOwn ==
    ASSUME NEW f, NEW q, NEW X, Own(q, f), q.box # None,
           X.box = q.box, X.snap = q.snap, X.pc # "next",
           X.seen \in {q.seen, None}, X.copy \in {q.copy, None}, X.sid \in {q.sid, None}
    PROVE  Own(X, f)
<1>1. Good(X.seen, q.box, f) /\ Good(X.copy, q.box, f) /\ (X.sid # None => f[X.sid] = q.box)
  BY Zenon, NoneGood DEF Own
<1> QED BY Zenon, <1>1, SameBoxOwn

LEMMA ReturnedOwn ==
    ASSUME NEW f, NEW q \in Request, Own(q, f) PROVE Own(Returned(q), f)
<1>1. CASE q.todo # {}
  <2> DEFINE X == [q EXCEPT !.pc = "next", !.seen = None, !.copy = None, !.sid = None]
  <2>1. Returned(q) = X
    BY Zenon, <1>1 DEF Returned
  <2>2. X.pc = "next" /\ X.seen = None /\ X.copy = None /\ X.sid = None /\ X.box = q.box /\ X.snap = q.snap
    BY Zenon DEF Request
  <2> HIDE DEF X
  <2> QED BY Zenon, <2>1, <2>2, NoneGood DEF Own
<1>2. CASE q.todo = {} /\ q.op = "shutdown"
  <2>1. Returned(q) = [Idle EXCEPT !.pc = "exit", !.op = "shutdown"]
    BY Zenon, <1>2 DEF Returned
  <2> QED BY <2>1 DEF Idle, Own, Good
<1>3. CASE q.todo = {} /\ q.op # "shutdown"
  BY Zenon, <1>3, IdleOwn DEF Returned
<1> QED BY Zenon, <1>1, <1>2, <1>3

LEMMA StoppedOwn ==
    ASSUME NEW f, NEW q \in Request, Own(q, f), q.box # None PROVE Own(Stopped(q), f)
<1>1. CASE q.op = "remove"
  <2> DEFINE X == [q EXCEPT !.pc = "read", !.k = "remove2"]
  <2>1. Stopped(q) = X
    BY Zenon, <1>1 DEF Stopped
  <2>2. X.pc = "read" /\ X.seen = q.seen /\ X.copy = q.copy /\ X.sid = q.sid /\ X.box = q.box /\ X.snap = q.snap
    BY Zenon DEF Request
  <2> HIDE DEF X
  <2> QED BY Zenon, <2>1, <2>2, MovedOwn
<1>2. CASE q.op = "restore"
  <2> DEFINE X == [q EXCEPT !.pc = "restore"]
  <2>1. Stopped(q) = X
    BY Zenon, <1>2 DEF Stopped
  <2>2. X.pc = "restore" /\ X.seen = q.seen /\ X.copy = q.copy /\ X.sid = q.sid /\ X.box = q.box /\ X.snap = q.snap
    BY Zenon DEF Request
  <2> HIDE DEF X
  <2> QED BY Zenon, <2>1, <2>2, MovedOwn
<1>3. CASE q.op \notin {"remove", "restore"}
  BY Zenon, <1>3, ReturnedOwn DEF Stopped
<1> QED BY Zenon, <1>1, <1>2, <1>3

\* set_failed and mark_stopped write a record that names no sandbox.
LEMMA UnlinkingOwn ==
    ASSUME NEW f, NEW q \in Request, NEW c \in Record, Own(q, f), q.box # None
    PROVE  Own(SetFailed(q, c), f) /\ Own(MarkStopped(q, c), f)
<1> DEFINE e == MarkedFailed(c)
           s == MarkedStopped(c)
           X == [q EXCEPT !.pc = "unlink", !.seen = None, !.copy = e]
           Y == [q EXCEPT !.pc = "unlink", !.seen = None, !.copy = s]
<1>1. Good(e, q.box, f) /\ Good(s, q.box, f)
  BY Zenon DEF Record, MarkedFailed, MarkedStopped, Good
<1>2. SetFailed(q, c) = X /\ MarkStopped(q, c) = Y
  BY Zenon DEF SetFailed, MarkStopped
<1> HIDE DEF e, s
<1>3. /\ X.pc = "unlink" /\ X.seen = None /\ X.copy = e /\ X.sid = q.sid /\ X.box = q.box /\ X.snap = q.snap
      /\ Y.pc = "unlink" /\ Y.seen = None /\ Y.copy = s /\ Y.sid = q.sid /\ Y.box = q.box /\ Y.snap = q.snap
  BY Zenon DEF Request
<1> HIDE DEF X, Y
<1>4. q.sid # None => f[q.sid] = q.box
  BY Zenon DEF Own
<1> QED BY <1>1, <1>2, <1>3, <1>4, NoneGood, SameBoxOwn

\* After a write the handler keeps the copy it wrote, or drops it.
LEMMA AfterWriteOwn ==
    ASSUME NEW f, NEW q \in Request, Own(q, f), q.box # None, q.copy # None
    PROVE  Own(AfterWrite(q), f)
<1> DEFINE A == [q EXCEPT !.pc = "stats", !.k = "get"]
           B == [q EXCEPT !.pc = "read", !.k = "tail", !.copy = None]
           C == [q EXCEPT !.pc = "read", !.k = "tail_stop", !.copy = None]
           D == [q EXCEPT !.pc = "hydrate", !.k = "tail", !.seen = q.copy]
           E == [q EXCEPT !.pc = "rmdisk", !.copy = None]
           F == [q EXCEPT !.pc = "forkcopy", !.copy = None]
           G == [q EXCEPT !.copy = None, !.sid = None]
<1>1. AfterWrite(q) \in {A, B, C, D, E, F, Stopped(G), Returned(q), Idle}
  BY Zenon DEF AfterWrite
<1>2. Own(A, f)
  <2>1. A.pc = "stats" /\ A.seen = q.seen /\ A.copy = q.copy /\ A.sid = q.sid /\ A.box = q.box /\ A.snap = q.snap
    BY Zenon DEF Request
  <2> QED BY Zenon, <2>1, MovedOwn
<1>3. Own(B, f)
  <2>1. B.pc = "read" /\ B.seen = q.seen /\ B.copy = None /\ B.sid = q.sid /\ B.box = q.box /\ B.snap = q.snap
    BY Zenon DEF Request
  <2> QED BY Zenon, <2>1, MovedOwn
<1>4. Own(C, f)
  <2>1. C.pc = "read" /\ C.seen = q.seen /\ C.copy = None /\ C.sid = q.sid /\ C.box = q.box /\ C.snap = q.snap
    BY Zenon DEF Request
  <2> QED BY Zenon, <2>1, MovedOwn
<1>5. Own(D, f)
  <2>1. D.pc = "hydrate" /\ D.seen = q.copy /\ D.copy = q.copy /\ D.sid = q.sid /\ D.box = q.box /\ D.snap = q.snap
    BY Zenon DEF Request
  <2>2. Good(q.copy, q.box, f) /\ (q.sid # None => f[q.sid] = q.box)
    BY Zenon DEF Own
  <2> QED BY Zenon, <2>1, <2>2, SameBoxOwn
<1>6. Own(E, f)
  <2>1. E.pc = "rmdisk" /\ E.seen = q.seen /\ E.copy = None /\ E.sid = q.sid /\ E.box = q.box /\ E.snap = q.snap
    BY Zenon DEF Request
  <2> QED BY Zenon, <2>1, MovedOwn
<1>7. Own(F, f)
  <2>1. F.pc = "forkcopy" /\ F.seen = q.seen /\ F.copy = None /\ F.sid = q.sid /\ F.box = q.box /\ F.snap = q.snap
    BY Zenon DEF Request
  <2> QED BY Zenon, <2>1, MovedOwn
<1>8. Own(Stopped(G), f)
  <2>1. /\ G \in Request
        /\ G.pc = q.pc /\ G.seen = q.seen /\ G.copy = None /\ G.sid = None /\ G.box = q.box /\ G.snap = q.snap
    BY Zenon DEF Request
  <2>2. q.pc # "next"
    BY Zenon DEF Own
  <2>3. Own(G, f)
    BY Zenon, <2>1, <2>2, MovedOwn
  <2> QED BY Zenon, <2>1, <2>3, StoppedOwn
<1> HIDE DEF A, B, C, D, E, F, G
<1> QED BY <1>1, <1>2, <1>3, <1>4, <1>5, <1>6, <1>7, <1>8, ReturnedOwn, IdleOwn

----------------------------------------------------------------------------
(* Steps of one handler. *)

\* A step that gives its handler only what is its BOX's own.
LEMMA OwnUpdate ==
    ASSUME TypeOK, Isolated, NEW r \in Reqs, NEW X, req' = [req EXCEPT ![r] = X],
           Own(X, boxOf), boxOf' = boxOf, StoreOwn(boxOf)', ActiveOwn(boxOf)'
    PROVE  Isolated'
BY Zenon DEF TypeOK, Isolated

\* The same for a step that leaves the records and the active map alone.
LEMMA OwnMove ==
    ASSUME TypeOK, Isolated, NEW r \in Reqs, NEW X, req' = [req EXCEPT ![r] = X],
           Own(X, boxOf), boxOf' = boxOf, rec' = rec, active' = active
    PROVE  Isolated'
BY Zenon, OwnUpdate DEF Isolated, StoreOwn, ActiveOwn

\* An entry for the handler's own BOX in the active map, or none.
LEMMA ActiveUpdate ==
    ASSUME TypeOK, Isolated, NEW b \in Boxes, NEW s, s # None => boxOf[s] = b,
           active' = [active EXCEPT ![b] = s], boxOf' = boxOf
    PROVE  ActiveOwn(boxOf)'
BY Zenon DEF TypeOK, Isolated, ActiveOwn

\* A record for the handler's own BOX in the store.
LEMMA StoreUpdate ==
    ASSUME TypeOK, Isolated, NEW b \in Boxes, NEW c, Good(c, b, boxOf),
           rec' = [rec EXCEPT ![b] = c], boxOf' = boxOf
    PROVE  StoreOwn(boxOf)'
BY Zenon DEF TypeOK, Isolated, StoreOwn

LEMMA StoreSame ==
    ASSUME Isolated, rec' = rec, boxOf' = boxOf PROVE StoreOwn(boxOf)'
BY Zenon DEF Isolated, StoreOwn

LEMMA ActiveSame ==
    ASSUME Isolated, active' = active, boxOf' = boxOf PROVE ActiveOwn(boxOf)'
BY Zenon DEF Isolated, ActiveOwn

\* What a handler inside an operation on a BOX carries.
LEMMA OwnFacts ==
    ASSUME TypeOK, Isolated, NEW r \in Reqs
    PROVE  /\ req[r] \in Request /\ HandlerOK(req[r]) /\ Own(req[r], boxOf)
           /\ req[r].pc \notin NoBoxYet => req[r].box \in Boxes /\ req[r].box # None
           /\ req[r].pc \in Carrying => req[r].copy \in Record
           /\ req[r].pc \in Naming => req[r].sid \in Sandboxes /\ req[r].sid # None
BY Zenon, HandlerFacts DEF Isolated, HandlerOK

\* read_box hands over a record of the BOX it was asked for, whose sandbox
\* (the record's, else the active map's) was launched for that BOX.
LEMMA HydratedOwn ==
    ASSUME TypeOK, Isolated, NEW r \in Reqs, NEW k, ReadBox(r, k)
    PROVE  /\ req[r] \in Request /\ Own(req[r], boxOf) /\ req[r].pc = "hydrate" /\ req[r].k = k
           /\ req[r].box \in Boxes /\ req[r].box # None
           /\ Hydrated(r) \in Record
           /\ Good(Hydrated(r), req[r].box, boxOf)
           /\ SandboxFor(Hydrated(r), req[r].box) # None =>
                 boxOf[SandboxFor(Hydrated(r), req[r].box)] = req[r].box
           /\ StoreOwn(boxOf)' /\ boxOf' = boxOf
<1> DEFINE b == req[r].box
           c == Hydrated(r)
<1>1. /\ req[r].pc = "hydrate" /\ req[r].k = k /\ b \in Boxes /\ c \in Record
      /\ c.status = req[r].seen.status /\ c.sid = req[r].seen.sid /\ boxOf' = boxOf
  BY Zenon, ReadBoxFacts
<1>2. req[r] \in Request /\ Own(req[r], boxOf) /\ req[r].seen \in Record /\ b # None
  BY Zenon, <1>1, OwnFacts DEF HandlerOK
<1>3. req[r].seen # None
  BY Zenon, <1>2
<1>4. Good(c, b, boxOf)
  BY Zenon, <1>1, <1>2, <1>3 DEF Own, Good
<1>5. rec' = rec \/ rec' = [rec EXCEPT ![b] = c]
  BY Zenon DEF ReadBox
<1> HIDE DEF c
<1>6. StoreOwn(boxOf)'
  BY Zenon, <1>1, <1>4, <1>5, StoreUpdate, StoreSame
<1>7. SandboxFor(c, b) # None => boxOf[SandboxFor(c, b)] = b
  <2>1. c # None
    BY Zenon, <1>1
  <2> QED BY Zenon, <1>1, <1>4, <2>1 DEF SandboxFor, Good, Isolated, ActiveOwn
<1> QED BY Zenon, <1>1, <1>2, <1>4, <1>6, <1>7 DEF c

\* A request arrives.
LEMMA CallsOwn ==
    ASSUME TypeOK, Isolated, NEW r \in Reqs,
           Call(r) \/ CallCreate(r) \/ CallList(r) \/ CallShutdown(r)
    PROVE  Isolated'
<1>1. CASE Call(r)
  <2>1. PICK op \in Ops \cap BoxOps, b \in born, v \in Sizes :
           req' = [req EXCEPT ![r] = [Idle EXCEPT !.pc = "read", !.op = op, !.box = b, !.arg = v,
                                      !.k = IF op = "peek" THEN "tail" ELSE op]]
    BY Zenon, <1>1 DEF Call
  <2> DEFINE X == [Idle EXCEPT !.pc = "read", !.op = op, !.box = b, !.arg = v,
                               !.k = IF op = "peek" THEN "tail" ELSE op]
  <2>2. Own(X, boxOf)
    BY Zenon DEF Own, Good, Idle
  <2> HIDE DEF X
  <2> QED BY ZenonT(60), <1>1, <2>1, <2>2, OwnMove DEF Call, store, daemon, vms, X
<1>2. CASE CallCreate(r)
  <2> DEFINE X == [Idle EXCEPT !.pc = "prepare", !.op = "create", !.k = "create"]
  <2>1. req' = [req EXCEPT ![r] = X]
    BY Zenon, <1>2 DEF CallCreate
  <2>2. Own(X, boxOf)
    BY Zenon DEF Own, Good, Idle
  <2> HIDE DEF X
  <2> QED BY Zenon, <1>2, <2>1, <2>2, OwnMove DEF CallCreate, store, daemon, vms
<1>3. CASE CallList(r)
  <2> DEFINE X == [Idle EXCEPT !.pc = "next", !.op = "list", !.k = "get",
                               !.todo = {b \in Boxes : rec[b] # None}, !.snap = rec]
  <2>1. req' = [req EXCEPT ![r] = X]
    BY Zenon, <1>3 DEF CallList
  <2>2. /\ X.pc = "next" /\ X.seen = None /\ X.copy = None /\ X.sid = None /\ X.box = None
        /\ X.snap = rec
    BY Zenon DEF Idle
  <2> HIDE DEF X
  <2>3. Own(X, boxOf)
    BY Zenon, <2>2 DEF Own, Isolated, StoreOwn
  <2> QED BY Zenon, <1>3, <2>1, <2>3, OwnMove DEF CallList, store, daemon, vms
<1>4. CASE CallShutdown(r)
  <2> DEFINE ids == {b \in Boxes : active[b] # None}
             X == [Idle EXCEPT !.op = "shutdown", !.k = "shutdown",
                               !.pc = IF ids = {} THEN "exit" ELSE "next", !.todo = ids]
  <2>1. req' = [req EXCEPT ![r] = X]
    BY Zenon, <1>4 DEF CallShutdown
  <2> HIDE DEF ids
  <2>2. Own(X, boxOf)
    BY Zenon DEF Own, Good, Idle
  <2> HIDE DEF X
  <2> QED BY Zenon, <1>4, <2>1, <2>2, OwnMove DEF CallShutdown, store, daemon, vms
<1> QED BY Zenon, <1>1, <1>2, <1>3, <1>4

\* Between two BOXes a handler of list_boxes takes the snapshot of the next
\* one, a handler of shutdown_daemon nothing.
LEMMA NextBoxOwn == ASSUME TypeOK, Isolated, NEW r \in Reqs, NextBox(r) PROVE Isolated'
<1> DEFINE q == req[r]
<1>1. /\ q \in Request /\ Own(q, boxOf)
      /\ q.seen = None /\ q.copy = None /\ q.sid = None /\ q.todo \subseteq Boxes
  BY Zenon, OwnFacts DEF NextBox, At, Own, Request
<1>2. PICK b \in q.todo :
         req' = [req EXCEPT ![r] = IF q.op = "list"
             THEN [q EXCEPT !.pc = "hydrate", !.k = "get", !.box = b, !.todo = q.todo \ {b},
                            !.seen = q.snap[b], !.snap = [q.snap EXCEPT ![b] = None]]
             ELSE [q EXCEPT !.pc = "read", !.k = "shutdown", !.box = b, !.todo = q.todo \ {b}]]
  BY Zenon DEF NextBox
<1>3. b \in Boxes /\ b # None /\ Good(q.snap[b], b, boxOf) /\ \A x \in Boxes : Good(q.snap[x], x, boxOf)
  BY Zenon, <1>1, <1>2 DEF Own
<1>4. CASE q.op = "list"
  <2> DEFINE m == [q.snap EXCEPT ![b] = None]
             X == [q EXCEPT !.pc = "hydrate", !.k = "get", !.box = b, !.todo = q.todo \ {b},
                            !.seen = q.snap[b], !.snap = m]
  <2>1. \A x \in Boxes : Good(m[x], x, boxOf)
    <3>1. q.snap \in [Boxes -> Record \cup {None}]
      BY Zenon, <1>1 DEF Request
    <3> QED BY Zenon, <1>3, <3>1, NoneGood
  <2>2. req' = [req EXCEPT ![r] = X]
    BY Zenon, <1>2, <1>4
  <2> HIDE DEF m
  <2>3. X.pc = "hydrate" /\ X.seen = q.snap[b] /\ X.copy = None /\ X.sid = None /\ X.box = b /\ X.snap = m
    BY Zenon, <1>1 DEF Request
  <2> HIDE DEF X
  <2>4. Own(X, boxOf)
    BY Zenon, <1>3, <2>1, <2>3, NoneGood DEF Own
  <2> QED BY Zenon, <2>2, <2>4, OwnMove DEF NextBox, store, daemon, vms
<1>5. CASE q.op # "list"
  <2> DEFINE X == [q EXCEPT !.pc = "read", !.k = "shutdown", !.box = b, !.todo = q.todo \ {b}]
  <2>1. req' = [req EXCEPT ![r] = X]
    BY Zenon, <1>2, <1>5
  <2>2. X.pc = "read" /\ X.seen = None /\ X.copy = None /\ X.sid = None /\ X.box = b /\ X.snap = q.snap
    BY Zenon, <1>1 DEF Request
  <2> HIDE DEF X
  <2>3. Own(X, boxOf)
    BY Zenon, <1>3, <2>2, NoneGood DEF Own
  <2> QED BY ZenonT(60), <2>1, <2>3, OwnMove DEF NextBox, store, daemon, vms
<1> QED BY Zenon, <1>4, <1>5

\* BoxStore::read.
LEMMA ReadOwn == ASSUME TypeOK, Isolated, NEW r \in Reqs, Read(r) PROVE Isolated'
<1> DEFINE q == req[r]
           c == rec[q.box]
           X == [q EXCEPT !.pc = "hydrate", !.seen = c]
<1>1. q \in Request /\ Own(q, boxOf) /\ q.box \in Boxes /\ q.box # None
  BY Zenon, OwnFacts DEF Read, At, NoBoxYet
<1>2. Good(c, q.box, boxOf) /\ Good(q.copy, q.box, boxOf) /\ (q.sid # None => boxOf[q.sid] = q.box)
  BY Zenon, <1>1 DEF Isolated, StoreOwn, Own
<1>3. req' = [req EXCEPT ![r] = Idle] \/ req' = [req EXCEPT ![r] = X]
  BY Zenon DEF Read, Fail
<1> HIDE DEF c
<1>4. X.pc = "hydrate" /\ X.seen = c /\ X.copy = q.copy /\ X.sid = q.sid /\ X.box = q.box /\ X.snap = q.snap
  BY Zenon, <1>1 DEF Request
<1> HIDE DEF X
<1>5. Own(X, boxOf)
  BY Zenon, <1>1, <1>2, <1>4, SameBoxOwn
<1> QED BY Zenon, <1>3, <1>5, IdleOwn, OwnMove DEF Read, store, daemon, vms

\* The active entry is forgotten.
LEMMA UnlinkOwn == ASSUME TypeOK, Isolated, NEW r \in Reqs, Unlink(r) \/ Forget(r) PROVE Isolated'
<1> DEFINE q == req[r]
<1>1. q \in Request /\ Own(q, boxOf) /\ q.box \in Boxes /\ q.box # None
  BY Zenon, OwnFacts DEF Unlink, Forget, At, NoBoxYet
<1>2. PICK p \in {"write", "rmrec"} :
         req' = [req EXCEPT ![r].pc = p] /\ active' = [active EXCEPT ![q.box] = None]
         /\ boxOf' = boxOf /\ rec' = rec
  BY Zenon DEF Unlink, Forget, store, vms
<1> DEFINE X == [q EXCEPT !.pc = p]
<1>3. req' = [req EXCEPT ![r] = X]
  BY Zenon, <1>2
<1>4. X.pc = p /\ X.seen = q.seen /\ X.copy = q.copy /\ X.sid = q.sid /\ X.box = q.box /\ X.snap = q.snap
  BY Zenon, <1>1 DEF Request
<1> HIDE DEF X
<1>5. Own(X, boxOf)
  BY Zenon, <1>1, <1>4, MovedOwn
<1> QED BY Zenon, <1>1, <1>2, <1>3, <1>5, OwnUpdate, ActiveUpdate, StoreSame

\* BoxStore::write.
LEMMA WriteOwn == ASSUME TypeOK, Isolated, NEW r \in Reqs, Write(r) PROVE Isolated'
<1> DEFINE q == req[r]
           X == AfterWrite(q)
<1>1. q \in Request /\ Own(q, boxOf) /\ q.box \in Boxes /\ q.box # None /\ q.copy \in Record /\ q.copy # None
  BY Zenon, OwnFacts DEF Write, At, NoBoxYet, Carrying
<1>2. Good(q.copy, q.box, boxOf)
  BY Zenon, <1>1 DEF Own
<1>3. Own(X, boxOf)
  BY Zenon, <1>1, AfterWriteOwn
<1>4. req' = [req EXCEPT ![r] = X] /\ rec' = [rec EXCEPT ![q.box] = q.copy] /\ active' = active /\ boxOf' = boxOf
  BY Zenon DEF Write, daemon, vms
<1> HIDE DEF X
<1> QED BY Zenon, <1>1, <1>2, <1>3, <1>4, OwnUpdate, StoreUpdate, ActiveSame

\* The step after read_box, when the active map is left alone.
LEMMA ReadBoxOwn ==
    ASSUME TypeOK, Isolated, NEW r \in Reqs, NEW k, ReadBox(r, k), UNCHANGED daemon,
           NEW X, Own(X, boxOf), req' = [req EXCEPT ![r] = X]
    PROVE  Isolated'
<1>1. StoreOwn(boxOf)' /\ boxOf' = boxOf /\ active' = active
  BY Zenon, HydratedOwn DEF daemon
<1> QED BY Zenon, <1>1, OwnUpdate, ActiveSame

\* The handler drops the record it has read.
LEMMA DropOwn ==
    ASSUME NEW f, NEW q \in Request, Own(q, f), q.box # None, q.pc # "next"
    PROVE  /\ [q EXCEPT !.seen = None] \in Request /\ [q EXCEPT !.seen = None].box = q.box
           /\ Own([q EXCEPT !.seen = None], f)
           /\ [q EXCEPT !.seen = None, !.sid = None] \in Request
           /\ [q EXCEPT !.seen = None, !.sid = None].box = q.box
           /\ Own([q EXCEPT !.seen = None, !.sid = None], f)
<1> DEFINE X == [q EXCEPT !.seen = None]
           Y == [q EXCEPT !.seen = None, !.sid = None]
<1>1. /\ X.pc = q.pc /\ X.seen = None /\ X.copy = q.copy /\ X.sid = q.sid /\ X.box = q.box /\ X.snap = q.snap
      /\ Y.pc = q.pc /\ Y.seen = None /\ Y.copy = q.copy /\ Y.sid = None /\ Y.box = q.box /\ Y.snap = q.snap
      /\ X \in Request /\ Y \in Request
  BY Zenon DEF Request
<1> HIDE DEF X, Y
<1>2. Own(X, f) /\ Own(Y, f)
  BY Zenon, <1>1, MovedOwn
<1> QED BY Zenon, <1>1, <1>2 DEF X, Y

LEMMA TailOwn == ASSUME TypeOK, Isolated, NEW r \in Reqs, Tail(r) PROVE Isolated'
<1> DEFINE q == req[r]
<1>1. CASE ReadBox(r, "tail") /\ Return(r) /\ UNCHANGED daemon
  <2> DEFINE X == Returned(q)
  <2>1. Own(X, boxOf) /\ req' = [req EXCEPT ![r] = X]
    BY Zenon, <1>1, HydratedOwn, ReturnedOwn DEF Return
  <2> HIDE DEF X
  <2> QED BY Zenon, <1>1, <2>1, ReadBoxOwn
<1>2. CASE /\ ReadBox(r, "tail_stop") /\ UNCHANGED daemon
           /\ req' = [req EXCEPT ![r] = Stopped([@ EXCEPT !.seen = None, !.sid = None])]
  <2> DEFINE p == [q EXCEPT !.seen = None, !.sid = None]
             X == Stopped(p)
  <2>1. q \in Request /\ Own(q, boxOf) /\ q.box # None /\ q.pc # "next"
    BY Zenon, <1>2, HydratedOwn
  <2>2. p \in Request /\ p.box = q.box /\ Own(p, boxOf)
    BY Zenon, <2>1, DropOwn
  <2>3. req' = [req EXCEPT ![r] = X]
    BY Zenon, <1>2
  <2> HIDE DEF p
  <2>4. Own(X, boxOf)
    BY Zenon, <2>1, <2>2, StoppedOwn
  <2> HIDE DEF X
  <2> QED BY Zenon, <1>2, <2>3, <2>4, ReadBoxOwn
<1> QED BY Zenon, <1>1, <1>2 DEF Tail

LEMMA ForkOwn == ASSUME TypeOK, Isolated, NEW r \in Reqs, Fork(r) PROVE Isolated'
<1> DEFINE q == req[r]
           c == Hydrated(r)
           s == SandboxFor(c, q.box)
           X == [q EXCEPT !.pc = "prepare", !.seen = None]
<1>1. ReadBox(r, "fork") /\ UNCHANGED daemon
  BY Zenon DEF Fork
<1>2. /\ q \in Request /\ Own(q, boxOf) /\ q.box # None /\ q.pc = "hydrate" /\ c \in Record
      /\ Good(c, q.box, boxOf) /\ (s # None => boxOf[s] = q.box)
      /\ Good(q.copy, q.box, boxOf) /\ (q.sid # None => boxOf[q.sid] = q.box)
  BY Zenon, <1>1, HydratedOwn DEF Own
<1>3. req' = [req EXCEPT ![r] = X]
  BY Zenon DEF Fork
<1> HIDE DEF c, s
<1>4. Own(X, boxOf)
  <2>1. X.pc = "prepare" /\ X.seen = None /\ X.copy = q.copy /\ X.sid = q.sid /\ X.box = q.box /\ X.snap = q.snap
    BY Zenon, <1>2 DEF Request
  <2> HIDE DEF X
  <2> QED BY Zenon, <1>2, <2>1, NoneGood, SameBoxOwn
<1> HIDE DEF X
<1> QED BY Zenon, <1>1, <1>2, <1>3, <1>4, ReadBoxOwn

\* The sandbox whose statistics are asked for is the BOX's own.
LEMMA GetOwn == ASSUME TypeOK, Isolated, NEW r \in Reqs, Get(r) PROVE Isolated'
<1> DEFINE q == req[r]
           c == Hydrated(r)
           s == SandboxFor(c, q.box)
           R == Returned([q EXCEPT !.seen = None])
           X == [q EXCEPT !.pc = "stats", !.seen = None, !.copy = c, !.sid = s]
<1>1. ReadBox(r, "get") /\ UNCHANGED daemon
  BY Zenon DEF Get
<1>2. /\ q \in Request /\ Own(q, boxOf) /\ q.box # None /\ q.pc = "hydrate" /\ c \in Record
      /\ Good(c, q.box, boxOf) /\ (s # None => boxOf[s] = q.box)
      /\ Good(q.copy, q.box, boxOf) /\ (q.sid # None => boxOf[q.sid] = q.box)
  BY Zenon, <1>1, HydratedOwn DEF Own
<1>3. req' = [req EXCEPT ![r] = R] \/ req' = [req EXCEPT ![r] = SetFailed(q, c)] \/ req' = [req EXCEPT ![r] = X]
  BY Zenon DEF Get
<1> HIDE DEF c, s
<1>4. Own(R, boxOf)
  BY Zenon, <1>2, DropOwn, ReturnedOwn
<1>5. Own(X, boxOf)
  <2>1. X.pc = "stats" /\ X.seen = None /\ X.copy = c /\ X.sid = s /\ X.box = q.box /\ X.snap = q.snap
    BY Zenon, <1>2 DEF Request
  <2> HIDE DEF X
  <2> QED BY Zenon, <1>2, <2>1, NoneGood, SameBoxOwn
<1> HIDE DEF R, X
<1> QED BY Zenon, <1>1, <1>2, <1>3, <1>4, UnlinkingOwn, <1>5, ReadBoxOwn

LEMMA EnsureRuntimeOwn == ASSUME TypeOK, Isolated, NEW r \in Reqs, EnsureRuntime(r) PROVE Isolated'
<1> DEFINE q == req[r]
           c == Hydrated(r)
           s == SandboxFor(c, q.box)
           X == [q EXCEPT !.pc = "adopt", !.seen = None, !.copy = c, !.sid = s]
<1>1. ReadBox(r, "exec") /\ UNCHANGED daemon
  BY Zenon DEF EnsureRuntime
<1>2. /\ q \in Request /\ Own(q, boxOf) /\ q.box # None /\ q.pc = "hydrate" /\ c \in Record
      /\ Good(c, q.box, boxOf) /\ (s # None => boxOf[s] = q.box)
      /\ Good(q.copy, q.box, boxOf) /\ (q.sid # None => boxOf[q.sid] = q.box)
  BY Zenon, <1>1, HydratedOwn DEF Own
<1>3. req' = [req EXCEPT ![r] = Idle] \/ req' = [req EXCEPT ![r] = SetFailed(q, c)] \/ req' = [req EXCEPT ![r] = X]
  BY Zenon DEF EnsureRuntime
<1> HIDE DEF c, s
<1>4. Own(X, boxOf)
  <2>1. X.pc = "adopt" /\ X.seen = None /\ X.copy = c /\ X.sid = s /\ X.box = q.box /\ X.snap = q.snap
    BY Zenon, <1>2 DEF Request
  <2> HIDE DEF X
  <2> QED BY Zenon, <1>2, <2>1, NoneGood, SameBoxOwn
<1> HIDE DEF X
<1> QED BY Zenon, <1>1, <1>2, <1>3, IdleOwn, UnlinkingOwn, <1>4, ReadBoxOwn

LEMMA StartOwn == ASSUME TypeOK, Isolated, NEW r \in Reqs, Start(r) PROVE Isolated'
<1> DEFINE q == req[r]
           c == Hydrated(r)
           s == SandboxFor(c, q.box)
           X == [q EXCEPT !.pc = "create", !.seen = None, !.copy = c]
<1>1. ReadBox(r, "start") /\ UNCHANGED daemon
  BY Zenon DEF Start
<1>2. /\ q \in Request /\ Own(q, boxOf) /\ q.box # None /\ q.pc = "hydrate" /\ c \in Record
      /\ Good(c, q.box, boxOf) /\ (s # None => boxOf[s] = q.box)
      /\ Good(q.copy, q.box, boxOf) /\ (q.sid # None => boxOf[q.sid] = q.box)
  BY Zenon, <1>1, HydratedOwn DEF Own
<1>3. req' = [req EXCEPT ![r] = Idle] \/ req' = [req EXCEPT ![r] = X]
  BY Zenon DEF Start
<1> HIDE DEF c, s
<1>4. Own(X, boxOf)
  <2>1. X.pc = "create" /\ X.seen = None /\ X.copy = c /\ X.sid = q.sid /\ X.box = q.box /\ X.snap = q.snap
    BY Zenon, <1>2 DEF Request
  <2> HIDE DEF X
  <2> QED BY Zenon, <1>2, <2>1, NoneGood, SameBoxOwn
<1> HIDE DEF X
<1> QED BY Zenon, <1>1, <1>2, <1>3, IdleOwn, <1>4, ReadBoxOwn

LEMMA StopOwn == ASSUME TypeOK, Isolated, NEW r \in Reqs, Stop(r) PROVE Isolated'
<1> DEFINE q == req[r]
           c == Hydrated(r)
           s == SandboxFor(c, q.box)
           X == [q EXCEPT !.pc = "read", !.k = "running", !.seen = None, !.copy = c]
<1>1. ReadBox(r, "stop") /\ UNCHANGED daemon
  BY Zenon DEF Stop
<1>2. /\ q \in Request /\ Own(q, boxOf) /\ q.box # None /\ q.pc = "hydrate" /\ c \in Record
      /\ Good(c, q.box, boxOf) /\ (s # None => boxOf[s] = q.box)
      /\ Good(q.copy, q.box, boxOf) /\ (q.sid # None => boxOf[q.sid] = q.box)
  BY Zenon, <1>1, HydratedOwn DEF Own
<1>3. req' = [req EXCEPT ![r] = Idle] \/ req' = [req EXCEPT ![r] = X]
  BY Zenon DEF Stop
<1> HIDE DEF c, s
<1>4. Own(X, boxOf)
  <2>1. X.pc = "read" /\ X.seen = None /\ X.copy = c /\ X.sid = q.sid /\ X.box = q.box /\ X.snap = q.snap
    BY Zenon, <1>2 DEF Request
  <2> HIDE DEF X
  <2> QED BY Zenon, <1>2, <2>1, NoneGood, SameBoxOwn
<1> HIDE DEF X
<1> QED BY Zenon, <1>1, <1>2, <1>3, IdleOwn, <1>4, ReadBoxOwn

LEMMA RunningSandboxIdOwn == ASSUME TypeOK, Isolated, NEW r \in Reqs, RunningSandboxId(r) PROVE Isolated'
<1> DEFINE q == req[r]
           c == Hydrated(r)
           s == SandboxFor(c, q.box)
           X == [q EXCEPT !.pc = "adopt", !.k = "stop", !.seen = None, !.sid = s]
<1>1. ReadBox(r, "running") /\ UNCHANGED daemon
  BY Zenon DEF RunningSandboxId
<1>2. /\ q \in Request /\ Own(q, boxOf) /\ q.box # None /\ q.pc = "hydrate" /\ c \in Record
      /\ Good(c, q.box, boxOf) /\ (s # None => boxOf[s] = q.box)
      /\ Good(q.copy, q.box, boxOf) /\ (q.sid # None => boxOf[q.sid] = q.box)
  BY Zenon, <1>1, HydratedOwn DEF Own
<1>3. req' = [req EXCEPT ![r] = Idle] \/ req' = [req EXCEPT ![r] = SetFailed(q, c)] \/ req' = [req EXCEPT ![r] = X]
  BY Zenon DEF RunningSandboxId
<1> HIDE DEF c, s
<1>4. Own(X, boxOf)
  <2>1. X.pc = "adopt" /\ X.seen = None /\ X.copy = q.copy /\ X.sid = s /\ X.box = q.box /\ X.snap = q.snap
    BY Zenon, <1>2 DEF Request
  <2> HIDE DEF X
  <2> QED BY Zenon, <1>2, <2>1, NoneGood, SameBoxOwn
<1> HIDE DEF X
<1> QED BY Zenon, <1>1, <1>2, <1>3, IdleOwn, UnlinkingOwn, <1>4, ReadBoxOwn

LEMMA RestoreOwn == ASSUME TypeOK, Isolated, NEW r \in Reqs, Restore(r) PROVE Isolated'
<1> DEFINE q == req[r]
           c == Hydrated(r)
           s == SandboxFor(c, q.box)
           X == [q EXCEPT !.pc = "read", !.k = "stop", !.seen = None, !.again = TRUE]
           Y == [q EXCEPT !.pc = "restore", !.seen = None]
<1>1. ReadBox(r, "restore") /\ UNCHANGED daemon
  BY Zenon DEF Restore
<1>2. /\ q \in Request /\ Own(q, boxOf) /\ q.box # None /\ q.pc = "hydrate" /\ c \in Record
      /\ Good(c, q.box, boxOf) /\ (s # None => boxOf[s] = q.box)
      /\ Good(q.copy, q.box, boxOf) /\ (q.sid # None => boxOf[q.sid] = q.box)
  BY Zenon, <1>1, HydratedOwn DEF Own
<1>3. req' = [req EXCEPT ![r] = X] \/ req' = [req EXCEPT ![r] = Y]
  BY Zenon DEF Restore
<1> HIDE DEF c, s
<1>4. Own(X, boxOf)
  <2>1. X.pc = "read" /\ X.seen = None /\ X.copy = q.copy /\ X.sid = q.sid /\ X.box = q.box /\ X.snap = q.snap
    BY Zenon, <1>2 DEF Request
  <2> HIDE DEF X
  <2> QED BY Zenon, <1>2, <2>1, NoneGood, SameBoxOwn
<1>5. Own(Y, boxOf)
  <2>1. Y.pc = "restore" /\ Y.seen = None /\ Y.copy = q.copy /\ Y.sid = q.sid /\ Y.box = q.box /\ Y.snap = q.snap
    BY Zenon, <1>2 DEF Request
  <2> HIDE DEF Y
  <2> QED BY Zenon, <1>2, <2>1, NoneGood, SameBoxOwn
<1> HIDE DEF X, Y
<1> QED BY Zenon, <1>1, <1>2, <1>3, <1>4, <1>5, ReadBoxOwn

\* set_box_setting keeps the sandbox of the record it changes.
LEMMA SetSettingOwn == ASSUME TypeOK, Isolated, NEW r \in Reqs, SetSetting(r) PROVE Isolated'
<1> DEFINE q == req[r]
           c == Hydrated(r)
           n == [c EXCEPT !.fs = q.arg]
           p == IF q.arg = c.fs THEN "write" ELSE "resize"
           X == [q EXCEPT !.pc = p, !.seen = None, !.copy = n]
<1>1. ReadBox(r, "set") /\ UNCHANGED daemon
  BY Zenon DEF SetSetting
<1>2. /\ q \in Request /\ Own(q, boxOf) /\ q.box # None /\ c \in Record /\ c # None
      /\ Good(c, q.box, boxOf) /\ (q.sid # None => boxOf[q.sid] = q.box)
  BY Zenon, <1>1, HydratedOwn DEF Own
<1>3. req' = [req EXCEPT ![r] = Idle] \/ req' = [req EXCEPT ![r] = X]
  BY Zenon DEF SetSetting
<1> HIDE DEF c
<1>4. n.status = c.status /\ n.sid = c.sid
  BY Zenon, <1>2 DEF Record
<1>5. p # "next"
  BY Zenon
<1> HIDE DEF n, p
<1>6. Good(n, q.box, boxOf)
  BY Zenon, <1>2, <1>4 DEF Good
<1>7. X.pc = p /\ X.seen = None /\ X.copy = n /\ X.sid = q.sid /\ X.box = q.box /\ X.snap = q.snap
  BY Zenon, <1>2 DEF Request
<1> HIDE DEF X
<1>8. Own(X, boxOf)
  BY Zenon, <1>2, <1>5, <1>6, <1>7, NoneGood, SameBoxOwn
<1> QED BY Zenon, <1>1, <1>3, <1>8, IdleOwn, ReadBoxOwn

\* remove_box marks the record Removing, without a sandbox.
LEMMA RemoveOwn == ASSUME TypeOK, Isolated, NEW r \in Reqs, Remove(r) PROVE Isolated'
<1> DEFINE q == req[r]
           c == Hydrated(r)
           n == [c EXCEPT !.status = "Removing", !.sid = None]
           X == [q EXCEPT !.pc = "read", !.k = "stop", !.seen = None]
           Y == [q EXCEPT !.pc = "write", !.seen = None, !.copy = n]
<1>1. PICK k \in {"remove", "remove2"} : ReadBox(r, k) /\ UNCHANGED daemon
  BY Zenon DEF Remove
<1>2. /\ q \in Request /\ Own(q, boxOf) /\ q.box # None /\ c \in Record
      /\ Good(q.copy, q.box, boxOf) /\ (q.sid # None => boxOf[q.sid] = q.box)
  BY Zenon, <1>1, HydratedOwn DEF Own
<1>3. req' = [req EXCEPT ![r] = X] \/ req' = [req EXCEPT ![r] = Y]
  BY Zenon DEF Remove
<1> HIDE DEF c
<1>4. Good(n, q.box, boxOf)
  BY Zenon, <1>2 DEF Record, Good
<1> HIDE DEF n
<1>5. /\ X.pc = "read" /\ X.seen = None /\ X.copy = q.copy /\ X.sid = q.sid /\ X.box = q.box /\ X.snap = q.snap
      /\ Y.pc = "write" /\ Y.seen = None /\ Y.copy = n /\ Y.sid = q.sid /\ Y.box = q.box /\ Y.snap = q.snap
  BY Zenon, <1>2 DEF Request
<1> HIDE DEF X, Y
<1>6. Own(X, boxOf) /\ Own(Y, boxOf)
  BY <1>2, <1>4, <1>5, NoneGood, SameBoxOwn
<1> QED BY Zenon, <1>1, <1>3, <1>6, ReadBoxOwn

\* stop_box_for_shutdown.
LEMMA StopForShutdownOwn == ASSUME TypeOK, Isolated, NEW r \in Reqs, StopForShutdown(r) PROVE Isolated'
<1> DEFINE o == req[r]
           c == Hydrated(r)
           s == SandboxFor(c, o.box)
           q == [o EXCEPT !.seen = None]
           X == [q EXCEPT !.pc = "adopt", !.copy = c, !.sid = s]
<1>1. ReadBox(r, "shutdown")
  BY Zenon DEF StopForShutdown
<1>2. /\ o \in Request /\ Own(o, boxOf) /\ o.box \in Boxes /\ o.box # None /\ o.pc = "hydrate" /\ c \in Record
      /\ Good(c, o.box, boxOf) /\ (s # None => boxOf[s] = o.box)
      /\ StoreOwn(boxOf)' /\ boxOf' = boxOf
  BY Zenon, <1>1, HydratedOwn
<1>3. q \in Request /\ q.box = o.box /\ Own(q, boxOf) /\ q.seen = None
  BY Zenon, <1>2, DropOwn DEF Request
<1>4. \/ active' = [active EXCEPT ![o.box] = None] /\ req' = [req EXCEPT ![r] = Returned(q)]
      \/ active' = active /\ (req' = [req EXCEPT ![r] = MarkStopped(q, c)] \/ req' = [req EXCEPT ![r] = X])
  BY Zenon DEF StopForShutdown
<1> HIDE DEF c, s, q
<1>5. Own(X, boxOf)
  <2>1. X.pc = "adopt" /\ X.seen = None /\ X.copy = c /\ X.sid = s /\ X.box = q.box /\ X.snap = q.snap
    BY Zenon, <1>3 DEF Request
  <2> HIDE DEF X
  <2> QED BY <1>2, <1>3, <2>1, NoneGood, SameBoxOwn
<1>6. Own(Returned(q), boxOf) /\ Own(MarkStopped(q, c), boxOf)
  BY Zenon, <1>2, <1>3, ReturnedOwn, UnlinkingOwn
<1>7. ActiveOwn(boxOf)'
  BY Zenon, <1>2, <1>4, ActiveUpdate, ActiveSame
<1> HIDE DEF X
<1> QED BY Zenon, <1>2, <1>4, <1>5, <1>6, <1>7, OwnUpdate

----------------------------------------------------------------------------
(* Steps between reads. *)

\* create_box_record gives the handler a BOX that has no sandbox yet.
LEMMA PrepareRecordOwn ==
    ASSUME TypeOK, Isolated, NEW r \in Reqs, PrepareRecord(r) \/ PrepareRecordFails(r)
    PROVE  Isolated'
<1>1. CASE PrepareRecord(r)
  <2> DEFINE n == [status |-> "Created", sid |-> None, fs |-> DefaultSize]
  <2>1. PICK b \in Boxes \ born :
           req' = [req EXCEPT ![r] = [Idle EXCEPT !.pc = "write", !.op = req[r].op, !.k = req[r].k,
                                      !.box = b, !.copy = n]]
    BY Zenon, <1>1 DEF PrepareRecord
  <2> DEFINE X == [Idle EXCEPT !.pc = "write", !.op = req[r].op, !.k = req[r].k,
                               !.box = b, !.copy = n]
  <2>2. Good(n, b, boxOf)
    BY Zenon DEF Good
  <2> HIDE DEF n
  <2>3. /\ X.pc = "write" /\ X.seen = None /\ X.copy = n /\ X.sid = None /\ X.box = b
        /\ X.snap = [x \in Boxes |-> None]
    BY Zenon DEF Idle
  <2>4. req' = [req EXCEPT ![r] = X]
    BY Zenon, <2>1
  <2> HIDE DEF X
  <2>5. Own(X, boxOf)
    BY <2>1, <2>2, <2>3, NoneGood DEF Own
  <2> QED BY ZenonT(60), <1>1, <2>4, <2>5, OwnMove DEF PrepareRecord, daemon, vms
<1>2. CASE PrepareRecordFails(r)
  BY Zenon, <1>2, IdleOwn, OwnMove DEF PrepareRecordFails, Fail, store, daemon, vms
<1> QED BY Zenon, <1>1, <1>2

\* The handler returns, or fails.
LEMMA EndsOwn ==
    ASSUME TypeOK, Isolated, NEW r \in Reqs, ForkWorkspace(r) \/ StatsOk(r)
    PROVE  Isolated'
<1> DEFINE X == Returned(req[r])
<1>1. Own(X, boxOf)
  BY Zenon, OwnFacts, ReturnedOwn
<1>2. req' = [req EXCEPT ![r] = X] /\ rec' = rec /\ active' = active /\ boxOf' = boxOf
  BY Zenon DEF ForkWorkspace, StatsOk, Return, store, daemon, vms
<1> HIDE DEF X
<1> QED BY Zenon, <1>1, <1>2, OwnMove

LEMMA RemoveRecordOwn == ASSUME TypeOK, Isolated, NEW r \in Reqs, RemoveRecord(r) PROVE Isolated'
<1> DEFINE q == req[r]
           X == Returned(q)
<1>1. Own(X, boxOf) /\ q.box \in Boxes
  BY Zenon, OwnFacts, ReturnedOwn DEF RemoveRecord, At, NoBoxYet
<1>2. /\ req' = [req EXCEPT ![r] = X] /\ rec' = [rec EXCEPT ![q.box] = None]
      /\ active' = active /\ boxOf' = boxOf
  BY Zenon DEF RemoveRecord, Return, daemon, vms
<1> HIDE DEF X
<1> QED BY Zenon, <1>1, <1>2, NoneGood, StoreUpdate, ActiveSame, OwnUpdate

\* The handler goes on to a failure or a stop of its BOX.
LEMMA MarksOwn ==
    ASSUME TypeOK, Isolated, NEW r \in Reqs, StatsErr(r) \/ LaunchFails(r) \/ Archive(r)
    PROVE  Isolated'
<1> DEFINE q == req[r]
<1>1. q \in Request /\ Own(q, boxOf) /\ q.box # None /\ q.copy \in Record
  BY Zenon, OwnFacts DEF StatsErr, LaunchFails, Archive, At, NoBoxYet, Carrying
<1>2. /\ \/ req' = [req EXCEPT ![r] = SetFailed(q, q.copy)]
         \/ req' = [req EXCEPT ![r] = MarkStopped(q, q.copy)]
      /\ rec' = rec /\ active' = active /\ boxOf' = boxOf
  BY Zenon DEF StatsErr, LaunchFails, Archive, store, daemon, vms
<1> QED BY Zenon, <1>1, <1>2, UnlinkingOwn, OwnMove

\* The active map gets the sandbox the handler found for its BOX.
LEMMA AdoptOwn == ASSUME TypeOK, Isolated, NEW r \in Reqs, Adopt(r) PROVE Isolated'
<1> DEFINE q == req[r]
           p == IF q.k = "exec" THEN "stats" ELSE "destroy"
           X == [q EXCEPT !.pc = p]
<1>1. q \in Request /\ Own(q, boxOf) /\ q.box \in Boxes /\ q.box # None /\ boxOf[q.sid] = q.box
  BY Zenon, OwnFacts DEF Adopt, At, NoBoxYet, Naming, Own
<1>2. /\ req' = [req EXCEPT ![r] = X] /\ active' = [active EXCEPT ![q.box] = q.sid]
      /\ rec' = rec /\ boxOf' = boxOf
  BY Zenon DEF Adopt, store, vms
<1>3. p # "next"
  BY Zenon
<1> HIDE DEF p
<1>4. X.pc = p /\ X.seen = q.seen /\ X.copy = q.copy /\ X.sid = q.sid /\ X.box = q.box /\ X.snap = q.snap
  BY Zenon, <1>1 DEF Request
<1> HIDE DEF X
<1>5. Own(X, boxOf)
  BY Zenon, <1>1, <1>3, <1>4, MovedOwn
<1> QED BY Zenon, <1>1, <1>2, <1>5, ActiveUpdate, StoreSame, OwnUpdate

\* Steps that only move the handler on, or end it.
LEMMA MovesOwn ==
    ASSUME TypeOK, Isolated, NEW r \in Reqs,
           ResizeWorkspace(r) \/ Connect(r) \/ Baseline(r) \/ RemoveWorkspace(r)
    PROVE  Isolated'
<1> DEFINE q == req[r]
<1>1. q \in Request /\ Own(q, boxOf) /\ q.box # None
  BY Zenon, OwnFacts DEF ResizeWorkspace, Connect, Baseline, RemoveWorkspace, At, NoBoxYet
<1>2. rec' = rec /\ active' = active /\ boxOf' = boxOf
  BY Zenon DEF ResizeWorkspace, Connect, Baseline, RemoveWorkspace, store, daemon, vms
<1>3. CASE req' = [req EXCEPT ![r] = Idle]
  BY Zenon, <1>2, <1>3, IdleOwn, OwnMove
<1>4. ASSUME NEW p \in {"write", "baseline", "publish", "forget"}, req' = [req EXCEPT ![r].pc = p]
      PROVE  Isolated'
  <2> DEFINE X == [q EXCEPT !.pc = p]
  <2>1. req' = [req EXCEPT ![r] = X]
    BY Zenon, <1>4
  <2>2. X.pc = p /\ X.seen = q.seen /\ X.copy = q.copy /\ X.sid = q.sid /\ X.box = q.box /\ X.snap = q.snap
    BY Zenon, <1>1 DEF Request
  <2> HIDE DEF X
  <2>3. Own(X, boxOf)
    BY Zenon, <1>1, <1>4, <2>2, MovedOwn
  <2> QED BY Zenon, <1>2, <2>1, <2>3, OwnMove
<1> QED BY Zenon, <1>3, <1>4 DEF ResizeWorkspace, Connect, Baseline, RemoveWorkspace, Fail

\* The check of has_active_workspace.
LEMMA CheckWorkspaceOwn == ASSUME TypeOK, Isolated, NEW r \in Reqs, CheckWorkspace(r) PROVE Isolated'
<1> DEFINE q == req[r]
           X == [q EXCEPT !.pc = "launch"]
<1>1. q \in Request /\ Own(q, boxOf) /\ q.box # None /\ q.copy \in Record
  BY Zenon, OwnFacts DEF CheckWorkspace, At, NoBoxYet, Carrying
<1>2. /\ req' = [req EXCEPT ![r] = SetFailed(q, q.copy)] \/ req' = [req EXCEPT ![r] = X]
      /\ rec' = rec /\ active' = active /\ boxOf' = boxOf
  BY Zenon DEF CheckWorkspace, daemon, vms
<1>3. X.pc = "launch" /\ X.seen = q.seen /\ X.copy = q.copy /\ X.sid = q.sid /\ X.box = q.box /\ X.snap = q.snap
  BY Zenon, <1>1 DEF Request
<1> HIDE DEF X
<1>4. Own(X, boxOf)
  BY Zenon, <1>1, <1>3, MovedOwn
<1> QED BY Zenon, <1>1, <1>2, <1>4, UnlinkingOwn, OwnMove

\* A launch takes an id no BOX was given before, so what was a BOX's own
\* sandbox still is.
LEMMA LaunchOwn == ASSUME TypeOK, Isolated, NEW r \in Reqs, Launch(r) PROVE Isolated'
<1> DEFINE q == req[r]
<1>1. q \in Request /\ Own(q, boxOf) /\ q.box \in Boxes /\ q.box # None
  BY Zenon, OwnFacts DEF Launch, At, NoBoxYet
<1>2. PICK s \in Sandboxes :
         /\ boxOf[s] = None /\ boxOf' = [boxOf EXCEPT ![s] = q.box]
         /\ req' = [req EXCEPT ![r].pc = "connect", ![r].sid = s]
  BY Zenon DEF Launch
<1>3. rec' = rec /\ active' = active
  BY Zenon DEF Launch, store, daemon
<1>4. boxOf'[s] = q.box /\ s # None /\ \A x \in Sandboxes, b \in Boxes : boxOf[x] = b => boxOf'[x] = b
  BY Zenon, <1>1, <1>2 DEF TypeOK
<1>5. ASSUME NEW c \in Record \cup {None}, NEW b \in Boxes, Good(c, b, boxOf) PROVE Good(c, b, boxOf')
  <2>1. c # None /\ c.sid # None => c.sid \in Sandboxes
    BY Zenon, <1>5 DEF Record
  <2> QED BY Zenon, <1>4, <1>5, <2>1 DEF Good
<1>6. ASSUME NEW x \in Request, Own(x, boxOf) PROVE Own(x, boxOf')
  <2>1. /\ x.box \in Boxes \cup {None} /\ x.seen \in Record \cup {None} /\ x.copy \in Record \cup {None}
        /\ x.sid \in Sandboxes \cup {None} /\ \A b \in Boxes : x.snap[b] \in Record \cup {None}
    BY Zenon, <1>6 DEF Request
  <2> QED BY Zenon, <1>4, <1>5, <1>6, <2>1 DEF Own
<1>7. StoreOwn(boxOf') /\ StoreOwn(boxOf)'
  BY Zenon, <1>3, <1>5 DEF TypeOK, Isolated, StoreOwn
<1>8. ActiveOwn(boxOf)'
  BY <1>3, <1>4 DEF TypeOK, Isolated, ActiveOwn
<1> DEFINE X == [q EXCEPT !.pc = "connect", !.sid = s]
<1>9. req' = [req EXCEPT ![r] = X]
  BY Zenon, <1>2
<1>10. X.pc = "connect" /\ X.seen = q.seen /\ X.copy = q.copy /\ X.sid = s /\ X.box = q.box /\ X.snap = q.snap
  BY Zenon, <1>1 DEF Request
<1> HIDE DEF X
<1>11. Own(X, boxOf')
  <2>1. Own(q, boxOf')
    BY Zenon, <1>1, <1>6
  <2>2. Good(q.seen, q.box, boxOf') /\ Good(q.copy, q.box, boxOf')
    BY Zenon, <1>1, <2>1 DEF Own
  <2> QED BY Zenon, <1>1, <1>4, <1>10, <2>1, <2>2, SameBoxOwn
<1>12. \A p \in Reqs : Own(req'[p], boxOf')
  BY Zenon, <1>6, <1>9, <1>11 DEF TypeOK, Isolated
<1> QED BY Zenon, <1>7, <1>8, <1>12 DEF Isolated

\* A boot that fails gives its sandbox up.
LEMMA BootFailsOwn == ASSUME TypeOK, Isolated, NEW r \in Reqs, BootFails(r) PROVE Isolated'
<1> DEFINE q == req[r]
           p == [q EXCEPT !.sid = None]
           X == SetFailed(p, q.copy)
<1>1. q \in Request /\ Own(q, boxOf) /\ q.box # None /\ q.copy \in Record /\ q.pc # "next"
  BY Zenon, OwnFacts DEF BootFails, At, NoBoxYet, Carrying
<1>2. req' = [req EXCEPT ![r] = X] /\ rec' = rec /\ active' = active /\ boxOf' = boxOf
  BY Zenon DEF BootFails, DropInstance, store, daemon
<1>3. p \in Request /\ p.pc = q.pc /\ p.seen = q.seen /\ p.copy = q.copy /\ p.sid = None /\ p.box = q.box /\ p.snap = q.snap
  BY Zenon, <1>1 DEF Request
<1> HIDE DEF p
<1>4. Own(p, boxOf)
  BY Zenon, <1>1, <1>3, MovedOwn
<1>5. Own(X, boxOf)
  BY Zenon, <1>1, <1>3, <1>4, UnlinkingOwn
<1> HIDE DEF X
<1> QED BY Zenon, <1>2, <1>5, OwnMove

\* start_box publishes the sandbox it launched.
LEMMA PublishOwn == ASSUME TypeOK, Isolated, NEW r \in Reqs, Publish(r) PROVE Isolated'
<1> DEFINE q == req[r]
           n == [q.copy EXCEPT !.status = "Running", !.sid = q.sid]
           X == [q EXCEPT !.pc = "write", !.copy = n]
<1>1. /\ q \in Request /\ Own(q, boxOf) /\ q.box \in Boxes /\ q.box # None /\ q.copy \in Record
      /\ q.sid # None /\ boxOf[q.sid] = q.box /\ Good(q.seen, q.box, boxOf)
  BY Zenon, OwnFacts DEF Publish, At, NoBoxYet, Carrying, Naming, Own
<1>2. /\ req' = [req EXCEPT ![r] = X] /\ active' = [active EXCEPT ![q.box] = q.sid]
      /\ rec' = rec /\ boxOf' = boxOf
  BY Zenon DEF Publish, store, vms
<1>3. n.sid = q.sid
  BY Zenon, <1>1 DEF Record
<1>4. Good(n, q.box, boxOf)
  BY Zenon, <1>1, <1>3 DEF Good
<1> HIDE DEF n
<1>5. X.pc = "write" /\ X.seen = q.seen /\ X.copy = n /\ X.sid = q.sid /\ X.box = q.box /\ X.snap = q.snap
  BY Zenon, <1>1 DEF Request
<1> HIDE DEF X
<1>6. Own(X, boxOf)
  BY Zenon, <1>1, <1>4, <1>5, SameBoxOwn
<1> QED BY Zenon, <1>1, <1>2, <1>6, ActiveUpdate, StoreSame, OwnUpdate

\* destroy_sandbox.
LEMMA DestroyOwn == ASSUME TypeOK, Isolated, NEW r \in Reqs, Destroy(r) PROVE Isolated'
<1> DEFINE q == req[r]
           k == IF q.k = "stop" THEN "missing" ELSE q.k
           p == [q EXCEPT !.k = k]
           X == [q EXCEPT !.pc = "teardown"]
<1>1. q \in Request /\ Own(q, boxOf) /\ q.box # None /\ q.copy \in Record /\ q.pc # "next"
  BY Zenon, OwnFacts DEF Destroy, At, NoBoxYet, Carrying
<1>2. /\ \/ req' = [req EXCEPT ![r] = MarkStopped(q, q.copy)]
         \/ req' = [req EXCEPT ![r] = X]
         \/ req' = [req EXCEPT ![r] = MarkStopped(p, q.copy)]
      /\ rec' = rec /\ active' = active /\ boxOf' = boxOf
  BY Zenon DEF Destroy, store, vms
<1>3. k \in Sites
  BY Zenon, <1>1 DEF Request, Sites
<1> HIDE DEF k
<1>4. p \in Request /\ p.pc = q.pc /\ p.seen = q.seen /\ p.copy = q.copy /\ p.sid = q.sid /\ p.box = q.box /\ p.snap = q.snap
  BY Zenon, <1>1, <1>3 DEF Request
<1>5. X.pc = "teardown" /\ X.seen = q.seen /\ X.copy = q.copy /\ X.sid = q.sid /\ X.box = q.box /\ X.snap = q.snap
  BY Zenon, <1>1 DEF Request
<1> HIDE DEF p, X
<1>6. Own(p, boxOf) /\ Own(X, boxOf)
  BY Zenon, <1>1, <1>4, <1>5, MovedOwn
<1>7. Own(MarkStopped(q, q.copy), boxOf) /\ Own(MarkStopped(p, q.copy), boxOf)
  BY Zenon, <1>1, <1>4, <1>6, UnlinkingOwn
<1> QED BY Zenon, <1>2, <1>6, <1>7, OwnMove

LEMMA TeardownOwn == ASSUME TypeOK, Isolated, NEW r \in Reqs, Teardown(r) PROVE Isolated'
<1> DEFINE q == req[r]
           X == [q EXCEPT !.pc = "archive"]
<1>1. q \in Request /\ Own(q, boxOf) /\ q.box # None /\ q.copy \in Record
  BY Zenon, OwnFacts DEF Teardown, At, NoBoxYet, Carrying
<1>2. /\ req' = [req EXCEPT ![r] = SetFailed(q, q.copy)] \/ req' = [req EXCEPT ![r] = X]
      /\ rec' = rec /\ active' = active /\ boxOf' = boxOf
  BY Zenon DEF Teardown, DropInstance, store, daemon
<1>3. X.pc = "archive" /\ X.seen = q.seen /\ X.copy = q.copy /\ X.sid = q.sid /\ X.box = q.box /\ X.snap = q.snap
  BY Zenon, <1>1 DEF Request
<1> HIDE DEF X
<1>4. Own(X, boxOf)
  BY Zenon, <1>1, <1>3, MovedOwn
<1> QED BY <1>1, <1>2, <1>4, UnlinkingOwn, OwnMove

\* restore_checkpoint.
LEMMA RestoreCheckpointOwn == ASSUME TypeOK, Isolated, NEW r \in Reqs, RestoreCheckpoint(r) PROVE Isolated'
<1> DEFINE q == req[r]
           X == [q EXCEPT !.pc = "read", !.k = "start"]
<1>1. q \in Request /\ Own(q, boxOf) /\ q.box # None
  BY Zenon, OwnFacts DEF RestoreCheckpoint, At, NoBoxYet
<1>2. /\ \/ req' = [req EXCEPT ![r] = X]
         \/ req' = [req EXCEPT ![r] = Returned(q)]
         \/ req' = [req EXCEPT ![r] = Idle]
      /\ rec' = rec /\ active' = active /\ boxOf' = boxOf
  BY Zenon DEF RestoreCheckpoint, Fail, daemon, vms
<1>3. X.pc = "read" /\ X.seen = q.seen /\ X.copy = q.copy /\ X.sid = q.sid /\ X.box = q.box /\ X.snap = q.snap
  BY Zenon, <1>1 DEF Request
<1> HIDE DEF X
<1>4. Own(X, boxOf)
  BY Zenon, <1>1, <1>3, MovedOwn
<1> QED BY Zenon, <1>1, <1>2, <1>4, ReturnedOwn, IdleOwn, OwnMove

\* The next daemon reads the records back, and starts with no handler.
LEMMA NewDaemonOwn == ASSUME TypeOK, Isolated, NewDaemon PROVE Isolated'
<1>1. ASSUME NEW b \in Boxes PROVE Good(rec'[b], b, boxOf)
  <2>1. CASE rec[b] = None
    BY Zenon, <2>1, NoneGood DEF NewDaemon
  <2>2. CASE rec[b] # None
    <3> DEFINE c == rec[b]
               n == Normalized(c, b)
    <3>1. c \in Record /\ Good(c, b, boxOf)
      BY Zenon, <2>2 DEF TypeOK, Isolated, StoreOwn
    <3>2. n \in Record /\ n.status = c.status /\ n.sid = c.sid
      BY Zenon, <3>1, NormalizedTyped
    <3>3. rec'[b] = IF n.status = "Running" THEN [n EXCEPT !.status = "Failed"] ELSE n
      BY Zenon, <2>2 DEF NewDaemon, Reconciled
    <3> HIDE DEF n
    <3>4. rec'[b].sid = c.sid /\ rec'[b].status # "Running"
      BY Zenon, <3>2, <3>3 DEF Record
    <3> QED BY Zenon, <2>2, <3>1, <3>4 DEF Good
  <2> QED BY Zenon, <2>1, <2>2
<1>2. boxOf' = boxOf /\ \A b \in Boxes : active'[b] = None
  BY Zenon DEF NewDaemon
<1>3. \A r \in Reqs : req'[r] = Idle
  BY Zenon DEF NewDaemon
<1> QED BY Zenon, <1>1, <1>2, <1>3, IdleOwn DEF Isolated, StoreOwn, ActiveOwn

----------------------------------------------------------------------------
(* The invariant. *)

LEMMA InitOwn == Init => Isolated
<1> SUFFICES ASSUME Init PROVE Isolated
  BY Zenon
<1>1. /\ \A b \in Boxes : rec[b] = None /\ active[b] = None
      /\ \A r \in Reqs : req[r] = Idle
  BY Zenon DEF Init
<1> QED BY Zenon, <1>1, NoneGood, IdleOwn DEF Isolated, StoreOwn, ActiveOwn

\* Every step keeps each BOX to its own sandboxes.
LEMMA NextOwn == TypeOK /\ Isolated /\ [Next]_vars => Isolated'
<1> SUFFICES ASSUME TypeOK, Isolated, [Next]_vars PROVE Isolated'
  BY Zenon
<1>1. ASSUME NEW r \in Reqs, Call(r) \/ CallCreate(r) \/ CallList(r) \/ CallShutdown(r) PROVE Isolated'
  BY Zenon, <1>1, CallsOwn
<1>2. ASSUME NEW r \in Reqs,
             NextBox(r) \/ Read(r) \/ Unlink(r) \/ Forget(r) \/ Write(r) \/ Tail(r) \/ Fork(r)
      PROVE  Isolated'
  BY Zenon, <1>2, NextBoxOwn, ReadOwn, UnlinkOwn, WriteOwn, TailOwn, ForkOwn
<1>3. ASSUME NEW r \in Reqs,
             \/ Get(r) \/ EnsureRuntime(r) \/ Start(r) \/ Stop(r) \/ RunningSandboxId(r)
             \/ Restore(r) \/ SetSetting(r) \/ Remove(r) \/ StopForShutdown(r)
      PROVE  Isolated'
  BY Zenon, <1>3, GetOwn, EnsureRuntimeOwn, StartOwn, StopOwn, RunningSandboxIdOwn,
     RestoreOwn, SetSettingOwn, RemoveOwn, StopForShutdownOwn
<1>4. ASSUME NEW r \in Reqs,
             \/ PrepareRecord(r) \/ PrepareRecordFails(r) \/ ForkWorkspace(r) \/ StatsOk(r)
             \/ RemoveRecord(r) \/ StatsErr(r) \/ LaunchFails(r) \/ Archive(r) \/ Adopt(r)
             \/ ResizeWorkspace(r) \/ Connect(r) \/ Baseline(r) \/ RemoveWorkspace(r)
      PROVE  Isolated'
  BY Zenon, <1>4, PrepareRecordOwn, EndsOwn, RemoveRecordOwn, MarksOwn, AdoptOwn, MovesOwn
<1>5. ASSUME NEW r \in Reqs,
             \/ CheckWorkspace(r) \/ Launch(r) \/ BootFails(r) \/ Publish(r)
             \/ Destroy(r) \/ Teardown(r) \/ RestoreCheckpoint(r)
      PROVE  Isolated'
  BY Zenon, <1>5, CheckWorkspaceOwn, LaunchOwn, BootFailsOwn, PublishOwn, DestroyOwn, TeardownOwn,
     RestoreCheckpointOwn
<1>6. ASSUME NEW r \in Reqs, Exit(r) PROVE Isolated'
  BY Zenon, <1>6, NewDaemonOwn DEF Exit
<1>7. CASE Crash
  BY Zenon, <1>7, NewDaemonOwn DEF Crash
<1>8. CASE UNCHANGED <<rec, active, boxOf, req>>
  BY Zenon, <1>8 DEF Isolated, StoreOwn, ActiveOwn
<1>9. ASSUME NEW s \in Sandboxes, VmDies(s) \/ VmHangs(s) PROVE Isolated'
  BY Zenon, <1>8, <1>9 DEF VmDies, VmHangs, DropInstance, store, daemon
<1>10. CASE UNCHANGED vars
  BY Zenon, <1>8, <1>10 DEF vars, store, daemon, vms
<1> QED BY Zenon, <1>1, <1>2, <1>3, <1>4, <1>5, <1>6, <1>7, <1>9, <1>10 DEF Next, Progress

LEMMA IsolatedAlways == Spec => []Isolated
BY InitOwn, NextOwn, TypeCorrect, PTL DEF Spec

\* Whatever the handlers' reads and writes interleave, no record, active entry
\* or handler of one BOX refers to a sandbox of another.
THEOREM BoxesAreIsolated == Spec => []SandboxIsolation
<1>1. TypeOK /\ Isolated => SandboxIsolation
  BY Zenon DEF Isolated, StoreOwn, ActiveOwn, Own, Good, SandboxIsolation, OwnSandbox
<1> QED BY <1>1, IsolatedAlways, TypeCorrect, PTL

\* A record that says Running names its sandbox, so ensure_runtime,
\* running_sandbox_id and attach_runtime_usage never miss one.
THEOREM RunningIsNamed == Spec => []RunningNamesSandbox
<1>1. TypeOK /\ Isolated => RunningNamesSandbox
  BY Zenon DEF Isolated, StoreOwn, Own, Good, RunningNamesSandbox
<1> QED BY <1>1, IsolatedAlways, TypeCorrect, PTL
=============================================================================
