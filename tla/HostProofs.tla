----------------------------- MODULE HostProofs -----------------------------
(***************************************************************************)
(* What the modules of the host's files promise (Admins, Update, Lineage), *)
(* for every value of their constants.                                     *)
(*                                                                         *)
(* Admins: the inductive invariant adds to the properties that file_lock   *)
(* does its work: whoever is between its read and its write is alone, and  *)
(* what it read is still what the file says.                               *)
(*                                                                         *)
(* Update: processes that run have different ids, a staging name begins    *)
(* with the id of the process it belongs to, and how far an updater is     *)
(* tells what is true of its staged file.                                  *)
(*                                                                         *)
(* Lineage: nothing locks the store, so for any number of requests it is   *)
(* shown only that checkpoints stay in the order they were made in and in  *)
(* their workspaces (StoreInv); that files are whole needs one request at  *)
(* a time (SoloInv), as the model's properties say.                        *)
(***************************************************************************)
EXTENDS Admins, Lineage, Update, FiniteSetTheorems, TLAPS

-----------------------------------------------------------------------------
(* Admins *)

\* file_lock: a request in progress holds it, and its copy of the registry is current.
Exclusive ==
  \A c \in Conns :
    /\ conn[c].op # "none" => up
    /\ conn[c].op \in {"login", "add", "remove"} =>
         lock = c /\ conn[c].reg = file /\ file \in Registry
    /\ conn[c].op \in {"login", "remove", "answer"} => conn[c].id \in Ids

\* A registry that was ever written to has an active admin.
Inhabited ==
  file # Torn =>
    /\ up => Active(file) # {}
    /\ (\E a \in Ids : file[a] = "inactive") => Active(file) # {}

\* The credentials clients have, and those on their way to one, are registered.
Registered ==
  file # Torn =>
    /\ \A a \in given \ {Root} : file[a] = IF a \in removed THEN "inactive" ELSE "active"
    /\ \A c \in Conns : conn[c].op = "answer" =>
         file[conn[c].id] = IF conn[c].id \in removed THEN "inactive" ELSE "active"
    /\ \A a \in removed : file[a] = "inactive"

IInv == TypeOK /\ Exclusive /\ Inhabited /\ Registered

LEMMA InitInv == Init => IInv
<1> SUFFICES ASSUME Init PROVE IInv
  BY Zenon
<1> USE RootAssumption, NoneAssumption, TornAssumption DEF Init
<1>1. TypeOK
  BY Zenon DEF TypeOK, Registry, Connection, Session, Open, Closed
<1>2. Exclusive
  BY Zenon DEF Exclusive, Session, Open, Closed
<1>3. Inhabited
  BY Zenon DEF Inhabited
<1>4. Registered
  BY Zenon DEF Registered, Session, Open, Closed
<1> QED BY Zenon, <1>1, <1>2, <1>3, <1>4 DEF IInv

\* Every action keeps the invariant.
LEMMA StepInv == IInv /\ [Next]_vars => IInv'
<1> SUFFICES ASSUME IInv, [Next]_vars PROVE IInv'
  BY Zenon
<1> USE RootAssumption, NoneAssumption, TornAssumption DEF IInv
<1>1. CASE Bootstrap
  <2>1. TypeOK'
    BY Zenon, <1>1 DEF TypeOK, Bootstrap, Registry
  <2>2. Exclusive'
    BY Zenon, <1>1 DEF Exclusive, Bootstrap
  <2>3. Inhabited'
    BY Zenon, <1>1 DEF TypeOK, Inhabited, Bootstrap, Registry, Active
  <2>4. Registered'
    BY Zenon, <1>1 DEF TypeOK, Registered, Inhabited, Exclusive, Bootstrap, Registry
  <2> QED BY Zenon, <2>1, <2>2, <2>3, <2>4
<1>2. CASE Crash
  <2>1. TypeOK'
    BY Zenon, <1>2 DEF TypeOK, Crash, Session, Open, Closed, Connection
  <2>2. \A c \in Conns : conn'[c].op = "none"
    BY Zenon, <1>2 DEF Crash, Session, Open, Closed
  <2>3. Exclusive'
    BY Zenon, <2>2 DEF Exclusive
  <2>4. Inhabited'
    BY Zenon, <1>2 DEF Inhabited, Crash, Active
  <2>5. Registered'
    BY Zenon, <1>2, <2>2 DEF Registered, Crash
  <2> QED BY <2>1, <2>3, <2>4, <2>5
<1>3. ASSUME NEW c \in Conns, NEW op \in {"login", "add", "remove"},
             NEW id \in Ids \cup {None}, op # "add" => id \in Ids, Begin(c, op, id)
      PROVE IInv'
  <2>1. conn' = [conn EXCEPT ![c] = [who |-> conn[c].who, op |-> op, id |-> id, reg |-> file]]
    BY Zenon, <1>3 DEF Begin, Session
  <2>2. TypeOK'
    BY <1>3, <2>1 DEF Begin, TypeOK, Connection
  <2>3. Exclusive'
    BY <1>3, <2>1 DEF Begin, TypeOK, Exclusive
  <2>4. Inhabited'
    BY Zenon, <1>3 DEF Begin, Inhabited, Active
  <2>5. Registered'
    BY <1>3, <2>1 DEF Begin, TypeOK, Registered
  <2> QED BY Zenon, <2>2, <2>3, <2>4, <2>5
<1>4. ASSUME NEW c \in Conns, Login(c) PROVE IInv'
  <2>1. file' = file /\ up' = up /\ lock = c /\ lock' = None /\ given' = given /\ removed' = removed
    BY Zenon, <1>4 DEF Login, Exclusive
  <2>2. conn[c].id \in Ids
    BY Zenon, <1>4 DEF Login, Exclusive
  <2>3. PICK w \in Ids \cup {None} :
          conn' = [conn EXCEPT ![c] = [who |-> w, op |-> "none", id |-> None, reg |-> Torn]]
    <3>1. conn' = [conn EXCEPT ![c] = Open(None)] \/ conn' = [conn EXCEPT ![c] = Open(conn[c].id)]
      BY Zenon, <1>4 DEF Login, Closed
    <3> QED BY Zenon, <2>2, <3>1 DEF Session, Open
  <2>4. TypeOK'
    BY Zenon, <2>1, <2>3 DEF TypeOK, Connection
  <2>5. Exclusive'
    BY Zenon, <2>1, <2>3 DEF TypeOK, Exclusive
  <2>6. Inhabited'
    BY Zenon, <2>1 DEF Inhabited, Active
  <2>7. Registered'
    BY Zenon, <2>1, <2>3 DEF TypeOK, Registered
  <2> QED BY Zenon, <2>4, <2>5, <2>6, <2>7
<1>5. ASSUME NEW c \in Conns, AddAdmin(c) PROVE IInv'
  <2>1. lock = c /\ file \in Registry /\ conn[c].reg = file
    BY Zenon, <1>5 DEF AddAdmin, Exclusive
  <2>2. PICK a \in Ids \ {Root} :
          /\ file[a] = "none"
          /\ file' = [file EXCEPT ![a] = "active"]
          /\ conn' = [conn EXCEPT ![c] = Session(conn[c].who, "answer", a, Torn)]
    BY Zenon, <1>5, <2>1 DEF AddAdmin
  <2>3. conn' = [conn EXCEPT ![c] = [who |-> conn[c].who, op |-> "answer", id |-> a, reg |-> Torn]]
    BY Zenon, <2>2 DEF Session
  <2>4. up' = up /\ lock' = None /\ given' = given /\ removed' = removed
    BY Zenon, <1>5 DEF AddAdmin
  <2>5. TypeOK'
    BY <2>1, <2>2, <2>3, <2>4 DEF TypeOK, Connection, Registry
  <2>6. Exclusive'
    <3>1. up
      BY Zenon, <1>5 DEF AddAdmin, Exclusive
    <3>2. conn'[c].op = "answer" /\ conn'[c].id \in Ids
      BY Zenon, <2>3 DEF TypeOK
    <3>3. ASSUME NEW d \in Conns, d # c
          PROVE conn'[d] = conn[d] /\ conn[d].op \notin {"login", "add", "remove"}
      BY Zenon, <2>1, <2>3, <3>3 DEF TypeOK, Exclusive
    <3> QED BY Zenon, <2>4, <3>1, <3>2, <3>3 DEF Exclusive
  <2>7. Inhabited'
    BY Zenon, <2>1, <2>2, <2>4 DEF Inhabited, Active, Registry
  <2>8. file # Torn /\ file' # Torn
    BY Zenon, <2>1, <2>2 DEF Registry
  <2>9. a \notin removed /\ a \notin given \ {Root}
    BY Zenon, <2>2, <2>8 DEF Registered
  <2>10. Registered'
    BY <2>1, <2>2, <2>3, <2>4, <2>8, <2>9 DEF TypeOK, Registered, Registry, Exclusive
  <2> QED BY Zenon, <2>5, <2>6, <2>7, <2>10
<1>6. ASSUME NEW c \in Conns, RemoveAdmin(c) PROVE IInv'
  <2>1. lock = c /\ file \in Registry /\ conn[c].reg = file /\ conn[c].id \in Ids
    BY Zenon, <1>6 DEF RemoveAdmin, Exclusive
  <2>2. up' = up /\ lock' = None /\ given' = given
    BY Zenon, <1>6 DEF RemoveAdmin
  <2>3. PICK w \in Ids \cup {None} :
          conn' = [conn EXCEPT ![c] = [who |-> w, op |-> "none", id |-> None, reg |-> Torn]]
    <3>1. conn[c].who \in Ids \cup {None}
      BY Zenon DEF TypeOK, Connection
    <3>2. conn' = [conn EXCEPT ![c] = Open(None)] \/ conn' = [conn EXCEPT ![c] = Open(conn[c].who)]
      BY Zenon, <1>6 DEF RemoveAdmin, Closed
    <3> QED BY Zenon, <3>1, <3>2 DEF Session, Open
  <2>4. Exclusive'
    BY Zenon, <2>1, <2>2, <2>3 DEF TypeOK, Exclusive
  <2>5. CASE Removable(conn[c].id, file)
    <3> DEFINE a == conn[c].id
    <3>1. file' = [file EXCEPT ![a] = "inactive"] /\ removed' = removed \cup {a}
      BY Zenon, <1>6, <2>1, <2>5 DEF RemoveAdmin
    <3>2. PICK b \in Active(file) : b # a
      BY Zenon, <2>5 DEF Removable
    <3>3. file # Torn /\ file' # Torn
      BY Zenon, <2>1, <3>1 DEF Registry
    <3>4. TypeOK'
      BY Zenon, <2>1, <2>2, <2>3, <3>1 DEF TypeOK, Connection, Registry
    <3>5. b \in Active(file')
      BY Zenon, <2>1, <3>1, <3>2 DEF Active, Registry
    <3>6. Inhabited'
      BY Zenon, <3>5 DEF Inhabited
    <3>7. \A d \in Conns : conn'[d].op = "answer" => d # c /\ conn'[d] = conn[d] /\ conn[d].id \in Ids
      BY Zenon, <2>3 DEF TypeOK, Exclusive
    <3>8. Registered'
      <4>1. \A x \in Ids : file'[x] = IF x = a THEN "inactive" ELSE file[x]
        BY Zenon, <2>1, <3>1 DEF Registry
      <4>2. removed' = removed \cup {a}
        BY Zenon, <3>1
      <4> HIDE DEF a
      <4>3. \A x \in given' \ {Root} :
              file'[x] = IF x \in removed' THEN "inactive" ELSE "active"
        BY Zenon, <2>2, <3>3, <4>1, <4>2 DEF Registered, TypeOK
      <4>4. \A d \in Conns : conn'[d].op = "answer" =>
              file'[conn'[d].id] = IF conn'[d].id \in removed' THEN "inactive" ELSE "active"
        BY <3>3, <3>7, <4>1, <4>2 DEF Registered
      <4>5. \A x \in removed' : file'[x] = "inactive"
        <5>1. a \in Ids
          BY Zenon, <2>1 DEF a
        <5> QED BY Zenon, <3>3, <4>1, <4>2, <5>1 DEF Registered, TypeOK
      <4> QED BY Zenon, <4>3, <4>4, <4>5 DEF Registered
    <3> QED BY Zenon, <2>4, <3>4, <3>6, <3>8
  <2>6. CASE ~Removable(conn[c].id, file)
    <3>1. file' = file /\ removed' = removed
      BY Zenon, <1>6, <2>1, <2>6 DEF RemoveAdmin
    <3>2. TypeOK'
      BY Zenon, <2>2, <2>3, <3>1 DEF TypeOK, Connection
    <3>3. Inhabited'
      BY Zenon, <2>2, <3>1 DEF Inhabited, Active
    <3>4. Registered'
      BY Zenon, <2>2, <2>3, <3>1 DEF TypeOK, Registered
    <3> QED BY Zenon, <2>4, <3>2, <3>3, <3>4
  <2> QED BY Zenon, <2>5, <2>6
<1>7. ASSUME NEW c \in Conns, Answer(c) PROVE IInv'
  <2>1. file' = file /\ up' = up /\ lock' = lock /\ removed' = removed /\ conn[c].id \in Ids
    BY Zenon, <1>7 DEF Answer, Exclusive
  <2>2. given' \subseteq given \cup {conn[c].id} /\ given' \subseteq Ids
    BY Zenon, <1>7, <2>1 DEF Answer, TypeOK
  <2>3. PICK w \in Ids \cup {None} :
          conn' = [conn EXCEPT ![c] = [who |-> w, op |-> "none", id |-> None, reg |-> Torn]]
    BY Zenon, <1>7 DEF Answer, Session, Open, Closed, TypeOK, Connection
  <2>4. TypeOK'
    BY Zenon, <2>1, <2>2, <2>3 DEF TypeOK, Connection
  <2>5. Exclusive'
    BY Zenon, <2>1, <2>3 DEF TypeOK, Exclusive
  <2>6. Inhabited'
    BY Zenon, <2>1 DEF Inhabited, Active
  <2>7. Registered'
    BY <1>7, <2>1, <2>2, <2>3 DEF TypeOK, Registered, Answer
  <2> QED BY <2>4, <2>5, <2>6, <2>7
<1>8. ASSUME NEW c \in Conns, Disconnect(c) PROVE IInv'
  <2>1. conn' = [conn EXCEPT ![c] = [who |-> None, op |-> "none", id |-> None, reg |-> Torn]]
    BY Zenon, <1>8 DEF Disconnect, Session, Open, Closed
  <2>2. TypeOK'
    BY <1>8, <2>1 DEF Disconnect, TypeOK, Connection
  <2>3. Exclusive'
    BY <1>8, <2>1 DEF Disconnect, TypeOK, Exclusive
  <2>4. Inhabited'
    BY Zenon, <1>8 DEF Disconnect, Inhabited, Active
  <2>5. Registered'
    BY <1>8, <2>1 DEF Disconnect, TypeOK, Registered
  <2> QED BY Zenon, <2>2, <2>3, <2>4, <2>5
<1>9. ASSUME NEW c \in Conns, WriteFails(c) PROVE IInv'
  <2>1. lock = c /\ lock' = None /\ file' = Torn /\ UNCHANGED <<up, given, removed>>
    BY Zenon, <1>9 DEF WriteFails, Writes, Exclusive
  <2>2. PICK w \in Ids \cup {None} :
          conn' = [conn EXCEPT ![c] = [who |-> w, op |-> "none", id |-> None, reg |-> Torn]]
    <3>1. conn[c].who \in Ids \cup {None}
      BY DEF TypeOK, Connection
    <3>2. conn' = [conn EXCEPT ![c] = Open(None)] \/ conn' = [conn EXCEPT ![c] = Open(conn[c].who)]
      BY Zenon, <1>9 DEF WriteFails, Closed
    <3> QED BY <3>1, <3>2 DEF Session, Open
  <2>3. TypeOK'
    BY Zenon, <2>1, <2>2 DEF TypeOK, Connection
  <2>4. Exclusive'
    BY Zenon, <2>1, <2>2 DEF TypeOK, Exclusive
  <2>5. Inhabited' /\ Registered'
    BY Zenon, <2>1 DEF Inhabited, Registered
  <2> QED BY Zenon, <2>3, <2>4, <2>5
<1>10. CASE UNCHANGED vars
  BY Zenon, <1>10 DEF vars, TypeOK, Exclusive, Inhabited, Registered, Active
<1>11. ASSUME NEW c \in Conns, Authenticate(c) PROVE IInv'
  BY Zenon, <1>3, <1>11 DEF Authenticate, TypeOK
<1>12. ASSUME NEW c \in Conns, AdminAdd(c) PROVE IInv'
  BY Zenon, <1>3, <1>12 DEF AdminAdd
<1>13. ASSUME NEW c \in Conns, AdminRemoveMe(c) PROVE IInv'
  <2>1. conn[c].who \in Ids
    BY Zenon, <1>13 DEF AdminRemoveMe, TypeOK, Connection
  <2> QED BY Zenon, <1>3, <1>13, <2>1 DEF AdminRemoveMe
<1> QED
  BY Zenon, <1>1, <1>2, <1>4, <1>5, <1>6, <1>7, <1>8, <1>10, <1>11, <1>12, <1>13, <1>9 DEF Next

LEMMA Invariance == Spec => []IInv
<1> QED BY InitInv, StepInv, PTL DEF Spec

\* A registry that can be read has an active admin, and no read-modify-write of
\* it undoes another one.
THEOREM RegistryKept == Spec => []RegistryIsKept
<1>1. IInv => LastAdminStays
  BY Zenon DEF IInv, Inhabited, LastAdminStays
<1>2. IInv => NoLostUpdate
  BY Zenon DEF IInv, Registered, NoLostUpdate
<1>3. IInv => RegistryIsKept
  BY Zenon, <1>1, <1>2 DEF RegistryIsKept
<1> QED BY <1>3, Invariance, PTL

\* A removed admin is never active again, across crashes and restarts.
THEOREM RemovalsAreFinal == Spec => RemovalIsFinal
<1>1. ASSUME IInv, [Next]_vars, NEW a \in Ids, file # Torn, file' # Torn, file[a] = "inactive"
      PROVE file'[a] = "inactive"
  <2> USE <1>1, TornAssumption DEF IInv
  <2>1. CASE Bootstrap
    BY Zenon, <2>1 DEF Bootstrap, Inhabited
  <2>2. CASE Crash
    BY Zenon, <2>2 DEF Crash
  <2>3. ASSUME NEW c \in Conns, Login(c) PROVE file'[a] = "inactive"
    BY Zenon, <2>3 DEF Login, Exclusive
  <2>4. ASSUME NEW c \in Conns, AddAdmin(c) PROVE file'[a] = "inactive"
    <3>1. PICK b \in Ids : file[b] = "none" /\ file' = [file EXCEPT ![b] = "active"]
      BY Zenon, <2>4 DEF AddAdmin, Exclusive
    <3> QED BY Zenon, <3>1 DEF TypeOK, Registry
  <2>5. ASSUME NEW c \in Conns, RemoveAdmin(c) PROVE file'[a] = "inactive"
    BY Zenon, <2>5 DEF RemoveAdmin, Exclusive, Registry
  <2>6. CASE file' = file
    BY Zenon, <2>6
  <2>7. ASSUME NEW c \in Conns, WriteFails(c) PROVE file'[a] = "inactive"
    BY Zenon, <2>7 DEF WriteFails
  <2> QED
    BY Zenon, <2>1, <2>2, <2>3, <2>4, <2>5, <2>6, <2>7
    DEF Next, vars, Authenticate, AdminAdd, AdminRemoveMe, Begin, Answer, Disconnect
<1>2. IInv /\ [Next]_vars =>
        [\A a \in Ids : file # Torn /\ file' # Torn /\ file[a] = "inactive"
           => file'[a] = "inactive"]_vars
  BY Zenon, <1>1
<1> QED BY <1>2, Invariance, PTL DEF Spec, RemovalIsFinal

-----------------------------------------------------------------------------
(* Update *)

Binaries == [release : Nat, whole : BOOLEAN, synced : BOOLEAN, runnable : BOOLEAN]
Points == {"off", "failed", "locate", "release", "compare", "current", "fetch", "allocate", "write",
           "sync", "permissions", "smoke test", "replace", "updated"}
OrNothing(S) == S \cup {Nothing}
Processes ==
    [pc : Points, pid : OrNothing(Pids), runs : OrNothing(Binaries), release : OrNothing(Nat),
     payload : OrNothing(Binaries), path : OrNothing(StagingNames)]

Typed ==
    /\ latest \in Nat
    /\ installed \in Binaries
    /\ files \in [DOMAIN files -> Binaries]
    /\ updater \in [Updaters -> Processes]

\* No two processes that run have the same id.
PidsDiffer ==
    \A u, v \in Updaters : u # v => updater[u].pid = Nothing \/ updater[u].pid # updater[v].pid

\* The id, the release and the payload an updater has at each point of the way.
Equipped ==
    \A u \in Updaters :
        /\ updater[u].pc \notin {"off", "failed"} => updater[u].pid \in Pids
        /\ updater[u].pc \in {"compare", "fetch"} => updater[u].release \in Nat
        /\ updater[u].pc \in {"allocate", "write", "sync", "permissions", "smoke test", "replace"}
              => updater[u].payload \in Binaries /\ updater[u].payload.whole
        /\ updater[u].pc \in {"write", "sync", "permissions", "smoke test", "replace"}
              => updater[u].path # Nothing
        /\ updater[u].path # Nothing =>
              updater[u].path \in StagingNames /\ updater[u].path[1] = updater[u].pid

\* The staged file is the verified payload, and is durable, executable and tested
\* by the time it has to be.
Staged ==
    \A u \in Updaters :
        LET staged == files[updater[u].path] IN
        /\ updater[u].pc \in {"sync", "permissions", "smoke test", "replace"} =>
              /\ updater[u].path \in DOMAIN files
              /\ staged.whole /\ staged.release = updater[u].payload.release
        /\ updater[u].pc \in {"permissions", "smoke test", "replace"} => staged.synced
        /\ updater[u].pc \in {"smoke test", "replace"} => staged.runnable
        /\ updater[u].pc = "replace" => staged.release \notin Broken

UpdateInv == Typed /\ PidsDiffer /\ Equipped /\ Staged /\ InstalledAlwaysRuns

LEMMA UpdateInitInv == UpdateInit => UpdateInv
<1> SUFFICES ASSUME UpdateInit PROVE UpdateInv
  OBVIOUS
<1> USE FirstAssumption, NothingAssumption DEF UpdateInit, Off, Binary
<1>1. Typed
  <2>1. installed \in Binaries
    BY Zenon DEF Binaries
  <2>2. files \in [DOMAIN files -> Binaries]
    BY Zenon
  <2>3. updater \in [Updaters -> Processes]
    BY Zenon DEF Points, Processes, OrNothing
  <2> QED BY Zenon, <2>1, <2>2, <2>3 DEF Typed
<1>2. PidsDiffer
  BY Zenon DEF PidsDiffer
<1>3. Equipped
  BY Zenon DEF Equipped
<1>4. Staged
  BY Zenon DEF Staged
<1>5. InstalledAlwaysRuns
  BY Zenon DEF InstalledAlwaysRuns
<1> QED BY Zenon, <1>1, <1>2, <1>3, <1>4, <1>5 DEF UpdateInv

\* Staging names of different updaters differ.
LEMMA PathsDiffer ==
  ASSUME UpdateInv, NEW u \in Updaters, NEW v \in Updaters, u # v, updater[u].path # Nothing
  PROVE  updater[v].path # updater[u].path
<1>1. updater[u].path \in StagingNames /\ updater[u].path[1] = updater[u].pid
  BY Zenon DEF UpdateInv, Equipped
<1>2. updater[u].pid # Nothing
  BY Zenon, <1>1, NothingAssumption DEF StagingNames
<1>3. updater[v].path # Nothing => updater[v].path[1] = updater[v].pid
  BY Zenon DEF UpdateInv, Equipped
<1> QED BY Zenon, <1>2, <1>1, <1>3 DEF UpdateInv, PidsDiffer

\* Steps of one updater that leave the other updaters' staged files alone: what
\* has to hold of its new state for the invariant to survive.
LEMMA OwnStep ==
  ASSUME UpdateInv, NEW u \in Updaters, NEW p \in Processes,
         updater' = [updater EXCEPT ![u] = p], UNCHANGED latest,
         installed' \in Binaries, InstalledAlwaysRuns',
         files' \in [DOMAIN files' -> Binaries],
         \A n \in DOMAIN files : n # updater[u].path => n \in DOMAIN files' /\ files'[n] = files[n],
         p.pid # Nothing => \A v \in Updaters \ {u} : updater[v].pid # p.pid,
         p.pc \notin {"off", "failed"} => p.pid \in Pids,
         p.pc \in {"compare", "fetch"} => p.release \in Nat,
         p.pc \in {"allocate", "write", "sync", "permissions", "smoke test", "replace"}
            => p.payload \in Binaries /\ p.payload.whole,
         p.pc \in {"write", "sync", "permissions", "smoke test", "replace"} => p.path # Nothing,
         p.path # Nothing => p.path \in StagingNames /\ p.path[1] = p.pid,
         p.pc \in {"sync", "permissions", "smoke test", "replace"} =>
            /\ p.path \in DOMAIN files'
            /\ files'[p.path].whole /\ files'[p.path].release = p.payload.release,
         p.pc \in {"permissions", "smoke test", "replace"} => files'[p.path].synced,
         p.pc \in {"smoke test", "replace"} => files'[p.path].runnable,
         p.pc = "replace" => files'[p.path].release \notin Broken
  PROVE  UpdateInv'
<1>1. updater \in [Updaters -> Processes]
  BY Zenon DEF UpdateInv, Typed
<1>2. \A v \in Updaters : updater'[v] = IF v = u THEN p ELSE updater[v]
  BY Zenon, <1>1
<1>3. Typed'
  BY Zenon, <1>1 DEF UpdateInv, Typed
<1>4. PidsDiffer'
  <2> SUFFICES ASSUME NEW v \in Updaters, NEW w \in Updaters, v # w, updater'[v].pid # Nothing
               PROVE  updater'[v].pid # updater'[w].pid
    BY Zenon DEF PidsDiffer
  <2>1. CASE v = u
    BY Zenon, <2>1, <1>2
  <2>2. CASE w = u
    <3>1. updater'[w] = p /\ updater'[v] = updater[v] /\ v \in Updaters \ {u}
      BY Zenon, <2>2, <1>2
    <3>2. p.pid = Nothing \/ updater[v].pid # p.pid
      BY Zenon, <3>1
    <3> QED BY Zenon, <3>1, <3>2
  <2>3. CASE v # u /\ w # u
    <3>1. updater'[v] = updater[v] /\ updater'[w] = updater[w]
      BY Zenon, <2>3, <1>2
    <3>2. updater[v].pid = Nothing \/ updater[v].pid # updater[w].pid
      BY Zenon DEF UpdateInv, PidsDiffer
    <3> QED BY Zenon, <3>1, <3>2
  <2> QED BY Zenon, <2>1, <2>2, <2>3
<1>5. Equipped'
  <2> DEFINE Fit(q) ==
        /\ q.pc \notin {"off", "failed"} => q.pid \in Pids
        /\ q.pc \in {"compare", "fetch"} => q.release \in Nat
        /\ q.pc \in {"allocate", "write", "sync", "permissions", "smoke test", "replace"}
              => q.payload \in Binaries /\ q.payload.whole
        /\ q.pc \in {"write", "sync", "permissions", "smoke test", "replace"} => q.path # Nothing
        /\ q.path # Nothing => q.path \in StagingNames /\ q.path[1] = q.pid
  <2>1. Fit(p)
    BY Zenon
  <2>2. \A v \in Updaters : Fit(updater[v])
    BY Zenon DEF UpdateInv, Equipped
  <2> HIDE DEF Fit
  <2>3. \A v \in Updaters : Fit(updater'[v])
    BY Zenon, <2>1, <2>2, <1>2
  <2> QED BY Zenon, <2>3 DEF Fit, Equipped
<1>6. Staged'
  <2> SUFFICES ASSUME NEW v \in Updaters
               PROVE  LET staged == files'[updater'[v].path] IN
                      /\ updater'[v].pc \in {"sync", "permissions", "smoke test", "replace"} =>
                            /\ updater'[v].path \in DOMAIN files'
                            /\ staged.whole /\ staged.release = updater'[v].payload.release
                      /\ updater'[v].pc \in {"permissions", "smoke test", "replace"} => staged.synced
                      /\ updater'[v].pc \in {"smoke test", "replace"} => staged.runnable
                      /\ updater'[v].pc = "replace" => staged.release \notin Broken
    BY Zenon DEF Staged
  <2>1. CASE v = u
    BY Zenon, <2>1, <1>2
  <2>2. CASE v # u /\ updater[v].pc \in {"sync", "permissions", "smoke test", "replace"}
    <3>1. updater[v].path # Nothing
      BY Zenon, <2>2 DEF UpdateInv, Equipped
    <3>2. updater[v].path # updater[u].path
      BY Zenon, <2>2, <3>1, PathsDiffer
    <3>3. updater[v].path \in DOMAIN files
      BY Zenon, <2>2 DEF UpdateInv, Staged
    <3>4. updater[v].path \in DOMAIN files' /\ files'[updater[v].path] = files[updater[v].path]
      BY Zenon, <3>2, <3>3
    <3> QED BY Zenon, <2>2, <3>4, <1>2 DEF UpdateInv, Staged
  <2>3. CASE v # u /\ updater[v].pc \notin {"sync", "permissions", "smoke test", "replace"}
    BY Zenon, <2>3, <1>2
  <2> QED BY Zenon, <2>1, <2>2, <2>3
<1> QED BY Zenon, <1>3, <1>4, <1>5, <1>6 DEF UpdateInv

\* An updater that fails, is killed or ends no longer has an id or a staged file.
LEMMA LeavingStep ==
  ASSUME UpdateInv, NEW u \in Updaters, NEW pc \in {"off", "failed"},
         updater' = [updater EXCEPT ![u] = [Off EXCEPT !.pc = pc]], UNCHANGED <<latest, installed>>,
         files' \in [DOMAIN files' -> Binaries],
         \A n \in DOMAIN files : n # updater[u].path => n \in DOMAIN files' /\ files'[n] = files[n]
  PROVE  UpdateInv'
<1> DEFINE p == [Off EXCEPT !.pc = pc]
<1>1. p \in Processes
  <2>1. CASE pc = "off"
    BY Zenon, <2>1 DEF Off, Points, Processes, OrNothing
  <2>2. CASE pc = "failed"
    BY Zenon, <2>2 DEF Off, Points, Processes, OrNothing
  <2> QED BY Zenon, <2>1, <2>2
<1>2. p.pid = Nothing /\ p.path = Nothing /\ p.pc = pc
  BY Zenon DEF Off
<1>3. installed' \in Binaries /\ InstalledAlwaysRuns'
  BY Zenon DEF UpdateInv, Typed, InstalledAlwaysRuns
<1> QED BY Zenon, <1>1, <1>2, <1>3, OwnStep

\* An updater that moves on without touching a file.
LEMMA MovingStep ==
  ASSUME UpdateInv, NEW u \in Updaters, NEW p \in Processes,
         updater' = [updater EXCEPT ![u] = p], UNCHANGED <<latest, installed, files>>,
         p.pid = updater[u].pid, updater[u].pc \notin {"off", "failed"},
         p.pc \in {"release", "compare", "current", "fetch", "allocate", "write"},
         p.pc \in {"compare", "fetch"} => p.release \in Nat,
         p.pc \in {"allocate", "write"} => p.payload \in Binaries /\ p.payload.whole,
         p.pc = "write" => p.path # Nothing,
         p.path # Nothing => p.path \in StagingNames /\ p.path[1] = p.pid
  PROVE  UpdateInv'
<1>1. installed' \in Binaries /\ InstalledAlwaysRuns' /\ files' \in [DOMAIN files' -> Binaries]
  BY Zenon DEF UpdateInv, Typed, InstalledAlwaysRuns
<1>2. p.pid \in Pids
  BY Zenon DEF UpdateInv, Equipped
<1>3. \A v \in Updaters \ {u} : updater[v].pid # p.pid
  BY Zenon, <1>2, NothingAssumption DEF UpdateInv, PidsDiffer
<1>4. p.pc \notin {"off", "failed", "sync", "permissions", "smoke test", "replace"}
  BY Zenon
<1> QED BY Zenon, <1>1, <1>2, <1>3, <1>4, OwnStep

\* An updater that works on the staged file it has, or has just written.
LEMMA StagedStep ==
  ASSUME UpdateInv, NEW u \in Updaters, NEW pc \in {"sync", "permissions", "smoke test", "replace"},
         updater[u].pc \in {"write", "sync", "permissions", "smoke test"},
         updater' = [updater EXCEPT ![u].pc = pc], UNCHANGED <<latest, installed>>,
         files' \in [DOMAIN files' -> Binaries],
         \A n \in DOMAIN files : n # updater[u].path => n \in DOMAIN files' /\ files'[n] = files[n],
         updater[u].path \in DOMAIN files',
         files'[updater[u].path].whole,
         files'[updater[u].path].release = updater[u].payload.release,
         pc # "sync" => files'[updater[u].path].synced,
         pc \in {"smoke test", "replace"} => files'[updater[u].path].runnable,
         pc = "replace" => files'[updater[u].path].release \notin Broken
  PROVE  UpdateInv'
<1> DEFINE p == [updater[u] EXCEPT !.pc = pc]
<1>1. updater[u] \in Processes
  BY Zenon DEF UpdateInv, Typed
<1>2. p \in Processes /\ p.pc = pc /\ p.pid = updater[u].pid /\ p.path = updater[u].path
      /\ p.payload = updater[u].payload
  <2>1. pc \in Points
    BY Zenon DEF Points
  <2> QED BY Zenon, <1>1, <2>1 DEF Processes
<1>3. updater' = [updater EXCEPT ![u] = p]
  BY Zenon DEF UpdateInv, Typed
<1>4. installed' \in Binaries /\ InstalledAlwaysRuns'
  BY Zenon DEF UpdateInv, Typed, InstalledAlwaysRuns
<1>5. p.pid \in Pids /\ p.payload \in Binaries /\ p.payload.whole /\ p.path # Nothing
      /\ p.path \in StagingNames /\ p.path[1] = p.pid
  BY Zenon, <1>2 DEF UpdateInv, Equipped
<1>6. \A v \in Updaters \ {u} : updater[v].pid # p.pid
  BY Zenon, <1>5, <1>2, NothingAssumption DEF UpdateInv, PidsDiffer
<1>7. p.pc \notin {"compare", "fetch"}
  BY Zenon, <1>2
<1>8. /\ \A n \in DOMAIN files : n # updater[u].path => n \in DOMAIN files' /\ files'[n] = files[n]
      /\ p.path \in DOMAIN files'
      /\ files'[p.path].whole /\ files'[p.path].release = p.payload.release
      /\ p.pc \in {"permissions", "smoke test", "replace"} => files'[p.path].synced
      /\ p.pc \in {"smoke test", "replace"} => files'[p.path].runnable
      /\ p.pc = "replace" => files'[p.path].release \notin Broken
  BY Zenon, <1>2
<1>9. p \in Processes
  BY Zenon, <1>2
<1> HIDE DEF p
<1> QED BY Zenon, <1>3, <1>4, <1>5, <1>6, <1>7, <1>8, <1>9, OwnStep

\* Every action keeps the invariant.
LEMMA UpdateStepInv == UpdateInv /\ [UpdateNext]_updateVars => UpdateInv'
<1> SUFFICES ASSUME UpdateInv, [UpdateNext]_updateVars PROVE UpdateInv'
  OBVIOUS
<1>t. /\ latest \in Nat /\ installed \in Binaries /\ files \in [DOMAIN files -> Binaries]
      /\ updater \in [Updaters -> Processes]
  BY Zenon DEF UpdateInv, Typed
<1>1. CASE UNCHANGED updateVars
  BY Zenon, <1>1
     DEF updateVars, UpdateInv, Typed, PidsDiffer, Equipped, Staged, InstalledAlwaysRuns
<1>2. CASE Publish
  <2>1. latest' \in Nat /\ UNCHANGED <<installed, files, updater>>
    BY <1>2, <1>t DEF Publish
  <2>2. Typed'
    BY Zenon, <2>1, <1>t DEF Typed
  <2>3. PidsDiffer' /\ Equipped'
    BY Zenon, <2>1 DEF UpdateInv, PidsDiffer, Equipped
  <2>4. Staged' /\ InstalledAlwaysRuns'
    BY Zenon, <2>1 DEF UpdateInv, Staged, InstalledAlwaysRuns
  <2> QED BY Zenon, <2>2, <2>3, <2>4 DEF UpdateInv
<1>3. CASE PowerLoss
  <2>1. installed' = installed
    BY Zenon, <1>3, <1>t DEF PowerLoss, TornFile, UpdateInv, InstalledAlwaysRuns
  <2>2. files' \in [DOMAIN files' -> Binaries]
    <3>1. \A f \in Binaries : TornFile(f) \in Binaries
      BY Zenon DEF TornFile, Binaries
    <3> QED BY Zenon, <3>1, <1>3, <1>t DEF PowerLoss
  <2>3. \A u \in Updaters : updater'[u] = Off
    BY Zenon, <1>3 DEF PowerLoss
  <2>4. Off \in Processes /\ Off.pid = Nothing /\ Off.path = Nothing /\ Off.pc = "off"
    BY Zenon DEF Off, Processes, Points, OrNothing
  <2>5. Typed'
    BY Zenon, <2>1, <2>2, <2>4, <1>3, <1>t DEF Typed, PowerLoss
  <2>6. PidsDiffer' /\ Equipped' /\ Staged'
    BY Zenon, <2>3, <2>4 DEF PidsDiffer, Equipped, Staged
  <2>7. InstalledAlwaysRuns'
    BY Zenon, <2>1 DEF UpdateInv, InstalledAlwaysRuns
  <2> QED BY Zenon, <2>5, <2>6, <2>7 DEF UpdateInv
<1>4. ASSUME NEW u \in Updaters, Fails(u), UNCHANGED <<latest, installed>>,
             files' \in [DOMAIN files' -> Binaries],
             \A n \in DOMAIN files : n # updater[u].path => n \in DOMAIN files' /\ files'[n] = files[n]
      PROVE  UpdateInv'
  BY Zenon, <1>4, LeavingStep DEF Fails
<1>5. ASSUME NEW u \in Updaters, updater' = [updater EXCEPT ![u] = Off],
             UNCHANGED <<latest, installed>>, files' \in [DOMAIN files' -> Binaries],
             \A n \in DOMAIN files : n # updater[u].path => n \in DOMAIN files' /\ files'[n] = files[n]
      PROVE  UpdateInv'
  <2>1. Off = [Off EXCEPT !.pc = "off"]
    BY DEF Off
  <2> QED BY Zenon, <1>5, <2>1, LeavingStep
<1>6. ASSUME NEW u \in Updaters, NEW pid \in Pids, Launched(u, pid)
      PROVE  UpdateInv'
  <2> DEFINE p == [Off EXCEPT !.pc = "locate", !.pid = pid, !.runs = installed]
  <2>1. p \in Processes
    BY Zenon, <1>t DEF Off, Processes, Points, OrNothing
  <2>2. p.pc = "locate" /\ p.pid = pid /\ p.path = Nothing
    BY Zenon DEF Off
  <2>3. updater' = [updater EXCEPT ![u] = p] /\ UNCHANGED <<latest, installed, files>>
        /\ \A v \in Updaters : updater[v].pid # p.pid
    BY Zenon, <1>6, <2>2 DEF Launched
  <2>4. installed' \in Binaries /\ InstalledAlwaysRuns' /\ files' \in [DOMAIN files' -> Binaries]
    BY Zenon, <2>3, <1>t DEF UpdateInv, InstalledAlwaysRuns
  <2> HIDE DEF p
  <2> QED BY Zenon, <2>1, <2>2, <2>3, <2>4, OwnStep
<1>7. ASSUME NEW u \in Updaters, Locate(u) PROVE UpdateInv'
  <2>1. CASE Fails(u)
    BY Zenon, <1>7, <2>1, <1>4, <1>t DEF Locate
  <2>2. CASE Goes(u, "release")
    <3> DEFINE p == [updater[u] EXCEPT !.pc = "release"]
    <3>1. p \in Processes /\ p.pc = "release" /\ p.pid = updater[u].pid /\ p.path = updater[u].path
      BY Zenon, <1>t DEF Processes, Points
    <3>2. updater' = [updater EXCEPT ![u] = p]
      BY Zenon, <2>2, <1>t DEF Goes
    <3>3. p.path # Nothing => p.path \in StagingNames /\ p.path[1] = p.pid
      BY Zenon, <3>1 DEF UpdateInv, Equipped
    <3> HIDE DEF p
    <3> QED BY Zenon, <1>7, <3>1, <3>2, <3>3, MovingStep DEF Locate, At
  <2> QED BY Zenon, <1>7, <2>1, <2>2 DEF Locate
<1>8. ASSUME NEW u \in Updaters, fetch_latest_release(u) PROVE UpdateInv'
  <2>1. CASE Fails(u)
    BY Zenon, <1>8, <2>1, <1>4, <1>t DEF fetch_latest_release
  <2>2. CASE updater' = [updater EXCEPT ![u].pc = "compare", ![u].release = latest]
    <3> DEFINE p == [updater[u] EXCEPT !.pc = "compare", !.release = latest]
    <3>1. p \in Processes /\ p.pc = "compare" /\ p.pid = updater[u].pid
          /\ p.path = updater[u].path /\ p.release \in Nat
      BY Zenon, <1>t DEF Processes, Points, OrNothing
    <3>2. updater' = [updater EXCEPT ![u] = p]
      BY Zenon, <2>2, <1>t
    <3>3. p.path # Nothing => p.path \in StagingNames /\ p.path[1] = p.pid
      BY Zenon, <3>1 DEF UpdateInv, Equipped
    <3> HIDE DEF p
    <3> QED BY Zenon, <1>8, <3>1, <3>2, <3>3, MovingStep DEF fetch_latest_release, At
  <2> QED BY Zenon, <1>8, <2>1, <2>2 DEF fetch_latest_release
<1>9. ASSUME NEW u \in Updaters, Compare(u) PROVE UpdateInv'
  <2> DEFINE pc == IF hash_file(installed) = <<updater[u].release, TRUE>> THEN "current" ELSE "fetch"
             p == [updater[u] EXCEPT !.pc = pc]
  <2>1. p \in Processes /\ p.pc \in {"current", "fetch"} /\ p.pid = updater[u].pid
        /\ p.path = updater[u].path /\ p.release = updater[u].release
    BY Zenon, <1>t DEF Processes, Points
  <2>2. updater' = [updater EXCEPT ![u] = p]
    BY Zenon, <1>9, <1>t DEF Compare, Goes
  <2>3. /\ p.path # Nothing => p.path \in StagingNames /\ p.path[1] = p.pid
        /\ p.release \in Nat
    BY Zenon, <1>9, <2>1 DEF UpdateInv, Equipped, Compare, At
  <2> HIDE DEF p
  <2> QED BY Zenon, <1>9, <2>1, <2>2, <2>3, MovingStep DEF Compare, At
<1>10. ASSUME NEW u \in Updaters, fetch_bytes(u) PROVE UpdateInv'
  <2>1. CASE Fails(u)
    BY Zenon, <1>10, <2>1, <1>4, <1>t DEF fetch_bytes
  <2>2. ASSUME NEW whole \in BOOLEAN,
               verify_bytes_sha256(Binary(updater[u].release, whole), <<updater[u].release, TRUE>>),
               updater' = [updater EXCEPT ![u].pc = "allocate",
                                          ![u].payload = Binary(updater[u].release, whole)]
        PROVE  UpdateInv'
    <3> DEFINE payload == Binary(updater[u].release, whole)
               p == [updater[u] EXCEPT !.pc = "allocate", !.payload = payload]
    <3>1. updater[u].release \in Nat
      BY Zenon, <1>10 DEF UpdateInv, Equipped, fetch_bytes, At
    <3>2. payload \in Binaries /\ payload.whole
      BY Zenon, <2>2, <3>1 DEF Binary, Binaries, verify_bytes_sha256, hash_file
    <3> HIDE DEF payload
    <3>3. p \in Processes /\ p.pc = "allocate" /\ p.pid = updater[u].pid
          /\ p.path = updater[u].path /\ p.payload = payload
      BY Zenon, <1>t, <3>2 DEF Processes, Points, OrNothing
    <3>4. updater' = [updater EXCEPT ![u] = p]
      BY Zenon, <2>2, <1>t DEF payload
    <3>5. p.path # Nothing => p.path \in StagingNames /\ p.path[1] = p.pid
      BY Zenon, <3>3 DEF UpdateInv, Equipped
    <3> HIDE DEF p
    <3> QED BY Zenon, <1>10, <3>2, <3>3, <3>4, <3>5, MovingStep DEF fetch_bytes, At
  <2> QED BY Zenon, <1>10, <2>1, <2>2 DEF fetch_bytes
<1>11. ASSUME NEW u \in Updaters, allocate_staged_path(u) PROVE UpdateInv'
  <2>1. CASE Fails(u)
    BY Zenon, <1>11, <2>1, <1>4, <1>t DEF allocate_staged_path
  <2>2. ASSUME NEW a \in Attempts,
               updater' = [updater EXCEPT ![u].pc = "write", ![u].path = <<updater[u].pid, a>>]
        PROVE  UpdateInv'
    <3> DEFINE p == [updater[u] EXCEPT !.pc = "write", !.path = <<updater[u].pid, a>>]
    <3>1. updater[u].pid \in Pids /\ updater[u].payload \in Binaries /\ updater[u].payload.whole
      BY Zenon, <1>11 DEF UpdateInv, Equipped, allocate_staged_path, At
    <3>2. <<updater[u].pid, a>> \in StagingNames /\ <<updater[u].pid, a>> # Nothing
      BY <3>1, NothingAssumption DEF StagingNames
    <3>3. p \in Processes
      BY Zenon, <1>t, <3>2 DEF Processes, Points, OrNothing
    <3>4. p.pc = "write" /\ p.pid = updater[u].pid /\ p.payload = updater[u].payload
          /\ p.path = <<updater[u].pid, a>>
      BY Zenon, <1>t DEF Processes
    <3>5. updater' = [updater EXCEPT ![u] = p]
      BY Zenon, <2>2, <1>t
    <3>6. p.path[1] = p.pid
      BY <3>4
    <3> HIDE DEF p
    <3> QED BY Zenon, <1>11, <3>1, <3>2, <3>3, <3>4, <3>5, <3>6, MovingStep
               DEF allocate_staged_path, At
  <2> QED BY Zenon, <1>11, <2>1, <2>2 DEF allocate_staged_path
<1>12. ASSUME NEW u \in Updaters, write_staged_binary(u) PROVE UpdateInv'
  <2>1. /\ updater[u].pc = "write" /\ updater[u].path # Nothing
        /\ updater[u].payload \in Binaries /\ updater[u].payload.whole
    BY Zenon, <1>12 DEF UpdateInv, Equipped, write_staged_binary, At
  <2>2. CASE Fails(u) /\ UNCHANGED files
    BY Zenon, <1>12, <2>2, <1>4, <1>t DEF write_staged_binary
  <2>3. ASSUME NEW staged \in Binaries, files' = Store(updater[u].path, staged)
        PROVE  /\ files' \in [DOMAIN files' -> Binaries]
               /\ \A n \in DOMAIN files :
                     n # updater[u].path => n \in DOMAIN files' /\ files'[n] = files[n]
               /\ updater[u].path \in DOMAIN files' /\ files'[updater[u].path] = staged
    BY Zenon, <2>3, <1>t DEF Store
  <2>4. CASE files' = Store(updater[u].path, updater[u].payload) /\ Goes(u, "sync")
    BY Zenon, <1>12, <2>1, <2>3, <2>4, StagedStep DEF Goes, write_staged_binary
  <2>5. CASE /\ files' = Store(updater[u].path, [updater[u].payload EXCEPT !.whole = FALSE])
             /\ Fails(u)
    <3>1. [updater[u].payload EXCEPT !.whole = FALSE] \in Binaries
      BY Zenon, <2>1 DEF Binaries
    <3> QED BY Zenon, <1>12, <2>3, <2>5, <3>1, <1>4 DEF write_staged_binary
  <2> QED BY Zenon, <1>12, <2>2, <2>4, <2>5 DEF write_staged_binary
<1>13. ASSUME NEW u \in Updaters, SyncStaged(u) PROVE UpdateInv'
  <2>1. /\ updater[u].pc = "sync" /\ updater[u].path \in DOMAIN files
        /\ files[updater[u].path].whole
        /\ files[updater[u].path].release = updater[u].payload.release
    BY Zenon, <1>13 DEF UpdateInv, Staged, SyncStaged, At
  <2>2. CASE Fails(u) /\ UNCHANGED files
    BY Zenon, <1>13, <2>2, <1>4, <1>t DEF SyncStaged
  <2>3. CASE /\ files' = [files EXCEPT ![updater[u].path].synced = TRUE]
             /\ Goes(u, "permissions")
    <3> DEFINE path == updater[u].path
               staged == [files[path] EXCEPT !.synced = TRUE]
    <3>1. staged \in Binaries /\ staged.whole = files[path].whole /\ staged.synced
          /\ staged.release = files[path].release
      BY Zenon, <2>1, <1>t DEF Binaries
    <3>2. files' = [files EXCEPT ![path] = staged]
      BY Zenon, <2>3
    <3> HIDE DEF staged
    <3>3. /\ DOMAIN files' = DOMAIN files /\ files'[path] = staged
          /\ files' \in [DOMAIN files' -> Binaries]
          /\ \A n \in DOMAIN files : n # path => files'[n] = files[n]
      BY Zenon, <3>1, <3>2, <2>1, <1>t
    <3> QED BY Zenon, <1>13, <2>1, <2>3, <3>1, <3>3, StagedStep DEF Goes, SyncStaged
  <2> QED BY Zenon, <1>13, <2>2, <2>3 DEF SyncStaged
<1>14. ASSUME NEW u \in Updaters, apply_binary_permissions(u) PROVE UpdateInv'
  <2>1. /\ updater[u].pc = "permissions" /\ updater[u].path \in DOMAIN files
        /\ files[updater[u].path].whole /\ files[updater[u].path].synced
        /\ files[updater[u].path].release = updater[u].payload.release
    BY Zenon, <1>14 DEF UpdateInv, Staged, apply_binary_permissions, At
  <2> DEFINE path == updater[u].path
             staged == [files[path] EXCEPT !.runnable = TRUE]
  <2>2. /\ staged \in Binaries /\ staged.whole = files[path].whole /\ staged.runnable
        /\ staged.synced = files[path].synced /\ staged.release = files[path].release
    BY Zenon, <2>1, <1>t DEF Binaries
  <2>3. files' = [files EXCEPT ![path] = staged]
    BY Zenon, <1>14 DEF apply_binary_permissions
  <2> HIDE DEF staged
  <2>4. /\ DOMAIN files' = DOMAIN files /\ files'[path] = staged
        /\ files' \in [DOMAIN files' -> Binaries]
        /\ \A n \in DOMAIN files : n # path => files'[n] = files[n]
    BY Zenon, <2>2, <2>3, <2>1, <1>t
  <2> QED BY Zenon, <1>14, <2>1, <2>2, <2>4, StagedStep DEF Goes, apply_binary_permissions
<1>15. ASSUME NEW u \in Updaters, smoke_test_binary(u) PROVE UpdateInv'
  <2>1. /\ updater[u].pc = "smoke test" /\ updater[u].path \in DOMAIN files
        /\ files[updater[u].path].whole /\ files[updater[u].path].synced
        /\ files[updater[u].path].runnable
        /\ files[updater[u].path].release = updater[u].payload.release
    BY Zenon, <1>15 DEF UpdateInv, Staged, smoke_test_binary, At
  <2>2. CASE /\ files[updater[u].path].release \notin Broken
             /\ Goes(u, "replace") /\ UNCHANGED files
    BY Zenon, <1>15, <2>1, <2>2, <1>t, StagedStep DEF Goes, smoke_test_binary
  <2>3. CASE files' = Without(updater[u].path) /\ Fails(u)
    <3>1. /\ files' \in [DOMAIN files' -> Binaries]
          /\ \A n \in DOMAIN files : n # updater[u].path => n \in DOMAIN files' /\ files'[n] = files[n]
      BY Zenon, <2>3, <1>t DEF Without
    <3> QED BY Zenon, <1>15, <2>3, <3>1, <1>4 DEF smoke_test_binary
  <2> QED BY Zenon, <1>15, <2>2, <2>3 DEF smoke_test_binary
<1>16. ASSUME NEW u \in Updaters, replace_binary(u) PROVE UpdateInv'
  <2>1. /\ updater[u].pc = "replace" /\ updater[u].path \in DOMAIN files
        /\ files[updater[u].path].whole /\ files[updater[u].path].synced
        /\ files[updater[u].path].runnable /\ files[updater[u].path].release \notin Broken
    BY Zenon, <1>16 DEF UpdateInv, Staged, replace_binary, At
  <2>2. /\ files' \in [DOMAIN files' -> Binaries]
        /\ \A n \in DOMAIN files : n # updater[u].path => n \in DOMAIN files' /\ files'[n] = files[n]
    BY Zenon, <1>16, <1>t DEF replace_binary, Without
  <2>3. CASE Fails(u) /\ UNCHANGED installed
    BY Zenon, <1>16, <2>2, <2>3, <1>4 DEF replace_binary
  <2>4. CASE installed' = files[updater[u].path] /\ Goes(u, "updated")
    <3> DEFINE p == [updater[u] EXCEPT !.pc = "updated"]
    <3>1. p \in Processes /\ p.pc = "updated" /\ p.pid = updater[u].pid /\ p.path = updater[u].path
      BY Zenon, <1>t DEF Processes, Points
    <3>2. updater' = [updater EXCEPT ![u] = p] /\ UNCHANGED latest
      BY Zenon, <1>16, <2>4, <1>t DEF Goes, replace_binary
    <3>3. p.pid \in Pids /\ (p.path # Nothing => p.path \in StagingNames /\ p.path[1] = p.pid)
      BY Zenon, <2>1, <3>1 DEF UpdateInv, Equipped
    <3>4. \A v \in Updaters \ {u} : updater[v].pid # p.pid
      BY Zenon, <3>1, <3>3, NothingAssumption DEF UpdateInv, PidsDiffer
    <3>5. installed' \in Binaries /\ InstalledAlwaysRuns'
      BY Zenon, <2>1, <2>4, <1>t DEF InstalledAlwaysRuns
    <3> HIDE DEF p
    <3> QED BY Zenon, <2>2, <3>1, <3>2, <3>3, <3>4, <3>5, OwnStep
  <2> QED BY Zenon, <1>16, <2>3, <2>4 DEF replace_binary
<1>17. ASSUME NEW u \in Updaters, Killed(u) PROVE UpdateInv'
  <2>1. CASE UNCHANGED files
    BY Zenon, <1>17, <2>1, <1>5, <1>t DEF Killed
  <2>2. CASE /\ At(u, "write")
             /\ files' = Store(updater[u].path, [updater[u].payload EXCEPT !.whole = FALSE])
    <3>1. updater[u].payload \in Binaries
      BY Zenon, <2>2 DEF UpdateInv, Equipped, At
    <3>2. [updater[u].payload EXCEPT !.whole = FALSE] \in Binaries
      BY Zenon, <3>1 DEF Binaries
    <3>3. /\ files' \in [DOMAIN files' -> Binaries]
          /\ \A n \in DOMAIN files : n # updater[u].path => n \in DOMAIN files' /\ files'[n] = files[n]
      BY Zenon, <2>2, <3>2, <1>t DEF Store
    <3> QED BY Zenon, <1>17, <3>3, <1>5 DEF Killed
  <2> QED BY Zenon, <1>17, <2>1, <2>2 DEF Killed
<1>18. ASSUME NEW u \in Updaters, Ended(u) PROVE UpdateInv'
  BY Zenon, <1>18, <1>5, <1>t DEF Ended
<1> QED
  BY Zenon, <1>1, <1>2, <1>3, <1>6, <1>7, <1>8, <1>9, <1>10, <1>11, <1>12, <1>13, <1>14, <1>15, <1>16,
     <1>17, <1>18
  DEF UpdateNext

\* The invariant holds in every reachable state.
LEMMA UpdateInvariant == UpdateSpec => []UpdateInv
  BY UpdateInitInv, UpdateStepInv, PTL DEF UpdateSpec

\* run_self_update never leaves a binary that does not run at the path of the
\* executable: for any number of updaters at once, killed anywhere, with the power
\* lost at any time, and whatever was published.
THEOREM UpdatesAreSafe == UpdateSpec => []InstalledAlwaysRuns
<1>1. UpdateInv => InstalledAlwaysRuns
  BY Zenon DEF UpdateInv
<1> QED BY <1>1, UpdateInvariant, PTL

\* What an updater tests and installs is the payload whose checksum it verified;
\* allocate_staged_path and create_new keep the updaters apart.
THEOREM UpdatersAreApart == UpdateSpec => []InstallsItsOwn
<1>1. UpdateInv => InstallsItsOwn
  <2> SUFFICES ASSUME UpdateInv, NEW u \in Updaters,
                      updater[u].pc \in {"sync", "permissions", "smoke test", "replace"}
               PROVE  /\ updater[u].path \in DOMAIN files
                      /\ hash_file(files[updater[u].path]) = hash_file(updater[u].payload)
                      /\ \A v \in Updaters \ {u} : updater[v].path # updater[u].path
    BY Zenon DEF InstallsItsOwn
  <2>1. updater[u].path # Nothing /\ updater[u].payload \in Binaries /\ updater[u].payload.whole
    BY Zenon DEF UpdateInv, Equipped
  <2>2. /\ updater[u].path \in DOMAIN files /\ files[updater[u].path].whole
        /\ files[updater[u].path].release = updater[u].payload.release
    BY Zenon DEF UpdateInv, Staged
  <2>3. files[updater[u].path] \in Binaries
    BY Zenon, <2>2 DEF UpdateInv, Typed
  <2>4. hash_file(files[updater[u].path]) = hash_file(updater[u].payload)
    BY Zenon, <2>1, <2>2, <2>3 DEF hash_file, Binaries
  <2>5. \A v \in Updaters \ {u} : updater[v].path # updater[u].path
    BY Zenon, <2>1, PathsDiffer
  <2> QED BY Zenon, <2>2, <2>4, <2>5
<1> QED BY <1>1, UpdateInvariant, PTL

\* Updaters that overlap, fail, are killed or lose power do no harm.
THEOREM UpdatesDoNoHarm == UpdateSpec => []UpdateIsSafe
<1>1. InstalledAlwaysRuns /\ InstallsItsOwn => UpdateIsSafe
  BY Zenon DEF UpdateIsSafe
<1> QED BY <1>1, UpdatesAreSafe, UpdatersAreApart, PTL

-----------------------------------------------------------------------------
(* Lineage *)

Images == Contents \cup {Mixed}
Records == [source : Checkpoints \cup {Nil}]
Making == {"save", "copy_disk", "write_record"}
Pcs == Making \cup {"idle", "set_head", "open_snapshot", "copy_snapshot", "prune", "remove"}
Ops == {Nil, "create", "rollback", "replace", "fork", "delete"}
Copies == Images \cup Checkpoints \cup {Nil, Partial}
OrNil(S) == S \cup {Nil}
Handlers ==
  [pc : Pcs, op : Ops, ws : OrNil(Workspaces), from : OrNil(Workspaces), id : OrNil(Checkpoints),
   parent : OrNil(Checkpoints), copy : Copies, newer : SUBSET Checkpoints, was : BOOLEAN]

StoreTyped ==
  /\ disk \in [Workspaces -> Copies]
  /\ head \in [Workspaces -> Checkpoints \cup {Nil, Partial}]
  /\ snap \in [Workspaces -> [Checkpoints -> Copies]]
  /\ record \in [Workspaces -> [Checkpoints -> Records \cup {Nil, Partial}]]
  /\ made \in [Checkpoints -> [ws : Workspaces, at : Nat] \cup {Nil}]
  /\ running \in [Workspaces -> BOOLEAN]
  /\ req \in [Reqs -> Handlers]

Made == {c \in Checkpoints : made[c] # Nil}
Of(w) == {c \in Made : made[c].ws = w}
\* what may be the source of c
Elders(w, c) == {d \in Of(w) : Older(d, c)}

\* No checkpoint is from the future.
TimesInOrder == IsFiniteSet(Made) /\ \A c \in Made : made[c].at <= Now

\* A handler works on checkpoints of its own workspace; the source of the one it
\* makes is older.
HandlerInOrder(q) ==
  q.pc # "idle" =>
    /\ q.ws \in Workspaces /\ q.id \in Checkpoints
    /\ q.pc = "open_snapshot" => q.from \in Workspaces
    /\ q.parent # Nil => q.parent \in Of(q.ws)
    /\ q.pc \in Making => q.id \in Of(q.ws) /\ (q.parent # Nil => Older(q.parent, q.id))

FilesInOrder ==
  \A w \in Workspaces :
    /\ head[w] \in Of(w) \cup {Nil, Partial}
    /\ \A c \in Checkpoints :
         /\ record[w][c] # Nil => c \in Of(w)
         /\ Readable(w, c) /\ record[w][c].source # Nil => record[w][c].source \in Elders(w, c)

StoreInv ==
  StoreTyped /\ TimesInOrder /\ FilesInOrder /\ \A r \in Reqs : HandlerInOrder(req[r])

\* One handler at a time.
OneRequest == \E r : Reqs = {r}

Restores == {"rollback", "replace"}

\* What one handler, alone, may rely on: the disk of a BOX that runs and the
\* snapshot of a checkpoint that is listed are whole ...
WholeFiles ==
  \A w \in Workspaces :
    /\ running[w] => disk[w] \in Images
    /\ \A c \in Checkpoints : record[w][c] # Nil => snap[w][c] \in Images \cup {Nil}

\* ... and what it has done stays done.
Alone(q) ==
  /\ q.pc \in Making =>
       /\ q.op = "create" /\ record[q.ws][q.id] = Nil
       /\ q.pc = "save" => running[q.ws]
       /\ q.pc = "copy_disk" => q.copy \in Images
       /\ q.pc = "write_record" => snap[q.ws][q.id] \in Images
  /\ q.pc \in {"open_snapshot", "copy_snapshot"} => q.op \in Restores \cup {"fork"}
  /\ q.pc = "prune" => q.op = "rollback"
  /\ q.pc = "remove" => q.op = "delete"
  /\ q.pc # "idle" /\ q.was => q.op \in Restores
  /\ q.pc # "idle" /\ q.op \in Restores \cup {"fork"} =>
       /\ q.from \in Workspaces /\ ~running[q.ws] /\ Readable(q.from, q.id)
       /\ q.pc = "copy_snapshot" => q.copy = snap[q.from][q.id] /\ q.copy \in Images
       /\ q.pc \in {"prune", "set_head"} =>
            disk[q.ws] = snap[q.from][q.id] /\ disk[q.ws] \in Images
       /\ q.op # "rollback" => q.newer = {}
       /\ q.op = "fork" => q.parent = Nil
  /\ q.pc # "idle" /\ q.op \in Restores =>
       /\ q.from = q.ws /\ q.parent = q.id
       /\ q.id \notin q.newer
       /\ q.op = "rollback" =>
            NewerThan(q.ws, q.id) \subseteq (IF q.pc = "set_head" THEN {} ELSE q.newer)

SoloInv == StoreInv /\ WholeFiles /\ \A r \in Reqs : Alone(req[r])

----------------------------------------------------------------------------
(* Handlers. *)

LEMMA IdleTyped == Idle \in Handlers /\ Idle.pc = "idle"
<1>1. Idle \in Handlers
  <2>1. /\ "idle" \in Pcs /\ Nil \in Ops /\ Nil \in OrNil(Workspaces) /\ Nil \in OrNil(Checkpoints)
        /\ Nil \in Copies
    BY Zenon DEF Pcs, Ops, OrNil, Copies
  <2> QED BY Zenon, <2>1 DEF Idle, Handlers
<1> QED BY Zenon, <1>1 DEF Idle

\* The handlers a request begins with.
LEMMA BegunTyped ==
  ASSUME NEW w \in Workspaces, NEW v \in Workspaces, NEW c \in Checkpoints,
         NEW p \in OrNil(Checkpoints)
  PROVE  /\ [Idle EXCEPT !.pc = "save", !.op = "create", !.ws = w, !.id = c, !.parent = p]
              \in Handlers
         /\ [Idle EXCEPT !.pc = "open_snapshot", !.op = "fork", !.ws = w, !.from = v, !.id = c]
              \in Handlers
         /\ \A x \in Copies :
              [Idle EXCEPT !.pc = "remove", !.op = "delete", !.ws = w, !.id = c, !.copy = x,
                           !.parent = p] \in Handlers
         /\ \A m \in Restores, n \in SUBSET Checkpoints, b \in BOOLEAN :
              [Idle EXCEPT !.pc = "open_snapshot", !.op = m, !.ws = w, !.from = v, !.id = c,
                           !.parent = p, !.was = b, !.newer = n] \in Handlers
<1>1. /\ "save" \in Pcs /\ "open_snapshot" \in Pcs /\ "remove" \in Pcs
      /\ "create" \in Ops /\ Restores \subseteq Ops /\ "fork" \in Ops /\ "delete" \in Ops
      /\ w \in OrNil(Workspaces) /\ v \in OrNil(Workspaces) /\ c \in OrNil(Checkpoints)
  BY Zenon DEF Pcs, Making, Ops, Restores, OrNil
<1> QED BY Zenon, <1>1, IdleTyped DEF Handlers

\* What the steps make of a handler.
LEMMA MovedTyped ==
  \A q \in Handlers :
    /\ \A pc \in Pcs : [q EXCEPT !.pc = pc] \in Handlers
    /\ \A x \in Copies : [q EXCEPT !.copy = x] \in Handlers
    /\ \A pc \in Pcs, x \in Copies : [q EXCEPT !.pc = pc, !.copy = x] \in Handlers
    /\ \A pc \in Pcs, p \in OrNil(Checkpoints) : [q EXCEPT !.pc = pc, !.parent = p] \in Handlers
    /\ \A pc \in Pcs, n \in SUBSET Checkpoints : [q EXCEPT !.newer = n, !.pc = pc] \in Handlers
BY Zenon DEF Handlers

\* A write to a disk changes what copies of it under way hold, and nothing else.
LEMMA SmearedTyped ==
  ASSUME StoreTyped, NEW w \in Workspaces
  PROVE  /\ Smeared(w) \in [Reqs -> Handlers]
         /\ \A r \in Reqs :
              \/ Smeared(w)[r] = req[r]
              \/ req[r].pc = "copy_disk" /\ Smeared(w)[r] = [req[r] EXCEPT !.copy = Mixed]
<1>1. \A r \in Reqs : [req[r] EXCEPT !.copy = Mixed] \in Handlers
  <2>1. Mixed \in Copies
    BY Zenon DEF Copies, Images
  <2> QED BY Zenon, <2>1, MovedTyped DEF StoreTyped
<1> QED BY Zenon, <1>1 DEF Smeared, StoreTyped

----------------------------------------------------------------------------
(* Times and ancestors. *)

\* While no checkpoint is made, their times and workspaces stay.
LEMMA NoneMade ==
  ASSUME made' = made
  PROVE  /\ Made' = Made /\ Now' = Now
         /\ TimesInOrder <=> TimesInOrder'
         /\ \A w : Of(w)' = Of(w)
         /\ \A w, c : Elders(w, c)' = Elders(w, c)
         /\ \A a, b : Older(a, b)' <=> Older(a, b)
         /\ \A q : HandlerInOrder(q)' <=> HandlerInOrder(q)
<1>1. Made' = Made /\ (\A w : Of(w)' = Of(w)) /\ (\A a, b : Older(a, b)' <=> Older(a, b))
  BY Zenon DEF Made, Of, Older
<1>2. Now' = Now
  BY Zenon DEF Now
<1>3. \A w, c : Elders(w, c)' = Elders(w, c)
  BY Zenon, <1>1 DEF Elders
<1>4. \A q : HandlerInOrder(q)' <=> HandlerInOrder(q)
  BY Zenon, <1>1 DEF HandlerInOrder
<1>5. TimesInOrder <=> TimesInOrder'
  BY Zenon, <1>1, <1>2 DEF TimesInOrder
<1> QED BY Zenon, <1>1, <1>2, <1>3, <1>4, <1>5

\* A new checkpoint is younger than all, and changes nothing about them.
LEMMA OneMade ==
  ASSUME StoreTyped, TimesInOrder, NEW w \in Workspaces, NEW c \in Checkpoints, made[c] = Nil,
         made' = [made EXCEPT ![c] = [ws |-> w, at |-> Now + 1]]
  PROVE  /\ made' \in [Checkpoints -> [ws : Workspaces, at : Nat] \cup {Nil}]
         /\ TimesInOrder'
         /\ c \in Of(w)'
         /\ \A v \in Workspaces : Of(v) \subseteq Of(v)'
         /\ \A d \in Made : Older(d, c)'
         /\ \A d, e \in Made : Older(d, e)' <=> Older(d, e)
<1>1. Now \in Nat
  BY Zenon, FS_CardinalityType DEF TimesInOrder, Made, Now
<1>2. [ws |-> w, at |-> Now + 1] \in [ws : Workspaces, at : Nat]
  BY <1>1
<1>3. /\ made'[c] = [ws |-> w, at |-> Now + 1] /\ made'[c] # Nil
      /\ made'[c].ws = w /\ made'[c].at = Now + 1
      /\ \A d \in Checkpoints : d # c => made'[d] = made[d]
  BY Zenon, <1>2, ContentsAssumption DEF StoreTyped
<1>4. made' \in [Checkpoints -> [ws : Workspaces, at : Nat] \cup {Nil}]
  BY Zenon, <1>2 DEF StoreTyped
<1>5. Made' = Made \cup {c} /\ c \notin Made
  BY Zenon, <1>3 DEF Made
<1>6. IsFiniteSet(Made') /\ Now' = Now + 1
  <2>1. IsFiniteSet(Made \cup {c}) /\ Cardinality(Made \cup {c}) = Cardinality(Made) + 1
    BY Zenon, <1>5, FS_AddElement DEF TimesInOrder
  <2>2. Now = Cardinality(Made) /\ Now' = Cardinality(Made')
    BY Zenon DEF Now, Made
  <2> QED BY Zenon, <1>5, <2>1, <2>2
<1>7. \A d \in Made : d # c /\ made'[d] = made[d] /\ made[d].at \in Nat /\ made[d].at <= Now
  BY Zenon, <1>3, <1>5 DEF StoreTyped, TimesInOrder, Made
<1>8. TimesInOrder'
  BY <1>1, <1>3, <1>5, <1>6, <1>7 DEF TimesInOrder
<1>9. c \in Of(w)' /\ \A v \in Workspaces : Of(v) \subseteq Of(v)'
  BY Zenon, <1>3, <1>5, <1>7 DEF Of
<1>10. (\A d \in Made : Older(d, c)') /\ \A d, e \in Made : Older(d, e)' <=> Older(d, e)
  BY <1>1, <1>3, <1>7 DEF Older
<1> QED BY Zenon, <1>4, <1>8, <1>9, <1>10

----------------------------------------------------------------------------
(* Files and handlers. *)

\* A record that is written or removed.
LEMMA RecordChanges ==
  ASSUME StoreTyped, FilesInOrder, made' = made, head' = head,
         NEW w \in Workspaces, NEW c \in Checkpoints, NEW x \in Records \cup {Nil, Partial},
         record' = [record EXCEPT ![w][c] = x],
         x # Nil => c \in Of(w),
         x \in Records /\ x.source # Nil => x.source \in Elders(w, c)
  PROVE  /\ record' \in [Workspaces -> [Checkpoints -> Records \cup {Nil, Partial}]]
         /\ record'[w][c] = x
         /\ \A v \in Workspaces, d \in Checkpoints :
              <<v, d>> # <<w, c>> => record'[v][d] = record[v][d]
         /\ FilesInOrder'
<1>1. record' \in [Workspaces -> [Checkpoints -> Records \cup {Nil, Partial}]]
  BY Zenon DEF StoreTyped
<1>2. /\ record'[w][c] = x
      /\ \A v \in Workspaces, d \in Checkpoints :
           <<v, d>> # <<w, c>> => record'[v][d] = record[v][d]
  BY Zenon DEF StoreTyped
<1>3. ASSUME NEW v \in Workspaces, NEW d \in Checkpoints
      PROVE  /\ record'[v][d] # Nil => d \in Of(v)
             /\ record'[v][d] \notin {Nil, Partial} /\ record'[v][d].source # Nil
                  => record'[v][d].source \in Elders(v, d)
  <2>1. CASE <<v, d>> = <<w, c>>
    BY Zenon, <1>2, <2>1
  <2>2. CASE <<v, d>> # <<w, c>>
    BY Zenon, <1>2, <2>2 DEF FilesInOrder, Readable
  <2> QED BY Zenon, <2>1, <2>2
<1>4. FilesInOrder'
  BY <1>3, NoneMade DEF FilesInOrder, Readable
<1> QED BY Zenon, <1>1, <1>2, <1>4

LEMMA HeadChanges ==
  ASSUME StoreTyped, FilesInOrder, made' = made, record' = record,
         NEW w \in Workspaces, NEW x \in Of(w) \cup {Nil, Partial},
         head' = [head EXCEPT ![w] = x]
  PROVE  head' \in [Workspaces -> Checkpoints \cup {Nil, Partial}] /\ FilesInOrder'
<1>1. head' \in [Workspaces -> Checkpoints \cup {Nil, Partial}]
  BY Zenon DEF StoreTyped, Of, Made
<1>2. \A v \in Workspaces : head'[v] = IF v = w THEN x ELSE head[v]
  BY Zenon DEF StoreTyped
<1>3. FilesInOrder'
  BY SMTT(40), <1>2, NoneMade DEF FilesInOrder, Readable
<1> QED BY Zenon, <1>1, <1>3

LEMMA FilesKept ==
  ASSUME FilesInOrder, made' = made, head' = head, record' = record
  PROVE  FilesInOrder'
BY Zenon, NoneMade DEF FilesInOrder, Readable

\* A snapshot that is written or removed.
LEMMA SnapChanges ==
  ASSUME StoreTyped, NEW w \in Workspaces, NEW c \in Checkpoints,
         NEW x \in Copies, snap' = [snap EXCEPT ![w][c] = x]
  PROVE  /\ snap' \in [Workspaces -> [Checkpoints -> Copies]]
         /\ snap'[w][c] = x
         /\ \A v \in Workspaces, d \in Checkpoints :
              <<v, d>> # <<w, c>> => snap'[v][d] = snap[v][d]
BY Zenon DEF StoreTyped

\* One handler takes a step, the others wait.
LEMMA HandlerSteps ==
  ASSUME StoreInv, made' = made, NEW r \in Reqs, NEW q \in Handlers,
         req' = [req EXCEPT ![r] = q], HandlerInOrder(q)
  PROVE  /\ req' \in [Reqs -> Handlers]
         /\ req'[r] = q
         /\ \A s \in Reqs : HandlerInOrder(req[s])'
<1>1. req' \in [Reqs -> Handlers] /\ req'[r] = q
  BY Zenon DEF StoreInv, StoreTyped
<1>2. \A s \in Reqs : req'[s] = IF s = r THEN q ELSE req[s]
  BY Zenon DEF StoreInv, StoreTyped
<1>3. \A s \in Reqs : HandlerInOrder(req[s])'
  BY Zenon, <1>2, NoneMade DEF StoreInv, HandlerInOrder
<1> QED BY Zenon, <1>1, <1>3

\* The same when a write to a disk smears the copies of it.
LEMMA HandlersSmear ==
  ASSUME StoreInv, made' = made, NEW r \in Reqs, NEW w \in Workspaces, NEW q \in Handlers,
         req' = [Smeared(w) EXCEPT ![r] = q], HandlerInOrder(q)
  PROVE  /\ req' \in [Reqs -> Handlers]
         /\ req'[r] = q
         /\ \A s \in Reqs : HandlerInOrder(req[s])'
<1>1. req' \in [Reqs -> Handlers] /\ req'[r] = q
  BY Zenon, SmearedTyped DEF StoreInv
<1>2. \A s \in Reqs : req'[s] = IF s = r THEN q ELSE Smeared(w)[s]
  BY Zenon, SmearedTyped DEF StoreInv
<1>3. ASSUME NEW s \in Reqs
      PROVE  HandlerInOrder(Smeared(w)[s])
  <2>1. CASE Smeared(w)[s] = req[s]
    BY Zenon, <2>1 DEF StoreInv
  <2>2. CASE Smeared(w)[s] = [req[s] EXCEPT !.copy = Mixed]
    <3>1. req[s] \in Handlers /\ HandlerInOrder(req[s])
      BY Zenon DEF StoreInv, StoreTyped
    <3>2. /\ Smeared(w)[s].pc = req[s].pc /\ Smeared(w)[s].ws = req[s].ws
          /\ Smeared(w)[s].id = req[s].id /\ Smeared(w)[s].parent = req[s].parent
          /\ Smeared(w)[s].from = req[s].from
      BY Zenon, <2>2, <3>1 DEF Handlers
    <3> QED BY Zenon, <3>1, <3>2 DEF HandlerInOrder
  <2> QED BY Zenon, <2>1, <2>2, SmearedTyped DEF StoreInv
<1>4. \A s \in Reqs : HandlerInOrder(req[s])'
  BY Zenon, <1>2, <1>3, NoneMade DEF HandlerInOrder
<1> QED BY Zenon, <1>1, <1>4

----------------------------------------------------------------------------
(* Every step keeps the ancestry, with any number of handlers. *)

LEMMA HandlerTyped ==
  ASSUME StoreInv, NEW r \in Reqs, req[r].pc # "idle"
  PROVE  /\ req[r] \in Handlers /\ HandlerInOrder(req[r])
         /\ req[r].ws \in Workspaces /\ req[r].id \in Checkpoints
         /\ req[r].parent \in OrNil(Checkpoints) /\ req[r].newer \in SUBSET Checkpoints
BY Zenon DEF StoreInv, StoreTyped, HandlerInOrder, Handlers

LEMMA IdleInOrder == Idle \in Handlers /\ HandlerInOrder(Idle)
BY Zenon, IdleTyped DEF HandlerInOrder

LEMMA StoreInit == LineageInit => StoreInv
<1> SUFFICES ASSUME LineageInit PROVE StoreInv
  OBVIOUS
<1>1. StoreTyped
  BY Zenon, IdleTyped, ContentsAssumption DEF LineageInit, StoreTyped, Copies, Images
<1>2. Made = {}
  BY Zenon DEF LineageInit, Made
<1>3. TimesInOrder
  BY Zenon, <1>2, FS_EmptySet DEF TimesInOrder
<1>4. FilesInOrder
  BY Zenon DEF LineageInit, FilesInOrder, Readable
<1>5. \A r \in Reqs : HandlerInOrder(req[r])
  BY Zenon, IdleTyped DEF LineageInit, HandlerInOrder
<1> QED BY Zenon, <1>1, <1>3, <1>4, <1>5 DEF StoreInv

\* Requests that end where they begin, and a write to a disk.
LEMMA StartStopStore ==
  ASSUME StoreInv, NEW r \in Reqs, NEW w \in Workspaces, StartStop(r, w)
  PROVE  StoreInv'
<1>1. /\ req' \in [Reqs -> Handlers]
      /\ \A s \in Reqs : HandlerInOrder(req[s])'
  BY ZenonT(60), IdleInOrder, HandlerSteps DEF StartStop
<1>2. StoreTyped'
  BY Zenon, <1>1 DEF StoreInv, StoreTyped, StartStop
<1>3. TimesInOrder' /\ FilesInOrder'
  BY Zenon, NoneMade, FilesKept DEF StoreInv, StartStop
<1> QED BY Zenon, <1>1, <1>2, <1>3 DEF StoreInv

LEMMA GuestWritesStore ==
  ASSUME StoreInv, NEW w \in Workspaces, GuestWrites(w)
  PROVE  StoreInv'
<1>1. disk' \in [Workspaces -> Copies]
  BY Zenon DEF StoreInv, StoreTyped, GuestWrites, Copies, Images
<1>2. req' \in [Reqs -> Handlers]
  BY Zenon, SmearedTyped DEF StoreInv, GuestWrites
<1>3. ASSUME NEW s \in Reqs
      PROVE  HandlerInOrder(req[s])'
  <2>1. PICK q : q = req'[s]
    BY Zenon
  <2>2. q \in Handlers /\ req[s] \in Handlers /\ HandlerInOrder(req[s])
    BY Zenon, <1>2, <2>1 DEF StoreInv, StoreTyped
  <2>3. /\ q.pc = req[s].pc /\ q.ws = req[s].ws /\ q.id = req[s].id
        /\ q.parent = req[s].parent /\ q.from = req[s].from
    <3>1. q = req[s] \/ q = [req[s] EXCEPT !.copy = Mixed]
      BY Zenon, <2>1, SmearedTyped DEF GuestWrites, StoreInv
    <3> QED BY Zenon, <2>2, <3>1 DEF Handlers
  <2>4. HandlerInOrder(q)
    BY Zenon, <2>2, <2>3 DEF HandlerInOrder
  <2> QED BY Zenon, <2>1, <2>4, NoneMade DEF GuestWrites, HandlerInOrder
<1>4. StoreTyped'
  BY Zenon, <1>1, <1>2 DEF StoreInv, StoreTyped, GuestWrites
<1>5. TimesInOrder' /\ FilesInOrder'
  BY Zenon, NoneMade, FilesKept DEF StoreInv, GuestWrites
<1> QED BY Zenon, <1>3, <1>4, <1>5 DEF StoreInv

\* A new checkpoint.
LEMMA CreateStore ==
  ASSUME StoreInv, NEW r \in Reqs, NEW w \in Workspaces, CreateCheckpoint(r, w)
  PROVE  StoreInv'
<1>1. CASE head[w] = Partial
  <2>1. made' = made /\ req' = [req EXCEPT ![r] = Idle]
    BY Zenon, <1>1 DEF CreateCheckpoint, Failed
  <2>2. /\ req' \in [Reqs -> Handlers]
        /\ \A s \in Reqs : HandlerInOrder(req[s])'
    BY ZenonT(60), <2>1, IdleInOrder, HandlerSteps
  <2>3. StoreTyped'
    BY Zenon, <2>1, <2>2 DEF StoreInv, StoreTyped, CreateCheckpoint
  <2>4. TimesInOrder' /\ FilesInOrder'
    BY Zenon, <2>1, NoneMade, FilesKept DEF StoreInv, CreateCheckpoint
  <2> QED BY <2>2, <2>3, <2>4 DEF StoreInv
<1>2. CASE head[w] # Partial
  <2>1. PICK c \in Checkpoints :
          /\ made[c] = Nil
          /\ made' = [made EXCEPT ![c] = [ws |-> w, at |-> Now + 1]]
          /\ req' = [req EXCEPT ![r] =
                       [Idle EXCEPT !.pc = "save", !.op = "create", !.ws = w,
                                    !.id = c, !.parent = head[w]]]
    BY ZenonT(60), <1>2 DEF CreateCheckpoint
  <2>2. UNCHANGED <<disk, head, snap, record, running>>
    BY Zenon DEF CreateCheckpoint
  <2>3. PICK p : p = head[w]
    BY Zenon
  <2>4. p \in OrNil(Checkpoints) /\ (p # Nil => p \in Of(w))
    BY Zenon, <1>2, <2>3 DEF StoreInv, StoreTyped, FilesInOrder, OrNil
  <2>5. PICK q : q = [Idle EXCEPT !.pc = "save", !.op = "create", !.ws = w, !.id = c, !.parent = p]
    BY Zenon
  <2>6. q \in Handlers
    BY Zenon, <2>4, <2>5, BegunTyped
  <2>7. q.pc = "save" /\ q.ws = w /\ q.id = c /\ q.parent = p
    BY Zenon, <2>5 DEF Idle
  <2>8. /\ made' \in [Checkpoints -> [ws : Workspaces, at : Nat] \cup {Nil}]
        /\ TimesInOrder'
        /\ c \in Of(w)'
        /\ \A v \in Workspaces : Of(v) \subseteq Of(v)'
        /\ \A d \in Made : Older(d, c)'
        /\ \A d, e \in Made : Older(d, e)' <=> Older(d, e)
    BY Zenon, <2>1, OneMade DEF StoreInv
  <2>9. req' = [req EXCEPT ![r] = q]
    BY Zenon, <2>1, <2>3, <2>5
  <2>10. /\ req' \in [Reqs -> Handlers]
         /\ \A s \in Reqs : req'[s] = IF s = r THEN q ELSE req[s]
    BY Zenon, <2>6, <2>9 DEF StoreInv, StoreTyped
  <2>11. ASSUME NEW s \in Reqs PROVE HandlerInOrder(req[s])'
    <3>1. CASE s = r
      BY Zenon, <2>4, <2>7, <2>8, <2>10, <3>1 DEF HandlerInOrder, Of, Making
    <3>2. CASE s # r
      BY SMTT(40), <2>8, <2>10, <3>2 DEF StoreInv, HandlerInOrder, Of
    <3> QED BY Zenon, <3>1, <3>2
  <2>12. FilesInOrder'
    <3>1. \A v \in Workspaces, d \in Checkpoints : d \in Of(v) => Elders(v, d) \subseteq Elders(v, d)'
      BY Zenon, <2>8 DEF Elders, Of
    <3> QED BY Zenon, <2>2, <2>8, <3>1 DEF StoreInv, FilesInOrder, Readable
  <2>13. StoreTyped'
    BY Zenon, <2>2, <2>8, <2>10 DEF StoreInv, StoreTyped
  <2> QED BY Zenon, <2>8, <2>11, <2>12, <2>13 DEF StoreInv
<1> QED BY Zenon, <1>1, <1>2

\* save_checkpoint: the copy of the disk ...
LEMMA SaveStore ==
  ASSUME StoreInv, NEW r \in Reqs, SaveCheckpoint(r) \/ CopyDisk(r)
  PROVE  StoreInv'
<1>1. /\ req[r] \in Handlers /\ HandlerInOrder(req[r])
      /\ req[r].ws \in Workspaces /\ req[r].id \in Checkpoints
      /\ req[r].pc \in Making /\ req[r].copy \in Copies
  BY Zenon, HandlerTyped DEF SaveCheckpoint, CopyDisk, Making, Handlers
<1>2. PICK q : /\ \/ q = [req[r] EXCEPT !.pc = "copy_disk", !.copy = disk[req[r].ws]]
                  \/ q = [req[r] EXCEPT !.pc = "write_record"]
               /\ req' = [req EXCEPT ![r] = q]
  BY Zenon DEF SaveCheckpoint, CopyDisk
<1>3. q \in Handlers
  <2>1. disk[req[r].ws] \in Copies /\ "copy_disk" \in Pcs /\ "write_record" \in Pcs
    BY Zenon, <1>1 DEF StoreInv, StoreTyped, Pcs, Making
  <2>2. CASE q = [req[r] EXCEPT !.pc = "copy_disk", !.copy = disk[req[r].ws]]
    BY Zenon, <1>1, <2>1, <2>2, MovedTyped
  <2>3. CASE q = [req[r] EXCEPT !.pc = "write_record"]
    BY Zenon, <1>1, <2>1, <2>3, MovedTyped
  <2> QED BY Zenon, <1>2, <2>2, <2>3
<1>4. HandlerInOrder(q)
  <2>1. /\ q.ws = req[r].ws /\ q.id = req[r].id /\ q.parent = req[r].parent
        /\ q.pc \in Making
    BY Zenon, <1>1, <1>2 DEF Handlers, Making
  <2> QED BY Zenon, <1>1, <2>1 DEF HandlerInOrder, Making
<1>5. UNCHANGED <<disk, head, record, made, running>>
  BY Zenon DEF SaveCheckpoint, CopyDisk
<1>6. snap' \in [Workspaces -> [Checkpoints -> Copies]]
  <2>1. PICK x \in Copies : snap' = [snap EXCEPT ![req[r].ws][req[r].id] = x]
    BY Zenon, <1>1 DEF SaveCheckpoint, CopyDisk, Copies
  <2> QED BY Zenon, <1>1, <2>1 DEF StoreInv, StoreTyped
<1>7. /\ req' \in [Reqs -> Handlers]
      /\ \A s \in Reqs : HandlerInOrder(req[s])'
  BY Zenon, <1>2, <1>3, <1>4, <1>5, HandlerSteps
<1>8. StoreTyped'
  BY Zenon, <1>5, <1>6, <1>7 DEF StoreInv, StoreTyped
<1>9. TimesInOrder' /\ FilesInOrder'
  BY Zenon, <1>5, NoneMade, FilesKept DEF StoreInv
<1> QED BY Zenon, <1>7, <1>8, <1>9 DEF StoreInv

\* ... and the record.
LEMMA WriteRecordStore ==
  ASSUME StoreInv, NEW r \in Reqs, WriteRecord(r)
  PROVE  StoreInv'
<1>1. /\ req[r] \in Handlers /\ HandlerInOrder(req[r])
      /\ req[r].ws \in Workspaces /\ req[r].id \in Checkpoints
      /\ req[r].parent \in OrNil(Checkpoints)
      /\ req[r].pc \in Making /\ req[r].pc # "idle"
  BY Zenon, HandlerTyped DEF WriteRecord, Making
<1>2. UNCHANGED <<disk, head, snap, made, running>>
  BY Zenon DEF WriteRecord
<1>3. PICK w, c, x, q :
        /\ w = req[r].ws /\ c = req[r].id
        /\ x = [source |-> req[r].parent]
        /\ q = [req[r] EXCEPT !.pc = "set_head", !.parent = req[r].id]
  BY Zenon
<1>4. x \in Records /\ x.source = req[r].parent
  BY Zenon, <1>1, <1>3 DEF Records, OrNil
<1>5. c \in Of(w) /\ (x.source # Nil => x.source \in Elders(w, c))
  BY Zenon, <1>1, <1>3, <1>4 DEF HandlerInOrder, Elders
<1>6. record' = [record EXCEPT ![w][c] = x] /\ req' = [req EXCEPT ![r] = q]
  BY Zenon, <1>3 DEF WriteRecord
<1>7. /\ record' \in [Workspaces -> [Checkpoints -> Records \cup {Nil, Partial}]]
      /\ FilesInOrder'
  BY Zenon, <1>1, <1>2, <1>3, <1>4, <1>5, <1>6, RecordChanges DEF StoreInv
<1>8. q \in Handlers
  <2>1. "set_head" \in Pcs /\ req[r].id \in OrNil(Checkpoints)
    BY Zenon, <1>1 DEF Pcs, OrNil
  <2> QED BY Zenon, <1>1, <1>3, <2>1, MovedTyped
<1>9. HandlerInOrder(q)
  <2>1. q.pc = "set_head" /\ q.ws = w /\ q.id = c /\ q.parent = c
    BY Zenon, <1>1, <1>3 DEF Handlers
  <2> QED BY Zenon, <1>1, <1>3, <1>5, <2>1 DEF HandlerInOrder, Making
<1>10. /\ req' \in [Reqs -> Handlers]
       /\ \A s \in Reqs : HandlerInOrder(req[s])'
  BY Zenon, <1>2, <1>6, <1>8, <1>9, HandlerSteps
<1>11. StoreTyped' /\ TimesInOrder'
  BY Zenon, <1>2, <1>7, <1>10, NoneMade DEF StoreInv, StoreTyped
<1> QED BY Zenon, <1>7, <1>10, <1>11 DEF StoreInv

\* The head becomes a checkpoint of the workspace.
LEMMA SetHeadStore ==
  ASSUME StoreInv, NEW r \in Reqs, SetHead(r)
  PROVE  StoreInv'
<1>1. /\ req[r].ws \in Workspaces
      /\ req[r].parent \in Of(req[r].ws) \cup {Nil}
      /\ req[r].was \in BOOLEAN
  BY Zenon, HandlerTyped DEF SetHead, HandlerInOrder, Handlers
<1>2. UNCHANGED <<disk, snap, record, made>> /\ req' = [req EXCEPT ![r] = Idle]
  BY Zenon DEF SetHead, Finished
<1>3. PICK w, x : w = req[r].ws /\ x = req[r].parent
  BY Zenon
<1>4. head' \in [Workspaces -> Checkpoints \cup {Nil, Partial}] /\ FilesInOrder'
  <2>1. head' = [head EXCEPT ![w] = x] /\ x \in Of(w) \cup {Nil, Partial} /\ w \in Workspaces
    BY Zenon, <1>1, <1>3 DEF SetHead
  <2> QED BY Zenon, <1>2, <2>1, HeadChanges DEF StoreInv
<1>5. running' \in [Workspaces -> BOOLEAN]
  BY Zenon, <1>1 DEF SetHead, StoreInv, StoreTyped
<1>6. /\ req' \in [Reqs -> Handlers]
      /\ \A s \in Reqs : HandlerInOrder(req[s])'
  BY ZenonT(60), <1>2, IdleInOrder, HandlerSteps
<1>7. StoreTyped' /\ TimesInOrder'
  BY Zenon, <1>2, <1>4, <1>5, <1>6, NoneMade DEF StoreInv, StoreTyped
<1> QED BY Zenon, <1>4, <1>6, <1>7 DEF StoreInv

\* restore_checkpoint, fork_workspace and delete_checkpoint find their checkpoint.
LEMMA BeginStore ==
  ASSUME StoreInv, NEW r \in Reqs, NEW w \in Workspaces, NEW c \in Checkpoints,
         \/ RestoreCheckpoint(r, w, c)
         \/ DeleteCheckpoint(r, w, c)
         \/ \E n \in Workspaces : ForkWorkspace(r, w, c, n)
  PROVE  StoreInv'
<1>1. UNCHANGED <<head, snap, record, made>>
  BY Zenon DEF RestoreCheckpoint, DeleteCheckpoint, ForkWorkspace
<1>2. disk' \in [Workspaces -> Copies] /\ running' \in [Workspaces -> BOOLEAN]
  <2>1. Blank \in Copies
    BY Zenon, ContentsAssumption DEF Copies, Images
  <2>2. disk' = disk \/ \E n \in Workspaces : disk' = [disk EXCEPT ![n] = Blank]
    BY ZenonT(60) DEF RestoreCheckpoint, DeleteCheckpoint, ForkWorkspace
  <2>3. running' = running \/ running' = [running EXCEPT ![w] = FALSE]
    BY Zenon DEF RestoreCheckpoint, DeleteCheckpoint, ForkWorkspace
  <2>4. disk' \in [Workspaces -> Copies]
    BY Zenon, <2>1, <2>2 DEF StoreInv, StoreTyped
  <2>5. running' \in [Workspaces -> BOOLEAN]
    BY Zenon, <2>3 DEF StoreInv, StoreTyped
  <2> QED BY Zenon, <2>4, <2>5
<1>3. PICK q \in Handlers : HandlerInOrder(q) /\ req' = [req EXCEPT ![r] = q]
  <2>1. CASE req' = [req EXCEPT ![r] = Idle]
    BY Zenon, <2>1, IdleInOrder
  <2>2. CASE RestoreCheckpoint(r, w, c) /\ req' # [req EXCEPT ![r] = Idle]
    <3>1. c \in Listed(w) /\ c \in Of(w)
      BY Zenon, <2>2 DEF RestoreCheckpoint, Failed, Listed, StoreInv, FilesInOrder
    <3>2. PICK m \in Restores, n \in SUBSET Checkpoints, b \in BOOLEAN :
            req' = [req EXCEPT ![r] =
                      [Idle EXCEPT !.pc = "open_snapshot", !.op = m, !.ws = w, !.from = w,
                                   !.id = c, !.parent = c, !.was = b, !.newer = n]]
      <4>1. PICK m \in Restores :
              req' = [req EXCEPT ![r] =
                        [Idle EXCEPT !.pc = "open_snapshot", !.op = m, !.ws = w, !.from = w,
                                     !.id = c, !.parent = c, !.was = running[w],
                                     !.newer = IF m = "rollback" THEN NewerThan(w, c) ELSE {}]]
        BY Zenon, <2>2 DEF RestoreCheckpoint, Failed, Restores
      <4>2. running[w] \in BOOLEAN
        BY Zenon DEF StoreInv, StoreTyped
      <4>3. (IF m = "rollback" THEN NewerThan(w, c) ELSE {}) \in SUBSET Checkpoints
        BY Zenon DEF NewerThan, Listed
      <4> QED BY Zenon, <4>1, <4>2, <4>3
    <3>3. PICK q : q = [Idle EXCEPT !.pc = "open_snapshot", !.op = m, !.ws = w, !.from = w,
                                    !.id = c, !.parent = c, !.was = b, !.newer = n]
      BY Zenon
    <3>4. q \in Handlers
      BY ZenonT(60), <3>3, BegunTyped, c \in OrNil(Checkpoints) DEF OrNil
    <3>5. q.pc = "open_snapshot" /\ q.ws = w /\ q.from = w /\ q.id = c /\ q.parent = c
      BY Zenon, <3>3 DEF Idle
    <3>6. HandlerInOrder(q)
      BY Zenon, <3>1, <3>5 DEF HandlerInOrder, Making
    <3> QED BY Zenon, <3>2, <3>3, <3>4, <3>6
  <2>3. ASSUME NEW n \in Workspaces, ForkWorkspace(r, w, c, n), req' # [req EXCEPT ![r] = Idle]
        PROVE  \E q \in Handlers : HandlerInOrder(q) /\ req' = [req EXCEPT ![r] = q]
    <3>1. PICK q : q = [Idle EXCEPT !.pc = "open_snapshot", !.op = "fork", !.ws = n, !.from = w,
                                    !.id = c]
      BY Zenon
    <3>2. req' = [req EXCEPT ![r] = q]
      BY Zenon, <2>3, <3>1 DEF ForkWorkspace, Failed
    <3>3. q \in Handlers
      BY ZenonT(60), <3>1, BegunTyped, Nil \in OrNil(Checkpoints) DEF OrNil
    <3>4. q.pc = "open_snapshot" /\ q.ws = n /\ q.from = w /\ q.id = c /\ q.parent = Nil
      BY Zenon, <3>1 DEF Idle
    <3>5. HandlerInOrder(q)
      BY Zenon, <3>4 DEF HandlerInOrder, Making
    <3> QED BY ZenonT(60), <3>2, <3>3, <3>5
  <2>4. CASE DeleteCheckpoint(r, w, c) /\ req' # [req EXCEPT ![r] = Idle]
    <3>1. PICK p, x : /\ x = head[w]
                      /\ p = IF record[w][c] = Nil THEN Nil ELSE record[w][c].source
      BY Zenon
    <3>2. PICK q : q = [Idle EXCEPT !.pc = "remove", !.op = "delete", !.ws = w, !.id = c,
                                    !.copy = x, !.parent = p]
      BY Zenon
    <3>3. req' = [req EXCEPT ![r] = q] /\ head[w] # Partial /\ record[w][c] # Partial
      BY Zenon, <2>4, <3>1, <3>2 DEF DeleteCheckpoint, Failed
    <3>4. p \in OrNil(Checkpoints) /\ x \in Copies /\ (p # Nil => p \in Of(w))
      BY <3>1, <3>3
         DEF StoreInv, StoreTyped, FilesInOrder, Readable, Records, OrNil, Copies, Elders
    <3>5. q \in Handlers
      BY ZenonT(60), <3>2, <3>4, BegunTyped
    <3>6. q.pc = "remove" /\ q.ws = w /\ q.id = c /\ q.parent = p
      BY Zenon, <3>2 DEF Idle
    <3>7. HandlerInOrder(q)
      BY Zenon, <3>4, <3>6 DEF HandlerInOrder, Making
    <3> QED BY ZenonT(60), <3>3, <3>5, <3>7
  <2> QED BY Zenon, <2>1, <2>2, <2>3, <2>4
<1>4. /\ req' \in [Reqs -> Handlers]
      /\ \A s \in Reqs : HandlerInOrder(req[s])'
  BY Zenon, <1>1, <1>3, HandlerSteps
<1>5. StoreTyped' /\ TimesInOrder' /\ FilesInOrder'
  BY Zenon, <1>1, <1>2, <1>4, NoneMade, FilesKept DEF StoreInv, StoreTyped
<1> QED BY Zenon, <1>4, <1>5 DEF StoreInv

\* The snapshot is copied over the disk.
LEMMA RestoreStore ==
  ASSUME StoreInv, NEW r \in Reqs, OpenSnapshot(r) \/ CopySnapshot(r)
  PROVE  StoreInv'
<1>1. /\ req[r] \in Handlers /\ HandlerInOrder(req[r])
      /\ req[r].ws \in Workspaces /\ req[r].id \in Checkpoints
      /\ req[r].copy \in Copies /\ req[r].pc # "idle"
  BY Zenon, HandlerTyped DEF OpenSnapshot, CopySnapshot, Handlers
<1>2. UNCHANGED <<head, snap, record, made, running>>
  BY Zenon DEF OpenSnapshot, CopySnapshot
<1>3. disk' \in [Workspaces -> Copies]
  <2>1. disk' = disk \/ \E x \in Copies : disk' = [disk EXCEPT ![req[r].ws] = x]
    BY Zenon, <1>1 DEF OpenSnapshot, CopySnapshot, Copies
  <2> QED BY Zenon, <2>1 DEF StoreInv, StoreTyped
<1>4. /\ req' \in [Reqs -> Handlers]
      /\ \A s \in Reqs : HandlerInOrder(req[s])'
  <2>1. CASE req' = [req EXCEPT ![r] = Idle]
    BY Zenon, <1>2, <2>1, IdleInOrder, HandlerSteps
  <2>2. CASE req' # [req EXCEPT ![r] = Idle]
    <3>1. PICK w, x, pc : /\ w = req[r].ws
                          /\ x = IF req[r].pc = "open_snapshot" THEN snap[req[r].from][req[r].id]
                                                                ELSE req[r].copy
                          /\ pc = IF req[r].newer = {} THEN "set_head" ELSE "prune"
      BY Zenon
    <3>2. PICK q : /\ \/ /\ OpenSnapshot(r) /\ x \in Copies
                         /\ q = [req[r] EXCEPT !.pc = "copy_snapshot", !.copy = x]
                      \/ q = [req[r] EXCEPT !.pc = pc]
                   /\ req' = [Smeared(w) EXCEPT ![r] = q]
      <4>1. CASE OpenSnapshot(r)
        <5>1. req' = [Smeared(w) EXCEPT ![r] = [req[r] EXCEPT !.pc = "copy_snapshot", !.copy = x]]
          BY Zenon, <2>2, <3>1, <4>1 DEF OpenSnapshot, Failed
        <5>2. x \in Copies
          <6>1. req[r].from \in Workspaces
            BY Zenon, <1>1, <4>1 DEF OpenSnapshot, HandlerInOrder
          <6> QED BY <1>1, <3>1, <6>1, <4>1 DEF OpenSnapshot, StoreInv, StoreTyped
        <5> QED BY Zenon, <4>1, <5>1, <5>2
      <4>2. CASE CopySnapshot(r)
        BY Zenon, <3>1, <4>2 DEF CopySnapshot
      <4> QED BY Zenon, <4>1, <4>2
    <3>3. "copy_snapshot" \in Pcs /\ pc \in Pcs /\ pc \in {"set_head", "prune"}
      BY Zenon, <3>1 DEF Pcs
    <3>4. q \in Handlers
      <4>1. CASE x \in Copies /\ q = [req[r] EXCEPT !.pc = "copy_snapshot", !.copy = x]
        BY Zenon, <1>1, <3>3, <4>1, MovedTyped
      <4>2. CASE q = [req[r] EXCEPT !.pc = pc]
        BY Zenon, <1>1, <3>3, <4>2, MovedTyped
      <4> QED BY Zenon, <3>2, <4>1, <4>2
    <3>5. HandlerInOrder(q)
      <4>1. /\ q.ws = req[r].ws /\ q.id = req[r].id /\ q.parent = req[r].parent
            /\ q.pc \in {"copy_snapshot", "set_head", "prune"}
        BY ZenonT(60), <1>1, <3>2, <3>3 DEF Handlers
      <4> QED BY Zenon, <1>1, <4>1 DEF HandlerInOrder, Making
    <3> QED BY Zenon, <1>1, <1>2, <3>1, <3>2, <3>4, <3>5, HandlersSmear
  <2> QED BY Zenon, <2>1, <2>2
<1>5. StoreTyped' /\ TimesInOrder' /\ FilesInOrder'
  BY Zenon, <1>2, <1>3, <1>4, NoneMade, FilesKept DEF StoreInv, StoreTyped
<1> QED BY Zenon, <1>4, <1>5 DEF StoreInv

\* A directory is removed.
LEMMA RemoveStore ==
  ASSUME StoreInv, NEW r \in Reqs, Prune(r) \/ RemoveDir(r)
  PROVE  StoreInv'
<1>1. /\ req[r] \in Handlers /\ HandlerInOrder(req[r])
      /\ req[r].ws \in Workspaces /\ req[r].id \in Checkpoints
      /\ req[r].newer \in SUBSET Checkpoints /\ req[r].pc # "idle"
  BY Zenon, HandlerTyped DEF Prune, RemoveDir
<1>2. UNCHANGED <<disk, head, made, running>>
  BY ZenonT(60) DEF Prune, RemoveDir
<1>3. PICK w \in Workspaces, d \in Checkpoints :
        /\ snap' = [snap EXCEPT ![w][d] = Nil]
        /\ record' = [record EXCEPT ![w][d] = Nil]
  BY Zenon, <1>1 DEF Prune, RemoveDir
<1>4. snap' \in [Workspaces -> [Checkpoints -> Copies]]
  <2>1. Nil \in Copies
    BY Zenon DEF Copies
  <2> QED BY Zenon, <1>3, <2>1 DEF StoreInv, StoreTyped
<1>5. /\ record' \in [Workspaces -> [Checkpoints -> Records \cup {Nil, Partial}]]
      /\ FilesInOrder'
  <2>1. Nil \notin Records
    BY Zenon, ContentsAssumption DEF Records
  <2> QED BY Zenon, <1>2, <1>3, <2>1, RecordChanges DEF StoreInv
<1>6. /\ req' \in [Reqs -> Handlers]
      /\ \A s \in Reqs : HandlerInOrder(req[s])'
  <2>1. CASE req' = [req EXCEPT ![r] = Idle]
    BY Zenon, <1>2, <2>1, IdleInOrder, HandlerSteps
  <2>2. CASE req' # [req EXCEPT ![r] = Idle]
    <3>1. PICK pc, n, q :
            /\ pc \in {"set_head", "prune"} /\ n \in SUBSET Checkpoints
            /\ q = [req[r] EXCEPT !.newer = n, !.pc = pc] \/ q = [req[r] EXCEPT !.pc = pc]
            /\ req' = [req EXCEPT ![r] = q]
      <4>1. CASE Prune(r)
        <5>1. PICK d0 \in Checkpoints :
                req' = [req EXCEPT ![r] =
                          [req[r] EXCEPT !.newer = req[r].newer \ {d0},
                              !.pc = IF req[r].newer = {d0} THEN "set_head" ELSE "prune"]]
          BY Zenon, <1>1, <4>1 DEF Prune, Handlers
        <5>2. req[r].newer \ {d0} \in SUBSET Checkpoints
          BY Zenon, <1>1
        <5> QED BY ZenonT(60), <5>1, <5>2
      <4>2. CASE RemoveDir(r)
        BY Zenon, <2>2, <4>2 DEF RemoveDir, Finished
      <4> QED BY Zenon, <4>1, <4>2
    <3>2. pc \in Pcs
      BY Zenon, <3>1 DEF Pcs
    <3>3. q \in Handlers
      <4>1. CASE q = [req[r] EXCEPT !.newer = n, !.pc = pc]
        BY Zenon, <1>1, <3>1, <3>2, <4>1, MovedTyped
      <4>2. CASE q = [req[r] EXCEPT !.pc = pc]
        BY Zenon, <1>1, <3>2, <4>2, MovedTyped
      <4> QED BY Zenon, <3>1, <4>1, <4>2
    <3>4. HandlerInOrder(q)
      <4>1. /\ q.ws = req[r].ws /\ q.id = req[r].id /\ q.parent = req[r].parent
            /\ q.pc = pc
        BY Zenon, <1>1, <3>1 DEF Handlers
      <4> QED BY Zenon, <1>1, <3>1, <4>1 DEF HandlerInOrder, Making
    <3> QED BY ZenonT(60), <1>2, <3>1, <3>3, <3>4, HandlerSteps
  <2> QED BY Zenon, <2>1, <2>2
<1>7. StoreTyped' /\ TimesInOrder'
  BY Zenon, <1>2, <1>4, <1>5, <1>6, NoneMade DEF StoreInv, StoreTyped
<1> QED BY Zenon, <1>5, <1>6, <1>7 DEF StoreInv

\* A handler ends early, and what it was about to do is half done.
LEMMA AbortStore ==
  ASSUME StoreInv, NEW r \in Reqs, Abort(r)
  PROVE  StoreInv'
<1>1. /\ req[r] \in Handlers /\ HandlerInOrder(req[r])
      /\ req[r].ws \in Workspaces /\ req[r].id \in Checkpoints /\ req[r].pc # "idle"
  BY Zenon, HandlerTyped DEF Abort, Free
<1>2. UNCHANGED <<disk, made, running>> /\ req' = [req EXCEPT ![r] = Idle]
  BY Zenon DEF Abort, Failed
<1>3. /\ req' \in [Reqs -> Handlers]
      /\ \A s \in Reqs : HandlerInOrder(req[s])'
  BY Zenon, <1>2, IdleInOrder, HandlerSteps
<1>4. Nil \notin Records /\ Partial \notin Records /\ Nil \in Copies
  BY Zenon, ContentsAssumption DEF Records, Copies
<1> DEFINE Whole == /\ head' \in [Workspaces -> Checkpoints \cup {Nil, Partial}]
                    /\ snap' \in [Workspaces -> [Checkpoints -> Copies]]
                    /\ record' \in [Workspaces -> [Checkpoints -> Records \cup {Nil, Partial}]]
                    /\ FilesInOrder'
<1>5. Whole
  <2>1. CASE UNCHANGED <<head, snap, record>>
    BY Zenon, <1>2, <2>1, FilesKept DEF StoreInv, StoreTyped
  <2>2. CASE head' = [head EXCEPT ![req[r].ws] = Partial] /\ UNCHANGED <<snap, record>>
    <3>1. PICK w \in Workspaces : w = req[r].ws
      BY Zenon, <1>1
    <3> QED BY ZenonT(60), <1>2, <2>2, <3>1, HeadChanges DEF StoreInv, StoreTyped
  <2>3. CASE /\ req[r].pc = "write_record"
             /\ record' = [record EXCEPT ![req[r].ws][req[r].id] = Partial]
             /\ UNCHANGED <<head, snap>>
    <3>1. PICK w \in Workspaces, c \in Checkpoints : w = req[r].ws /\ c = req[r].id
      BY Zenon, <1>1
    <3>2. c \in Of(w)
      BY Zenon, <1>1, <2>3, <3>1 DEF HandlerInOrder, Making
    <3> QED BY Zenon, <1>2, <1>4, <2>3, <3>1, <3>2, RecordChanges DEF StoreInv, StoreTyped
  <2>4. ASSUME NEW d \in Checkpoints, snap' = [snap EXCEPT ![req[r].ws][d] = Nil],
               UNCHANGED <<head, record>>
        PROVE  Whole
    BY Zenon, <1>1, <1>2, <1>4, <2>4, FilesKept DEF StoreInv, StoreTyped
  <2>5. ASSUME NEW d \in Checkpoints, record' = [record EXCEPT ![req[r].ws][d] = Nil],
               UNCHANGED <<head, snap>>
        PROVE  Whole
    <3>1. PICK w \in Workspaces : w = req[r].ws
      BY Zenon, <1>1
    <3> QED BY Zenon, <1>2, <1>4, <2>5, <3>1, RecordChanges DEF StoreInv, StoreTyped
  <2> QED BY Zenon, <2>1, <2>2, <2>3, <2>4, <2>5 DEF Abort
<1>6. StoreTyped' /\ TimesInOrder'
  BY Zenon, <1>2, <1>3, <1>5, NoneMade DEF StoreInv, StoreTyped
<1> QED BY Zenon, <1>3, <1>5, <1>6 DEF StoreInv

LEMMA StoreNext == StoreInv /\ [LineageNext]_lineageVars => StoreInv'
<1> SUFFICES ASSUME StoreInv, [LineageNext]_lineageVars
             PROVE  StoreInv'
  OBVIOUS
<1>1. CASE UNCHANGED lineageVars
  <2>1. made' = made /\ head' = head /\ record' = record /\ req' = req
    BY Zenon, <1>1 DEF lineageVars
  <2>2. \A r \in Reqs : HandlerInOrder(req[r])'
    BY Zenon, <2>1, NoneMade DEF StoreInv, HandlerInOrder
  <2> QED BY Zenon, <1>1, <2>1, <2>2, NoneMade, FilesKept DEF StoreInv, StoreTyped, lineageVars
<1>2. CASE LineageNext
  <2>1. Known \subseteq Checkpoints
    BY Zenon DEF Known
  <2> QED
    BY Zenon, <1>2, <2>1, StartStopStore, GuestWritesStore, CreateStore, SaveStore, WriteRecordStore,
       SetHeadStore, BeginStore, RestoreStore, RemoveStore, AbortStore DEF LineageNext
<1> QED BY Zenon, <1>1, <1>2

LEMMA StoreAlways == LineageSpec => []StoreInv
BY StoreInit, StoreNext, PTL DEF LineageSpec

\* However handlers overlap and wherever they end early, the source of a
\* checkpoint (source_checkpoint_id) is an older one of the same workspace.
THEOREM AncestryIsKept == LineageSpec => []LineageIsAncestral
<1>1. StoreInv => LineageIsAncestral
  <2> SUFFICES ASSUME StoreInv, NEW w \in Workspaces, NEW c \in Checkpoints,
                      Readable(w, c), record[w][c].source # Nil
               PROVE  /\ made[record[w][c].source].ws = w /\ made[c].ws = w
                      /\ made[record[w][c].source].at < made[c].at
    BY Zenon DEF LineageIsAncestral
  <2>1. record[w][c].source \in Elders(w, c) /\ c \in Of(w)
    BY Zenon DEF StoreInv, FilesInOrder, Readable
  <2> QED BY Zenon, <2>1 DEF Elders, Of, Older
<1> QED BY <1>1, StoreAlways, PTL

----------------------------------------------------------------------------
(* One handler at a time. *)

LEMMA SoloInit == LineageInit => SoloInv
<1> SUFFICES ASSUME LineageInit PROVE SoloInv
  OBVIOUS
<1>1. WholeFiles
  BY Zenon DEF LineageInit, WholeFiles
<1>2. \A r \in Reqs : req[r].pc = "idle"
  BY Zenon, IdleTyped DEF LineageInit
<1>3. \A r \in Reqs : Alone(req[r])
  BY Zenon, <1>2 DEF Alone, Making
<1> QED BY Zenon, <1>1, <1>3, StoreInit DEF SoloInv

\* A handler that has ended relies on nothing.
LEMMA IdleAlone ==
  ASSUME NEW r, Reqs = {r}, StoreInv, req' = [req EXCEPT ![r] = Idle]
  PROVE  \A s \in Reqs : Alone(req[s])'
<1>1. req'[r] = Idle
  BY Zenon DEF StoreInv, StoreTyped
<1>2. req'[r].pc = "idle"
  BY Zenon, <1>1, IdleTyped
<1> QED BY Zenon, <1>2 DEF Alone, Making

LEMMA StartStopSolo ==
  ASSUME SoloInv, NEW r, Reqs = {r}, NEW w \in Workspaces, StartStop(r, w)
  PROVE  WholeFiles' /\ \A s \in Reqs : Alone(req[s])'
<1>1. \A s \in Reqs : Alone(req[s])'
  BY Zenon, IdleAlone DEF SoloInv, StartStop
<1>2. WholeFiles'
  <2>1. \A v \in Workspaces : running'[v] => v = w \/ running[v]
    BY Zenon DEF StartStop, SoloInv, StoreInv, StoreTyped
  <2> QED BY Zenon, <2>1 DEF StartStop, SoloInv, WholeFiles, Images
<1> QED BY Zenon, <1>1, <1>2

LEMMA GuestWritesSolo ==
  ASSUME SoloInv, NEW r, Reqs = {r}, NEW w \in Workspaces, GuestWrites(w)
  PROVE  WholeFiles' /\ \A s \in Reqs : Alone(req[s])'
<1>1. PICK x \in Contents : disk' = [disk EXCEPT ![w] = x]
  BY ZenonT(60) DEF GuestWrites
<1>2. UNCHANGED <<head, snap, record, made, running>> /\ running[w]
  BY Zenon DEF GuestWrites
<1>3. \A v \in Workspaces : disk'[v] = IF v = w THEN x ELSE disk[v]
  BY Zenon, <1>1 DEF SoloInv, StoreInv, StoreTyped
<1>4. WholeFiles'
  BY Zenon, <1>2, <1>3 DEF SoloInv, WholeFiles, Images
<1>5. PICK q : q = req'[r]
  BY Zenon
<1>6. req[r] \in Handlers /\ HandlerInOrder(req[r]) /\ Alone(req[r])
  BY Zenon DEF SoloInv, StoreInv, StoreTyped
<1>7. CASE q = req[r]
  <2>1. \A v, c : NewerThan(v, c)' = NewerThan(v, c)
    BY Zenon, <1>2 DEF NewerThan, Listed, Older
  <2>2. req[r].pc # "idle" /\ req[r].op \in Restores \cup {"fork"} => disk'[req[r].ws] = disk[req[r].ws]
    BY ZenonT(60), <1>2, <1>3, <1>6 DEF Alone, HandlerInOrder
  <2> QED BY ZenonT(60), <1>2, <1>4, <1>5, <1>6, <1>7, <2>1, <2>2 DEF Alone, Readable
<1>8. CASE req[r].pc = "copy_disk" /\ q = [req[r] EXCEPT !.copy = Mixed]
  <2>1. /\ q.pc = "copy_disk" /\ q.op = req[r].op /\ q.ws = req[r].ws /\ q.id = req[r].id
        /\ q.was = req[r].was /\ q.copy = Mixed
    BY Zenon, <1>6, <1>8 DEF Handlers
  <2>2. q.op = "create" /\ ~q.was /\ record[q.ws][q.id] = Nil
    BY Zenon, <1>6, <1>8, <2>1 DEF Alone, Making, Restores
  <2> QED BY Zenon, <1>2, <1>4, <1>5, <2>1, <2>2 DEF Alone, Making, Images, Restores
<1> QED BY Zenon, <1>5, <1>7, <1>8, SmearedTyped DEF GuestWrites, SoloInv, StoreInv

LEMMA CreateSolo ==
  ASSUME SoloInv, NEW r, Reqs = {r}, NEW w \in Workspaces, CreateCheckpoint(r, w)
  PROVE  WholeFiles' /\ \A s \in Reqs : Alone(req[s])'
<1>1. UNCHANGED <<disk, head, snap, record, running>>
  BY Zenon DEF CreateCheckpoint
<1>2. WholeFiles'
  BY Zenon, <1>1 DEF SoloInv, WholeFiles
<1>3. CASE req' = [req EXCEPT ![r] = Idle]
  BY Zenon, <1>2, <1>3, IdleAlone DEF SoloInv
<1>4. CASE req' # [req EXCEPT ![r] = Idle]
  <2>1. PICK c, h :
          /\ c \in Checkpoints /\ made[c] = Nil
          /\ req' = [req EXCEPT ![r] =
                       [Idle EXCEPT !.pc = "save", !.op = "create", !.ws = w,
                                    !.id = c, !.parent = h]]
    BY Zenon, <1>4 DEF CreateCheckpoint, Failed
  <2>2. /\ req'[r].pc = "save" /\ req'[r].op = "create" /\ req'[r].ws = w /\ req'[r].id = c
        /\ req'[r].was = FALSE
    BY Zenon, <2>1 DEF Idle, SoloInv, StoreInv, StoreTyped
  <2>3. record[w][c] = Nil
    BY Zenon, <2>1 DEF SoloInv, StoreInv, FilesInOrder, Of, Made
  <2>4. running[w]
    BY ZenonT(60) DEF CreateCheckpoint
  <2> QED BY ZenonT(60), <1>1, <1>2, <2>2, <2>3, <2>4 DEF Alone, Making, Restores
<1> QED BY Zenon, <1>3, <1>4

\* The fields of a handler that no step changes.
Kept(p, q) == p.op = q.op /\ p.ws = q.ws /\ p.from = q.from /\ p.id = q.id /\ p.was = q.was

LEMMA SaveSolo ==
  ASSUME SoloInv, NEW r, Reqs = {r}, SaveCheckpoint(r) \/ CopyDisk(r)
  PROVE  WholeFiles' /\ \A s \in Reqs : Alone(req[s])'
<1>1. /\ req[r] \in Handlers /\ Alone(req[r]) /\ req[r].pc \in {"save", "copy_disk"}
      /\ req[r].ws \in Workspaces /\ req[r].id \in Checkpoints
  BY Zenon, HandlerTyped DEF SaveCheckpoint, CopyDisk, SoloInv
<1>2. UNCHANGED <<disk, head, record, made, running>>
  BY Zenon DEF SaveCheckpoint, CopyDisk
<1>3. /\ req[r].op = "create" /\ ~req[r].was /\ record[req[r].ws][req[r].id] = Nil
      /\ req[r].pc = "save" => disk[req[r].ws] \in Images
      /\ req[r].pc = "copy_disk" => req[r].copy \in Images
  BY Zenon, <1>1 DEF Alone, Making, Restores, SoloInv, WholeFiles
<1>4. PICK x : snap' = [snap EXCEPT ![req[r].ws][req[r].id] = x] /\ (req[r].pc = "copy_disk" => x \in Images)
  BY Zenon, <1>3 DEF SaveCheckpoint, CopyDisk
<1>5. /\ snap'[req[r].ws][req[r].id] = x
      /\ \A v \in Workspaces, d \in Checkpoints :
           <<v, d>> # <<req[r].ws, req[r].id>> => snap'[v][d] = snap[v][d]
  BY Zenon, <1>1, <1>4 DEF SoloInv, StoreInv, StoreTyped
<1>6. WholeFiles'
  BY Zenon, <1>1, <1>2, <1>3, <1>5 DEF SoloInv, WholeFiles
<1>7. /\ Kept(req'[r], req[r])
      /\ \/ req[r].pc = "save" /\ req'[r].pc = "copy_disk" /\ req'[r].copy = disk[req[r].ws]
         \/ req[r].pc = "copy_disk" /\ req'[r].pc = "write_record"
  <2>1. CASE SaveCheckpoint(r)
    BY Zenon, <1>1, <2>1 DEF SaveCheckpoint, Kept, Handlers, SoloInv, StoreInv, StoreTyped
  <2>2. CASE CopyDisk(r)
    BY Zenon, <1>1, <2>2 DEF CopyDisk, Kept, Handlers, SoloInv, StoreInv, StoreTyped
  <2> QED BY Zenon, <2>1, <2>2
<1> QED BY <1>1, <1>2, <1>3, <1>4, <1>5, <1>6, <1>7 DEF Alone, Kept, Making, Restores

LEMMA WriteRecordSolo ==
  ASSUME SoloInv, NEW r, Reqs = {r}, WriteRecord(r)
  PROVE  WholeFiles' /\ \A s \in Reqs : Alone(req[s])'
<1>1. /\ req[r] \in Handlers /\ Alone(req[r]) /\ req[r].pc = "write_record"
      /\ req[r].ws \in Workspaces /\ req[r].id \in Checkpoints
  BY Zenon, HandlerTyped DEF WriteRecord, SoloInv
<1>2. UNCHANGED <<disk, head, snap, made, running>>
  BY Zenon DEF WriteRecord
<1>3. req[r].op = "create" /\ ~req[r].was /\ snap[req[r].ws][req[r].id] \in Images
  BY Zenon, <1>1 DEF Alone, Making, Restores
<1>4. \A v \in Workspaces, d \in Checkpoints :
        <<v, d>> # <<req[r].ws, req[r].id>> => record'[v][d] = record[v][d]
  BY Zenon, <1>1 DEF WriteRecord, SoloInv, StoreInv, StoreTyped
<1>5. WholeFiles'
  BY Zenon, <1>1, <1>2, <1>3, <1>4 DEF SoloInv, WholeFiles
<1>6. req'[r].pc = "set_head" /\ req'[r].op = "create" /\ ~req'[r].was
  BY Zenon, <1>1, <1>3 DEF WriteRecord, Handlers, SoloInv, StoreInv, StoreTyped
<1> QED BY Zenon, <1>5, <1>6 DEF Alone, Making, Restores

LEMMA SetHeadSolo ==
  ASSUME SoloInv, NEW r, Reqs = {r}, SetHead(r)
  PROVE  WholeFiles' /\ \A s \in Reqs : Alone(req[s])'
<1>1. \A s \in Reqs : Alone(req[s])'
  BY ZenonT(60), IdleAlone DEF SoloInv, SetHead, Finished
<1>2. Alone(req[r]) /\ req[r].ws \in Workspaces /\ req[r].pc = "set_head"
  BY Zenon, HandlerTyped DEF SoloInv, SetHead
<1>3. req[r].was => disk[req[r].ws] \in Images
  BY Zenon, <1>2 DEF Alone
<1>4. \A v \in Workspaces : running'[v] => running[v] \/ (v = req[r].ws /\ req[r].was)
  BY ZenonT(60), <1>2 DEF SetHead, SoloInv, StoreInv, StoreTyped
<1>5. WholeFiles'
  BY Zenon, <1>2, <1>3, <1>4 DEF SetHead, SoloInv, WholeFiles
<1> QED BY Zenon, <1>1, <1>5

\* A request on a checkpoint begins.
LEMMA BeginSolo ==
  ASSUME SoloInv, NEW r, Reqs = {r}, NEW w \in Workspaces, NEW c \in Checkpoints,
         \/ RestoreCheckpoint(r, w, c)
         \/ DeleteCheckpoint(r, w, c)
         \/ \E n \in Workspaces : ForkWorkspace(r, w, c, n)
  PROVE  WholeFiles' /\ \A s \in Reqs : Alone(req[s])'
<1>1. UNCHANGED <<head, snap, record, made>>
  BY ZenonT(60) DEF RestoreCheckpoint, DeleteCheckpoint, ForkWorkspace
<1>2. WholeFiles'
  <2>1. \A v \in Workspaces : running'[v] => running[v] /\ disk'[v] \in Images
    <3>1. CASE RestoreCheckpoint(r, w, c) \/ DeleteCheckpoint(r, w, c)
      BY Zenon, <3>1
         DEF RestoreCheckpoint, DeleteCheckpoint, SoloInv, WholeFiles, StoreInv, StoreTyped
    <3>2. CASE \E n \in Workspaces : ForkWorkspace(r, w, c, n)
      <4>1. Blank \in Images
        BY Zenon, ContentsAssumption DEF Images
      <4> QED BY ZenonT(60), <3>2, <4>1 DEF ForkWorkspace, SoloInv, WholeFiles, StoreInv, StoreTyped
    <3> QED BY Zenon, <3>1, <3>2
  <2> QED BY Zenon, <1>1, <2>1 DEF SoloInv, WholeFiles
<1>3. CASE req' = [req EXCEPT ![r] = Idle]
  BY Zenon, <1>2, <1>3, IdleAlone DEF SoloInv
<1>4. CASE RestoreCheckpoint(r, w, c) /\ req' # [req EXCEPT ![r] = Idle]
  <2>1. c \in Listed(w) /\ ~ListFails(w)
    BY Zenon, <1>4 DEF RestoreCheckpoint, Failed
  <2>2. PICK m \in Restores :
          req' = [req EXCEPT ![r] =
                    [Idle EXCEPT !.pc = "open_snapshot", !.op = m, !.ws = w, !.from = w,
                                 !.id = c, !.parent = c, !.was = running[w],
                                 !.newer = IF m = "rollback" THEN NewerThan(w, c) ELSE {}]]
    BY Zenon, <1>4 DEF RestoreCheckpoint, Failed, Restores
  <2>3. /\ req'[r].pc = "open_snapshot" /\ req'[r].op = m /\ req'[r].ws = w /\ req'[r].from = w
        /\ req'[r].id = c /\ req'[r].parent = c
        /\ req'[r].newer = IF m = "rollback" THEN NewerThan(w, c) ELSE {}
    BY Zenon, <2>2 DEF Idle, SoloInv, StoreInv, StoreTyped
  <2>4. Readable(w, c)' /\ NewerThan(w, c)' = NewerThan(w, c) /\ ~running'[w]
    <3>1. Readable(w, c)'
      BY Zenon, <1>1, <2>1 DEF Listed, ListFails, Readable
    <3>2. NewerThan(w, c)' = NewerThan(w, c)
      BY Zenon, <1>1 DEF NewerThan, Listed, Older
    <3>3. ~running'[w]
      BY Zenon, <1>4 DEF RestoreCheckpoint, SoloInv, StoreInv, StoreTyped
    <3> QED BY Zenon, <3>1, <3>2, <3>3
  <2>5. c \notin NewerThan(w, c)
    <3>1. made[c].at \in Nat
      BY Zenon, <2>1 DEF Listed, SoloInv, StoreInv, StoreTyped, FilesInOrder, Of, Made
    <3> QED BY SMTT(40), <3>1 DEF NewerThan, Older
  <2>6. m = "rollback" \/ m = "replace"
    BY Zenon DEF Restores
  <2>7. Alone(req[r])'
    BY ZenonT(60), <2>3, <2>4, <2>5, <2>6 DEF Alone, Making, Restores
  <2> QED BY Zenon, <1>2, <2>7
<1>5. ASSUME NEW n \in Workspaces, ForkWorkspace(r, w, c, n), req' # [req EXCEPT ![r] = Idle]
      PROVE  Alone(req[r])'
  <2>1. req' = [req EXCEPT ![r] = [Idle EXCEPT !.pc = "open_snapshot", !.op = "fork", !.ws = n,
                                               !.from = w, !.id = c]]
    BY Zenon, <1>5 DEF ForkWorkspace, Failed
  <2>2. /\ req'[r].pc = "open_snapshot" /\ req'[r].op = "fork" /\ req'[r].ws = n
        /\ req'[r].from = w /\ req'[r].id = c /\ req'[r].parent = Nil /\ req'[r].newer = {}
        /\ req'[r].was = FALSE
    BY Zenon, <2>1 DEF Idle, SoloInv, StoreInv, StoreTyped
  <2>3. Readable(w, c)'
    BY ZenonT(60), <1>1, <1>5 DEF ForkWorkspace, Failed, Readable
  <2>4. ~running'[n]
    BY Zenon, <1>5, ContentsAssumption DEF ForkWorkspace, SoloInv, WholeFiles, Images
  <2> QED BY ZenonT(60), <2>2, <2>3, <2>4 DEF Alone, Making, Restores
<1>6. CASE DeleteCheckpoint(r, w, c) /\ req' # [req EXCEPT ![r] = Idle]
  <2>1. PICK x, p : req' = [req EXCEPT ![r] = [Idle EXCEPT !.pc = "remove", !.op = "delete",
                                                 !.ws = w, !.id = c, !.copy = x, !.parent = p]]
    BY Zenon, <1>6 DEF DeleteCheckpoint, Failed
  <2>2. req'[r].pc = "remove" /\ req'[r].op = "delete" /\ req'[r].was = FALSE
    BY Zenon, <2>1 DEF Idle, SoloInv, StoreInv, StoreTyped
  <2>3. Alone(req[r])'
    BY Zenon, <2>2 DEF Alone, Making, Restores
  <2> QED BY Zenon, <1>2, <2>3
<1> QED BY Zenon, <1>2, <1>3, <1>4, <1>5, <1>6

\* The snapshot is copied over the disk of a BOX that is stopped.
LEMMA RestoreSolo ==
  ASSUME SoloInv, NEW r, Reqs = {r}, OpenSnapshot(r) \/ CopySnapshot(r)
  PROVE  WholeFiles' /\ \A s \in Reqs : Alone(req[s])'
<1>1. /\ req[r] \in Handlers /\ Alone(req[r]) /\ req[r].pc \in {"open_snapshot", "copy_snapshot"}
      /\ req[r].ws \in Workspaces /\ req[r].id \in Checkpoints
  BY Zenon, HandlerTyped DEF OpenSnapshot, CopySnapshot, SoloInv
<1>2. UNCHANGED <<head, snap, record, made, running>>
  BY Zenon DEF OpenSnapshot, CopySnapshot
<1>3. /\ req[r].op \in Restores \cup {"fork"} /\ req[r].from \in Workspaces
      /\ ~running[req[r].ws] /\ Readable(req[r].from, req[r].id)
  BY ZenonT(60), <1>1 DEF Alone
<1>4. WholeFiles'
  <2>1. \A v \in Workspaces : v # req[r].ws => disk'[v] = disk[v]
    BY Zenon, <1>1 DEF OpenSnapshot, CopySnapshot, SoloInv, StoreInv, StoreTyped
  <2> QED BY Zenon, <1>2, <1>3, <2>1 DEF SoloInv, WholeFiles
<1>5. CASE req' = [req EXCEPT ![r] = Idle]
  BY ZenonT(60), <1>4, <1>5, IdleAlone DEF SoloInv
<1>6. CASE OpenSnapshot(r) /\ req' # [req EXCEPT ![r] = Idle]
  <2>1. /\ snap[req[r].from][req[r].id] # Nil
        /\ req' = [Smeared(req[r].ws) EXCEPT ![r] =
                     [req[r] EXCEPT !.pc = "copy_snapshot", !.copy = snap[req[r].from][req[r].id]]]
    BY Zenon, <1>6 DEF OpenSnapshot, Failed
  <2>2. snap[req[r].from][req[r].id] \in Images
    BY Zenon, <1>1, <1>3, <2>1 DEF SoloInv, WholeFiles, Readable
  <2>3. req'[r] = [req[r] EXCEPT !.pc = "copy_snapshot", !.copy = snap[req[r].from][req[r].id]]
    BY Zenon, <2>1 DEF Smeared
  <2>4. /\ Kept(req'[r], req[r]) /\ req'[r].pc = "copy_snapshot"
        /\ req'[r].copy = snap[req[r].from][req[r].id]
        /\ req'[r].newer = req[r].newer /\ req'[r].parent = req[r].parent
    BY Zenon, <1>1, <2>3 DEF Kept, Handlers
  <2>5. Alone(req[r])'
    BY ZenonT(60), <1>1, <1>2, <1>3, <1>6, <2>2, <2>4
       DEF Alone, Kept, Making, Restores, OpenSnapshot, Readable, NewerThan, Listed, Older
  <2> QED BY Zenon, <1>4, <2>5
<1>7. CASE CopySnapshot(r)
  <2>1. disk'[req[r].ws] = req[r].copy
    BY Zenon, <1>1, <1>7 DEF CopySnapshot, SoloInv, StoreInv, StoreTyped
  <2>2. req'[r] = [req[r] EXCEPT !.pc = IF req[r].newer = {} THEN "set_head" ELSE "prune"]
    BY Zenon, <1>7 DEF CopySnapshot, Smeared
  <2>3. /\ Kept(req'[r], req[r])
        /\ req'[r].pc = IF req[r].newer = {} THEN "set_head" ELSE "prune"
        /\ req'[r].newer = req[r].newer /\ req'[r].parent = req[r].parent
    BY Zenon, <1>1, <2>2 DEF Kept, Handlers
  <2>4. PICK w \in Workspaces, c \in Checkpoints : w = req[r].ws /\ c = req[r].id
    BY Zenon, <1>1
  <2>5. NewerThan(w, c)' = NewerThan(w, c)
    BY Zenon, <1>2 DEF NewerThan, Listed, Older
  <2>6. /\ req[r].copy = snap[req[r].from][req[r].id] /\ req[r].copy \in Images
        /\ req[r].pc = "copy_snapshot"
    BY Zenon, <1>1, <1>3, <1>7 DEF Alone, CopySnapshot
  <2>7. ASSUME req[r].op = "fork" PROVE Alone(req[r])'
    BY ZenonT(60), <1>1, <1>2, <1>3, <2>1, <2>3, <2>6, <2>7
       DEF Alone, Kept, Making, Restores, Readable
  <2>8. ASSUME req[r].op \in Restores PROVE Alone(req[r])'
    BY ZenonT(60), <1>1, <1>2, <1>3, <2>1, <2>3, <2>4, <2>5, <2>6, <2>8
       DEF Alone, Kept, Making, Restores, Readable
  <2> QED BY Zenon, <1>3, <1>4, <2>7, <2>8
<1> QED BY Zenon, <1>5, <1>6, <1>7

\* Whatever is removed leaves the other directories as they are.
LEMMA RemovedWhole ==
  ASSUME SoloInv, NEW w \in Workspaces, NEW d \in Checkpoints, UNCHANGED <<disk, running>>,
         snap' = snap \/ snap' = [snap EXCEPT ![w][d] = Nil],
         record' = record \/ record' = [record EXCEPT ![w][d] = Nil]
  PROVE  /\ WholeFiles'
         /\ \A v \in Workspaces, c \in Checkpoints :
              <<v, c>> # <<w, d>> => snap'[v][c] = snap[v][c] /\ record'[v][c] = record[v][c]
<1>1. \A v \in Workspaces, c \in Checkpoints :
        snap'[v][c] = snap[v][c] \/ (snap'[v][c] = Nil /\ v = w /\ c = d)
  BY DEF SoloInv, StoreInv, StoreTyped
<1>2. \A v \in Workspaces, c \in Checkpoints :
        record'[v][c] = record[v][c] \/ (record'[v][c] = Nil /\ v = w /\ c = d)
  BY DEF SoloInv, StoreInv, StoreTyped
<1>3. WholeFiles'
  BY Zenon, <1>1, <1>2 DEF SoloInv, WholeFiles
<1> QED BY Zenon, <1>1, <1>2, <1>3

LEMMA PruneSolo ==
  ASSUME SoloInv, NEW r, Reqs = {r}, Prune(r)
  PROVE  WholeFiles' /\ \A s \in Reqs : Alone(req[s])'
<1>1. /\ req[r] \in Handlers /\ Alone(req[r]) /\ req[r].pc = "prune"
      /\ req[r].ws \in Workspaces /\ req[r].id \in Checkpoints
  BY Zenon, HandlerTyped DEF Prune, SoloInv
<1>2. UNCHANGED <<disk, head, made, running>>
  BY Zenon DEF Prune
<1>3. PICK d \in Checkpoints :
        /\ d \in req[r].newer
        /\ snap' = [snap EXCEPT ![req[r].ws][d] = Nil]
        /\ record' = [record EXCEPT ![req[r].ws][d] = Nil]
        /\ req' = [req EXCEPT ![r] =
                     [req[r] EXCEPT !.newer = @ \ {d},
                                    !.pc = IF req[r].newer = {d} THEN "set_head" ELSE "prune"]]
  BY Zenon DEF Prune, Oldest
<1>4. /\ WholeFiles'
      /\ \A v \in Workspaces, c \in Checkpoints :
           <<v, c>> # <<req[r].ws, d>> => snap'[v][c] = snap[v][c] /\ record'[v][c] = record[v][c]
  BY ZenonT(60), <1>1, <1>2, <1>3, RemovedWhole
<1>5. /\ req[r].op = "rollback" /\ req[r].from = req[r].ws /\ req[r].parent = req[r].id
      /\ ~running[req[r].ws] /\ Readable(req[r].ws, req[r].id)
      /\ disk[req[r].ws] = snap[req[r].ws][req[r].id] /\ disk[req[r].ws] \in Images
      /\ req[r].id \notin req[r].newer
      /\ NewerThan(req[r].ws, req[r].id) \subseteq req[r].newer
  BY Zenon, <1>1 DEF Alone, Restores
<1> PICK w \in Workspaces, c \in Checkpoints : w = req[r].ws /\ c = req[r].id
  BY Zenon, <1>1
<1>6. /\ Kept(req'[r], req[r]) /\ req'[r].parent = req[r].parent
      /\ req'[r].newer = req[r].newer \ {d}
      /\ req'[r].pc = IF req[r].newer = {d} THEN "set_head" ELSE "prune"
  BY Zenon, <1>1, <1>3 DEF Kept, Handlers, SoloInv, StoreInv, StoreTyped
<1>7. NewerThan(w, c)' \subseteq req[r].newer \ {d}
  <2>1. record'[w][d] = Nil
    BY Zenon, <1>3 DEF SoloInv, StoreInv, StoreTyped
  <2> QED BY Zenon, <1>2, <1>4, <1>5, <2>1 DEF NewerThan, Listed, Older
<1>8. snap'[w][c] = snap[w][c] /\ Readable(w, c)'
  BY SMTT(40), <1>3, <1>4, <1>5 DEF Readable
<1>9. req'[r].pc = "set_head" => NewerThan(w, c)' = {}
  BY Zenon, <1>6, <1>7
<1>10. req'[r].pc # "set_head" => NewerThan(w, c)' \subseteq req'[r].newer
  BY Zenon, <1>6, <1>7
<1>11. Alone(req[r])'
  BY Zenon, <1>2, <1>5, <1>6, <1>8, <1>9, <1>10 DEF Alone, Kept, Making, Restores
<1> QED BY Zenon, <1>4, <1>11

LEMMA RemoveSolo ==
  ASSUME SoloInv, NEW r, Reqs = {r}, RemoveDir(r)
  PROVE  WholeFiles' /\ \A s \in Reqs : Alone(req[s])'
<1>1. /\ req[r] \in Handlers /\ Alone(req[r]) /\ req[r].pc = "remove"
      /\ req[r].ws \in Workspaces /\ req[r].id \in Checkpoints
  BY Zenon, HandlerTyped DEF RemoveDir, SoloInv
<1>2. WholeFiles'
  BY Zenon, <1>1, RemovedWhole DEF RemoveDir
<1>3. CASE req' = [req EXCEPT ![r] = Idle]
  BY ZenonT(60), <1>2, <1>3, IdleAlone DEF SoloInv
<1>4. CASE req' # [req EXCEPT ![r] = Idle]
  <2>1. req[r].op = "delete" /\ ~req[r].was
    BY Zenon, <1>1 DEF Alone, Restores
  <2>2. req'[r].pc = "set_head" /\ req'[r].op = "delete" /\ ~req'[r].was
    BY ZenonT(60), <1>1, <1>4, <2>1 DEF RemoveDir, Finished, Handlers, SoloInv, StoreInv, StoreTyped
  <2>3. Alone(req[r])'
    BY Zenon, <2>2 DEF Alone, Making, Restores
  <2> QED BY Zenon, <1>2, <2>3
<1> QED BY Zenon, <1>3, <1>4

LEMMA AbortSolo ==
  ASSUME SoloInv, NEW r, Reqs = {r}, Abort(r)
  PROVE  WholeFiles' /\ \A s \in Reqs : Alone(req[s])'
<1>1. \A s \in Reqs : Alone(req[s])'
  BY Zenon, IdleAlone DEF SoloInv, Abort, Failed
<1>2. /\ req[r] \in Handlers /\ Alone(req[r]) /\ req[r].ws \in Workspaces
      /\ req[r].id \in Checkpoints /\ req[r].pc # "idle"
  BY Zenon, HandlerTyped DEF Abort, Free, SoloInv
<1>3. UNCHANGED <<disk, running>>
  BY Zenon DEF Abort
<1>4. CASE UNCHANGED <<snap, record>>
  BY ZenonT(60), <1>1, <1>3, <1>4 DEF SoloInv, WholeFiles
<1>5. CASE /\ req[r].pc = "write_record" /\ UNCHANGED snap
           /\ record' = [record EXCEPT ![req[r].ws][req[r].id] = Partial]
  <2>1. snap[req[r].ws][req[r].id] \in Images
    BY Zenon, <1>2, <1>5 DEF Alone, Making
  <2>2. \A v \in Workspaces, c \in Checkpoints :
          <<v, c>> # <<req[r].ws, req[r].id>> => record'[v][c] = record[v][c]
    BY Zenon, <1>2, <1>5 DEF SoloInv, StoreInv, StoreTyped
  <2> QED BY Zenon, <1>1, <1>2, <1>3, <1>5, <2>1, <2>2 DEF SoloInv, WholeFiles
<1>6. CASE \E d \in Checkpoints :
             \/ snap' = [snap EXCEPT ![req[r].ws][d] = Nil] /\ UNCHANGED record
             \/ record' = [record EXCEPT ![req[r].ws][d] = Nil] /\ UNCHANGED snap
  BY Zenon, <1>1, <1>2, <1>3, <1>6, RemovedWhole
<1> QED BY Zenon, <1>4, <1>5, <1>6 DEF Abort

LEMMA SoloNext ==
  ASSUME OneRequest
  PROVE  SoloInv /\ [LineageNext]_lineageVars => SoloInv'
<1> SUFFICES ASSUME SoloInv, [LineageNext]_lineageVars
             PROVE  SoloInv'
  BY Zenon
<1>1. PICK r : Reqs = {r}
  BY Zenon DEF OneRequest
<1>2. CASE UNCHANGED lineageVars
  BY ZenonT(60), <1>2, StoreNext
     DEF SoloInv, WholeFiles, Alone, Readable, NewerThan, Listed, Older, lineageVars
<1>3. CASE LineageNext
  <2>1. Known \subseteq Checkpoints
    BY Zenon DEF Known
  <2>2. WholeFiles' /\ \A s \in Reqs : Alone(req[s])'
    BY Zenon, <1>1, <1>3, <2>1, StartStopSolo, GuestWritesSolo, CreateSolo, SaveSolo, WriteRecordSolo,
       SetHeadSolo, BeginSolo, RestoreSolo, PruneSolo, RemoveSolo, AbortSolo DEF LineageNext
  <2> QED BY ZenonT(60), <2>2, StoreNext DEF SoloInv
<1> QED BY Zenon, <1>2, <1>3

LEMMA SoloAlways ==
  ASSUME OneRequest
  PROVE  LineageSpec => []SoloInv
BY SoloInit, SoloNext, PTL DEF LineageSpec

\* Whatever is interrupted, a checkpoint that is listed is whole, has its place in
\* the lineage, and stays so while it is being restored: record.json is written
\* after the copy, and a rollback never prunes its target.  For one request at a
\* time: nothing locks the store, and a save that overlaps a restore of the same
\* workspace copies the disk half-restored.
THEOREM CheckpointsAreKept ==
  ASSUME OneRequest
  PROVE  LineageSpec => []CheckpointsAreSound
<1>1. SoloInv => ListedIsWhole
  <2>1. Partial \notin Images \cup {Nil}
    BY Zenon, ContentsAssumption DEF Images
  <2> QED BY Zenon, <2>1 DEF SoloInv, WholeFiles, ListedIsWhole, Listed
<1>2. SoloInv => RestoreIsRepeatable
  <2> SUFFICES ASSUME SoloInv, NEW r \in Reqs,
                      req[r].pc \in {"copy_snapshot", "prune", "set_head"},
                      req[r].op \in Restores
               PROVE  Readable(req[r].ws, req[r].id) /\ snap[req[r].ws][req[r].id] \in Images
    BY Zenon DEF RestoreIsRepeatable, Restores, Images
  <2>1. Alone(req[r])
    BY Zenon DEF SoloInv
  <2> QED BY Zenon, <2>1 DEF Alone
<1> QED BY <1>1, <1>2, AncestryIsKept, SoloAlways, PTL DEF CheckpointsAreSound

Counted == aborts \in Nat

LEMMA AbortsCounted == LineageSpec => []Counted
<1>1. LineageInit => Counted
  BY DEF LineageInit, Counted
<1>2. Counted /\ [LineageNext]_lineageVars => Counted'
  <2>1. ASSUME NEW r \in Reqs, NEW w, NEW c,
               \/ StartStop(r, w) \/ CreateCheckpoint(r, w) \/ RestoreCheckpoint(r, w, c)
               \/ DeleteCheckpoint(r, w, c) \/ \E n \in Workspaces : ForkWorkspace(r, w, c, n)
        PROVE  aborts' = aborts
    BY ZenonT(60), <2>1
       DEF StartStop, CreateCheckpoint, RestoreCheckpoint, DeleteCheckpoint, ForkWorkspace
  <2>2. ASSUME NEW r \in Reqs,
               \/ SaveCheckpoint(r) \/ CopyDisk(r) \/ WriteRecord(r) \/ SetHead(r)
               \/ OpenSnapshot(r) \/ CopySnapshot(r) \/ Prune(r) \/ RemoveDir(r)
        PROVE  aborts' = aborts
    BY Zenon, <2>2 DEF SaveCheckpoint, CopyDisk, WriteRecord, SetHead, OpenSnapshot, CopySnapshot,
                Prune, RemoveDir
  <2>3. ASSUME NEW w, GuestWrites(w) PROVE aborts' = aborts
    BY Zenon, <2>3 DEF GuestWrites
  <2>4. ASSUME NEW r \in Reqs, Abort(r) PROVE aborts' = aborts + 1
    BY Zenon, <2>4 DEF Abort
  <2>5. LineageNext => aborts' = aborts \/ aborts' = aborts + 1
    BY Zenon, <2>1, <2>2, <2>3, <2>4 DEF LineageNext
  <2> QED BY SMTT(40), <2>5 DEF Counted, lineageVars
<1> QED BY <1>1, <1>2, PTL DEF LineageSpec

\* A restore or fork that returns Ok leaves the disk equal to the snapshot and the
\* head at the target, and a rollback leaves no newer checkpoint.  For one request
\* at a time, as above.
THEOREM RestoresAreExact ==
  ASSUME OneRequest
  PROVE  LineageSpec => RestoreIsExact
<1>1. SoloInv /\ Counted /\ [LineageNext]_lineageVars => [RestoresExactly]_lineageVars
  <2> SUFFICES ASSUME SoloInv, Counted, LineageNext, NEW r \in Reqs,
                      req[r].pc = "set_head", req'[r] = Idle, aborts' = aborts,
                      req[r].op \in Restores \cup {"fork"}
               PROVE  \A q \in {req[r]} : Exact(q)'
    BY Zenon DEF RestoresExactly, Exact, Restores, Finished
  <2>1. SetHead(r)
    <3>1. Reqs = {r}
      BY Zenon DEF OneRequest
    <3>2. req'[r] # req[r]
      BY Zenon, IdleTyped
    <3>3. ~\E w \in Workspaces : GuestWrites(w)
      BY Zenon, <3>2 DEF GuestWrites, Smeared
    <3>4. ~Abort(r)
      BY DEF Abort, Counted
    <3>5. ~(\/ SaveCheckpoint(r) \/ CopyDisk(r) \/ WriteRecord(r) \/ OpenSnapshot(r)
            \/ CopySnapshot(r) \/ Prune(r) \/ RemoveDir(r))
      BY Zenon
         DEF SaveCheckpoint, CopyDisk, WriteRecord, OpenSnapshot, CopySnapshot, Prune, RemoveDir
    <3>6. ASSUME NEW w, NEW c, NEW n
          PROVE  ~(\/ StartStop(r, w) \/ CreateCheckpoint(r, w) \/ RestoreCheckpoint(r, w, c)
                   \/ DeleteCheckpoint(r, w, c) \/ ForkWorkspace(r, w, c, n))
      BY Zenon
         DEF StartStop, CreateCheckpoint, RestoreCheckpoint, DeleteCheckpoint, ForkWorkspace, Free
    <3> QED BY Zenon, <3>1, <3>3, <3>4, <3>5, <3>6 DEF LineageNext
  <2>2. PICK q : q = req[r]
    BY Zenon
  <2>3. q \in Handlers /\ q.ws \in Workspaces /\ q.id \in Checkpoints /\ Alone(q)
    BY Zenon, <2>2, HandlerTyped DEF SoloInv
  <2>4. /\ disk[q.ws] = snap[q.from][q.id]
        /\ q.parent = IF q.op = "fork" THEN Nil ELSE q.id
        /\ q.op = "rollback" => NewerThan(q.ws, q.id) = {}
    BY ZenonT(60), <2>2, <2>3 DEF Alone, Restores
  <2>5. UNCHANGED <<disk, snap, record, made>> /\ head'[q.ws] = q.parent
    BY Zenon, <2>1, <2>2, <2>3 DEF SetHead, SoloInv, StoreInv, StoreTyped
  <2>6. NewerThan(q.ws, q.id)' = NewerThan(q.ws, q.id)
    BY Zenon, <2>5 DEF NewerThan, Listed, Older
  <2>7. Exact(q)'
    BY Zenon, <2>4, <2>5, <2>6 DEF Exact
  <2> QED BY Zenon, <2>2, <2>7
<1> QED BY <1>1, SoloAlways, AbortsCounted, PTL DEF LineageSpec, RestoreIsExact

=============================================================================
