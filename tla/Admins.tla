------------------------------ MODULE Admins ------------------------------
(***************************************************************************)
(* The registry of admins (src/auth.rs, AdminStore): one file, rewritten   *)
(* in place by every successful login, every AdminAdd and every            *)
(* AdminRemoveMe, each a read-modify-write of an API connection under      *)
(* file_lock. The connections (src/box_api/server) keep the principal they *)
(* authenticated with. The daemon may be killed at any moment and started  *)
(* again.                                                                  *)
(***************************************************************************)

CONSTANTS
  Ids,     \* admin uuids that may be generated
  Root,    \* the admin of the user config, given to the daemon at its start
  Conns,   \* API connections
  None, Torn

ASSUME RootAssumption == Root \in Ids
ASSUME NoneAssumption == None \notin Ids \cup Conns
\* Torn is what a registry cut short by a crash decodes to: no registry at all.
ASSUME TornAssumption == Torn \notin [Ids -> {"none", "active", "inactive"}]

VARIABLES
  file,    \* the registry on disk: what it says of every id, or Torn
  up,      \* whether the daemon serves
  lock,    \* the connection that holds file_lock
  conn,    \* the state of every connection
  given,   \* ids whose credential a client was given
  removed  \* ids whose removal was written

vars == <<file, up, lock, conn, given, removed>>

Registry == [Ids -> {"none", "active", "inactive"}]
Active(reg) == {a \in Ids : reg[a] = "active"}

\* who: the principal; op: the request in progress; id: its subject; reg: what it read
Session(who, op, id, reg) == [who |-> who, op |-> op, id |-> id, reg |-> reg]
Open(who) == Session(who, "none", None, Torn)
Closed == Open(None)

\* remove_admin refuses the last active admin, and one that is not active
Removable(a, reg) == a \in Active(reg) /\ \E b \in Active(reg) : b # a
\* The requests in progress that will write the registry
Writes(r) ==
  \/ r.op = "login" /\ r.id \in Active(r.reg)
  \/ r.op = "add"
  \/ r.op = "remove" /\ Removable(r.id, r.reg)

Init ==
  /\ file = [a \in Ids |-> "none"]   \* no file: read_registry returns no admins
  /\ up = FALSE
  /\ lock = None
  /\ conn = [c \in Conns |-> Closed]
  /\ given = {Root}
  /\ removed = {}

-----------------------------------------------------------------------------
(* The daemon *)

\* Mutant: the config's admin is made active at every start.
BootstrapAlways ==
  /\ ~up
  /\ file # Torn
  /\ up' = TRUE
  /\ file' = [file EXCEPT ![Root] = "active"]
  /\ UNCHANGED <<lock, conn, given, removed>>

\* bootstrap runs before the API is served; a registry it cannot decode ends the start
Bootstrap ==
  /\ ~up
  /\ file # Torn
  /\ up' = TRUE
  /\ file' = IF Active(file) # {} THEN file ELSE [file EXCEPT ![Root] = "active"]
  /\ UNCHANGED <<lock, conn, given, removed>>

\* The process is killed; inside write_private_file, between the truncation and
\* the end of the write, that leaves a torn file.
Crash ==
  /\ up
  /\ up' = FALSE
  /\ lock' = None
  /\ conn' = [c \in Conns |-> Closed]
  /\ \/ UNCHANGED file
     \/ \E c \in Conns : Writes(conn[c]) /\ file' = Torn
  /\ UNCHANGED <<given, removed>>

-----------------------------------------------------------------------------
(* A request: take the lock and read; decide and write; answer *)

\* Mutant: the lock is taken for the write only.
BeginUnlocked(c, op, id) ==
  /\ up
  /\ conn[c].op = "none"
  /\ IF file = Torn
     THEN UNCHANGED <<conn, lock>>
     ELSE /\ conn' = [conn EXCEPT ![c] = Session(conn[c].who, op, id, file)]
          /\ UNCHANGED lock
  /\ UNCHANGED <<file, up, given, removed>>

\* A registry that cannot be decoded is an error, and the lock is free again.
Begin(c, op, id) ==
  /\ up
  /\ conn[c].op = "none"
  /\ lock = None
  /\ file # Torn
  /\ lock' = c
  /\ conn' = [conn EXCEPT ![c] = Session(conn[c].who, op, id, file)]
  /\ UNCHANGED <<file, up, given, removed>>

\* AuthenticateAdmin, with a credential somebody was given
Authenticate(c) == \E a \in given : Begin(c, "login", a)
\* require_admin looks at the principal only
AdminAdd(c) == conn[c].who # None /\ Begin(c, "add", None)
AdminRemoveMe(c) == conn[c].who # None /\ Begin(c, "remove", conn[c].who)

\* authenticate: a match touches updated_at_ms and rewrites the registry as read;
\* no match closes the connection
Login(c) ==
  LET a == conn[c].id  matched == a \in Active(conn[c].reg) IN
  /\ conn[c].op = "login"
  /\ file' = IF matched THEN conn[c].reg ELSE file
  /\ conn' = [conn EXCEPT ![c] = IF matched THEN Open(a) ELSE Closed]
  /\ lock' = None
  /\ UNCHANGED <<up, given, removed>>

\* add_admin: a new uuid; the answer carries its credential
AddAdmin(c) ==
  /\ conn[c].op = "add"
  /\ \E a \in Ids \ {Root} :
       /\ conn[c].reg[a] = "none"
       /\ file' = [conn[c].reg EXCEPT ![a] = "active"]
       /\ conn' = [conn EXCEPT ![c] = Session(conn[c].who, "answer", a, Torn)]
  /\ lock' = None
  /\ UNCHANGED <<up, given, removed>>

\* The answer reaches the client, or the connection breaks first.
Answer(c) ==
  /\ conn[c].op = "answer"
  /\ \/ /\ given' = given \cup {conn[c].id}
        /\ conn' = [conn EXCEPT ![c] = Open(conn[c].who)]
     \/ /\ conn' = [conn EXCEPT ![c] = Closed]
        /\ UNCHANGED given
  /\ UNCHANGED <<file, up, lock, removed>>

\* remove_admin: written, and the connection closes; or refused
RemoveAdmin(c) ==
  LET a == conn[c].id  reg == conn[c].reg  removable == Removable(a, reg) IN
  /\ conn[c].op = "remove"
  /\ file' = IF removable THEN [reg EXCEPT ![a] = "inactive"] ELSE file
  /\ removed' = IF removable THEN removed \cup {a} ELSE removed
  /\ conn' = [conn EXCEPT ![c] = IF removable THEN Closed ELSE Open(conn[c].who)]
  /\ lock' = None
  /\ UNCHANGED <<up, given>>

\* The disk is full: write_private_file has truncated the file, and the request
\* fails; a login ends its connection
WriteFails(c) ==
  /\ Writes(conn[c])
  /\ file' = Torn
  /\ lock' = None
  /\ conn' = [conn EXCEPT ![c] = IF conn[c].op = "login" THEN Closed ELSE Open(conn[c].who)]
  /\ UNCHANGED <<up, given, removed>>

Disconnect(c) ==
  /\ conn[c].op = "none" /\ conn[c].who # None
  /\ conn' = [conn EXCEPT ![c] = Closed]
  /\ UNCHANGED <<file, up, lock, given, removed>>

Next ==
  \/ Bootstrap \/ Crash
  \/ \E c \in Conns :
       \/ Authenticate(c) \/ AdminAdd(c) \/ AdminRemoveMe(c)
       \/ Login(c) \/ AddAdmin(c) \/ RemoveAdmin(c) \/ Answer(c)
       \/ WriteFails(c) \/ Disconnect(c)

Spec == Init /\ [][Next]_vars

-----------------------------------------------------------------------------
(* Properties *)

Connection ==
  [who : Ids \cup {None}, op : {"none", "login", "add", "remove", "answer"},
   id : Ids \cup {None}, reg : Registry \cup {Torn}]

TypeOK ==
  /\ file \in Registry \cup {Torn}
  /\ up \in BOOLEAN
  /\ lock \in Conns \cup {None}
  /\ conn \in [Conns -> Connection]
  /\ given \subseteq Ids
  /\ removed \subseteq Ids

\* From the first start on, a registry that can be read has an active admin, whatever
\* logins, additions and removals of several connections overlap: remove_admin
\* decides on the registry it will replace. Without one nobody could log in, and
\* the next start would make the config's admin active again.
LastAdminStays == up /\ file # Torn => Active(file) # {}

\* No rewrite loses another one: an admin whose credential was given to a client
\* stays registered until its own removal, and a login or addition in progress
\* does not bring a removed admin back.
NoLostUpdate ==
  file # Torn =>
    \A a \in given \ {Root} : file[a] = IF a \in removed THEN "inactive" ELSE "active"

\* The registry of a serving daemon is complete: what the lock of AdminStore is for.
RegistryIsKept == LastAdminStays /\ NoLostUpdate

\* Once a removal is written, no step makes that admin active again: not a stale
\* rewrite, and not the bootstrap of a later start.
RemovalIsFinal ==
  [][\A a \in Ids : file # Torn /\ file' # Torn /\ file[a] = "inactive"
       => file'[a] = "inactive"]_vars
=============================================================================
