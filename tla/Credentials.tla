----------------------------- MODULE Credentials -----------------------------
(***************************************************************************)
(* The credentials of BOXes (src/auth.rs, BoxCredentialStore): one file,   *)
(* rewritten in place by every credential an admin issues and by every     *)
(* login with one, each a read-modify-write under file_lock.  A BOX has    *)
(* one credential; issuing another replaces it.  The daemon may be killed  *)
(* at any moment and started again.                                        *)
(***************************************************************************)
EXTENDS Naturals

CONSTANTS
    Boxes, Conns,
    AdminConns,  \* the connections that an admin has logged in on
    MaxIssues    \* bound: credentials issued per BOX

VARIABLES
    file,     \* the registry on disk: the credential of every BOX, 0 for none
    torn,     \* whether the file was cut short, and cannot be decoded
    up,       \* whether the daemon serves
    lock,     \* the connections that hold file_lock
    conn,     \* the state of every connection
    known,    \* the BOXes that exist
    issued,   \* the credential last issued for every BOX
    given     \* the credentials of every BOX that a client has

credentialVars == <<file, torn, up, lock, conn, known, issued, given>>

NoBox == {}

(* who: the BOX it is authenticated for, if any; pc: the request in progress,  *)
(* with its BOX, its credential and the registry it read                       *)
Session(who, pc, box, token, reg) ==
    [who |-> who, pc |-> pc, box |-> box, token |-> token, reg |-> reg]
Open(who) == Session(who, "idle", NoBox, 0, [b \in Boxes |-> 0])

CredentialsInit ==
    /\ file = [b \in Boxes |-> 0] /\ torn = FALSE
    /\ up = FALSE /\ lock = {}
    /\ conn = [c \in Conns |-> Open({})]
    /\ known = Boxes
    /\ issued = [b \in Boxes |-> 0]
    /\ given = [b \in Boxes |-> {}]

Goes(c, session) == conn' = [conn EXCEPT ![c] = session]

(* The daemon starts without a look at this file *)
StartDaemon ==
    /\ ~up /\ up' = TRUE
    /\ UNCHANGED <<file, torn, lock, conn, known, issued, given>>

(* The requests in progress that will write the registry *)
Writes(r) == r.pc = "issue" \/ (r.pc = "login" /\ r.reg[r.box] = r.token)

(* Killed between the truncation and the end of a write, it leaves a torn file *)
KillDaemon ==
    /\ up /\ up' = FALSE
    /\ lock' = {} /\ conn' = [c \in Conns |-> Open({})]
    /\ torn' \in {torn, torn \/ \E c \in Conns : Writes(conn[c])}
    /\ UNCHANGED <<file, known, issued, given>>

(* remove_box does not touch the credentials *)
RemoveBox(b) ==
    /\ up /\ b \in known
    /\ known' = known \ {b}
    /\ UNCHANGED <<file, torn, up, lock, conn, issued, given>>

(* BoxIssueCredentials: require_admin, and the BOX is looked up ...            *)
BoxIssueCredentials(c, b) ==
    /\ up /\ c \in AdminConns /\ conn[c].pc = "idle"
    /\ b \in known /\ issued[b] < MaxIssues
    /\ Goes(c, [conn[c] EXCEPT !.pc = "known", !.box = b])
    /\ UNCHANGED <<file, torn, up, lock, known, issued, given>>

(* Mutant: the registry is read without the lock. *)
LockUnlocked(c, pc) ==
    /\ ~torn
    /\ Goes(c, [conn[c] EXCEPT !.pc = pc, !.reg = file])
    /\ UNCHANGED <<file, torn, up, lock, known, issued, given>>

(* file_lock, and read_registry under it *)
Lock(c, pc) ==
    /\ lock = {} /\ ~torn
    /\ lock' = {c}
    /\ Goes(c, [conn[c] EXCEPT !.pc = pc, !.reg = file])
    /\ UNCHANGED <<file, torn, up, known, issued, given>>

(* A registry that cannot be decoded is an error, and the lock is free again *)
LockFails(c) ==
    /\ conn[c].pc \in {"known", "claimed"} /\ lock = {} /\ torn
    /\ Goes(c, Open(IF conn[c].pc = "known" THEN conn[c].who ELSE {}))
    /\ UNCHANGED <<file, torn, up, lock, known, issued, given>>

LockToIssue(c) == conn[c].pc = "known" /\ Lock(c, "issue")
LockToLogin(c) == conn[c].pc = "claimed" /\ Lock(c, "login")

(* ... issue: a new random token takes the place of the BOX's last one *)
Issue(c) ==
    LET b == conn[c].box IN
    /\ conn[c].pc = "issue"
    /\ issued' = [issued EXCEPT ![b] = @ + 1]
    /\ file' = [conn[c].reg EXCEPT ![b] = issued'[b]]
    /\ lock' = {}
    /\ Goes(c, [conn[c] EXCEPT !.pc = "answer", !.token = issued'[b]])
    /\ UNCHANGED <<torn, up, known, given>>

(* The answer reaches the client, or the connection breaks first *)
Answer(c) ==
    /\ conn[c].pc = "answer"
    /\ \/ given' = [given EXCEPT ![conn[c].box] = @ \cup {conn[c].token}]
       \/ UNCHANGED given
    /\ Goes(c, Open(conn[c].who))
    /\ UNCHANGED <<file, torn, up, lock, known, issued>>

(* authenticate_box, with a credential somebody was given *)
AuthenticateBox(c, b, token) ==
    /\ up /\ conn[c].pc = "idle"
    /\ token \in given[b]
    /\ Goes(c, Session(conn[c].who, "claimed", b, token, conn[c].reg))
    /\ UNCHANGED <<file, torn, up, lock, known, issued, given>>

(* authenticate: a match rewrites the registry as read; no match ends the      *)
(* connection                                                                  *)
Authenticate(c) ==
    LET r == conn[c]  matched == r.reg[r.box] = r.token IN
    /\ r.pc = "login"
    /\ file' = IF matched THEN r.reg ELSE file
    /\ Goes(c, Open(IF matched THEN {r.box} ELSE {}))
    /\ lock' = {}
    /\ UNCHANGED <<torn, up, known, issued, given>>

(* The disk is full: the file was truncated, the request fails, and a login    *)
(* ends its connection                                                         *)
WriteFails(c) ==
    /\ Writes(conn[c])
    /\ torn' = TRUE /\ lock' = {}
    /\ Goes(c, Open(IF conn[c].pc = "issue" THEN conn[c].who ELSE {}))
    /\ UNCHANGED <<file, up, known, issued, given>>

CredentialsNext ==
    \/ StartDaemon \/ KillDaemon
    \/ \E b \in Boxes : RemoveBox(b)
    \/ \E c \in Conns :
          \/ \E b \in Boxes : BoxIssueCredentials(c, b)
          \/ \E b \in Boxes : \E token \in given[b] : AuthenticateBox(c, b, token)
          \/ LockToIssue(c) \/ LockToLogin(c) \/ LockFails(c)
          \/ Issue(c) \/ Answer(c) \/ Authenticate(c) \/ WriteFails(c)

CredentialsSpec == CredentialsInit /\ [][CredentialsNext]_credentialVars
-----------------------------------------------------------------------------
(* Properties *)

(* A login that no full disk or killed daemon cuts short succeeds exactly with *)
(* the credential issued last for its BOX: no login or issue in progress, of   *)
(* this BOX or another, brings a replaced credential back or loses the new one *)
(* (BoxCredentialStore::issue and authenticate rewrite the whole file from     *)
(* what they read).                                                            *)
DecidedByNewest(c) ==
    conn[c].pc = "login" /\ conn'[c].pc = "idle" /\ up' /\ ~torn'
        => (conn'[c].who = {conn[c].box} <=> conn[c].token = issued[conn[c].box])
NewestCredentialOnly == [][\A c \in Conns : DecidedByNewest(c)]_credentialVars
=============================================================================
