-------------------------- MODULE CredentialsProofs --------------------------
(***************************************************************************)
(* A login with a BOX credential is decided by the credential issued last, *)
(* for any number of BOXes and connections.  The inductive invariant: who  *)
(* has read the registry to write it holds the lock, so what it read is    *)
(* what the file says; and a file that can be decoded says, of every BOX,  *)
(* the credential issued last.                                             *)
(***************************************************************************)
EXTENDS Credentials, TLAPS

Sessions ==
    [who : SUBSET Boxes, box : Boxes \cup {NoBox}, token : Nat, reg : [Boxes -> Nat],
     pc : {"idle", "known", "claimed", "issue", "answer", "login"}]

Typed ==
    /\ file \in [Boxes -> Nat] /\ issued \in [Boxes -> Nat]
    /\ given \in [Boxes -> SUBSET Nat]
    /\ conn \in [Conns -> Sessions]
    /\ \A c \in Conns : conn[c].pc # "idle" => conn[c].box \in Boxes

(* Every request that has read the registry holds the lock, and its copy is    *)
(* current                                                                     *)
CopiesAreCurrent ==
    \A c \in Conns : conn[c].pc \in {"issue", "login"}
        => lock = {c} /\ conn[c].reg = file /\ ~torn

FileIsCurrent == ~torn => file = issued

CredentialsInv == Typed /\ CopiesAreCurrent /\ FileIsCurrent

(* The first daemon finds no file *)
LEMMA InitCurrent == CredentialsInit => CredentialsInv
BY DEF CredentialsInit, CredentialsInv, Typed, Sessions, CopiesAreCurrent,
       FileIsCurrent, Open, Session, NoBox

(* Every step keeps the invariant: the steps that read or write the registry    *)
(* one by one, and the others, which leave the file, the lock and the copies    *)
LEMMA StepCurrent == CredentialsInv /\ [CredentialsNext]_credentialVars => CredentialsInv'
<1> SUFFICES ASSUME CredentialsInv, [CredentialsNext]_credentialVars
             PROVE  CredentialsInv'
    OBVIOUS
<1> USE DEF CredentialsInv, Typed, CopiesAreCurrent, FileIsCurrent
<1>1. ASSUME NEW c \in Conns, LockToIssue(c) \/ LockToLogin(c)
      PROVE  CredentialsInv'
  <2>1. PICK pc \in {"issue", "login"} :
            conn' = [conn EXCEPT ![c] = [conn[c] EXCEPT !.pc = pc, !.reg = file]]
      BY <1>1 DEF LockToIssue, LockToLogin, Lock, Goes
  <2>2. lock = {} /\ lock' = {c} /\ ~torn /\ conn[c].pc # "idle"
      BY <1>1 DEF LockToIssue, LockToLogin, Lock
  <2>3. UNCHANGED <<file, torn, issued, given>>
      BY <1>1 DEF LockToIssue, LockToLogin, Lock
  <2>4. conn'[c] \in Sessions /\ conn'[c].reg = file /\ conn'[c].box = conn[c].box
    <3>1. conn'[c] = [conn[c] EXCEPT !.pc = pc, !.reg = file]
        BY <2>1
    <3>2. conn[c] \in Sessions /\ file \in [Boxes -> Nat]
        OBVIOUS
    <3> QED
        BY ONLY Zenon, <3>1, <3>2, pc \in {"issue", "login"} DEF Sessions
  <2>5. \A d \in Conns : d # c => conn'[d] = conn[d] /\ conn[d].pc \notin {"issue", "login"}
      BY <2>1, <2>2
  <2>6. Typed'
      BY <2>1, <2>2, <2>3, <2>4, <2>5
  <2> QED
      BY <2>2, <2>3, <2>4, <2>5, <2>6
<1>2. ASSUME NEW c \in Conns, Issue(c)
      PROVE  CredentialsInv'
  <2> DEFINE b == conn[c].box
  <2>1. b \in Boxes /\ lock = {c} /\ conn[c].reg = file /\ ~torn /\ file = issued
      BY <1>2 DEF Issue
  <2>2. issued' = [issued EXCEPT ![b] = @ + 1] /\ file' = issued'
      BY Zenon, <1>2, <2>1 DEF Issue
  <2>3. \A d \in Conns : d # c => conn'[d] = conn[d] /\ conn[d].pc \notin {"issue", "login"}
      BY <1>2, <2>1 DEF Issue, Goes
  <2>4. conn'[c] = [conn[c] EXCEPT !.pc = "answer", !.token = issued'[b]]
      BY <1>2 DEF Issue, Goes
  <2>5. UNCHANGED <<torn, given>> /\ issued' \in [Boxes -> Nat]
      BY <1>2, <2>1, <2>2 DEF Issue
  <2>6. conn'[c] \in Sessions /\ conn'[c].pc = "answer" /\ conn'[c].box = b
    <3>1. conn[c] \in Sessions /\ issued'[b] \in Nat
        BY <2>1, <2>5
    <3> QED
        BY ONLY Zenon, <2>4, <3>1 DEF Sessions
  <2>7. conn' \in [Conns -> Sessions]
      BY <1>2, <2>3, <2>6 DEF Issue, Goes
  <2>8. Typed'
      BY <2>1, <2>2, <2>3, <2>5, <2>6, <2>7
  <2> QED
      BY <2>2, <2>3, <2>5, <2>6, <2>8
<1>3. ASSUME NEW c \in Conns, Authenticate(c)
      PROVE  CredentialsInv'
  <2>1. lock = {c} /\ conn[c].reg = file /\ conn[c].box \in Boxes
      BY <1>3 DEF Authenticate
  <2>2. file' = file /\ issued' = issued
      BY <1>3, <2>1 DEF Authenticate
  <2>3. \A d \in Conns : d # c => conn'[d] = conn[d] /\ conn[d].pc \notin {"issue", "login"}
      BY <1>3, <2>1 DEF Authenticate, Goes
  <2>4. \E who \in SUBSET Boxes : conn'[c] = Open(who)
      BY <1>3, <2>1 DEF Authenticate, Goes
  <2> QED
      BY <1>3, <2>2, <2>3, <2>4 DEF Authenticate, Goes, Open, Session, Sessions, NoBox
<1>4. ASSUME KillDaemon PROVE CredentialsInv'
    BY Zenon, <1>4 DEF KillDaemon, Open, Session, Sessions, NoBox
<1>5. ASSUME NEW c \in Conns, WriteFails(c)
      PROVE  CredentialsInv'
  <2>1. lock = {c} /\ conn[c].pc \in {"issue", "login"}
      BY <1>5 DEF WriteFails, Writes
  <2>2. torn' /\ UNCHANGED <<file, issued, given>>
      BY <1>5 DEF WriteFails
  <2>3. \A d \in Conns : d # c => conn'[d] = conn[d] /\ conn[d].pc \notin {"issue", "login"}
      BY <1>5, <2>1 DEF WriteFails, Goes
  <2>4. conn[c].who \in SUBSET Boxes
      BY DEF Sessions
  <2>5. \E who \in SUBSET Boxes : conn'[c] = Open(who)
      BY <1>5, <2>4 DEF WriteFails, Goes
  <2> QED
      BY <1>5, <2>2, <2>3, <2>5 DEF WriteFails, Goes, Open, Session, Sessions, NoBox
<1>6. ASSUME NEW c \in Conns,
             \/ \E b \in Boxes : BoxIssueCredentials(c, b)
             \/ \E b \in Boxes : \E token \in given[b] : AuthenticateBox(c, b, token)
             \/ LockFails(c) \/ Answer(c)
      PROVE  CredentialsInv'
  <2>1. CASE \E b \in Boxes : BoxIssueCredentials(c, b)
    <3>1. PICK b \in Boxes : conn' = [conn EXCEPT ![c] = [conn[c] EXCEPT !.pc = "known", !.box = b]]
        BY Zenon, <2>1 DEF BoxIssueCredentials, Goes
    <3>2. UNCHANGED <<file, torn, lock, issued, given>>
        BY <2>1 DEF BoxIssueCredentials
    <3>3. conn'[c] \in Sessions /\ conn'[c].pc = "known" /\ conn'[c].box \in Boxes
      <4>1. conn'[c] = [conn[c] EXCEPT !.pc = "known", !.box = b] /\ conn[c] \in Sessions
          BY <3>1
      <4> QED
          BY ONLY Zenon, <4>1, b \in Boxes DEF Sessions
    <3>4. \A d \in Conns : d # c => conn'[d] = conn[d]
        BY <3>1
    <3>5. conn' \in [Conns -> Sessions]
        BY <3>1, <3>3, <3>4
    <3> QED
        BY <3>2, <3>3, <3>4, <3>5
  <2>2. CASE \E b \in Boxes : \E token \in given[b] : AuthenticateBox(c, b, token)
    <3>1. PICK b \in Boxes, token \in Nat :
              conn' = [conn EXCEPT ![c] = Session(conn[c].who, "claimed", b, token, conn[c].reg)]
        BY Zenon, <2>2 DEF AuthenticateBox, Goes
    <3>2. UNCHANGED <<file, torn, lock, issued, given>>
        BY <2>2 DEF AuthenticateBox
    <3>3. conn'[c] \in Sessions /\ conn'[c].pc = "claimed" /\ conn'[c].box \in Boxes
      <4>1. conn'[c] = Session(conn[c].who, "claimed", b, token, conn[c].reg)
          BY <3>1
      <4>2. conn[c] \in Sessions
          OBVIOUS
      <4> QED
          BY ONLY <4>1, <4>2, b \in Boxes, token \in Nat DEF Sessions, Session
    <3>4. \A d \in Conns : d # c => conn'[d] = conn[d]
        BY <3>1
    <3>5. conn' \in [Conns -> Sessions]
        BY <3>1, <3>3, <3>4
    <3> QED
        BY <3>2, <3>3, <3>4, <3>5
  <2>3. CASE LockFails(c)
      BY <2>3 DEF LockFails, Goes, Open, Session, Sessions, NoBox
  <2>4. CASE Answer(c)
      BY <2>4 DEF Answer, Goes, Open, Session, Sessions, NoBox
  <2> QED
      BY <1>6, <2>1, <2>2, <2>3, <2>4
<1>7. ASSUME StartDaemon \/ (\E b \in Boxes : RemoveBox(b)) PROVE CredentialsInv'
    BY <1>7 DEF StartDaemon, RemoveBox
<1>8. ASSUME UNCHANGED credentialVars PROVE CredentialsInv'
    BY <1>8 DEF credentialVars
<1> QED
    BY <1>1, <1>2, <1>3, <1>5, <1>6, <1>7, <1>8, <1>4 DEF CredentialsNext

(* The connection that decides a login is the one that moves, and the           *)
(* credential it finds in its copy is the one issued last                       *)
LEMMA LoginDecides ==
    ASSUME CredentialsInv, [CredentialsNext]_credentialVars, NEW c \in Conns
    PROVE  DecidedByNewest(c)
<1> SUFFICES ASSUME conn[c].pc = "login", conn'[c].pc = "idle", up', ~torn'
             PROVE  conn'[c].who = {conn[c].box} <=> conn[c].token = issued[conn[c].box]
    BY DEF DecidedByNewest
<1>1. conn[c].reg = issued /\ conn[c].box \in Boxes
    BY DEF CredentialsInv, Typed, Sessions, CopiesAreCurrent, FileIsCurrent
<1>2. Authenticate(c)
    BY Zenon DEF CredentialsInv, Typed, Sessions, CredentialsNext, credentialVars, StartDaemon,
           KillDaemon, RemoveBox, BoxIssueCredentials, AuthenticateBox, LockToIssue,
           LockToLogin, Lock, LockFails, Issue, Answer, Authenticate, WriteFails, Goes
<1> QED
    BY Zenon, <1>1, <1>2 DEF Authenticate, Goes, Open, Session, CredentialsInv, Typed, Sessions

(* A login with a BOX credential succeeds exactly with the credential issued    *)
(* last for that BOX (BoxCredentialStore::authenticate, issue), for any BOXes,  *)
(* connections and crashes.                                                     *)
THEOREM NewestDecides == CredentialsSpec => NewestCredentialOnly
<1>1. CredentialsInit => CredentialsInv
    BY InitCurrent
<1>2. CredentialsInv /\ [CredentialsNext]_credentialVars => CredentialsInv'
    BY StepCurrent
<1>3. CredentialsInv /\ [CredentialsNext]_credentialVars
          => [\A c \in Conns : DecidedByNewest(c)]_credentialVars
    BY LoginDecides
<1> QED
    BY <1>1, <1>2, <1>3, PTL DEF CredentialsSpec, NewestCredentialOnly
=============================================================================
