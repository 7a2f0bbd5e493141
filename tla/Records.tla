------------------------------- MODULE Records -------------------------------
(***************************************************************************)
(* The files of the BOX records (src/boxes/store.rs, BoxStore), one file   *)
(* operation at a time: a record is written to <id>.json.tmp and renamed,  *)
(* and read by the handlers of other requests at any moment.  A full disk  *)
(* cuts a write short; the daemon may be killed between any two steps.     *)
(* BoxService takes a write as one step: this is why it may.               *)
(***************************************************************************)
EXTENDS Integers

CONSTANTS
    Boxes, Handlers,
    MaxWrites,   \* bound: writes of the record of a BOX
    Shared       \* the BOXes whose record two handlers may change at the same time

VARIABLES
    file,      \* <id>.json: the number of the write it holds, Absent or Short
    temp,      \* <id>.json.tmp
    writes,    \* the writes begun, per BOX
    done,      \* the last write that returned Ok, per BOX
    removed,   \* the BOXes whose record was removed
    handler    \* the state of every handler

recordVars == <<file, temp, writes, done, removed, handler>>

Absent == 0
Short == -1

(* version: what it writes or has read; floor: what was written when it began; *)
(* left: the entries of the directory a list has yet to read                   *)
Idle(outcome) ==
    [pc |-> "idle", box |-> "none", version |-> 0, floor |-> 0, left |-> {}, outcome |-> outcome]

RecordsInit ==
    /\ file = [b \in Boxes |-> Absent] /\ temp = [b \in Boxes |-> Absent]
    /\ writes = [b \in Boxes |-> 0] /\ done = [b \in Boxes |-> 0]
    /\ removed = {}
    /\ handler = [h \in Handlers |-> Idle("none")]

At(h, pc) == handler[h].pc = pc
Goes(h, state) == handler' = [handler EXCEPT ![h] = state]
Ends(h, outcome) == Goes(h, Idle(outcome))
Changing(b) ==
    {h \in Handlers : handler[h].box = b /\ handler[h].pc \in {"create", "fill", "rename", "remove"}}

(* write: the record is encoded ... *)
Write(h, b) ==
    /\ At(h, "idle") /\ writes[b] < MaxWrites /\ b \notin removed
    /\ b \in Shared \/ Changing(b) = {}
    /\ writes' = [writes EXCEPT ![b] = @ + 1]
    /\ Goes(h, [Idle("none") EXCEPT !.pc = "create", !.box = b, !.version = writes'[b]])
    /\ UNCHANGED <<file, temp, done, removed>>

(* Mutant: the record is written in place. *)
CreateInPlace(h) ==
    /\ At(h, "create")
    /\ file' = [file EXCEPT ![handler[h].box] = Short]
    /\ temp' = [temp EXCEPT ![handler[h].box] = Short]
    /\ Goes(h, [handler[h] EXCEPT !.pc = "fill"])
    /\ UNCHANGED <<writes, done, removed>>

(* ... fs::write opens and truncates the temporary file ... *)
CreateTemp(h) ==
    /\ At(h, "create")
    /\ temp' = [temp EXCEPT ![handler[h].box] = Short]
    /\ Goes(h, [handler[h] EXCEPT !.pc = "fill"])
    /\ UNCHANGED <<file, writes, done, removed>>

(* ... and fills it, or fails on the way.  Two handlers that fill one file can *)
(* leave a mixture.                                                            *)
FillTemp(h) ==
    LET b == handler[h].box
        alone == \A g \in Changing(b) \ {h} : ~At(g, "fill")
    IN
    /\ At(h, "fill")
    /\ \/ /\ temp' \in {[temp EXCEPT ![b] = v] :
                            v \in {handler[h].version} \cup IF alone THEN {} ELSE {Short}}
          /\ Goes(h, [handler[h] EXCEPT !.pc = "rename"])
       \/ Ends(h, "io") /\ UNCHANGED temp
    /\ UNCHANGED <<file, writes, done, removed>>

(* rename, which another handler may have done for it *)
Replace(h) ==
    LET b == handler[h].box IN
    /\ At(h, "rename")
    /\ IF temp[b] = Absent
       THEN Ends(h, "io") /\ UNCHANGED <<file, temp, done>>
       ELSE /\ file' = [file EXCEPT ![b] = temp[b]]
            /\ temp' = [temp EXCEPT ![b] = Absent]
            /\ done' = [done EXCEPT ![b] = handler[h].version]
            /\ Ends(h, "ok")
    /\ UNCHANGED <<writes, removed>>

(* read: try_exists, then read_path *)
Read(h, b) ==
    /\ At(h, "idle")
    /\ IF file[b] = Absent
       THEN Ends(h, "not_found")
       ELSE Goes(h, [Idle("none") EXCEPT !.pc = "read", !.box = b, !.floor = done[b]])
    /\ UNCHANGED <<file, temp, writes, done, removed>>

(* What fs::read and the decoder make of a file *)
Decoded(b) == CASE file[b] = Absent -> "io" [] file[b] = Short -> "decode" [] OTHER -> "ok"

ReadPath(h) ==
    LET b == handler[h].box IN
    /\ At(h, "read")
    /\ Goes(h, [Idle(Decoded(b)) EXCEPT !.box = b, !.version = file[b], !.floor = handler[h].floor])
    /\ UNCHANGED <<file, temp, writes, done, removed>>

(* list: the directory is read, and every entry of it.  The first that cannot *)
(* be read fails the list.                                                    *)
List(h) ==
    /\ At(h, "idle")
    /\ Goes(h, [Idle("none") EXCEPT !.pc = "list", !.left = {b \in Boxes : file[b] # Absent}])
    /\ UNCHANGED <<file, temp, writes, done, removed>>

ListEntry(h, b) ==
    /\ At(h, "list") /\ b \in handler[h].left
    /\ IF Decoded(b) = "ok"
       THEN Goes(h, [handler[h] EXCEPT !.left = @ \ {b}])
       ELSE Goes(h, [Idle(Decoded(b)) EXCEPT !.box = b])
    /\ UNCHANGED <<file, temp, writes, done, removed>>

ListEnds(h) ==
    /\ At(h, "list") /\ handler[h].left = {}
    /\ Ends(h, "ok")
    /\ UNCHANGED <<file, temp, writes, done, removed>>

(* remove: try_exists, then remove_file *)
Remove(h, b) ==
    /\ At(h, "idle")
    /\ b \in Shared \/ Changing(b) = {}
    /\ IF file[b] = Absent
       THEN Ends(h, "not_found")
       ELSE Goes(h, [Idle("none") EXCEPT !.pc = "remove", !.box = b])
    /\ UNCHANGED <<file, temp, writes, done, removed>>

RemoveFile(h) ==
    LET b == handler[h].box IN
    /\ At(h, "remove")
    /\ IF file[b] = Absent
       THEN Ends(h, "io") /\ UNCHANGED <<file, removed>>
       ELSE /\ file' = [file EXCEPT ![b] = Absent]
            /\ removed' = removed \cup {b}
            /\ Ends(h, "ok")
    /\ UNCHANGED <<temp, writes, done>>

(* The daemon is killed, and started again *)
KillDaemon ==
    /\ \E h \in Handlers : ~At(h, "idle")
    /\ handler' = [h \in Handlers |-> Idle("none")]
    /\ UNCHANGED <<file, temp, writes, done, removed>>

RecordsNext ==
    \/ KillDaemon
    \/ \E h \in Handlers :
          \/ CreateTemp(h) \/ FillTemp(h) \/ Replace(h) \/ ReadPath(h) \/ RemoveFile(h)
          \/ List(h) \/ ListEnds(h)
          \/ \E b \in Boxes : Write(h, b) \/ Read(h, b) \/ Remove(h, b) \/ ListEntry(h, b)
-----------------------------------------------------------------------------
(* Properties *)

(* What is read is what a write put there: nobody decodes half a record,       *)
(* whatever write was cut short by a full disk or a killed daemon; a read sees *)
(* every write that returned before it began; and a read or a list fails for   *)
(* a file that is gone only when that BOX was removed.  Of a BOX that several  *)
(* handlers change at the same time nothing of this is true (BoxStore::write,  *)
(* read, list).                                                                *)
RecordsReadBack ==
    \A h \in Handlers :
        LET r == handler[h] IN
        r.pc = "idle" /\ r.box \in Boxes \ Shared =>
            \/ r.outcome = "ok" /\ r.version >= r.floor
            \/ r.outcome = "io" /\ r.box \in removed
=============================================================================
