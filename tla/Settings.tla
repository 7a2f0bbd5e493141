------------------------------ MODULE Settings ------------------------------
(***************************************************************************)
(* The settings of a BOX (src/boxes): what `box set` accepts, how a record *)
(* is brought in line with the host each time it is read (hydrate_record,  *)
(* normalize_settings), and how the workspace disk is resized, step by     *)
(* step, with a daemon that may die between any two steps and a host whose *)
(* resources change.  One request at a time.                               *)
(***************************************************************************)
EXTENDS Naturals, FiniteSets, FiniteSetsExt

CONSTANTS
    Hosts,      \* what the host may offer: cpu, memory, processes, free disk (MiB)
    Default,    \* default_policy
    DiskDefault,   \* WorkspaceConfig::disk_size_mib
    Secure,     \* isolation mode
    Values,     \* setting |-> the values requested
    MaxSets,    \* requests
    Unknown     \* the host does not say

VARIABLES
    host,      \* [setting |-> what the host has, or Unknown]
    record,    \* the settings in the record on disk
    disk,      \* [len |-> length of the disk file, fs |-> size of its ext4]
    request,   \* the `box set` going on
    accepted   \* setting |-> the value last acknowledged

settingVars == <<host, record, disk, request, accepted>>

Numeric == {"cpu_cores", "memory_mb", "max_processes"}
Least == [cpu_cores |-> 1, memory_mb |-> 128, max_processes |-> 1, fs_size_mib |-> 64]
MaxOf(a, b) == IF a > b THEN a ELSE b
Clamp(v, lo, hi) == IF v < lo THEN lo ELSE IF v > hi THEN hi ELSE v

(* ExecutionPolicy::validate and WorkspaceConfig::validate *)
Validated == DiskDefault >= 64 /\ \A n \in Numeric : Default[n] >= Least[n]
-----------------------------------------------------------------------------
(* helpers.rs *)

(* detect_cpu_cap, detect_memory_cap and detect_process_cap *)
Fallback == [cpu_cores |-> 1, memory_mb |-> 4096, max_processes |-> 4096]
Detected(n) ==
    MaxOf(Default[n], IF host[n] = Unknown THEN MaxOf(Default[n], Fallback[n]) ELSE host[n])

detect_fs_cap(len) ==
    Max({DiskDefault, len, IF host.fs_size_mib = Unknown THEN DiskDefault * 8
                           ELSE host.fs_size_mib + len})

normalize_settings(settings, len) ==
    [numeric |-> [n \in Numeric |->
        LET max == MaxOf(Detected(n), settings.numeric[n].current)
        IN  [max |-> max, current |-> Clamp(settings.numeric[n].current, Least[n], max)]],
     fs |-> LET max == MaxOf(detect_fs_cap(len), len)
            IN  [max |-> max, current |-> Clamp(len, 64, max)],
     network |-> [max |-> ~Secure, current |-> settings.network.current /\ ~Secure]]

box_policy(settings) ==
    [n \in Numeric \cup {"network_enabled"} |->
        IF n \in Numeric THEN settings.numeric[n].current ELSE settings.network.current]
-----------------------------------------------------------------------------
(* BoxSettings::default, hydrated by create_box_record *)
Same(v) == [current |-> v, max |-> v]
Fresh == [numeric |-> [cpu_cores |-> Same(1), memory_mb |-> Same(128), max_processes |-> Same(256)],
          fs |-> Same(128), network |-> Same(FALSE)]

Idle == [step |-> "idle", setting |-> "", value |-> 0, record |-> Fresh, count |-> 0]

SettingsInit ==
    /\ Validated
    /\ host \in Hosts
    /\ disk = [len |-> DiskDefault, fs |-> DiskDefault]
    /\ record = normalize_settings(Fresh, DiskDefault)
    /\ request = Idle
    /\ accepted = [n \in {} |-> 0]

HostChanges ==
    /\ host' \in Hosts
    /\ UNCHANGED <<record, disk, request, accepted>>

(* Every read of a record hydrates it and writes it back when it changed *)
ReadBox ==
    /\ request.step = "idle"
    /\ record' = normalize_settings(record, disk.len)
    /\ UNCHANGED <<host, disk, request, accepted>>

validate_numeric_setting(value, max, min) == min <= value /\ value <= max

Ended == [request EXCEPT !.step = "idle"]

(* set_box_setting up to the resize: read_box, validate, change *)
set_box_setting(name, value) ==
    /\ request.step = "idle" /\ request.count < MaxSets
    /\ LET read == normalize_settings(record, disk.len)
           Next(step, changed) ==
               request' = [step |-> step, setting |-> name, value |-> value, record |-> changed,
                           count |-> request.count + 1]
       IN  /\ record' = read
           /\ \/ /\ name \in Numeric
                 /\ IF validate_numeric_setting(value, read.numeric[name].max, Least[name])
                    THEN Next("write", [read EXCEPT !.numeric[name].current = value])
                    ELSE Next("idle", read)
              \/ /\ name = "fs_size_mib"
                 /\ IF validate_numeric_setting(value, read.fs.max, Least[name])
                    THEN Next(CASE value = read.fs.current -> "write"
                                [] value > disk.len -> "grow file"
                                [] value < disk.len -> "shrink fs"
                                [] OTHER -> "write", [read EXCEPT !.fs.current = value])
                    ELSE Next("idle", read)
              \/ /\ name = "network_enabled"
                 /\ IF value /\ ~read.network.max THEN Next("idle", read)
                    ELSE Next("write", [read EXCEPT !.network.current = value])
    /\ UNCHANGED <<host, disk, accepted>>

Step(from, to) == request.step = from /\ request' = [request EXCEPT !.step = to]

GrowFile ==
    /\ Step("grow file", "grow fs")
    /\ disk' = [disk EXCEPT !.len = request.value]
    /\ UNCHANGED <<host, record, accepted>>
GrowFs ==
    /\ Step("grow fs", "write")
    /\ disk' = [disk EXCEPT !.fs = request.value]
    /\ UNCHANGED <<host, record, accepted>>
(* Mutant: the file is cut before the file system shrinks. *)
ShrinkFileFirst ==
    /\ Step("shrink fs", "shrink file")
    /\ disk' = [disk EXCEPT !.len = request.value]
    /\ UNCHANGED <<host, record, accepted>>
ShrinkFs ==
    /\ Step("shrink fs", "shrink file")
    /\ disk' = [disk EXCEPT !.fs = request.value]
    /\ UNCHANGED <<host, record, accepted>>
ShrinkFile ==
    /\ Step("shrink file", "write")
    /\ disk' = [disk EXCEPT !.len = request.value]
    /\ UNCHANGED <<host, record, accepted>>

(* e2fsck or resize2fs fails (the data does not fit, the disk is full) *)
ResizeFails ==
    /\ request.step \in {"grow file", "grow fs", "shrink fs", "shrink file"}
    /\ request' = Ended
    /\ accepted' = [n \in DOMAIN accepted \ {"fs_size_mib"} |-> accepted[n]]
    /\ UNCHANGED <<host, record, disk>>

(* The record is written, and hydrated once more for the reply *)
WriteBack ==
    /\ Step("write", "reply")
    /\ record' = request.record
    /\ UNCHANGED <<host, disk, accepted>>

Reply ==
    /\ Step("reply", "idle")
    /\ record' = normalize_settings(record, disk.len)
    /\ accepted' = [n \in DOMAIN accepted \cup {request.setting} |->
                       IF n = request.setting THEN request.value ELSE accepted[n]]
    /\ UNCHANGED <<host, disk>>

(* The daemon dies.  A request that was being carried out, and was not      *)
(* acknowledged, may or may not have had its effect.                         *)
Dies ==
    /\ request.step # "idle"
    /\ request' = Ended
    /\ LET unsure == IF request.step = "reply" \/ request.setting = "fs_size_mib"
                     THEN {request.setting} ELSE {}
       IN  accepted' = [n \in DOMAIN accepted \ unsure |-> accepted[n]]
    /\ UNCHANGED <<host, record, disk>>

SettingsNext ==
    \/ HostChanges \/ ReadBox \/ WriteBack \/ Reply \/ ResizeFails \/ Dies
    \/ GrowFile \/ GrowFs \/ ShrinkFs \/ ShrinkFile
    \/ \E name \in DOMAIN Values : \E value \in Values[name] : set_box_setting(name, value)
-----------------------------------------------------------------------------
(* Properties *)

(* Whatever the host offers now, and whatever it offered when the value was *)
(* set, a record that is read has every setting within its bounds, and the  *)
(* policy a start takes from it is one ExecutionPolicy::validate accepts;   *)
(* no clamp gets bounds in the wrong order.                                  *)
SettingsFit ==
    LET read == normalize_settings(record, disk.len) IN
    /\ \A n \in Numeric : /\ Least[n] <= box_policy(read)[n]
                          /\ box_policy(read)[n] <= read.numeric[n].max
    /\ 64 <= read.fs.current /\ read.fs.current <= read.fs.max
    /\ read.fs.current = disk.len
    /\ box_policy(read).network_enabled => ~Secure

(* A setting that was acknowledged is what every later read returns, until  *)
(* it is set again, although the host may shrink below it.                  *)
AcceptedStays ==
    request.step = "idle" =>
        LET read == normalize_settings(record, disk.len) IN
        \A n \in DOMAIN accepted :
            CASE n \in Numeric -> read.numeric[n].current = accepted[n]
              [] n = "fs_size_mib" -> read.fs.current = accepted[n]
              [] OTHER -> read.network.current = accepted[n]

(* The file system never reaches beyond the end of its disk file, at        *)
(* whichever step of a resize the daemon dies or a tool fails.              *)
FilesystemFits == disk.fs <= disk.len

(* What was set stays set, within bounds, and the disk agrees with it.       *)
SettingsHold == SettingsFit /\ AcceptedStays /\ FilesystemFits
=============================================================================
