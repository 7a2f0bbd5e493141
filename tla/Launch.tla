------------------------------- MODULE Launch -------------------------------
(* One microVM from the checks a daemon makes when it starts to the end of the *)
(* VM: src/config.rs, src/host_hardening.rs, src/backend/libkrun/* (launch,    *)
(* runner, secure runner, loader, instance), src/guest_transport.rs            *)
(* and the boot of the guest agent.  The host task, the runner (a thread of    *)
(* the daemon, or a process that forks once into its own pid namespace) and    *)
(* the guest run concurrently; the host the daemon runs on may lack one thing  *)
(* the launch needs, from the start or only once the daemon is up.             *)
EXTENDS Seccomp, Naturals, Sequences, SequencesExt

CONSTANTS
    Configs,    \* the configurations explored, see Config
    Faults      \* what the host may lack: step and call names, or "none"

(* A configuration.  custom: the settings of the guest that differ from the    *)
(* agent's own defaults.                                                       *)
Config ==
    [secure : BOOLEAN, linux : BOOLEAN, selfbin : BOOLEAN, firmware : BOOLEAN,
     raw : BOOLEAN, cgroup : BOOLEAN, landlock : BOOLEAN, netDefault : BOOLEAN,
     custom : SUBSET {"tmpfs_mib", "max_processes", "network_enabled", "rpc_port",
                      "cache_device"}]

ASSUME ConfigsAssumption == Configs \subseteq Config /\ "none" \in Faults

VARIABLES
    cfg,      \* the configuration of the daemon and of the BOX
    env,      \* [broken: what fails, late: only after start-up, slow: deadlines pass]
    host,     \* where the task that starts and launches is
    run,      \* where the code of the runner is
    outer,    \* the spawned process, or the runner thread: "none", "alive", "dead"
    inner,    \* its child in the pid namespace: "none", "alive", "dead"
    step,     \* how many steps of the secure bootstrap are done
    written,  \* how many of the cgroup's files are written
    gate,     \* the startup pipe: "none", "shut", "open", "eof"
    sockets,  \* the bridge sockets: path -> "absent", "stale", "live"
    guest,    \* the guest agent: "off", "boot", "listen", "dead"
    conf      \* the settings it read from its command line

vars == <<cfg, env, host, run, outer, inner, step, written, gate, sockets, guest, conf>>
given == <<cfg, env>>
runner == <<run, outer, inner, step>>

Broken(s) == env.broken = s /\ (env.late => host \notin {"validate", "preflight", "harness"})

----------------------------------------------------------------------------
(* The configuration *)

(* config.rs: the guest boots through libkrun's own init *)
uses_krun_init_boot_path == cfg.linux /\ ~cfg.firmware /\ cfg.raw

(* libkrun/config.rs: what the loader asks *)
uses_krun_init == cfg.linux /\ ~cfg.firmware /\ ~cfg.secure

HardeningValid == cfg.secure => cfg.cgroup /\ cfg.landlock

GuestValid == ~cfg.linux => cfg.firmware

ConfigValid ==
    /\ GuestValid
    /\ HardeningValid
    /\ cfg.secure => cfg.linux /\ ~uses_krun_init_boot_path /\ ~cfg.netDefault

validate_secure_constraints ==
    cfg.secure => "network_enabled" \notin cfg.custom /\ ~uses_krun_init

ThreadMode == ~cfg.secure /\ cfg.linux /\ ~cfg.selfbin

----------------------------------------------------------------------------
(* The secure bootstrap: the calls each function makes, in order *)

drop_privileges ==
    <<"umask", "runtime_root", "no_new_privs", "dumpable", "mdwe", "fsize", "nofile">>

isolate_user_namespace ==
    <<"unshare_user", "setgroups", "uid_map", "gid_map", "setresgid", "setresuid">>

isolate_mount_ipc_uts_network_and_cgroup == <<"unshare_mount", "private_mounts">>

(* bind_mount_path: a read-only file is mounted once more *)
bind(file, read_only) == IF read_only THEN <<file, "remount">> ELSE <<file>>

stage_secure_runtime_root ==
    <<"dirs">> \o bind("kernel_file", TRUE) \o bind("rootfs_file", TRUE)
    \o (IF "cache_device" \in cfg.custom THEN bind("cache_file", TRUE) ELSE << >>)
    \o bind("workspace_file", FALSE)
    \o (IF cfg.firmware THEN bind("firmware_file", TRUE) ELSE << >>)
    \o bind("dev_kvm", FALSE) \o bind("dev_rest", FALSE)

enter_pid_namespace == <<"unshare_pid", "fork", "setsid">>

enter_chroot == <<"chdir", "chroot", "chdir_root">>

private_mounts == <<"mount_proc", "mount_tmp", "env">>

apply_landlock_policy == <<"landlock_abi", "landlock_rules", "landlock_restrict">>

(* Mutant: Landlock restricts before /proc and /tmp are mounted. *)
BootstrapLandlockFirst ==
    drop_privileges \o isolate_user_namespace \o isolate_mount_ipc_uts_network_and_cgroup
    \o stage_secure_runtime_root \o enter_pid_namespace \o enter_chroot
    \o apply_landlock_policy \o private_mounts \o <<"fds", "seccomp">>

(* apply_secure_bootstrap: the order in which the runner gives up its rights *)
apply_secure_bootstrap ==
    drop_privileges \o isolate_user_namespace \o isolate_mount_ipc_uts_network_and_cgroup
    \o stage_secure_runtime_root \o enter_pid_namespace \o enter_chroot
    \o private_mounts \o <<"fds">> \o apply_landlock_policy \o <<"seccomp">>

Mounts == {"private_mounts", "kernel_file", "rootfs_file", "cache_file", "workspace_file",
           "firmware_file", "dev_kvm", "dev_rest", "remount", "mount_proc", "mount_tmp"}

(* The system call of a step that the filter knows of *)
SystemCall(s) ==
    [arch |-> "native", arg0 |-> "unix",
     nr |-> CASE s \in Mounts -> "mount"
              [] s \in {"unshare_user", "unshare_mount", "unshare_pid"} -> "unshare"
              [] OTHER -> "read"]

(* The kernel: which step it grants to a process that has done the others.     *)
(* Namespaces, mounts and chroot need a user namespace of one's own, its maps  *)
(* come in an order, a mount of proc needs a process inside the pid namespace  *)
(* and the fd table such a mount; a ruleset or filter needs no_new_privs, and  *)
(* what they refuse stays refused.                                             *)
KernelGrants(s, past) ==
    /\ s \in Mounts \cup {"setgroups", "uid_map", "unshare_mount", "unshare_pid", "chroot"}
           => "unshare_user" \in past
    /\ s = "gid_map" => "setgroups" \in past
    /\ s = "setresgid" => "gid_map" \in past
    /\ s = "setresuid" => "uid_map" \in past
    /\ s \in Mounts => "unshare_mount" \in past /\ "landlock_restrict" \notin past
    /\ s \in {"setgroups", "uid_map", "gid_map", "dirs", "kernel_file", "dev_kvm"}
           => "chroot" \notin past
    /\ s = "mount_proc" => {"unshare_pid", "fork"} \subseteq past
    /\ s = "fds" => "mount_proc" \in past
    /\ s \in {"landlock_restrict", "seccomp"} => "no_new_privs" \in past
    /\ "seccomp" \in past => Verdict(build_seccomp_filter, SystemCall(s)) = "allow"

Past(n) == ToSet(SubSeq(apply_secure_bootstrap, 1, n))

Steps == Len(apply_secure_bootstrap)

(* An unsupported PR_SET_MDWE is not an error *)
Granted(n) ==
    LET s == apply_secure_bootstrap[n]
    IN  (s = "mdwe" \/ ~Broken(s)) /\ KernelGrants(s, Past(n - 1))

(* verify_security_harness: what the harness tries from inside the jail *)
verify_security_harness ==
    {"fork", "mount_proc", "mount_tmp", "dumpable", "chroot", "unshare_mount", "seccomp",
     "fds"} \subseteq Past(Steps)

run_security_harness == (\A n \in 1 .. Steps : Granted(n)) /\ verify_security_harness

----------------------------------------------------------------------------
(* The host's hardening *)

(* attach_to_cgroup: the limits, then the process *)
CgroupFiles == <<"dir", "memory.max", "cpu.max", "pids.max", "cgroup.procs">>

Written == ToSet(SubSeq(CgroupFiles, 1, written))

(* validate_cgroup_parent tries the limits in a directory of its own *)
CgroupProbe == {"dir", "controllers", "memory.max", "cpu.max", "pids.max"}

preflight_runtime ==
    cfg.secure => /\ cfg.linux /\ cfg.cgroup /\ cfg.landlock
                  /\ ~\E s \in CgroupProbe \cup {"landlock_abi"} : Broken(s)

----------------------------------------------------------------------------
(* The daemon starts *)

Init ==
    /\ cfg \in Configs
    /\ env \in [broken : Faults, late : BOOLEAN, slow : BOOLEAN]
    /\ host = "harness"
    /\ run = "none" /\ outer = "none" /\ inner = "none" /\ step = 0 /\ written = 0
    /\ gate = "none"
    /\ sockets \in [{"host", "jail"} -> {"absent", "stale"}]
    /\ sockets["jail"] = "absent"
    /\ guest = "off" /\ conf = {}

allButHost == <<cfg, env, run, outer, inner, step, written, gate, sockets, guest, conf>>

(* Mutant: the daemon comes up although its harness failed. *)
HarnessIgnored ==
    /\ host = "harness"
    /\ host' = "validate"
    /\ UNCHANGED allButHost

(* preflight_secure_runner: a runner applies the bootstrap and tests it, within *)
(* fifteen seconds *)
Harness ==
    /\ host = "harness"
    /\ host' \in IF ~cfg.secure THEN {"validate"}
                 ELSE (IF cfg.linux /\ run_security_harness THEN {"validate"} ELSE {"refused"})
                      \cup (IF env.slow THEN {"refused"} ELSE {})
    /\ UNCHANGED allButHost

(* resolve_config *)
Validate ==
    /\ host = "validate"
    /\ host' = IF ConfigValid THEN "preflight" ELSE "refused"
    /\ UNCHANGED allButHost

Preflight ==
    /\ host = "preflight"
    /\ host' = IF preflight_runtime THEN "idle" ELSE "refused"
    /\ UNCHANGED allButHost

----------------------------------------------------------------------------
(* A launch *)

(* The request is refused before anything is spawned *)
LaunchRefused ==
    \/ ThreadMode /\ cfg.cgroup
    \/ ~validate_secure_constraints
    \/ \E s \in {"artifacts", "write_config", "spawn"} : Broken(s)

(* prepare_runner_artifacts removes a socket left at the path, and the runner  *)
(* starts: in a thread, or in a process that a secure launch holds at the gate *)
Launching ==
    /\ host = "idle"
    /\ IF LaunchRefused
       THEN /\ host' = "failed"
            /\ sockets' = [sockets EXCEPT !["host"] =
                  IF \E s \in {"write_config", "spawn"} : Broken(s) THEN "absent" ELSE @]
            /\ UNCHANGED <<run, outer, gate>>
       ELSE /\ host' = IF ThreadMode THEN "handshake" ELSE "attach"
            /\ run' = IF ThreadMode THEN "prepare" ELSE "start"
            /\ outer' = "alive"
            /\ gate' = IF cfg.secure THEN "shut" ELSE "none"
            /\ sockets' = [sockets EXCEPT !["host"] = "absent"]
    /\ UNCHANGED <<given, inner, step, written, guest, conf>>

(* SIGKILL of the spawned process: its own code stops; a child it has forked   *)
(* into the pid namespace goes on.  The pipe it waits at is closed with it.    *)
Killed ==
    /\ outer' = "dead"
    /\ run' = IF inner = "none" THEN "exit" ELSE run
    /\ guest' = IF inner = "none" /\ guest # "off" THEN "dead" ELSE guest
    /\ UNCHANGED <<inner, step>>

(* attach_backend_process, one file at a time; a failure kills the runner *)
Attach ==
    /\ host = "attach"
    /\ \/ /\ cfg.cgroup /\ written < Len(CgroupFiles)
          /\ ~Broken(CgroupFiles[written + 1])
          /\ written' = written + 1
          /\ UNCHANGED <<host, runner, guest, gate>>
       \/ /\ cfg.cgroup /\ written < Len(CgroupFiles)
          /\ \/ Broken(CgroupFiles[written + 1])
             \/ outer = "dead" /\ CgroupFiles[written + 1] = "cgroup.procs"
          /\ host' = "failed" /\ Killed
          /\ gate' = IF gate = "shut" THEN "eof" ELSE gate
          /\ UNCHANGED written
       \/ /\ ~cfg.cgroup \/ written = Len(CgroupFiles)
          /\ host' = "release"
          /\ UNCHANGED <<runner, guest, gate, written>>
    /\ UNCHANGED <<given, sockets, conf>>

(* release_startup_gate: the write fails when nobody is left to read it *)
Release ==
    /\ host = "release"
    /\ IF gate = "shut" /\ (outer = "dead" \/ Broken("release"))
       THEN host' = "failed" /\ Killed /\ gate' = "eof"
       ELSE /\ host' = "connect"
            /\ gate' = IF gate = "shut" THEN "open" ELSE gate
            /\ UNCHANGED <<runner, guest>>
    /\ UNCHANGED <<given, written, sockets, conf>>

(* The daemon is killed while a runner waits at its gate, whose write end only *)
(* the daemon has: the pipe ends, and nobody kills the runner                  *)
HostDies ==
    /\ host \in {"attach", "release"} /\ gate = "shut"
    /\ host' = "gone" /\ gate' = "eof"
    /\ UNCHANGED <<given, runner, written, sockets, guest, conf>>

(* The thread reports that the VM is prepared, or its error; after five        *)
(* seconds the launch fails and the thread is left to itself                   *)
Handshake ==
    /\ host = "handshake"
    /\ \/ run \in {"enter", "vm"} /\ host' = "connect"
       \/ outer = "dead" /\ host' = "failed"
       \/ env.slow /\ host' = "failed"
    /\ UNCHANGED allButHost

(* GuestRpcClient::connect: the guest answers on the bridge the host waits for *)
Answers ==
    /\ guest = "listen" /\ sockets["host"] = "live"
    /\ "rpc_port" \in conf <=> "rpc_port" \in cfg.custom

Connect ==
    /\ host = "connect" /\ Answers
    /\ host' = "ready"
    /\ UNCHANGED allButHost

(* Mutant: only a refused connection, not the deadline, ends the wait. *)
ConnectWaits ==
    /\ host = "connect" /\ sockets["host"] = "stale"
    /\ host' = "failed"
    /\ IF ThreadMode THEN UNCHANGED <<runner, guest>> ELSE Killed
    /\ UNCHANGED <<given, written, gate, sockets, conf>>

(* A socket nobody listens at is an error at once; otherwise the deadline ends *)
(* the wait, and with the launch the process it spawned (kill_on_drop)         *)
ConnectFails ==
    /\ host = "connect"
    /\ \/ sockets["host"] = "stale"
       \/ env.slow \/ run = "exit" \/ guest = "dead" \/ (guest = "listen" /\ ~Answers)
    /\ host' = "failed"
    /\ IF ThreadMode THEN UNCHANGED <<runner, guest>> ELSE Killed
    /\ UNCHANGED <<given, written, gate, sockets, conf>>

----------------------------------------------------------------------------
(* The runner *)

(* Its code returns: the process in the namespace ends, or the only one *)
Exits ==
    /\ run' = "exit"
    /\ IF inner = "alive" THEN inner' = "dead" /\ UNCHANGED outer
                          ELSE outer' = "dead" /\ UNCHANGED inner
    /\ UNCHANGED step

(* run_from_file: the configuration is read and checked again *)
ReadConfig ==
    /\ run = "start"
    /\ IF Broken("read_config") \/ ~validate_secure_constraints
       THEN Exits
       ELSE run' = "gate" /\ UNCHANGED <<outer, inner, step>>
    /\ UNCHANGED <<given, host, written, gate, sockets, guest, conf>>

(* Mutant: the runner does not wait at the gate. *)
GateIgnored ==
    /\ run = "gate"
    /\ run' = IF cfg.secure THEN "boot" ELSE "prepare"
    /\ UNCHANGED <<given, host, outer, inner, step, written, gate, sockets, guest, conf>>

(* wait_for_startup_gate: one byte opens it, the end of the pipe is an error *)
PassGate ==
    /\ run = "gate" /\ gate # "shut"
    /\ IF gate = "eof"
       THEN Exits
       ELSE /\ run' = IF cfg.secure THEN "boot" ELSE "prepare"
            /\ UNCHANGED <<outer, inner, step>>
    /\ UNCHANGED <<given, host, written, gate, sockets, guest, conf>>

(* apply_secure_bootstrap, one step at a time: the first error ends the runner *)
Boot ==
    /\ run = "boot"
    /\ \/ step = Steps /\ run' = "prepare" /\ UNCHANGED <<outer, inner, step>>
       \/ /\ step < Steps /\ Granted(step + 1)
          /\ step' = step + 1
          /\ inner' = IF apply_secure_bootstrap[step + 1] = "fork" THEN "alive" ELSE inner
          /\ UNCHANGED <<run, outer>>
       \/ step < Steps /\ ~Granted(step + 1) /\ Exits
    /\ UNCHANGED <<given, host, written, gate, sockets, guest, conf>>

(* The process that forked waits for its child and exits with its code *)
OuterReaps ==
    /\ inner = "dead" /\ outer = "alive"
    /\ outer' = "dead"
    /\ UNCHANGED <<given, host, run, inner, step, written, gate, sockets, guest, conf>>

(* The calls to libkrun that describe the VM *)
configure_krun_init_entrypoint == {"workdir", "exec"}

configure_direct_kernel_guest ==
    {"rootfs", "workspace", "root_remount"}
    \cup (IF cfg.firmware THEN {"firmware"} ELSE {})
    \cup (IF "cache_device" \in cfg.custom THEN {"cache"} ELSE {})
    \cup (IF uses_krun_init THEN configure_krun_init_entrypoint ELSE {"kernel"})

prepare_microvm ==
    {"log", "ctx", "vm_config", "console", "disable_vsock", "add_vsock", "vsock_port",
     "shutdown_fd"} \cup configure_direct_kernel_guest

Prepare ==
    /\ run = "prepare"
    /\ IF \E c \in prepare_microvm : Broken(c)
       THEN Exits
       ELSE run' = "enter" /\ UNCHANGED <<outer, inner, step>>
    /\ UNCHANGED <<given, host, written, gate, sockets, guest, conf>>

(* stage_secure_runtime_root renames the socket: the VM of a jailed runner     *)
(* listens below the jail's own root                                           *)
BridgePath == IF cfg.secure THEN "jail" ELSE "host"

(* krun_start_enter *)
Enter ==
    /\ run = "enter"
    /\ IF Broken("start_enter")
       THEN Exits /\ UNCHANGED <<sockets, guest>>
       ELSE /\ run' = "vm" /\ UNCHANGED <<outer, inner, step>>
            /\ sockets' = [sockets EXCEPT ![BridgePath] = "live"]
            /\ guest' = "boot"
    /\ UNCHANGED <<given, host, written, gate, conf>>

----------------------------------------------------------------------------
(* The guest *)

(* kernel_cmdline: the settings it names *)
kernel_cmdline ==
    {"tmpfs_mib", "max_processes", "network_enabled", "rpc_port", "cache_device"}

mount_runtime_filesystems == {"proc", "sysfs", "devtmpfs", "devpts", "shm"}

bootstrap_guest ==
    {"tmpfs", "workspace_mount", "chown"}
    \cup (IF "cache_device" \in conf' THEN {"cache_mount"} ELSE {})

(* The agent mounts, reads its command line and listens; an error ends it, and *)
(* with it the VM.  Only krun_set_kernel carries the command line.             *)
GuestBoots ==
    /\ guest = "boot" /\ run = "vm"
    /\ conf' = IF uses_krun_init THEN {} ELSE cfg.custom \cap kernel_cmdline
    /\ guest' = IF \E m \in mount_runtime_filesystems \cup bootstrap_guest : Broken(m) THEN "dead" ELSE "listen"
    /\ UNCHANGED <<given, host, runner, written, gate, sockets>>

(* The VM of a dead guest ends and start_enter returns *)
VmEnds ==
    /\ guest = "dead" /\ run = "vm"
    /\ Exits
    /\ sockets' = [sockets EXCEPT ![BridgePath] = "stale"]
    /\ UNCHANGED <<given, host, written, gate, guest, conf>>

----------------------------------------------------------------------------
(* The end *)

(* The guest is asked to power off, and a thread's eventfd is written; a hung  *)
(* guest ignores both *)
Shutdown ==
    /\ host = "ready"
    /\ host' = "stopping"
    /\ guest' = IF Broken("hang") THEN guest ELSE "dead"
    /\ UNCHANGED <<given, runner, written, gate, sockets, conf>>

(* Mutant: a runner that does not end in time is left alone. *)
ShutdownForgets ==
    /\ host = "stopping"
    /\ \/ outer = "dead" /\ host' = "stopped"
       \/ (env.slow \/ Broken("hang")) /\ host' = "stopped"
    /\ UNCHANGED allButHost

(* shutdown_process_vm waits two seconds and then kills; shutdown_thread_vm    *)
(* waits five and reports the timeout                                          *)
ShutdownWaits ==
    /\ host = "stopping"
    /\ \/ outer = "dead" /\ host' = "stopped" /\ UNCHANGED <<runner, guest>>
       \/ /\ outer = "alive" /\ (env.slow \/ Broken("hang"))
          /\ IF ThreadMode
             THEN host' = "stuck" /\ UNCHANGED <<runner, guest>>
             ELSE host' = "stopped" /\ Killed
    /\ UNCHANGED <<given, written, gate, sockets, conf>>

Next ==
    \/ Harness \/ Validate \/ Preflight \/ Launching \/ Attach \/ Release
    \/ HostDies \/ Handshake \/ Connect \/ ConnectFails \/ Shutdown \/ ShutdownWaits
    \/ ReadConfig \/ PassGate \/ Boot \/ OuterReaps \/ Prepare \/ Enter
    \/ GuestBoots \/ VmEnds

(* Every task runs when it can; deadlines pass.  Only a shutdown is a caller's *)
(* choice.                                                                     *)
Fairness ==
    /\ WF_vars(Harness \/ Validate \/ Preflight \/ Launching \/ Attach \/ Release
               \/ Handshake \/ Connect \/ ConnectFails \/ ShutdownWaits)
    /\ WF_vars(ReadConfig \/ PassGate \/ Boot \/ Prepare \/ Enter \/ VmEnds)
    /\ WF_vars(GuestBoots)
    /\ WF_vars(OuterReaps)

Spec == Init /\ [][Next]_vars /\ Fairness

----------------------------------------------------------------------------
(* Properties *)

(* A secure runner takes its first bootstrap step only when every limit of its *)
(* cgroup is written and it is a member: the gate holds it until then, even    *)
(* when the host fails or dies half-way (spawn_runner_process).                *)
GateHolds ==
    cfg.secure /\ run \in {"boot", "prepare", "enter", "vm"} => written = Len(CgroupFiles)

(* No process is ever a member of a sandbox cgroup that still lacks one of its    *)
(* limits (attach_to_cgroup).                                                  *)
LimitsBeforeMembers ==
    "cgroup.procs" \in Written => {"memory.max", "cpu.max", "pids.max"} \subseteq Written

(* Whichever step a host refuses, and whenever it does, no VM starts outside   *)
(* its jail or its cgroup: libkrun is called for a secure BOX only in the      *)
(* child of the pid namespace, after every step of the bootstrap, which began  *)
(* behind the gate.                                                            *)
JailedBeforeVm ==
    /\ GateHolds /\ LimitsBeforeMembers
    /\ cfg.secure /\ run \in {"prepare", "enter", "vm"} => inner = "alive" /\ step = Steps

(* For every call, the jumps of both filters end at the verdict the lists      *)
(* spell out: of the one a runner that finished its bootstrap is under, and of *)
(* the one a BOX without network gives to its programs.  No call skips a test, *)
(* falls off the end or is decided by the wrong word of the call.              *)
FiltersAreExact ==
    /\ run = "boot" /\ step = Steps
           => \A call \in Call : Verdict(build_seccomp_filter, call) = RunnerVerdict(call)
    /\ host = "ready" /\ "network_enabled" \notin conf
           => \A call \in Call :
                 Verdict(build_no_network_seccomp_filter, call) = NoNetworkVerdict(call)

Capable ==
    /\ env.broken \in {"none", "mdwe", "hang"} /\ ~env.slow
    /\ ConfigValid /\ validate_secure_constraints
    /\ ~(ThreadMode /\ cfg.cgroup)
    /\ ~(uses_krun_init /\ "rpc_port" \in cfg.custom)

(* On a host that lacks nothing, no start-up check refuses, the runner never   *)
(* ends before its VM runs, and a compatible launch never fails: no step of    *)
(* the bootstrap takes a right that a later one needs, and no socket of an     *)
(* earlier run is taken for the VM's.  A guest booted from a kernel runs with  *)
(* the settings the BOX was given: what kernel_cmdline writes is what          *)
(* from_cmdline and read_cache_device read.                                    *)
CapableHostBoots ==
    /\ Capable => /\ host # "refused"
                  /\ run = "exit" => guest = "dead" \/ host \in {"failed", "gone"}
                  /\ host = "failed" => cfg.secure
    /\ guest = "listen" /\ ~uses_krun_init => conf = cfg.custom

(* A secure daemon never comes up on a host that refuses a bootstrap step or a *)
(* cgroup limit from the start: the harness and the probe find out first       *)
(* (preflight_secure_runner, preflight_runtime).                               *)
PreflightFindsOut ==
    /\ cfg.secure /\ ~env.late
    /\ env.broken \in (Past(Steps) \ {"mdwe"}) \cup CgroupProbe \cup {"landlock_abi"}
    => host \in {"harness", "validate", "preflight", "refused"}

(* A launch that failed and a stop that returned leave no runner process       *)
(* behind that they could still reach: the spawned process is dead, and when   *)
(* it had not forked, so is the VM.                                            *)
NothingLeftBehind ==
    host \in {"failed", "stopped"} /\ ~ThreadMode
        => outer # "alive" /\ (inner = "none" => run \in {"none", "exit"})

(* Every start ends in a refusal, and every launch in a session or an error:   *)
(* no pipe, handshake or socket is waited for without end.  When the daemon    *)
(* dies first, the runner it left at the gate ends.                            *)
LaunchSettles ==
    <>(host \in {"refused", "failed", "ready"} \/ (host = "gone" /\ outer = "dead"))

(* A launch of a secure BOX on a host that has what secure mode requires does  *)
(* not fail.                                                                   *)
SecureHostBoots == Capable /\ cfg.secure => host # "failed"
=============================================================================
