------------------------------ MODULE Daemon ------------------------------
(***************************************************************************)
(* Starting and quitting the daemon (src/sagens/daemon.rs and              *)
(* daemon/recovery.rs). Every `sagens start` and `sagens quit` is a        *)
(* process of its own; they and the daemons share the user config, the pid *)
(* file, the admin registry and the ports of the host, and no lock.        *)
(***************************************************************************)
EXTENDS Naturals, FiniteSets

CONSTANTS
  Commands,   \* the CLI processes that may run at the same time
  Quitters,   \* those that may be `sagens quit`
  Pids,       \* bound: the daemon processes ever spawned
  Ports,      \* the endpoints
  Default,    \* the endpoint of a new config
  Occupied,   \* endpoints other programs of the host have bound
  Creds,      \* bound: the credentials ever generated for a config
  SlowBoot,   \* whether a daemon may need longer than DAEMON_WAIT_TIMEOUT to serve
  MayFail,    \* whether list_boxes of a daemon may start to fail
  None

VARIABLES
  config,    \* the user config: endpoint and credential, or None
  pidFile,   \* the pid file
  registry,  \* the credential the admin registry was bootstrapped with
  daemon,    \* the daemon processes
  cmd,       \* the CLI processes
  used       \* credentials generated so far

vars == <<config, pidFile, registry, daemon, cmd, used>>

Unborn == [st |-> "unborn", port |-> None, cred |-> None]
Idle == [pc |-> "idle", conf |-> None, target |-> None, then |-> "idle"]

Init ==
  /\ config = None
  /\ pidFile = None
  /\ registry = None
  /\ daemon = [d \in Pids |-> Unborn]
  /\ cmd = [c \in Commands |-> Idle]
  /\ used = {}

Booting == {"boot", "pid", "bind"}
Listening == {"serving", "failing"}
Alive(d) == daemon[d].st \in Booting \cup Listening \cup {"stopping"}
\* recorded_daemon_uses_binary is not Some(false): no pid file, or a daemon's
PidFits == pidFile \in {None} \cup {d \in Pids : Alive(d)}
Bound(p) == p \in Occupied \/ \E d \in Pids : daemon[d].st \in Listening /\ daemon[d].port = p
\* healthy_client: somebody serves the endpoint, accepts the credential and can
\* list the BOXes
Healthy(conf) ==
  registry = conf.cred /\ \E d \in Pids : daemon[d].st = "serving" /\ daemon[d].port = conf.port
To(c, pc) == cmd' = [cmd EXCEPT ![c].pc = pc]

-----------------------------------------------------------------------------
(* sagens start: ensure_started *)

\* ensure_user_config, with the config there ...
ReadConfig(c) ==
  /\ cmd[c].pc = "idle"
  /\ config # None
  /\ cmd' = [cmd EXCEPT ![c] = [Idle EXCEPT !.pc = "probe", !.conf = config]]
  /\ UNCHANGED <<config, pidFile, registry, daemon, used>>

\* Mutant: a new one is made up at every start.
NewConfigAlways(c) ==
  /\ cmd[c].pc = "idle"
  /\ \E k \in Creds \ used :
       /\ used' = used \cup {k}
       /\ cmd' = [cmd EXCEPT ![c] =
            [Idle EXCEPT !.pc = "save", !.conf = [port |-> Default, cred |-> k]]]
  /\ UNCHANGED <<config, pidFile, registry, daemon>>

\* ... or not: a new one is made up ...
NewConfig(c) ==
  /\ cmd[c].pc = "idle"
  /\ config = None
  /\ \E k \in Creds \ used :
       /\ used' = used \cup {k}
       /\ cmd' = [cmd EXCEPT ![c] =
            [Idle EXCEPT !.pc = "save", !.conf = [port |-> Default, cred |-> k]]]
  /\ UNCHANGED <<config, pidFile, registry, daemon>>

\* ... and written
WriteConfig(c) ==
  /\ cmd[c].pc = "save"
  /\ config' = cmd[c].conf
  /\ To(c, "probe")
  /\ UNCHANGED <<pidFile, registry, daemon, used>>

\* daemon_is_healthy and recorded_daemon_uses_binary. A healthy daemon is reused
\* unless the pid file names a process that is no daemon of this binary.
Reuse(c) ==
  /\ cmd[c].pc = "probe"
  /\ Healthy(cmd[c].conf)
  /\ PidFits
  /\ cmd' = [cmd EXCEPT ![c] = Idle]
  /\ UNCHANGED <<config, pidFile, registry, daemon, used>>

Replace(c) ==
  /\ cmd[c].pc = "probe"
  /\ ~(Healthy(cmd[c].conf) /\ PidFits)
  /\ cmd' = [cmd EXCEPT ![c].pc = "read_pid", ![c].then = "endpoint"]
  /\ UNCHANGED <<config, pidFile, registry, daemon, used>>

\* terminate_recorded_daemon: read the pid file ...
ReadPid(c) ==
  /\ cmd[c].pc = "read_pid"
  /\ cmd' = [cmd EXCEPT ![c].pc = "kill", ![c].target = pidFile]
  /\ UNCHANGED <<config, pidFile, registry, daemon, used>>

\* ... SIGTERM the process it names, which ends a daemon, and wait ...
KillRecorded(c) ==
  /\ cmd[c].pc = "kill"
  /\ daemon' = [d \in Pids |->
       IF d = cmd[c].target /\ Alive(d) THEN [daemon[d] EXCEPT !.st = "dead"] ELSE daemon[d]]
  /\ To(c, "unlink")
  /\ UNCHANGED <<config, pidFile, registry, used>>

\* ... and remove the pid file, whatever it says by now
RemovePid(c) ==
  /\ cmd[c].pc = "unlink"
  /\ pidFile' = None
  /\ cmd' = [cmd EXCEPT ![c] = [Idle EXCEPT !.pc = cmd[c].then, !.conf = cmd[c].conf]]
  /\ UNCHANGED <<config, registry, daemon, used>>

\* recover_startup_state: keep the endpoint if it can be bound ...
KeepEndpoint(c) ==
  /\ cmd[c].pc = "endpoint"
  /\ ~Bound(cmd[c].conf.port)
  /\ To(c, "spawn")
  /\ UNCHANGED <<config, pidFile, registry, daemon, used>>

\* ... else reserve another one and save the config
MoveEndpoint(c) ==
  /\ cmd[c].pc = "endpoint"
  /\ Bound(cmd[c].conf.port)
  /\ \E p \in Ports :
       /\ ~Bound(p)
       /\ config' = [cmd[c].conf EXCEPT !.port = p]
       /\ cmd' = [cmd EXCEPT ![c].pc = "spawn", ![c].conf = config']
  /\ UNCHANGED <<pidFile, registry, daemon, used>>

\* spawn_background_daemon, then wait_for_daemon
Spawn(c) ==
  /\ cmd[c].pc = "spawn"
  /\ \E d \in Pids :
       /\ daemon[d] = Unborn
       /\ daemon' = [daemon EXCEPT ![d] =
            [st |-> "boot", port |-> cmd[c].conf.port, cred |-> cmd[c].conf.cred]]
       /\ cmd' = [cmd EXCEPT ![c].pc = "wait", ![c].target = d]
  /\ UNCHANGED <<config, pidFile, registry, used>>

\* The endpoint answers, or DAEMON_WAIT_TIMEOUT passes.
StartReturns(c) ==
  /\ cmd[c].pc = "wait"
  /\ \/ Healthy(cmd[c].conf)
     \/ SlowBoot
     \/ daemon[cmd[c].target].st \notin Booting
  /\ cmd' = [cmd EXCEPT ![c] = Idle]
  /\ UNCHANGED <<config, pidFile, registry, daemon, used>>

-----------------------------------------------------------------------------
(* sagens quit *)

QuitWithoutConfig(c) ==
  /\ cmd[c].pc = "idle" /\ c \in Quitters
  /\ config = None
  /\ cmd' = [cmd EXCEPT ![c] = [Idle EXCEPT !.pc = "unlink"]]
  /\ UNCHANGED <<config, pidFile, registry, daemon, used>>

\* A daemon that is not healthy is terminated by its pid.
QuitByPid(c) ==
  /\ cmd[c].pc = "idle" /\ c \in Quitters
  /\ config # None /\ ~Healthy(config)
  /\ cmd' = [cmd EXCEPT ![c] = [Idle EXCEPT !.pc = "read_pid"]]
  /\ UNCHANGED <<config, pidFile, registry, daemon, used>>

\* shutdown_daemon succeeds and the daemon stops serving, or it fails and the
\* daemon is terminated by its pid
Quit(c) ==
  /\ cmd[c].pc = "idle" /\ c \in Quitters
  /\ config # None /\ Healthy(config)
  /\ \/ \E d \in Pids :
          /\ daemon[d].st = "serving" /\ daemon[d].port = config.port
          /\ daemon' = [daemon EXCEPT ![d].st = "stopping"]
          /\ cmd' = [cmd EXCEPT ![c] = [Idle EXCEPT !.pc = "unlink"]]
     \/ /\ cmd' = [cmd EXCEPT ![c] = [Idle EXCEPT !.pc = "read_pid"]]
        /\ UNCHANGED daemon
  /\ UNCHANGED <<config, pidFile, registry, used>>

-----------------------------------------------------------------------------
(* A daemon process: run_foreground *)

\* bootstrap_admin_if_needed: only an empty registry takes the credential
BootstrapAdmin(d) ==
  /\ daemon[d].st = "boot"
  /\ registry' = IF registry = None THEN daemon[d].cred ELSE registry
  /\ daemon' = [daemon EXCEPT ![d].st = "pid"]
  /\ UNCHANGED <<config, pidFile, cmd, used>>

\* The pid file is written before the endpoint is bound ...
WritePid(d) ==
  /\ daemon[d].st = "pid"
  /\ pidFile' = d
  /\ daemon' = [daemon EXCEPT ![d].st = "bind"]
  /\ UNCHANGED <<config, registry, cmd, used>>

\* ... and stays behind when binding fails
Bind(d) ==
  /\ daemon[d].st = "bind"
  /\ daemon' = [daemon EXCEPT ![d].st = IF Bound(daemon[d].port) THEN "dead" ELSE "serving"]
  /\ UNCHANGED <<config, pidFile, registry, cmd, used>>

\* After the API has stopped, the daemon removes the pid file and exits.
StopDaemon(d) ==
  /\ daemon[d].st = "stopping"
  /\ pidFile' = None
  /\ daemon' = [daemon EXCEPT ![d].st = "dead"]
  /\ UNCHANGED <<config, registry, cmd, used>>

\* The host kills it.
DaemonDies(d) ==
  /\ Alive(d)
  /\ daemon' = [daemon EXCEPT ![d].st = "dead"]
  /\ UNCHANGED <<config, pidFile, registry, cmd, used>>

\* list_boxes fails from now on: a record that cannot be decoded, say
ListFails(d) ==
  /\ MayFail
  /\ daemon[d].st = "serving"
  /\ daemon' = [daemon EXCEPT ![d].st = "failing"]
  /\ UNCHANGED <<config, pidFile, registry, cmd, used>>

Next ==
  \/ \E c \in Commands :
       \/ ReadConfig(c) \/ NewConfig(c) \/ WriteConfig(c) \/ Reuse(c) \/ Replace(c)
       \/ ReadPid(c) \/ KillRecorded(c) \/ RemovePid(c)
       \/ KeepEndpoint(c) \/ MoveEndpoint(c) \/ Spawn(c) \/ StartReturns(c)
       \/ QuitWithoutConfig(c) \/ QuitByPid(c) \/ Quit(c)
  \/ \E d \in Pids :
       \/ BootstrapAdmin(d) \/ WritePid(d) \/ Bind(d)
       \/ StopDaemon(d) \/ DaemonDies(d) \/ ListFails(d)

Spec == Init /\ [][Next]_vars

-----------------------------------------------------------------------------
(* Properties *)

\* The properties are about commands issued one at a time.

\* At most one daemon of a state directory serves requests: a second one would
\* reconcile the records of the first one's BOXes, and both would write them.
OneDaemon == Cardinality({d \in Pids : daemon[d].st = "serving"}) <= 1

Quiet == (\A c \in Commands : cmd[c].pc = "idle") /\ \A d \in Pids : daemon[d].st \notin Booting

\* Once every command has returned, the next `sagens start` reuses the daemon
\* that serves the config's endpoint: the pid file is not another process's.
StartReuses ==
  Quiet /\ config # None /\ Healthy(config) => PidFits

\* The credential of the user config is the one the registry was bootstrapped
\* with: no start leaves a config no daemon will ever accept.
ConfigOpens == config # None /\ registry # None => config.cred = registry

\* One daemon serves, the user config opens it, and the next start finds it.
StartsAgree == OneDaemon /\ StartReuses /\ ConfigOpens
=============================================================================
