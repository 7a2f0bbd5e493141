---------------------------- MODULE LaunchProofs ----------------------------
(***************************************************************************)
(* What a launch promises, for every configuration and whatever the host   *)
(* lacks: a secure VM starts in its jail and in its cgroup or not at all,  *)
(* a failed launch and a finished stop leave no runner they could reach,   *)
(* and a host that cannot run the bootstrap is found out first.            *)
(***************************************************************************)
EXTENDS Launch, SequenceTheorems, TLAPS

Early == {"harness", "validate", "preflight", "idle", "refused"}
HostPcs == Early \cup {"failed", "handshake", "attach", "release", "connect", "gone", "ready",
                       "stopping", "stopped", "stuck"}
Jailed == {"prepare", "enter", "vm"}
RunPcs == Jailed \cup {"none", "start", "gate", "boot", "exit"}
Lives == {"none", "alive", "dead"}

Typed ==
  /\ cfg \in Config
  /\ env \in [broken : Faults, late : BOOLEAN, slow : BOOLEAN]
  /\ host \in HostPcs
  /\ run \in RunPcs
  /\ outer \in Lives /\ inner \in Lives
  /\ step \in Nat /\ step <= Steps
  /\ written \in 0 .. 5
  /\ gate \in {"none", "shut", "open", "eof"}

\* Where the host is tells what the start-up found and what has been started.
HostInOrder ==
  /\ host \notin {"harness", "validate", "refused"} => HardeningValid
  /\ host \in Early => run = "none" /\ gate = "none"
  /\ run = "none" <=> outer = "none"
  /\ run = "none" => inner = "none" /\ host \in Early \cup {"failed"}
  /\ host = "handshake" => ThreadMode

\* The gate of a secure runner opens when its cgroup is complete.
GateInOrder ==
  /\ cfg.secure /\ run # "none" => gate # "none"
  /\ gate # "none" => cfg.secure
  /\ cfg.cgroup /\ host = "release" => written = 5
  /\ gate = "open" => written = 5
  /\ cfg.secure /\ run \in Jailed \cup {"boot"} => gate = "open"

Forked == \E n \in 1 .. step : apply_secure_bootstrap[n] = "fork"

\* The code of the runner is in the namespace from the fork on.
RunnerInOrder ==
  /\ run \in {"none", "start", "gate"} => step = 0
  /\ run = "boot" => cfg.secure /\ (Forked => inner = "alive")
  /\ cfg.secure /\ run \in Jailed => inner = "alive" /\ step = Steps
  /\ inner = "dead" => run = "exit"
  /\ outer = "dead" /\ inner = "none" => run = "exit"

\* What the start-up checks let pass.
ChecksInOrder ==
  cfg.secure /\ ~env.late =>
    /\ env.broken \in Past(Steps) \ {"mdwe"} => host \in {"harness", "refused"}
    /\ env.broken \in CgroupProbe \cup {"landlock_abi"}
         => host \in {"harness", "validate", "preflight", "refused"}

\* A launch that is over has killed what it spawned.
EndInOrder == host \in {"failed", "stopped"} /\ ~ThreadMode => outer # "alive"

InOrder ==
  Typed /\ HostInOrder /\ GateInOrder /\ RunnerInOrder /\ ChecksInOrder /\ EndInOrder

----------------------------------------------------------------------------
(* The sequences of steps. *)

Occurs(x, s) == \E n \in 1 .. Len(s) : s[n] = x

IsSeq(s) == \E S : s \in Seq(S)

LEMMA CatOccurs ==
  ASSUME NEW s, NEW t, IsSeq(s), IsSeq(t)
  PROVE  /\ IsSeq(s \o t)
         /\ \A x : Occurs(x, s) \/ Occurs(x, t) => Occurs(x, s \o t)
<1>1. PICK S : s \in Seq(S)
  BY Zenon DEF IsSeq
<1>2. PICK T : t \in Seq(T)
  BY Zenon DEF IsSeq
<1>3. s \in Seq(S \cup T) /\ t \in Seq(S \cup T)
  BY <1>1, <1>2
<1>4. IsSeq(s \o t)
  BY <1>3 DEF IsSeq
<1>5. ASSUME NEW x, Occurs(x, s)
      PROVE  Occurs(x, s \o t)
  BY <1>3, <1>5 DEF Occurs
<1>6. ASSUME NEW x, Occurs(x, t)
      PROVE  Occurs(x, s \o t)
  <2>1. PICK n \in 1 .. Len(t) : t[n] = x
    BY Zenon, <1>6 DEF Occurs
  <2>2. Len(s) + n \in 1 .. Len(s \o t) /\ (s \o t)[Len(s) + n] = x
    BY <1>3, <2>1
  <2> QED BY Zenon, <2>2 DEF Occurs
<1> QED BY Zenon, <1>4, <1>5, <1>6

LEMMA TuplesAreSeqs ==
  /\ IsSeq(<<>>)
  /\ \A a : IsSeq(<<a>>)
  /\ \A a, b : IsSeq(<<a, b>>)
  /\ \A a, b, c : IsSeq(<<a, b, c>>)
  /\ \A a, b, c, d, e, f : IsSeq(<<a, b, c, d, e, f>>)
  /\ \A a, b, c, d, e, f, g : IsSeq(<<a, b, c, d, e, f, g>>)
<1>1. IsSeq(<<>>)
  <2>1. <<>> \in Seq({})
    OBVIOUS
  <2> QED BY Zenon, <2>1 DEF IsSeq
<1>2. ASSUME NEW a PROVE IsSeq(<<a>>)
  <2>1. <<a>> \in Seq({a})
    OBVIOUS
  <2> QED BY Zenon, <2>1 DEF IsSeq
<1>3. ASSUME NEW a, NEW b PROVE IsSeq(<<a, b>>)
  <2>1. <<a, b>> \in Seq({a, b})
    OBVIOUS
  <2> QED BY Zenon, <2>1 DEF IsSeq
<1>4. ASSUME NEW a, NEW b, NEW c PROVE IsSeq(<<a, b, c>>)
  <2>1. <<a, b, c>> \in Seq({a, b, c})
    OBVIOUS
  <2> QED BY Zenon, <2>1 DEF IsSeq
<1>5. ASSUME NEW a, NEW b, NEW c, NEW d, NEW e, NEW f PROVE IsSeq(<<a, b, c, d, e, f>>)
  <2>1. <<a, b, c, d, e, f>> \in Seq({a, b, c, d, e, f})
    OBVIOUS
  <2> QED BY Zenon, <2>1 DEF IsSeq
<1>6. ASSUME NEW a, NEW b, NEW c, NEW d, NEW e, NEW f, NEW g
      PROVE  IsSeq(<<a, b, c, d, e, f, g>>)
  <2>1. <<a, b, c, d, e, f, g>> \in Seq({a, b, c, d, e, f, g})
    OBVIOUS
  <2> QED BY Zenon, <2>1 DEF IsSeq
<1> QED BY Zenon, <1>1, <1>2, <1>3, <1>4, <1>5, <1>6

\* The bootstrap forks, whatever it binds into the jail.
LEMMA BootstrapForks ==
  /\ IsSeq(apply_secure_bootstrap)
  /\ Steps \in Nat
  /\ Occurs("fork", apply_secure_bootstrap)
<1>1. /\ IsSeq(drop_privileges)
      /\ IsSeq(isolate_user_namespace)
      /\ IsSeq(isolate_mount_ipc_uts_network_and_cgroup)
  BY Zenon, TuplesAreSeqs
     DEF drop_privileges, isolate_user_namespace, isolate_mount_ipc_uts_network_and_cgroup
<1>2. /\ IsSeq(enter_pid_namespace)
      /\ IsSeq(enter_chroot)
      /\ IsSeq(private_mounts)
      /\ IsSeq(<<"fds">>)
      /\ IsSeq(apply_landlock_policy)
      /\ IsSeq(<<"seccomp">>)
  BY Zenon, TuplesAreSeqs
     DEF enter_pid_namespace, enter_chroot, private_mounts, apply_landlock_policy
<1>3. IsSeq(stage_secure_runtime_root)
  <2>1. \A f : IsSeq(bind(f, TRUE)) /\ IsSeq(bind(f, FALSE))
    BY Zenon, TuplesAreSeqs DEF bind
  <2>2. IsSeq(<<"dirs">>) /\ IsSeq(<<>>)
    BY Zenon, TuplesAreSeqs
  <2> QED BY Zenon, <2>1, <2>2, CatOccurs DEF stage_secure_runtime_root
<1>4. Occurs("fork", enter_pid_namespace)
  <2>1. enter_pid_namespace[2] = "fork" /\ Len(enter_pid_namespace) = 3
    BY Zenon DEF enter_pid_namespace
  <2> QED BY <2>1 DEF Occurs
<1> DEFINE before == drop_privileges \o isolate_user_namespace
                     \o isolate_mount_ipc_uts_network_and_cgroup \o stage_secure_runtime_root
           during == before \o enter_pid_namespace
<1>5. IsSeq(before)
  BY Zenon, <1>1, <1>3, CatOccurs
<1>6. IsSeq(during) /\ Occurs("fork", during)
  <2> HIDE DEF before
  <2> QED BY Zenon, <1>5, <1>2, <1>4, CatOccurs
<1>7. apply_secure_bootstrap = during \o enter_chroot \o private_mounts \o <<"fds">>
                               \o apply_landlock_policy \o <<"seccomp">>
  BY Zenon DEF apply_secure_bootstrap
<1> HIDE DEF during
<1>8. IsSeq(during \o enter_chroot) /\ Occurs("fork", during \o enter_chroot)
  BY Zenon, <1>6, <1>2, CatOccurs
<1>9. /\ IsSeq(during \o enter_chroot \o private_mounts)
      /\ Occurs("fork", during \o enter_chroot \o private_mounts)
  BY Zenon, <1>8, <1>2, CatOccurs
<1>10. /\ IsSeq(during \o enter_chroot \o private_mounts \o <<"fds">>)
       /\ Occurs("fork", during \o enter_chroot \o private_mounts \o <<"fds">>)
  BY Zenon, <1>9, <1>2, CatOccurs
<1>11. IsSeq(apply_secure_bootstrap) /\ Occurs("fork", apply_secure_bootstrap)
  BY Zenon, <1>10, <1>2, <1>7, CatOccurs
<1>12. PICK S : apply_secure_bootstrap \in Seq(S)
  BY Zenon, <1>11 DEF IsSeq
<1> QED BY <1>11, <1>12 DEF Steps

LEMMA PastIsAll ==
  Past(Steps) = {apply_secure_bootstrap[n] : n \in 1 .. Steps}
<1>1. PICK S : apply_secure_bootstrap \in Seq(S)
  BY Zenon, BootstrapForks DEF IsSeq
<1>2. SubSeq(apply_secure_bootstrap, 1, Steps) = apply_secure_bootstrap
  BY Zenon, <1>1, SubSeqFull DEF Steps
<1>3. DOMAIN apply_secure_bootstrap = 1 .. Steps
  BY <1>1 DEF Steps
<1> QED BY Zenon, <1>2, <1>3 DEF Past, ToSet

\* attach_to_cgroup writes the limits first.
LEMMA LimitsFirst ==
  ASSUME written \in 0 .. 5
  PROVE  Len(CgroupFiles) = 5 /\ LimitsBeforeMembers
<1> DEFINE Names == {"dir", "memory.max", "cpu.max", "pids.max", "cgroup.procs"}
<1>1. /\ Len(CgroupFiles) = 5
      /\ CgroupFiles[2] = "memory.max" /\ CgroupFiles[3] = "cpu.max" /\ CgroupFiles[4] = "pids.max"
      /\ \A i \in 1 .. 5 : CgroupFiles[i] = "cgroup.procs" => i = 5
      /\ \A i \in 1 .. 5 : CgroupFiles[i] \in Names
  BY DEF CgroupFiles
<1>2. Written = {CgroupFiles[i] : i \in 1 .. written}
  <2>1. /\ Len(SubSeq(CgroupFiles, 1, written)) = written
        /\ SubSeq(CgroupFiles, 1, written) \in Seq(Names)
        /\ \A i \in 1 .. written : SubSeq(CgroupFiles, 1, written)[i] = CgroupFiles[i]
    BY <1>1, SubSeqProperties
  <2>2. DOMAIN SubSeq(CgroupFiles, 1, written) = 1 .. written
    BY <2>1
  <2> QED BY Zenon, <2>1, <2>2 DEF Written, ToSet
<1> QED BY <1>1, <1>2 DEF LimitsBeforeMembers

----------------------------------------------------------------------------
(* The invariant. *)

\* What the configuration decides is decided once and for all.
LEMMA Decided ==
  ASSUME cfg' = cfg
  PROVE  /\ apply_secure_bootstrap' = apply_secure_bootstrap
         /\ Steps' = Steps
         /\ Past(Steps)' = Past(Steps)
         /\ HardeningValid' <=> HardeningValid
         /\ ThreadMode' <=> ThreadMode
<1>1. apply_secure_bootstrap' = apply_secure_bootstrap
  BY Zenon DEF apply_secure_bootstrap, stage_secure_runtime_root, bind, drop_privileges,
         isolate_user_namespace, isolate_mount_ipc_uts_network_and_cgroup, enter_pid_namespace,
         enter_chroot, private_mounts, apply_landlock_policy
<1>2. Steps' = Steps
  BY Zenon, <1>1 DEF Steps
<1> QED BY Zenon, <1>1, <1>2 DEF Past, HardeningValid, ThreadMode

LEMMA InitInOrder == Init => InOrder
<1> SUFFICES ASSUME Init PROVE InOrder
  BY Zenon
<1>1. cfg \in Config
  BY Zenon, ConfigsAssumption DEF Init
<1>2. Typed
  BY <1>1, BootstrapForks DEF Init, Typed, HostPcs, Early, RunPcs, Jailed, Lives
<1>3. HostInOrder /\ GateInOrder /\ RunnerInOrder /\ EndInOrder
  BY Zenon, <1>1 DEF Init, HostInOrder, GateInOrder, RunnerInOrder, EndInOrder, Early, Jailed
<1>4. ChecksInOrder
  BY Zenon DEF Init, ChecksInOrder
<1> QED BY Zenon, <1>2, <1>3, <1>4 DEF InOrder

\* The steps of the start-up.
LEMMA StartsInOrder ==
  ASSUME InOrder, Harness \/ Validate \/ Preflight
  PROVE  InOrder'
<1>1. UNCHANGED allButHost
  BY Zenon DEF Harness, Validate, Preflight
<1>2. Typed'
  BY Zenon, <1>1, Decided
     DEF InOrder, Typed, allButHost, Harness, Validate, Preflight, HostPcs, Early
<1>3. HostInOrder'
  BY Zenon, <1>1, Decided DEF InOrder, HostInOrder, allButHost, Harness, Validate, Preflight, Early,
                       ConfigValid, HardeningValid
<1>4. GateInOrder' /\ RunnerInOrder' /\ EndInOrder'
  BY Zenon, <1>1, Decided DEF InOrder, HostInOrder, GateInOrder, RunnerInOrder, EndInOrder, Forked,
                       allButHost, Harness, Validate, Preflight, Early, Jailed
<1>5. ChecksInOrder'
  <2> SUFFICES ASSUME cfg.secure, ~env.late
               PROVE  /\ env.broken \in Past(Steps) \ {"mdwe"} => host' \in {"harness", "refused"}
                      /\ env.broken \in CgroupProbe \cup {"landlock_abi"}
                           => host' \in {"harness", "validate", "preflight", "refused"}
    BY Zenon, <1>1, Decided DEF ChecksInOrder, allButHost, CgroupProbe
  <2>1. ASSUME env.broken \in Past(Steps) \ {"mdwe"}
        PROVE  host' \in {"harness", "refused"}
    <3>1. PICK n \in 1 .. Steps : env.broken = apply_secure_bootstrap[n]
      BY Zenon, <2>1, PastIsAll
    <3>2. ~Granted(n)
      BY Zenon, <2>1, <3>1 DEF Granted, Broken
    <3>3. ~run_security_harness
      BY Zenon, <3>2 DEF run_security_harness
    <3>4. host \in {"harness", "refused"}
      BY Zenon, <2>1 DEF InOrder, ChecksInOrder
    <3> QED BY Zenon, <3>3, <3>4 DEF Harness, Validate, Preflight
  <2>2. ASSUME env.broken \in CgroupProbe \cup {"landlock_abi"}
        PROVE  host' \in {"harness", "validate", "preflight", "refused"}
    <3>1. ~preflight_runtime
      BY Zenon, <2>2 DEF preflight_runtime, Broken
    <3> QED BY Zenon, <2>2, <3>1 DEF InOrder, ChecksInOrder, Harness, Validate, Preflight
  <2> QED BY Zenon, <2>1, <2>2
<1> QED BY Zenon, <1>2, <1>3, <1>4, <1>5 DEF InOrder

\* Past the start-up, its checks are done.
LEMMA ChecksAreDone ==
  ASSUME InOrder, UNCHANGED given, host' = host \/ host \notin Early \ {"idle"}
  PROVE  ChecksInOrder'
BY Zenon, Decided DEF InOrder, ChecksInOrder, given, Early, CgroupProbe

LEMMA LaunchingInOrder ==
  ASSUME InOrder, Launching
  PROVE  InOrder'
<1> USE DEF InOrder, Launching, given
<1>1. Typed'
  BY ZenonT(60), Decided DEF Typed, HostPcs, Early, RunPcs, Jailed, Lives
<1>2. HostInOrder'
  BY Zenon, Decided DEF Typed, HostInOrder, Early, Config
<1>3. GateInOrder'
  BY Zenon, Decided DEF Typed, HostInOrder, GateInOrder, Early, Jailed, Config, ThreadMode
<1>4. RunnerInOrder' /\ EndInOrder'
  BY Zenon, Decided
     DEF Typed, HostInOrder, RunnerInOrder, EndInOrder, Early, Jailed, Config, ThreadMode
<1>5. ChecksInOrder'
  BY Zenon, ChecksAreDone DEF Early
<1> QED BY Zenon, <1>1, <1>2, <1>3, <1>4, <1>5

\* The host goes on and leaves the runner alone.
LEMMA HostInOrderMoves ==
  ASSUME InOrder, Handshake \/ Connect \/ HostDies
  PROVE  InOrder'
<1> USE DEF InOrder, Handshake, Connect, HostDies, given, allButHost, runner
<1>1. Typed'
  BY Zenon, Decided DEF Typed, HostPcs, Early
<1>2. HostInOrder' /\ GateInOrder'
  BY Zenon, Decided DEF Typed, HostInOrder, GateInOrder, Early, Jailed
<1>3. RunnerInOrder' /\ EndInOrder'
  BY Zenon, Decided DEF Typed, HostInOrder, RunnerInOrder, EndInOrder, Forked, Early, Jailed
<1>4. ChecksInOrder'
  BY Zenon, ChecksAreDone DEF Early
<1> QED BY Zenon, <1>1, <1>2, <1>3, <1>4

\* The host goes on, and kills the runner where it gives up.
LEMMA HostEndsInOrder ==
  ASSUME InOrder, Attach \/ Release \/ ConnectFails \/ Shutdown \/ ShutdownWaits
  PROVE  InOrder'
<1> USE DEF InOrder, Attach, Release, ConnectFails, Shutdown, ShutdownWaits, Killed, given, runner
<1>1. Typed'
  BY SMTT(40), Decided, LimitsFirst DEF Typed, HostPcs, Early, RunPcs, Lives
<1>2. HostInOrder'
  BY Zenon, Decided DEF Typed, HostInOrder, Early, Lives
<1>3. GateInOrder'
  <2> USE DEF Typed, GateInOrder, Jailed
  <2>1. CASE Attach
    <3>1. Len(CgroupFiles) = 5
      BY Zenon, LimitsFirst
    <3>2. CASE written < 5 /\ gate # "shut"
      BY SMTT(40), <2>1, <3>1, <3>2 DEF HostInOrder, Early, Lives
    <3>3. CASE written < 5 /\ gate = "shut"
      BY Zenon, <2>1, <3>1, <3>3 DEF HostInOrder, Early, Lives
    <3>4. CASE written = 5
      BY SMTT(40), <2>1, <3>1, <3>4 DEF HostInOrder, Early
    <3> QED BY SMTT(40), <3>2, <3>3, <3>4
  <2>2. CASE Release
    BY Zenon, <2>2 DEF HostInOrder, Early, HardeningValid
  <2>3. CASE ConnectFails \/ Shutdown \/ ShutdownWaits
    BY Zenon, <2>3 DEF HostInOrder, Early
  <2> QED BY Zenon, <2>1, <2>2, <2>3
<1>4. RunnerInOrder'
  BY Zenon, Decided DEF Typed, RunnerInOrder, Forked, Jailed, Lives
<1>5. EndInOrder'
  <2>1. CASE Attach \/ Release \/ Shutdown
    BY Zenon, <2>1, Decided DEF EndInOrder
  <2>2. CASE ConnectFails
    BY Zenon, <2>2, Decided DEF EndInOrder
  <2>3. CASE ShutdownWaits
    BY Zenon, <2>3, Decided DEF EndInOrder
  <2> QED BY Zenon, <2>1, <2>2, <2>3
<1>6. ChecksInOrder'
  BY Zenon, ChecksAreDone DEF Early
<1> QED BY Zenon, <1>1, <1>2, <1>3, <1>4, <1>5, <1>6

\* The runner ends.
LEMMA ExitsInOrder ==
  ASSUME InOrder, Exits, UNCHANGED <<given, host, written, gate>>, run # "none"
  PROVE  InOrder'
<1> USE DEF InOrder, Exits, given
<1>1. Typed'
  BY Zenon, Decided DEF Typed, RunPcs, Lives
<1>2. HostInOrder' /\ GateInOrder'
  BY Zenon, Decided DEF Typed, HostInOrder, GateInOrder, Early, Jailed
<1>3. RunnerInOrder' /\ EndInOrder'
  BY Zenon, Decided DEF Typed, RunnerInOrder, EndInOrder, Jailed, Lives
<1>4. ChecksInOrder'
  BY Zenon, ChecksAreDone
<1> QED BY Zenon, <1>1, <1>2, <1>3, <1>4

\* The runner goes from its gate to the VM.
LEMMA RunnerMovesInOrder ==
  ASSUME InOrder, ReadConfig \/ PassGate \/ Prepare \/ Enter \/ VmEnds
  PROVE  InOrder'
<1>1. CASE Exits
  BY Zenon, <1>1, ExitsInOrder DEF ReadConfig, PassGate, Prepare, Enter, VmEnds
<1>2. CASE ~Exits
  <2> USE DEF InOrder, ReadConfig, PassGate, Prepare, Enter, VmEnds, given
  <2>1. Typed'
    BY Zenon, <1>2, Decided DEF Typed, RunPcs, Jailed
  <2>2. HostInOrder' /\ EndInOrder'
    BY Zenon, <1>2, Decided DEF Typed, HostInOrder, EndInOrder, Early
  <2>3. GateInOrder'
    BY Zenon, <1>2, Decided DEF Typed, GateInOrder, Jailed
  <2>4. RunnerInOrder'
    <3>1. CASE PassGate /\ cfg.secure
      <4>1. run' = "boot" /\ step' = step /\ inner' = inner /\ outer' = outer /\ run = "gate"
        BY Zenon, <1>2, <3>1
      <4>2. ~Forked'
        BY SMTT(40), <4>1, <3>1, Decided DEF Forked, RunnerInOrder
      <4> QED BY Zenon, <3>1, <4>1, <4>2 DEF RunnerInOrder, Jailed
    <3>2. CASE PassGate /\ ~cfg.secure
      BY Zenon, <1>2, <3>2 DEF Typed, RunnerInOrder, Jailed
    <3>3. CASE ~PassGate
      BY Zenon, <1>2, <3>3, Decided DEF Typed, RunnerInOrder, Jailed
    <3> QED BY Zenon, <3>1, <3>2, <3>3
  <2>5. ChecksInOrder'
    BY Zenon, <1>2, ChecksAreDone
  <2> QED BY Zenon, <2>1, <2>2, <2>3, <2>4, <2>5
<1> QED BY Zenon, <1>1, <1>2

\* A step of the bootstrap; the one that forks puts the code into the namespace.
LEMMA BootInOrder ==
  ASSUME InOrder, Boot
  PROVE  InOrder'
<1>1. CASE Exits
  BY Zenon, <1>1, ExitsInOrder DEF Boot
<1>2. CASE ~Exits
  <2> USE DEF InOrder, given
  <2>1. /\ UNCHANGED <<cfg, env, host, written, gate, outer>> /\ run = "boot"
        /\ \/ step = Steps /\ run' = "prepare" /\ UNCHANGED <<inner, step>>
           \/ /\ step < Steps /\ step' = step + 1 /\ run' = run
              /\ inner' = IF apply_secure_bootstrap[step + 1] = "fork" THEN "alive" ELSE inner
    BY Zenon, <1>2 DEF Boot
  <2>2. Typed'
    BY SMTT(40), <2>1, BootstrapForks, Decided DEF Typed, RunPcs, Jailed, Lives
  <2>3. HostInOrder' /\ EndInOrder' /\ GateInOrder'
    BY Zenon, <2>1, Decided DEF Typed, HostInOrder, EndInOrder, GateInOrder, Early, Jailed
  <2>4. RunnerInOrder'
    <3>1. CASE step = Steps /\ run' = "prepare" /\ UNCHANGED <<inner, step>>
      <4>1. Forked
        BY Zenon, <3>1, BootstrapForks DEF Forked, Occurs, Steps
      <4> QED BY Zenon, <2>1, <3>1, <4>1, Decided DEF RunnerInOrder, Jailed
    <3>2. CASE step < Steps /\ step' = step + 1 /\ run' = run
      <4>1. Forked' => Forked \/ apply_secure_bootstrap[step + 1] = "fork"
        BY <2>1, <3>2, Decided DEF Forked, Typed
      <4> QED BY Zenon, <2>1, <3>2, <4>1 DEF RunnerInOrder, Jailed
    <3> QED BY Zenon, <2>1, <3>1, <3>2
  <2>5. ChecksInOrder'
    BY Zenon, <2>1, ChecksAreDone
  <2> QED BY Zenon, <2>2, <2>3, <2>4, <2>5
<1> QED BY Zenon, <1>1, <1>2

\* The first process of a secure runner ends after its child.
LEMMA OthersInOrder ==
  ASSUME InOrder, OuterReaps \/ GuestBoots \/ UNCHANGED vars
  PROVE  InOrder'
<1> USE DEF InOrder, given
<1>1. /\ UNCHANGED <<cfg, env, host, run, inner, step, written, gate>>
      /\ outer' = outer \/ (inner = "dead" /\ outer = "alive" /\ outer' = "dead")
  BY Zenon DEF OuterReaps, GuestBoots, vars, runner
<1>2. Typed' /\ HostInOrder' /\ GateInOrder'
  BY <1>1, Decided DEF Typed, HostInOrder, GateInOrder, Lives
<1>3. RunnerInOrder' /\ EndInOrder'
  BY Zenon, <1>1, Decided DEF Typed, RunnerInOrder, EndInOrder, Forked
<1>4. ChecksInOrder'
  BY Zenon, <1>1, ChecksAreDone
<1> QED BY Zenon, <1>2, <1>3, <1>4

LEMMA InOrderAlways == Spec => []InOrder
<1>1. InOrder /\ [Next]_vars => InOrder'
  BY Zenon, StartsInOrder, LaunchingInOrder, HostInOrderMoves, HostEndsInOrder, RunnerMovesInOrder,
     BootInOrder, OthersInOrder DEF Next
<1> QED BY InitInOrder, <1>1, PTL DEF Spec

----------------------------------------------------------------------------
(* The theorems. *)

\* Whatever a host refuses and whenever it does, and wherever the daemon fails or
\* dies, libkrun is called for a secure BOX only behind the gate, in the complete
\* cgroup, in the child of the pid namespace and after every step of
\* apply_secure_bootstrap.
THEOREM VmsAreJailed == Spec => []JailedBeforeVm
<1>1. InOrder => JailedBeforeVm
  BY Zenon, LimitsFirst
     DEF InOrder, Typed, GateInOrder, RunnerInOrder, Jailed, JailedBeforeVm, GateHolds
<1> QED BY <1>1, InOrderAlways, PTL

\* preflight_secure_runner and preflight_runtime refuse every host that refuses a
\* bootstrap step or a cgroup limit from the start.
THEOREM StartUpFindsOut == Spec => []PreflightFindsOut
<1>1. InOrder => PreflightFindsOut
  BY Zenon DEF InOrder, ChecksInOrder, PreflightFindsOut
<1> QED BY <1>1, InOrderAlways, PTL

\* A launch that failed, anywhere on its way, and a stop that returned have killed
\* the process they spawned.
THEOREM LaunchesCleanUp == Spec => []NothingLeftBehind
<1>1. InOrder => NothingLeftBehind
  BY Zenon DEF InOrder, Typed, Lives, HostInOrder, RunnerInOrder, EndInOrder, NothingLeftBehind
<1> QED BY <1>1, InOrderAlways, PTL

=============================================================================
