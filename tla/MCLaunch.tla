------------------------------ MODULE MCLaunch ------------------------------
(* Launch for TLC: the configurations of the daemon with four of the guest,     *)
(* less those that differ in what is not looked at, and a fault of each kind.  *)
EXTENDS Launch

MCConfigs ==
    {c \in [secure : BOOLEAN, linux : BOOLEAN, selfbin : BOOLEAN, firmware : BOOLEAN,
            raw : BOOLEAN, cgroup : BOOLEAN, landlock : BOOLEAN, netDefault : BOOLEAN,
            custom : {{}, {"rpc_port"}, {"network_enabled"}, {"tmpfs_mib", "cache_device"}}] :
        /\ ~c.secure => c.landlock /\ ~c.netDefault /\ c.raw
        /\ c.secure => c.selfbin /\ (c.linux \/ c.firmware)
        /\ c.secure /\ ~(c.linux /\ c.cgroup /\ c.landlock) => c.custom = {}}

MCFaults ==
    {"none", "mdwe", "uid_map", "kernel_file", "unshare_pid", "chroot", "landlock_abi",
     "seccomp", "controllers", "memory.max", "cgroup.procs", "artifacts", "spawn",
     "release", "read_config", "kernel", "exec", "vsock_port", "start_enter",
     "workspace_mount", "cache_mount", "hang"}
=============================================================================
