------------------------------ MODULE Seccomp -------------------------------
(* The two system call filters: the one a secure runner ends its bootstrap     *)
(* with (secure_runner/policies.rs) and the one the guest agent gives to the   *)
(* programs of a BOX without network (guest_agent/linux_seccomp.rs), as the    *)
(* programs of relative jumps they are, and the machine that runs them.        *)
LOCAL INSTANCE Naturals
LOCAL INSTANCE Sequences

(* A call as the kernel shows it to a filter; numbers are names here *)
Call == [arch : {"native", "foreign"},
         nr : {"socket", "socketpair", "mount", "umount2", "unshare", "setns", "execve",
               "execveat", "ptrace", "bpf", "userfaultfd", "open_by_handle_at", "reboot",
               "read", "ioctl", "chroot"},
         arg0 : {"unix", "netlink", "inet"}]

(* bpf_stmt and bpf_jump *)
ld(field) == <<"ld", field>>
ret(verdict) == <<"ret", verdict>>
jeq(value, jt, jf) == <<"jeq", value, jt, jf>>

(* The kernel's filter machine: a jump skips that many instructions *)
Verdict(filter, call) ==
    LET go[pc \in 1 .. Len(filter) + 8, reg \in {"arch", "nr", "arg0"}] ==
            IF pc > Len(filter) THEN "invalid"
            ELSE LET i == filter[pc]
                 IN  CASE i[1] = "ld"  -> go[pc + 1, i[2]]
                       [] i[1] = "ret" -> i[2]
                       [] i[1] = "jeq" ->
                            go[pc + 1 + (IF call[reg] = i[2] THEN i[3] ELSE i[4]), reg]
    IN  go[1, "arch"]

----------------------------------------------------------------------------
(* The runner's filter *)

BLOCKED_SYSCALLS ==
    <<"mount", "umount2", "unshare", "setns", "execve", "execveat", "ptrace", "bpf",
      "perf_event_open", "kexec_load", "kexec_file_load", "reboot", "swapon", "swapoff",
      "init_module", "finit_module", "delete_module", "open_by_handle_at",
      "userfaultfd">>

(* Mutant: a jump one instruction short. *)
socket_filter_off_by_one ==
    <<jeq("socket", 0, 3), ld("arg0"), jeq("unix", 1, 0), ret("eperm"), ret("allow")>>

(* A socket call is decided by its family; any other goes on to the list *)
socket_family_filter ==
    <<jeq("socket", 0, 4), ld("arg0"), jeq("unix", 1, 0), ret("eperm"), ret("allow")>>

build_seccomp_filter ==
    LET blocked == [n \in 1 .. 2 * Len(BLOCKED_SYSCALLS) |->
                        IF n % 2 = 1 THEN jeq(BLOCKED_SYSCALLS[(n + 1) \div 2], 0, 1)
                                     ELSE ret("eperm")]
    IN  <<ld("arch"), jeq("native", 1, 0), ret("kill"), ld("nr")>>
            \o socket_family_filter \o blocked \o <<ret("allow")>>

(* The guest's filter for a BOX without network *)
build_no_network_seccomp_filter ==
    <<ld("arch"), jeq("native", 1, 0), ret("kill"), ld("nr"),
      jeq("socket", 0, 5), ld("arg0"), jeq("unix", 2, 0), jeq("netlink", 1, 0),
      ret("eperm"), ret("allow"), ret("allow")>>

----------------------------------------------------------------------------
(* What the two are to say of a call *)

RunnerVerdict(call) ==
    IF call.arch # "native" THEN "kill"
    ELSE IF \/ call.nr \in {BLOCKED_SYSCALLS[n] : n \in 1 .. Len(BLOCKED_SYSCALLS)}
            \/ call.nr = "socket" /\ call.arg0 # "unix"
         THEN "eperm" ELSE "allow"

NoNetworkVerdict(call) ==
    IF call.arch # "native" THEN "kill"
    ELSE IF call.nr = "socket" /\ call.arg0 \notin {"unix", "netlink"}
         THEN "eperm" ELSE "allow"
=============================================================================
