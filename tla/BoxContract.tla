---------------------------- MODULE BoxContract ----------------------------
(***************************************************************************)
(* What the daemon promises a single user of a BOX (docs/mental-model.md): *)
(* the runtime is ephemeral, the workspace durable.  A BOX is reported as  *)
(* not running only once its microVM is gone, and its data is discarded    *)
(* only by a removal, after the microVM is gone.                           *)
(***************************************************************************)
CONSTANT Boxes

VARIABLES
    status,   \* what the daemon reports, "Absent" for no such BOX
    runtime,  \* TRUE while a microVM of the BOX is alive
    data      \* TRUE while the workspace disk exists

cvars == <<status, runtime, data>>

Startable == {"Created", "Stopped", "Failed", "Removing"}

ContractInit ==
    /\ status = [b \in Boxes |-> "Absent"]
    /\ runtime = [b \in Boxes |-> FALSE]
    /\ data = [b \in Boxes |-> FALSE]

Report(b, s) == status' = [status EXCEPT ![b] = s] /\ UNCHANGED <<runtime, data>>

\* The workspace exists before the BOX is listed, and again before a boot.
Provision(b) ==
    /\ status[b] \in Startable \cup {"Absent"}
    /\ ~data[b] /\ ~runtime[b]
    /\ data' = [data EXCEPT ![b] = TRUE]
    /\ UNCHANGED <<status, runtime>>

Register(b) == status[b] = "Absent" /\ data[b] /\ Report(b, "Created")

PowerOn(b) ==
    /\ status[b] \in Startable
    /\ data[b] /\ ~runtime[b]
    /\ runtime' = [runtime EXCEPT ![b] = TRUE]
    /\ UNCHANGED <<status, data>>

PowerOff(b) ==
    /\ runtime[b]
    /\ runtime' = [runtime EXCEPT ![b] = FALSE]
    /\ UNCHANGED <<status, data>>

ReportRunning(b) == status[b] \in Startable /\ data[b] /\ Report(b, "Running")
ReportStopped(b) == status[b] = "Running" /\ ~runtime[b] /\ Report(b, "Stopped")
ReportFailed(b) == status[b] # "Absent" /\ ~runtime[b] /\ Report(b, "Failed")
ReportRemoving(b) == status[b] \in Startable /\ ~runtime[b] /\ Report(b, "Removing")

Discard(b) ==
    /\ status[b] = "Removing" /\ ~runtime[b]
    /\ data' = [data EXCEPT ![b] = FALSE]
    /\ UNCHANGED <<status, runtime>>

Unregister(b) == status[b] = "Removing" /\ ~data[b] /\ Report(b, "Absent")

\* The daemon quits: no BOX is left running.
Quit ==
    /\ \A b \in Boxes : status[b] # "Running"
    /\ runtime' = [b \in Boxes |-> FALSE]
    /\ UNCHANGED <<status, data>>

ContractNext ==
    \/ \E b \in Boxes :
          \/ Provision(b) \/ Register(b) \/ PowerOn(b) \/ PowerOff(b)
          \/ ReportRunning(b) \/ ReportStopped(b) \/ ReportFailed(b) \/ ReportRemoving(b)
          \/ Discard(b) \/ Unregister(b)
    \/ Quit

ContractSpec == ContractInit /\ [][ContractNext]_cvars

\* The contract itself keeps the promise: a listed BOX that is not being
\* removed has its data.
DataIsDurable ==
    \A b \in Boxes : status[b] \in {"Created", "Running", "Stopped"} => data[b]
=============================================================================
