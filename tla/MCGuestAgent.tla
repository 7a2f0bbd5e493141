--------------------------- MODULE MCGuestAgent ---------------------------
(* GuestAgent for TLC: the processes of Quiet write nothing and leave no    *)
(* descendant, which keeps the graph small enough for liveness.             *)
EXTENDS GuestAgent

CONSTANT Quiet

GuestNext == Next /\ \A p \in Quiet : pipe'[p] = pipe[p]

GuestSpec == Init /\ [][GuestNext]_vars /\ Fairness /\ ShellsEnd
=============================================================================
