------------------------------ MODULE Embedded ------------------------------
(***************************************************************************)
(* The daemon inside another program (src/embedding.rs): start spawns a    *)
(* thread and waits ten seconds for it to be ready; the thread boots,      *)
(* binds, writes the user config, reports, and serves until its stop       *)
(* channel fires or a client shuts the server down; close stops and joins. *)
(* The starts share the endpoint and the user config's path.               *)
(***************************************************************************)

CONSTANTS Starts, NoStart

VARIABLES
    thread,    \* of every start: the step of run_embedded_daemon
    caller,    \* of every start: what start and close did so far
    ready,     \* the starts whose thread reported
    stop,      \* the starts whose stop sender was used or dropped
    server,    \* the starts whose server listens
    config,    \* the start whose daemon the user config names
    before     \* of every start: the starts that had returned when it was called

EmbeddedInit ==
    /\ thread = [s \in Starts |-> "none"]
    /\ caller = [s \in Starts |-> "none"]
    /\ ready = {} /\ stop = {} /\ server = {}
    /\ config = NoStart
    /\ before = [s \in Starts |-> {}]

Moves(s, step) == thread' = [thread EXCEPT ![s] = step]
Calls(s, outcome) == caller' = [caller EXCEPT ![s] = outcome]

(* start: the thread is spawned ... *)
Start(s) ==
    /\ caller[s] = "none"
    /\ Calls(s, "waiting") /\ Moves(s, "boot")
    /\ before' = [before EXCEPT ![s] = {t \in Starts : caller[t] \notin {"none", "waiting"}}]
    /\ UNCHANGED <<ready, stop, server, config>>

(* ... and reports: the handle is the caller's *)
StartReturns(s) ==
    /\ caller[s] = "waiting" /\ s \in ready
    /\ Calls(s, "held")
    /\ UNCHANGED <<thread, ready, stop, server, config, before>>

(* The thread ended without a report: it is joined, and start fails *)
StartFails(s) ==
    /\ caller[s] = "waiting" /\ s \notin ready /\ thread[s] = "ended"
    /\ Calls(s, "failed") /\ stop' = stop \cup {s}
    /\ UNCHANGED <<thread, ready, server, config, before>>

(* Ten seconds passed: start fails, and drops the thread's handle and stop sender *)
StartTimesOut(s) ==
    /\ caller[s] = "waiting" /\ s \notin ready /\ thread[s] # "ended"
    /\ Calls(s, "timed_out") /\ stop' = stop \cup {s}
    /\ UNCHANGED <<thread, ready, server, config, before>>

(* close, or the handle dropped: stop, then join *)
Close(s) ==
    /\ caller[s] = "held"
    /\ Calls(s, "closing") /\ stop' = stop \cup {s}
    /\ UNCHANGED <<thread, ready, server, config, before>>

(* Mutant: the thread is left to end by itself. *)
CloseDetaches(s) ==
    /\ caller[s] = "closing"
    /\ Calls(s, "closed")
    /\ UNCHANGED <<thread, ready, stop, server, config, before>>

CloseReturns(s) ==
    /\ caller[s] = "closing" /\ thread[s] = "ended"
    /\ Calls(s, "closed")
    /\ UNCHANGED <<thread, ready, stop, server, config, before>>

(* Preflight, service, stores, bind: every error ends the thread, and an *)
(* endpoint somebody listens on cannot be bound                          *)
BootAndBind(s) ==
    /\ thread[s] = "boot"
    /\ \/ server = {} /\ server' = {s} /\ Moves(s, "config")
       \/ Moves(s, "ended") /\ UNCHANGED server
    /\ UNCHANGED <<caller, ready, stop, config, before>>

(* write_user_config, whose error shuts the server down *)
WriteUserConfig(s) ==
    /\ thread[s] = "config"
    /\ \/ config' = s /\ Moves(s, "report")
       \/ Moves(s, "unwind") /\ UNCHANGED config
    /\ UNCHANGED <<caller, ready, stop, server, before>>

Report(s) ==
    /\ thread[s] = "report"
    /\ ready' = ready \cup {s}
    /\ Moves(s, "serve")
    /\ UNCHANGED <<caller, stop, server, config, before>>

(* The select: the stop channel, or a server some client shut down, which may *)
(* happen at any moment                                                       *)
Select(s) ==
    /\ thread[s] = "serve"
    /\ Moves(s, "unwind")
    /\ UNCHANGED <<caller, ready, stop, server, config, before>>

(* The server's task ends, its listener closes, the runtime is dropped *)
ThreadEnds(s) ==
    /\ thread[s] = "unwind"
    /\ server' = server \ {s} /\ Moves(s, "ended")
    /\ UNCHANGED <<caller, ready, stop, config, before>>

EmbeddedNext ==
    \E s \in Starts :
        \/ Start(s) \/ StartReturns(s) \/ StartFails(s) \/ StartTimesOut(s)
        \/ Close(s) \/ CloseReturns(s)
        \/ BootAndBind(s) \/ WriteUserConfig(s) \/ Report(s) \/ Select(s) \/ ThreadEnds(s)
-----------------------------------------------------------------------------
(* Properties *)

(* A start that failed and a close that returned leave nothing behind: no     *)
(* thread and no server that would refuse the next start its endpoint.  Of a  *)
(* start that timed out both may stay for a while, but a server nobody holds  *)
(* was told to stop (start, close).                                           *)
NoThreadLeft ==
    \A s \in Starts :
        /\ caller[s] \in {"failed", "closed"} => thread[s] = "ended" /\ s \notin server
        /\ s \in server => caller[s] \in {"waiting", "held"} \/ s \in stop

(* While a handle is held the user config exists and names a daemon no older   *)
(* than its own, unless an earlier start that timed out wrote late: its thread *)
(* writes the config whenever it gets there (run_embedded_daemon).             *)
HeldIsConfigured ==
    \A s \in Starts : caller[s] = "held" =>
        /\ config # NoStart
        /\ config \in before[s] => caller[config] = "timed_out"

(* Starts and closes of embedded daemons leave no daemon and no config that  *)
(* the next one would trip over.                                             *)
StartsAreClean == NoThreadLeft /\ HeldIsConfigured
=============================================================================
