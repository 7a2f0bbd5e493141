------------------------------- MODULE BoxApi -------------------------------
(***************************************************************************)
(* The path of calls, execs and shells from a client of the daemon to a    *)
(* BOX and back: the websocket client (src/box_api/client), the server's   *)
(* connection loop, its dispatcher and its forwarding tasks                *)
(* (src/box_api/server), the exec gate of the sandbox, and the guest RPC   *)
(* client (module GuestRpc). Request ids of the websocket and of the guest *)
(* connection are one id here, and so are exec and shell ids.              *)
(***************************************************************************)
EXTENDS GuestRpc

CONSTANTS
  Conns,    \* connections of clients
  Owner,    \* Owner[i]: the connection that uses the id i
  Scenarios, \* sets of ids, one of which the clients use in a behaviour
  WsCap,    \* bound: messages a websocket buffers towards its client
  None

ASSUME OwnerAssumption == Owner \in [Plains \cup Streams -> Conns]

VARIABLES
  sock,     \* sock[c]: open, closed by the client, or reset
  up, down, \* messages towards the server and towards the client
  srv,      \* srv[c]: what the connection's loop does, and for which request
  shells,   \* shells[c]: the connection's map of shells
  fwd,      \* fwd[p]: the task that forwards p: none, run, last or end
  gate,     \* the exec that holds the sandbox's permit
  user,     \* user[q]: how far the client's caller of q is
  pending, cstreams, buffered, \* the client's maps
  cchan, ctodo, creader,       \* its channels and its reader task
  moving,   \* moving[s]: buffered events the caller is putting into its channel
  used,     \* the ids of this behaviour
  got       \* got[p]: the events the caller has taken

apiVars == <<sock, up, down, srv, shells, fwd, gate>>
clientVars == <<user, pending, cstreams, buffered, cchan, ctodo, creader, moving, used, got>>
vars == <<rpcVars, apiVars, clientVars>>

Of(q) == Owner[q.id]
Reading == [pc |-> "read", q |-> None]

Init ==
  /\ RpcInit
  /\ used \in Scenarios
  /\ sock = [c \in Conns |-> "open"]
  /\ up = [c \in Conns |-> <<>>] /\ down = [c \in Conns |-> <<>>]
  /\ srv = [c \in Conns |-> Reading]
  /\ shells = [c \in Conns |-> {}]
  /\ fwd = [p \in Streams |-> "none"]
  /\ gate = None
  /\ user = [q \in Requests |-> "idle"]
  /\ pending = {} /\ cstreams = {}
  /\ buffered = [s \in Shells |-> <<>>] /\ moving = [s \in Shells |-> <<>>]
  /\ cchan = [p \in Streams |-> <<>>] /\ got = [p \in Streams |-> <<>>]
  /\ ctodo = [c \in Conns |-> <<>>]
  /\ creader = [c \in Conns |-> "run"]

\* the server's view of a socket, and the client's: the last owner of the
\* server's half may be a forwarding task
Past(c) == srv[c].pc \in {"drain", "close", "end", "lost"}
Gone(c) == sock[c] = "reset" \/ (sock[c] = "closed" /\ Past(c))
Eof(c) ==
  \/ sock[c] # "open"
  \/ srv[c].pc \in {"end", "lost"} /\ \A p \in Streams : Owner[p] = c => fwd[p] \notin {"run", "last"}
\* a message is sent: it waits for room, and a client that left ignores it
Sends(c, m) ==
  IF sock[c] = "open" THEN Len(down[c]) < WsCap /\ down' = [down EXCEPT ![c] = Append(@, m)]
  ELSE UNCHANGED down

Response(q) == [t |-> "response", q |-> q]
Error(q) == [t |-> "error", q |-> q]
Forwarded(p, ev) == [t |-> "stream", p |-> p, ev |-> ev]
-----------------------------------------------------------------------------
(* The server: the connection's loop *)

At(c, pc) == srv[c].pc = pc
Goto(c, pc, q) == srv' = [srv EXCEPT ![c] = [pc |-> pc, q |-> q]]

\* dispatch_request up to the call of the guest: the exec gate, and the map of
\* shells, may answer without one
Dispatch(c) ==
  /\ At(c, "read") /\ sock[c] # "reset" /\ up[c] # <<>>
  /\ up' = [up EXCEPT ![c] = Tail(@)]
  /\ LET q == Head(up[c]) IN
       \/ /\ q.op \in {"plain", "open"}
          /\ Goto(c, "call", q) /\ UNCHANGED <<gate, shells>>
       \/ /\ q.op = "exec" /\ UNCHANGED shells
          /\ IF gate = None
             THEN gate' = q.id /\ Goto(c, "call", q)
             ELSE UNCHANGED gate /\ Goto(c, "refuse", q)
       \/ /\ q.op = "input" /\ UNCHANGED <<gate, shells>>
          /\ Goto(c, IF q.id \in shells[c] THEN "call" ELSE "refuse", q)
       \/ /\ q.op = "close" /\ UNCHANGED gate
          /\ shells' = [shells EXCEPT ![c] = @ \ {q.id}]
          /\ Goto(c, IF q.id \in shells[c] THEN "call" ELSE "answer", q)
  /\ UNCHANGED <<rpcVars, clientVars, sock, down, fwd>>

\* the steps of the guest call the loop waits for
Calls(c) ==
  /\ srv[c].pc \in {"call", "close"}
  /\ ListStream(srv[c].q) \/ Register(srv[c].q) \/ Send(srv[c].q)
  /\ UNCHANGED <<apiVars, clientVars>>

\* the call has returned: a stream gets its forwarding task, an exec that
\* failed gives the permit back
Called(c) ==
  /\ At(c, "call") /\ call[srv[c].q] \in {"ok", "error"}
  /\ LET q == srv[c].q
         ok == call[q] = "ok" IN
       /\ shells' = [shells EXCEPT ![c] = IF q.op = "open" /\ ok THEN @ \cup {q.id} ELSE @]
       /\ fwd' = IF q.op \in {"exec", "open"} /\ ok THEN [fwd EXCEPT ![q.id] = "run"] ELSE fwd
       /\ gate' = IF q.op = "exec" /\ ~ok THEN None ELSE gate
       /\ IF q.op = "exec" /\ ok THEN srv' = [srv EXCEPT ![c] = Reading]
          ELSE Goto(c, IF ok THEN "answer" ELSE "refuse", q)
  /\ UNCHANGED <<rpcVars, clientVars, sock, up, down>>

\* send_response, or the error event; a socket that is gone ends the loop by ?,
\* past the code that closes the shells
Reply(c) ==
  /\ srv[c].pc \in {"answer", "refuse"}
  /\ \/ /\ ~Gone(c)
        /\ Sends(c, IF At(c, "answer") THEN Response(srv[c].q) ELSE Error(srv[c].q))
        /\ srv' = [srv EXCEPT ![c] = Reading]
     \/ Gone(c) /\ Goto(c, "lost", None) /\ UNCHANGED down
  /\ UNCHANGED <<rpcVars, clientVars, sock, up, shells, fwd, gate>>

\* Mutant: a Close frame is treated like a connection that broke.
EndsWithoutDrain(c) ==
  /\ At(c, "read")
  /\ \/ sock[c] = "closed" /\ up[c] = <<>> /\ Goto(c, "end", None)
     \/ sock[c] = "reset" /\ Goto(c, "lost", None)
  /\ UNCHANGED <<rpcVars, clientVars, sock, up, down, shells, fwd, gate>>

\* a Close frame leads to the drain, a read error returns at once
Ends(c) ==
  /\ At(c, "read")
  /\ \/ sock[c] = "closed" /\ up[c] = <<>> /\ Goto(c, "drain", None)
     \/ sock[c] = "reset" /\ Goto(c, "lost", None)
  /\ UNCHANGED <<rpcVars, clientVars, sock, up, down, shells, fwd, gate>>

\* the daemon's shutdown signal, seen between two requests
Stops(c) ==
  /\ At(c, "read") /\ sock[c] = "open"
  /\ Goto(c, "drain", None)
  /\ UNCHANGED <<rpcVars, clientVars, sock, up, down, shells, fwd, gate>>

\* shells.lock().await.drain(): one close after another, results ignored
Drain(c) ==
  /\ At(c, "drain")
  /\ \/ \E s \in shells[c] :
          /\ shells' = [shells EXCEPT ![c] = @ \ {s}]
          /\ Goto(c, "close", [op |-> "close", id |-> s])
     \/ shells[c] = {} /\ Goto(c, "end", None) /\ UNCHANGED shells
  /\ UNCHANGED <<rpcVars, clientVars, sock, up, down, fwd, gate>>

Drained(c) ==
  /\ At(c, "close") /\ call[srv[c].q] \in {"ok", "error"}
  /\ Goto(c, "drain", None)
  /\ UNCHANGED <<rpcVars, clientVars, sock, up, down, shells, fwd, gate>>

\* a shell's task at the exit: the entry goes first, and the drain of an ended
\* connection holds the lock of the map to its end
Unlists(s) ==
  /\ fwd[s] = "run" /\ chan[s] # <<>> /\ Terminal(Head(chan[s]))
  /\ srv[Owner[s]].pc \notin {"drain", "close"}
  /\ shells' = [shells EXCEPT ![Owner[s]] = @ \ {s}]
  /\ fwd' = [fwd EXCEPT ![s] = "last"]
  /\ UNCHANGED <<rpcVars, clientVars, sock, up, down, srv, gate>>

\* Mutant: output that finds the websocket's buffer full is dropped.
ForwardDropsOutput(p) ==
  LET c == Owner[p]
      ev == Head(chan[p]) IN
  /\ fwd[p] = "last" \/ (fwd[p] = "run" /\ chan[p] # <<>> /\ ~(Terminal(ev) /\ p \in Shells))
  /\ chan' = [chan EXCEPT ![p] = Tail(@)]
  /\ IF Gone(c) \/ (Len(down[c]) >= WsCap /\ ~Terminal(ev)) THEN UNCHANGED down ELSE Sends(c, Forwarded(p, ev))
  /\ IF Terminal(ev) \/ Gone(c)
     THEN /\ fwd' = [fwd EXCEPT ![p] = "end"]
          /\ held' = held \ {p}
          /\ gate' = IF gate = p THEN None ELSE gate
     ELSE UNCHANGED <<fwd, held, gate>>
  /\ UNCHANGED <<call, responses, streams, todo, reader, link, toGuest, fromGuest, guest,
                 opening, written, clientVars, sock, up, srv, shells>>

\* spawn_exec_stream behind wrap_exec_stream, and the task of a shell: until the
\* exit, or until the client is gone; the end of an exec's task frees the permit
Forward(p) ==
  LET c == Owner[p]
      ev == Head(chan[p]) IN
  /\ fwd[p] = "last" \/ (fwd[p] = "run" /\ chan[p] # <<>> /\ ~(Terminal(ev) /\ p \in Shells))
  /\ chan' = [chan EXCEPT ![p] = Tail(@)]
  /\ IF Gone(c) THEN UNCHANGED down ELSE Sends(c, Forwarded(p, ev))
  /\ IF Terminal(ev) \/ Gone(c)
     THEN /\ fwd' = [fwd EXCEPT ![p] = "end"]
          /\ held' = held \ {p}
          /\ gate' = IF gate = p THEN None ELSE gate
     ELSE UNCHANGED <<fwd, held, gate>>
  /\ UNCHANGED <<call, responses, streams, todo, reader, link, toGuest, fromGuest, guest,
                 opening, written, clientVars, sock, up, srv, shells>>
-----------------------------------------------------------------------------
(* The client: its callers *)

Registers(q) == q.op \in {"plain", "open"}

\* register_response, or open_exec_channel's entry; input and close of a shell
\* wait for nothing
UserRegisters(q) ==
  /\ user[q] = "idle" /\ q.id \in used
  /\ q.op \in {"input", "close"} => user[Open(q.id)] = "reading" /\ ~Eof(Of(q))
  /\ user' = [user EXCEPT ![q] = "registered"]
  /\ pending' = IF Registers(q) THEN pending \cup {q} ELSE pending
  /\ cstreams' = IF q.op = "exec" THEN cstreams \cup {q.id} ELSE cstreams
  /\ UNCHANGED <<rpcVars, apiVars, buffered, cchan, ctodo, creader, moving, got, used>>

\* send_request: an error is the caller's result
UserSends(q) ==
  /\ user[q] = "registered"
  /\ \/ /\ sock[Of(q)] = "open" /\ ~Eof(Of(q))
        /\ up' = [up EXCEPT ![Of(q)] = Append(@, q)]
        /\ user' = [user EXCEPT ![q] = CASE Registers(q) -> "sent"
                                         [] q.op = "exec" -> "reading"
                                         [] OTHER -> "done"]
        /\ UNCHANGED cstreams
     \/ /\ Eof(Of(q))
        /\ user' = [user EXCEPT ![q] = "failed"]
        /\ cstreams' = IF q.op = "exec" THEN cstreams \ {q.id} ELSE cstreams
        /\ UNCHANGED up
  /\ UNCHANGED <<rpcVars, sock, down, srv, shells, fwd, gate, pending, buffered, cchan,
                 ctodo, creader, moving, got, used>>

\* Mutant: events that came before the registration are dropped.
RegisterShellDrops(s) ==
  /\ user[Open(s)] = "opened"
  /\ user' = [user EXCEPT ![Open(s)] = "moving"]
  /\ cstreams' = cstreams \cup {s}
  /\ buffered' = [buffered EXCEPT ![s] = <<>>]
  /\ UNCHANGED <<rpcVars, apiVars, pending, cchan, ctodo, creader, moving, got, used>>

\* register_shell_channel: lists the channel and takes the buffered events ...
RegisterShell(s) ==
  /\ user[Open(s)] = "opened"
  /\ user' = [user EXCEPT ![Open(s)] = "moving"]
  /\ cstreams' = cstreams \cup {s}
  /\ moving' = [moving EXCEPT ![s] = buffered[s]]
  /\ buffered' = [buffered EXCEPT ![s] = <<>>]
  /\ UNCHANGED <<rpcVars, apiVars, pending, cchan, ctodo, creader, got, used>>

\* ... and, the lock released, sends them into the channel before it returns
MoveBuffered(s) ==
  /\ user[Open(s)] = "moving"
  /\ \/ /\ moving[s] # <<>> /\ Len(cchan[s]) < Cap[s]
        /\ cchan' = [cchan EXCEPT ![s] = Append(@, Head(moving[s]))]
        /\ moving' = [moving EXCEPT ![s] = Tail(@)]
        /\ UNCHANGED user
     \/ /\ moving[s] = <<>>
        /\ user' = [user EXCEPT ![Open(s)] = "reading"]
        /\ UNCHANGED <<cchan, moving>>
  /\ UNCHANGED <<rpcVars, apiVars, pending, cstreams, buffered, ctodo, creader, got, used>>

\* collect_exec and next_event: until the exit or an error
UserTakes(p) ==
  LET q == IF p \in Execs THEN Exec(p) ELSE Open(p) IN
  /\ user[q] = "reading" /\ cchan[p] # <<>>
  /\ got' = [got EXCEPT ![p] = Append(@, Head(cchan[p]))]
  /\ cchan' = [cchan EXCEPT ![p] = Tail(@)]
  /\ user' = [user EXCEPT ![q] = IF Terminal(Head(cchan[p])) \/ Head(cchan[p]) = Ev("error")
                                 THEN "done" ELSE @]
  /\ UNCHANGED <<rpcVars, apiVars, pending, cstreams, buffered, ctodo, creader, moving, used>>
-----------------------------------------------------------------------------
(* The client: its reader task, dispatch_event and fail_all *)

CMessage(c) == Head(down[c])
CReads(c) ==
  /\ creader[c] = "run" /\ ctodo[c] = <<>> /\ down[c] # <<>>
  /\ down' = [down EXCEPT ![c] = Tail(@)]
CTodo(c, evs) == ctodo' = [ctodo EXCEPT ![c] = evs]

CReadResponse(c) ==
  /\ CReads(c) /\ CMessage(c).t = "response"
  /\ LET q == CMessage(c).q IN
       /\ user' = IF q \in pending
                  THEN [user EXCEPT ![q] = IF q.op = "open" THEN "opened" ELSE "done"]
                  ELSE user
       /\ pending' = pending \ {q}
  /\ UNCHANGED <<rpcVars, sock, up, srv, shells, fwd, gate, cstreams, buffered, cchan, ctodo,
                 creader, moving, got, used>>

\* an error answers a waiter, or else ends the exec with that request id
CReadError(c) ==
  /\ CReads(c) /\ CMessage(c).t = "error"
  /\ LET q == CMessage(c).q IN
       /\ user' = IF q \in pending THEN [user EXCEPT ![q] = "failed"] ELSE user
       /\ pending' = pending \ {q}
       /\ CTodo(c, IF q.op = "exec" /\ q.id \in cstreams THEN << <<q.id, Ev("error")>> >> ELSE <<>>)
       /\ cstreams' = IF q.op = "exec" THEN cstreams \ {q.id} ELSE cstreams
  /\ UNCHANGED <<rpcVars, sock, up, srv, shells, fwd, gate, buffered, cchan, creader, moving,
                 got, used>>

\* an event of a stream that is listed; a shell that is not listed yet buffers it
CReadStream(c) ==
  /\ CReads(c) /\ CMessage(c).t = "stream"
  /\ LET p == CMessage(c).p
         ev == CMessage(c).ev IN
       /\ CTodo(c, IF p \in cstreams THEN << <<p, ev>> >> ELSE <<>>)
       /\ cstreams' = IF Terminal(ev) THEN cstreams \ {p} ELSE cstreams
       /\ buffered' = IF p \in Shells \ cstreams
                      THEN [buffered EXCEPT ![p] = Append(@, ev)] ELSE buffered
  /\ UNCHANGED <<rpcVars, sock, up, srv, shells, fwd, gate, user, pending, cchan, creader,
                 moving, got, used>>

\* the receiver of a caller that has returned is dropped
CHeld(p) == user[IF p \in Execs THEN Exec(p) ELSE Open(p)] \notin {"done", "failed"}

CDeliver(c) ==
  /\ ctodo[c] # <<>>
  /\ LET p == Head(ctodo[c])[1] IN
       IF CHeld(p)
       THEN Len(cchan[p]) < Cap[p] /\ cchan' = [cchan EXCEPT ![p] = Append(@, Head(ctodo[c])[2])]
       ELSE UNCHANGED cchan
  /\ CTodo(c, Tail(ctodo[c]))
  /\ UNCHANGED <<rpcVars, apiVars, user, pending, cstreams, buffered, creader, moving, got, used>>

\* fail_all: every waiter, then every exec and every shell, and the buffer
CFailAll(c) ==
  LET mine == {p \in cstreams : Owner[p] = c}
      lost == {q \in pending : Of(q) = c} IN
  /\ creader[c] = "run" /\ Eof(c) /\ down[c] = <<>> /\ ctodo[c] = <<>>
  /\ creader' = [creader EXCEPT ![c] = "dead"]
  /\ user' = [q \in Requests |-> IF q \in lost THEN "failed" ELSE user[q]]
  /\ pending' = pending \ lost
  /\ cstreams' = cstreams \ mine
  /\ buffered' = [s \in Shells |-> IF Owner[s] = c THEN <<>> ELSE buffered[s]]
  /\ \E es \in SetToSeqs(mine \cap Execs), ss \in SetToSeqs(mine \cap Shells) :
       CTodo(c, [i \in 1 .. Len(es \o ss) |-> <<(es \o ss)[i], Ev("error")>>])
  /\ UNCHANGED <<rpcVars, apiVars, cchan, moving, got, used>>

\* the client closes the websocket, or its process or the network ends
Disconnect(c) ==
  /\ ~Eof(c)
  /\ \E how \in {"closed", "reset"} : sock' = [sock EXCEPT ![c] = how]
  /\ UNCHANGED <<rpcVars, clientVars, up, down, srv, shells, fwd, gate>>
-----------------------------------------------------------------------------
Server(c) ==
  Dispatch(c) \/ Calls(c) \/ Called(c) \/ Reply(c) \/ Ends(c) \/ Drain(c) \/ Drained(c)
ClientReader(c) ==
  CReadResponse(c) \/ CReadError(c) \/ CReadStream(c) \/ CDeliver(c) \/ CFailAll(c)
Caller ==
  \/ \E q \in Requests : UserSends(q)
  \/ \E s \in Shells : RegisterShell(s) \/ MoveBuffered(s)
  \/ \E p \in Streams : UserTakes(p)
RpcReader == Reader /\ UNCHANGED <<apiVars, clientVars>>
Guest == GuestSteps /\ UNCHANGED <<apiVars, clientVars>>

Next ==
  \/ RpcReader \/ Guest \/ Caller
  \/ \E c \in Conns : Server(c) \/ Stops(c) \/ ClientReader(c) \/ Disconnect(c)
  \/ \E p \in Streams : Forward(p)
  \/ \E s \in Shells : Unlists(s)
  \/ \E q \in Requests : UserRegisters(q)

Spec == Init /\ [][Next]_vars

\* Every task that can go on is polled, callers take what they wait for, the
\* programs of execs end. Nothing is assumed of disconnects, of the daemon's
\* shutdown, of the VM or of the programs in shells.
Fairness ==
  /\ WF_vars(RpcReader)
  /\ WF_vars(GuestLoop /\ UNCHANGED <<apiVars, clientVars>>)
  /\ \A p \in Streams : WF_vars(GuestExit(p) /\ UNCHANGED <<apiVars, clientVars>>)
  /\ \A c \in Conns : WF_vars(Server(c)) /\ WF_vars(ClientReader(c))
  /\ \A p \in Streams : WF_vars(Forward(p)) /\ WF_vars(UserTakes(p))
  /\ \A q \in Requests : WF_vars(UserSends(q))
  /\ \A s \in Shells : WF_vars(RegisterShell(s) \/ MoveBuffered(s)) /\ WF_vars(Unlists(s))

FairSpec == Spec /\ Fairness
-----------------------------------------------------------------------------
(* Properties *)

HasEnd(evs) == \E i \in DOMAIN evs : Terminal(evs[i]) \/ evs[i] = Ev("error")

\* After the connection to a BOX is lost and fail_all is through, nobody waits for
\* an answer that cannot come, and every stream somebody still reads has its end
\* in its channel: calls that register while the connection goes down fail by
\* their own write. The same of the client: once its reader has failed everything,
\* no caller waits for a response, and an exec that is being collected has an end
\* in its channel.
NobodyWaitsForTheDead ==
  /\ reader = "dead" =>
       /\ \A q \in Requests : call[q] # "sent"
       /\ todo = <<>> => \A p \in held : fwd[p] \in {"run", "last"} => HasEnd(chan[p])
  /\ \A c \in Conns : creader[c] = "dead" =>
       /\ \A q \in Requests : Of(q) = c => user[q] # "sent"
       /\ ctodo[c] = <<>> => \A e \in Execs :
            Owner[e] = c /\ user[Exec(e)] = "reading" => HasEnd(cchan[e])

\* What the caller of an exec takes is the output of the process in the order it
\* was written, and an exit is reported only after all of it: three channels,
\* two sockets and two readers keep the order and drop nothing.
ExecIsFaithful ==
  \A e \in Execs :
    LET outs == SelectSeq(got[e], LAMBDA ev : ev[1] = "out") IN
      /\ outs = [i \in 1 .. Len(outs) |-> Out(i)]
      /\ \A i \in DOMAIN got[e] : got[e][i] = Ev("exit") =>
           i = Len(got[e]) /\ Len(outs) = written[e]

\* The permit of the exec gate is with an exec that is being started or forwarded:
\* no path of failure, not even a client that is gone, keeps a BOX from running
\* execs.
PermitIsReturned ==
  gate # None =>
    \/ fwd[gate] = "run"
    \/ fwd[gate] = "none" /\ \E c \in Conns : srv[c] = [pc |-> "call", q |-> Exec(gate)]

\* A connection that ended in order has left no shell of its own running in the
\* BOX.
ShellsAreClosed ==
  \A c \in Conns : At(c, "end") =>
    \A s \in Shells : Owner[s] = c => guest[s] # "running"

\* What a connection takes of a BOX, the permit and its shells, it gives back.
ConnectionsGiveBack == PermitIsReturned /\ ShellsAreClosed

\* A call that was sent is answered or fails, and an exec comes to an end for its
\* caller, whatever becomes of the client's connection, of the BOX or of the spawn.
CallsReturn ==
  /\ \A q \in Requests : (user[q] = "sent") ~> (user[q] # "sent")
  /\ \A e \in Execs : (user[Exec(e)] = "reading") ~> (user[Exec(e)] = "done")

\* The exit of a shell reaches a caller that has opened it, also when it came
\* before the answer to the open, as long as the connection lasts.
ShellExitArrives ==
  \A s \in Shells :
    (guest[s] = "done" /\ user[Open(s)] \in {"opened", "moving", "reading"})
      ~> (user[Open(s)] = "done" \/ sock[Owner[s]] # "open" \/ Past(Owner[s]))
=============================================================================
