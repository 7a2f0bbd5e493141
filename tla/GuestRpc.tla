------------------------------ MODULE GuestRpc ------------------------------
(***************************************************************************)
(* The host's end of the connection to a BOX (src/guest_rpc/client): calls *)
(* that wait for the answer with their request id, the streams of execs    *)
(* and shells, each a bounded channel, and the one reader task that        *)
(* resolves the calls and fills the channels. The agent at the other end   *)
(* is reduced to what it may put on the wire; GuestAgent models it whole.  *)
(***************************************************************************)
EXTENDS Naturals, Sequences, SequencesExt

CONSTANTS
  Plains,     \* calls answered once: files, ping, sync, statistics, shutdown
  Execs, Shells,
  Cap,        \* Cap[p]: capacity of a channel of the stream p (64 in the code)
  MaxOutput   \* bound: output events per exec or shell

Streams == Execs \cup Shells

ASSUME StreamAssumption == Cap \in [Streams -> Nat \ {0}] /\ MaxOutput \in Nat
ASSUME DistinctIds == Plains \cap (Execs \cup Shells) = {} /\ Execs \cap Shells = {}

Requests == [op : {"plain"}, id : Plains] \cup [op : {"exec"}, id : Execs]
            \cup [op : {"open", "input", "close"}, id : Shells]
\* ping, snapshot, sync, statistics, files and shutdown: they differ in what they
\* carry, and each has one answer
Plain(q) == q.op = "plain"
\* what the driver of a shell sends, a resize being like an input
OfShell(q) == q.op \in {"input", "close"}
Exec(e) == [op |-> "exec", id |-> e]
Open(s) == [op |-> "open", id |-> s]

VARIABLES
  call,      \* call[q]: idle, listed, registered, sent, ok or error
  responses, \* the requests with a waiter in the map of responses
  streams,   \* the ids in exec_streams and shell_streams
  chan,      \* chan[p]: events in the channel of p
  held,      \* the streams whose receiver has not been dropped
  todo,      \* the events the reader still has to put into channels
  reader,    \* run, or dead after fail_all
  link,      \* up, or closed by the other end
  toGuest, fromGuest,
  guest,     \* guest[p]: none, running, unmapped or done
  opening,   \* the shells started and not yet answered by the request loop
  written    \* written[p]: output events p has put on the wire

rpcVars == <<call, responses, streams, chan, held, todo, reader, link, toGuest,
             fromGuest, guest, opening, written>>

RpcInit ==
  /\ call = [q \in Requests |-> "idle"]
  /\ responses = {} /\ streams = {} /\ held = {}
  /\ chan = [p \in Streams |-> <<>>]
  /\ todo = <<>> /\ toGuest = <<>> /\ fromGuest = <<>>
  /\ reader = "run" /\ link = "up"
  /\ guest = [p \in Streams |-> "none"]
  /\ opening = {}
  /\ written = [p \in Streams |-> 0]

\* an event of a stream: a kind, and which output it is
Out(n) == <<"out", n>>
Ev(kind) == <<kind, 0>>
Terminal(ev) == ev[1] \in {"exit", "killed"}
-----------------------------------------------------------------------------
(* Calls *)

\* exec and open_shell list the channel before anything is sent
ListStream(q) ==
  /\ q.op \in {"exec", "open"}
  /\ call[q] = "idle"
  /\ call' = [call EXCEPT ![q] = "listed"]
  /\ streams' = streams \cup {q.id}
  /\ held' = held \cup {q.id}
  /\ UNCHANGED <<responses, chan, todo, reader, link, toGuest, fromGuest, guest, opening, written>>

\* request_response lists the waiter before the request is written
Register(q) ==
  /\ \/ (Plain(q) \/ OfShell(q)) /\ call[q] = "idle"
     \/ q.op = "open" /\ call[q] = "listed"
  /\ call' = [call EXCEPT ![q] = "registered"]
  /\ responses' = responses \cup {q}
  /\ UNCHANGED <<streams, chan, held, todo, reader, link, toGuest, fromGuest, guest, opening, written>>

Ready(q) == call[q] = (IF q.op = "exec" THEN "listed" ELSE "registered")

\* Mutant: a failed write leaves the waiter to the reader.
SendLeavesWaiter(q) ==
  /\ Ready(q)
  /\ IF link = "up"
     THEN toGuest' = Append(toGuest, q) ELSE UNCHANGED toGuest
  /\ call' = [call EXCEPT ![q] = IF q.op = "exec" THEN "ok" ELSE "sent"]
  /\ UNCHANGED <<responses, streams, held, chan, todo, reader, link, fromGuest, guest,
                 opening, written>>

\* send_request; an error takes the waiter and the stream out again
Send(q) ==
  /\ Ready(q)
  /\ IF link = "up"
     THEN /\ toGuest' = Append(toGuest, q)
          /\ call' = [call EXCEPT ![q] = IF q.op = "exec" THEN "ok" ELSE "sent"]
          /\ UNCHANGED <<responses, streams, held>>
     ELSE /\ call' = [call EXCEPT ![q] = "error"]
          /\ responses' = responses \ {q}
          /\ IF q.op \in {"exec", "open"}
             THEN streams' = streams \ {q.id} /\ held' = held \ {q.id}
             ELSE UNCHANGED <<streams, held>>
          /\ UNCHANGED toGuest
  /\ UNCHANGED <<chan, todo, reader, link, fromGuest, guest, opening, written>>

\* The calls in Q end with result r; an open that fails drops its channel
Resolve(Q, r) ==
  /\ call' = [q \in Requests |-> IF q \in Q \cap responses THEN r ELSE call[q]]
  /\ responses' = responses \ Q
  /\ held' = IF r = "ok" THEN held
             ELSE held \ {s \in Shells : Open(s) \in Q \cap responses}
-----------------------------------------------------------------------------
(* The reader: handle_line, and what it sends into the channels *)

Event == Head(fromGuest)
Reads == reader = "run" /\ todo = <<>> /\ fromGuest # <<>> /\ fromGuest' = Tail(fromGuest)

ReadAnswer ==
  /\ Reads /\ Event.t = "answer"
  /\ Resolve({Event.q}, "ok")
  /\ UNCHANGED <<streams, chan, todo, reader, link, toGuest, guest, opening, written>>

\* output, and the exit, of a stream that is still listed
ReadStream ==
  /\ Reads /\ Event.t = "stream"
  /\ todo' = IF Event.p \in streams THEN << <<Event.p, Event.ev>> >> ELSE <<>>
  /\ streams' = IF Terminal(Event.ev) THEN streams \ {Event.p} ELSE streams
  /\ UNCHANGED <<call, responses, held, chan, reader, link, toGuest, guest, opening, written>>

\* route_error resolves the call, and ends the stream the error is about
ReadError ==
  /\ Reads /\ Event.t = "error"
  /\ Resolve({Event.q}, "error")
  /\ todo' = IF Event.q.id \in streams
             THEN << <<Event.q.id, Ev("msg")>>, <<Event.q.id, Ev("killed")>> >> ELSE <<>>
  /\ streams' = streams \ {Event.q.id}
  /\ UNCHANGED <<chan, reader, link, toGuest, guest, opening, written>>

\* sender.send().await: waits for room, fails at once without a receiver
Deliver ==
  /\ todo # <<>>
  /\ LET p == Head(todo)[1] IN
       IF p \in held
       THEN Len(chan[p]) < Cap[p] /\ chan' = [chan EXCEPT ![p] = Append(@, Head(todo)[2])]
       ELSE UNCHANGED chan
  /\ todo' = Tail(todo)
  /\ UNCHANGED <<call, responses, streams, held, reader, link, toGuest, fromGuest, guest,
                 opening, written>>

\* Mutant: the connection's end is reported to the calls, not to the streams.
FailCallsOnly ==
  /\ reader = "run" /\ link = "closed" /\ fromGuest = <<>> /\ todo = <<>>
  /\ reader' = "dead"
  /\ Resolve(Requests, "error")
  /\ streams' = {}
  /\ UNCHANGED <<todo, chan, link, toGuest, fromGuest, guest, opening, written>>

\* fail_all at the end of the connection: every call, then every exec and shell
FailAll ==
  /\ reader = "run" /\ link = "closed" /\ fromGuest = <<>> /\ todo = <<>>
  /\ reader' = "dead"
  /\ Resolve(Requests, "error")
  /\ streams' = {}
  /\ \E es \in SetToSeqs(streams \cap Execs), ss \in SetToSeqs(streams \cap Shells) :
       todo' = FlattenSeq([i \in 1 .. Len(es \o ss) |->
                 << <<(es \o ss)[i], Ev("msg")>>, <<(es \o ss)[i], Ev("killed")>> >>])
  /\ UNCHANGED <<chan, link, toGuest, fromGuest, guest, opening, written>>
-----------------------------------------------------------------------------
(* What the agent may do *)

Answer(q) == [t |-> "answer", q |-> q]
Failure(q) == [t |-> "error", q |-> q]
Emit(ev) == fromGuest' = Append(fromGuest, ev)

\* the request loop: one request at a time, in order; a shell runs, and may
\* even end, before the answer to its open is written
GuestServes ==
  /\ link = "up" /\ toGuest # <<>> /\ opening = {}
  /\ toGuest' = Tail(toGuest)
  /\ LET q == Head(toGuest) IN
       \/ /\ Plain(q) /\ Emit(Answer(q)) /\ UNCHANGED <<guest, opening>>
       \/ /\ q.op \in {"plain", "exec", "open"} /\ Emit(Failure(q))
          /\ UNCHANGED <<guest, opening>>
       \/ /\ q.op \in {"exec", "open"}
          /\ guest' = [guest EXCEPT ![q.id] = "running"]
          /\ opening' = {q.id} \cap Shells
          /\ UNCHANGED fromGuest
       \/ /\ OfShell(q)
          /\ IF guest[q.id] = "running"
             THEN /\ Emit(Answer(q))
                  /\ guest' = [guest EXCEPT ![q.id] = IF q.op = "close" THEN "unmapped" ELSE @]
             ELSE Emit(Failure(q)) /\ UNCHANGED guest
          /\ UNCHANGED opening
  /\ UNCHANGED <<call, responses, streams, chan, held, todo, reader, link, written>>

GuestOpens(s) ==
  /\ link = "up" /\ s \in opening
  /\ opening' = opening \ {s}
  /\ Emit(Answer(Open(s)))
  /\ UNCHANGED <<call, responses, streams, chan, held, todo, reader, link, toGuest, guest,
                 written>>

\* the output of a shell may still be on its way when its exit is reported
GuestOutput(p) ==
  /\ link = "up" /\ written[p] < MaxOutput
  /\ guest[p] \in {"running", "unmapped"} \cup (IF p \in Shells THEN {"done"} ELSE {})
  /\ written' = [written EXCEPT ![p] = @ + 1]
  /\ Emit([t |-> "stream", p |-> p, ev |-> Out(written[p] + 1)])
  /\ UNCHANGED <<call, responses, streams, chan, held, todo, reader, link, toGuest, guest,
                 opening>>

\* a shell leaves the map first, and reports its exit then
GuestUnmaps(s) ==
  /\ link = "up" /\ guest[s] = "running"
  /\ guest' = [guest EXCEPT ![s] = "unmapped"]
  /\ UNCHANGED <<call, responses, streams, chan, held, todo, reader, link, toGuest,
                 fromGuest, opening, written>>

GuestExit(p) ==
  /\ link = "up"
  /\ guest[p] = (IF p \in Execs THEN "running" ELSE "unmapped")
  /\ guest' = [guest EXCEPT ![p] = "done"]
  /\ Emit([t |-> "stream", p |-> p, ev |-> Ev("exit")])
  /\ UNCHANGED <<call, responses, streams, chan, held, todo, reader, link, toGuest, opening,
                 written>>

\* the VM ends, by a stop or by itself
GuestEnds ==
  /\ link = "up"
  /\ link' = "closed"
  /\ toGuest' = <<>> /\ opening' = {}
  /\ guest' = [p \in Streams |-> IF guest[p] = "none" THEN "none" ELSE "done"]
  /\ UNCHANGED <<call, responses, streams, chan, held, todo, reader, fromGuest, written>>

Reader == ReadAnswer \/ ReadStream \/ ReadError \/ Deliver \/ FailAll
GuestLoop == GuestServes \/ \E s \in Shells : GuestOpens(s)
GuestSteps ==
  \/ GuestLoop \/ GuestEnds
  \/ \E p \in Streams : GuestOutput(p) \/ GuestExit(p)
  \/ \E s \in Shells : GuestUnmaps(s)
=============================================================================
