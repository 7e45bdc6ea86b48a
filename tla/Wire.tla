------------------------------- MODULE Wire -------------------------------
(***************************************************************************)
(* The WebSocket connections between the workers and the orchestrator and  *)
(* the messages of internal/proto/messages.go they carry.  Conns are the   *)
(* connections that workers ever open; Owner[c] is the worker ID announced *)
(* on c.  A worker keeps its ID over its whole life (worker.go:56), so all *)
(* the connections of one worker are "namesakes".                          *)
(*                                                                         *)
(* A connection is a FIFO in each direction.  When it breaks, or one end   *)
(* closes it, each end learns of it on its own, at any later time: it may  *)
(* still read what was already delivered, and what it writes is either     *)
(* swallowed by the kernel or refused.                                     *)
(***************************************************************************)
EXTENDS Integers, Sequences, FiniteSets

CONSTANTS Workers,   \* worker IDs
          Conns,     \* connections, each dialled at most once
          Owner,     \* the worker that dials a connection
          Reqs,      \* chat requests, one per HTTP call of a client
          Lines,     \* most SSE lines llama-server emits for a request
          WireCap,   \* messages the kernel buffers in one direction
          None       \* no connection, no registry entry

ASSUME OwnerAssumption == Owner \in [Conns -> Workers]
ASSUME WireAssumption == Lines \in Nat /\ WireCap \in Nat \ {0}
ASSUME NoneAssumption == None \notin Conns

VARIABLES link,      \* none (not dialled), up, down
          toServer,  \* what the orchestrator has still to read
          toWorker,  \* what the worker has still to read
          dropped    \* <<request, type>> of the chat messages thrown away
                     \* because a buffer was full (both sides log it)

wireVars == <<link, toServer, toWorker, dropped>>

ChatReply == [type : {"chunk"}, req : Reqs, line : 1..Lines]
      \union [type : {"done"}, req : Reqs, ok : BOOLEAN]
SessionMsg == ChatReply \union [type : {"heartbeat"}, idle : BOOLEAN]
ToServerMsg == SessionMsg \union [type : {"hello"}, model : BOOLEAN]

ChatOrder == [type : {"request", "cancel"}, req : Reqs]
ToWorkerMsg == ChatOrder \union [type : {"welcome"}]

Chunk(r, n) == [type |-> "chunk", req |-> r, line |-> n]

\* ok is "Error is empty".
Done(r, ok) == [type |-> "done", req |-> r, ok |-> ok]

\* WriteMessage returns: the message is delivered, or lost with the connection.
\* On a connection whose buffer is full it blocks (no step) until its deadline.
CanWrite(wire, c) == link[c] = "up" => Len(wire[c]) < WireCap
Written(wire, c, m) ==
  IF link[c] = "up" THEN [wire EXCEPT ![c] = Append(@, m)] ELSE wire

\* WriteMessage fails: the connection is broken, or the deadline passed.
CanFailWrite(wire, c) == link[c] = "up" => Len(wire[c]) >= WireCap

WireInit == /\ link = [c \in Conns |-> "none"]
            /\ toServer = [c \in Conns |-> <<>>]
            /\ toWorker = [c \in Conns |-> <<>>]
            /\ dropped = {}

\* The network breaks: a cable, a NAT entry, a host put to sleep.
LinkFails(c) == /\ link[c] = "up"
                /\ link' = [link EXCEPT ![c] = "down"]
                /\ UNCHANGED <<toServer, toWorker, dropped>>

\* A family of FIFO buffers of the given capacity.
Buffers(q, K, M, cap) == /\ q \in [K -> Seq(M)]
                         /\ \A k \in K : Len(q[k]) <= cap

WireTypeOK == /\ link \in [Conns -> {"none", "up", "down"}]
              /\ Buffers(toServer, Conns, ToServerMsg, WireCap)
              /\ Buffers(toWorker, Conns, ToWorkerMsg, WireCap)
              /\ dropped \subseteq Reqs \X {"chunk", "done"}
============================================================================
