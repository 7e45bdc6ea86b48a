--------------------------- MODULE WorkerSession ---------------------------
(***************************************************************************)
(* The worker's side of a connection: runSession, its write, heartbeat and *)
(* read loops and the inflight map (internal/worker/worker.go), and one    *)
(* handleChat goroutine per chat request (internal/worker/chat.go).  The   *)
(* local llama-server is external: it answers with some lines, or fails.   *)
(***************************************************************************)
EXTENDS Wire

CONSTANTS Proc,        \* the worker process that dials a connection
          Loaded,      \* workers that run with a model
          Gated,       \* workers started with --idle-threshold
          SessOutCap,  \* capacity of session.out (64)
          MaxBeats     \* bound: heartbeats queued in session.out at a time

\* A process has one worker ID; two processes may be given the same one (--id).
ASSUME ProcAssumption ==
  \A c, d \in Conns : Proc[c] = Proc[d] => Owner[c] = Owner[d]

ASSUME SessionAssumption == /\ Loaded \subseteq Workers
                            /\ Gated \subseteq Workers
                            /\ SessOutCap \in Nat \ {0}
                            /\ MaxBeats \in Nat

VARIABLES
  sess,       \* the session on a connection: none, greeting, live, over
  sOut,       \* session.out
  task,       \* where the handleChat goroutine of a request is
  home,       \* the session it belongs to
  inflight,   \* requests whose cancel function is registered
  cancelled,  \* requests whose cancel function was called by a Cancel
  sent        \* lines llama-server has answered

sessionVars == <<sess, sOut, task, home, inflight, cancelled, sent>>
taskVars == <<task, home, inflight, cancelled, sent>>

Running == {"calling", "streaming"}
Finished == {"answered", "broken"}
TaskState == {"none", "spawned"} \union Running \union Finished

SessionInit == /\ sess = [c \in Conns |-> "none"]
               /\ sOut = [c \in Conns |-> <<>>]
               /\ task = [r \in Reqs |-> "none"]
               /\ home = [r \in Reqs |-> None]
               /\ inflight = {}
               /\ cancelled = {}
               /\ sent = [r \in Reqs |-> 0]
-----------------------------------------------------------------------------
(* runSession *)

\* Run dials again only after the previous session has returned; another process
\* with the same worker ID does not know of it.  Dialling and writing Hello on
\* the fresh connection are one step.
Dial(c) ==
  /\ sess[c] = "none"
  /\ \A d \in Conns : Proc[d] = Proc[c] => sess[d] \in {"none", "over"}
  /\ sess' = [sess EXCEPT ![c] = "greeting"]
  /\ link' = [link EXCEPT ![c] = "up"]
  /\ toServer' = [toServer EXCEPT ![c] =
       <<[type |-> "hello", model |-> Owner[c] \in Loaded]>>]
  /\ UNCHANGED <<sOut, taskVars, toWorker, dropped>>

\* Only a Welcome starts the three loops.
RecvWelcome(c) ==
  /\ sess[c] = "greeting"
  /\ toWorker[c] # <<>>
  /\ toWorker' = [toWorker EXCEPT ![c] = Tail(@)]
  /\ IF Head(toWorker[c]).type = "welcome"
     THEN /\ sess' = [sess EXCEPT ![c] = "live"]
          /\ link' = link
     ELSE /\ sess' = [sess EXCEPT ![c] = "over"]
          /\ link' = [link EXCEPT ![c] = "down"]
  /\ UNCHANGED <<sOut, taskVars, toServer, dropped>>

\* The session's context is cancelled and the connection closed; what is in its
\* buffer, and what its goroutines still send, goes nowhere.
EndSession(c) ==
  /\ sess' = [sess EXCEPT ![c] = "over"]
  /\ link' = [link EXCEPT ![c] = "down"]
  /\ toWorker' = [toWorker EXCEPT ![c] = <<>>]
  /\ sOut' = [sOut EXCEPT ![c] = <<>>]
  /\ UNCHANGED <<taskVars, toServer, dropped>>

GreetingFails(c) ==
  /\ sess[c] = "greeting"
  /\ link[c] = "down"
  /\ EndSession(c)

\* A loop failed (broken connection, write deadline), llama-server exited or
\* the process is asked to stop: at any time.
SessionEnds(c) ==
  /\ sess[c] = "live"
  /\ EndSession(c)
-----------------------------------------------------------------------------
(* The loops of a session *)

\* Variant: a sender that waits for room.
SendWaits(c, m) == /\ Len(sOut[c]) < SessOutCap
                   /\ sOut' = [sOut EXCEPT ![c] = Append(@, m)]
                   /\ dropped' = dropped

\* session.send never waits: on a full buffer the message is dropped.
Send(c, m) ==
  IF sess[c] # "live" THEN UNCHANGED <<sOut, dropped>>
  ELSE IF Len(sOut[c]) < SessOutCap
       THEN /\ sOut' = [sOut EXCEPT ![c] = Append(@, m)]
            /\ dropped' = dropped
       ELSE /\ sOut' = sOut
            /\ dropped' = dropped \union {<<m.req, m.type>>}

\* A tick of heartbeatLoop; one that finds the buffer full changes nothing.
HeartbeatTick(c) ==
  /\ sess[c] = "live"
  /\ Len(sOut[c]) < SessOutCap
  /\ Cardinality({i \in DOMAIN sOut[c] : sOut[c][i].type = "heartbeat"}) < MaxBeats
  /\ \E idle \in IF Owner[c] \in Gated THEN BOOLEAN ELSE {TRUE} :
       sOut' = [sOut EXCEPT ![c] = Append(@, [type |-> "heartbeat", idle |-> idle])]
  /\ UNCHANGED <<sess, taskVars, wireVars>>

\* writeLoop; its failure is SessionEnds.
SessionWrite(c) ==
  /\ sess[c] = "live"
  /\ sOut[c] # <<>>
  /\ CanWrite(toServer, c)
  /\ toServer' = Written(toServer, c, Head(sOut[c]))
  /\ sOut' = [sOut EXCEPT ![c] = Tail(@)]
  /\ UNCHANGED <<sess, taskVars, link, toWorker, dropped>>

\* readLoop: a chat request starts a goroutine ...
RecvRequest(c) ==
  /\ sess[c] = "live"
  /\ toWorker[c] # <<>>
  /\ LET m == Head(toWorker[c])
     IN  /\ m.type = "request"
         /\ task' = [task EXCEPT ![m.req] = "spawned"]
         /\ home' = [home EXCEPT ![m.req] = c]
  /\ toWorker' = [toWorker EXCEPT ![c] = Tail(@)]
  /\ UNCHANGED <<sess, sOut, inflight, cancelled, sent, link, toServer, dropped>>

\* ... and a Cancel calls the cancel function, if one is registered by now.
RecvCancel(c) ==
  /\ sess[c] = "live"
  /\ toWorker[c] # <<>>
  /\ LET m == Head(toWorker[c])
     IN  /\ m.type = "cancel"
         /\ cancelled' = IF m.req \in inflight THEN cancelled \union {m.req}
                         ELSE cancelled
         /\ inflight' = inflight \ {m.req}
  /\ toWorker' = [toWorker EXCEPT ![c] = Tail(@)]
  /\ UNCHANGED <<sess, sOut, task, home, sent, link, toServer, dropped>>
-----------------------------------------------------------------------------
(* handleChat *)

CtxDone(r) == r \in cancelled \/ sess[home[r]] = "over"

\* Variant: clearInflight is forgotten.
FinishKeepsInflight(r, ok) ==
  /\ Send(home[r], Done(r, ok))
  /\ task' = [task EXCEPT ![r] = IF ok THEN "answered" ELSE "broken"]
  /\ UNCHANGED <<sess, home, inflight, cancelled, sent, link, toServer, toWorker>>

\* Variant: handleChat reports the end and does not return.
FinishGoesOn(r, ok) ==
  /\ Send(home[r], Done(r, ok))
  /\ inflight' = inflight \ {r}
  /\ UNCHANGED <<sess, task, home, cancelled, sent, link, toServer, toWorker>>

\* Variant: only a stream that is whole is ended with a ChatDone.
FinishQuietly(r, ok) ==
  /\ IF ok THEN Send(home[r], Done(r, ok)) ELSE UNCHANGED <<sOut, dropped>>
  /\ task' = [task EXCEPT ![r] = IF ok THEN "answered" ELSE "broken"]
  /\ inflight' = inflight \ {r}
  /\ UNCHANGED <<sess, home, cancelled, sent, link, toServer, toWorker>>

\* The last send and the deferred clearInflight.
FinishTask(r, ok) ==
  /\ Send(home[r], Done(r, ok))
  /\ task' = [task EXCEPT ![r] = IF ok THEN "answered" ELSE "broken"]
  /\ inflight' = inflight \ {r}
  /\ UNCHANGED <<sess, home, cancelled, sent, link, toServer, toWorker>>

\* registerInflight, unless there is no model to ask.
StartTask(r) ==
  /\ task[r] = "spawned"
  /\ IF Owner[home[r]] \in Loaded
     THEN /\ task' = [task EXCEPT ![r] = "calling"]
          /\ inflight' = inflight \union {r}
          /\ UNCHANGED <<sess, sOut, home, cancelled, sent, wireVars>>
     ELSE FinishTask(r, FALSE)

\* A body that is no JSON object, an unreachable llama-server, a status other
\* than 200, or the context cancelled during the call.
CallFails(r) ==
  /\ task[r] = "calling"
  /\ FinishTask(r, FALSE)

CallAnswered(r) ==
  /\ task[r] = "calling"
  /\ ~CtxDone(r)
  /\ task' = [task EXCEPT ![r] = "streaming"]
  /\ UNCHANGED <<sess, sOut, home, inflight, cancelled, sent, wireVars>>

\* One line scanned; the scanner may hold lines read before a cancellation.
ForwardLine(r) ==
  /\ task[r] = "streaming"
  /\ sent[r] < Lines
  /\ sent' = [sent EXCEPT ![r] = @ + 1]
  /\ Send(home[r], Chunk(r, sent[r] + 1))
  /\ UNCHANGED <<sess, task, home, inflight, cancelled, link, toServer, toWorker>>

\* llama-server ends the stream, breaks it, or the context cuts it.
StreamEnds(r) ==
  /\ task[r] = "streaming"
  /\ \E ok \in BOOLEAN : (ok => ~CtxDone(r)) /\ FinishTask(r, ok)
-----------------------------------------------------------------------------
SessionStep(c) == \/ RecvWelcome(c) \/ GreetingFails(c) \/ SessionEnds(c)
                  \/ HeartbeatTick(c) \/ SessionWrite(c)
                  \/ RecvRequest(c) \/ RecvCancel(c)

TaskStep(r) == \/ StartTask(r) \/ CallFails(r) \/ CallAnswered(r)
               \/ ForwardLine(r) \/ StreamEnds(r)

SessionNext == \/ \E c \in Conns : Dial(c) \/ SessionStep(c)
               \/ \E r \in Reqs : TaskStep(r)

SessionTypeOK ==
  /\ sess \in [Conns -> {"none", "greeting", "live", "over"}]
  /\ Buffers(sOut, Conns, SessionMsg, SessOutCap)
  /\ task \in [Reqs -> TaskState]
  /\ home \in [Reqs -> {None} \union Conns]
  /\ inflight \subseteq Reqs
  /\ cancelled \subseteq Reqs
  /\ sent \in [Reqs -> 0..Lines]
============================================================================
