------------------------------ MODULE Server ------------------------------
(***************************************************************************)
(* The orchestrator's routing core: internal/server/server.go, chat.go and *)
(* registry.go.  One serveWorker goroutine and one writer goroutine per    *)
(* connection, one handleChatCompletions goroutine per request, and the    *)
(* reaper, over three separately locked maps (registry, conns, pending).   *)
(* A step is what runs under one lock or on one channel; steps of          *)
(* different goroutines interleave freely.                                 *)
(***************************************************************************)
EXTENDS Wire

CONSTANTS ConnOutCap,   \* capacity of workerConn.out (64)
          PendCap       \* capacity of pendingReq.ch (256)

ASSUME ServerAssumption == /\ ConnOutCap \in Nat \ {0}
                           /\ PendCap \in Nat \ {0}

VARIABLES
  registry,  \* registry[w]: None or the entry List copies; fresh stands for
             \* "last heartbeat at most heartbeatTimeout ago"
  conns,     \* conns[w]: None or the connection requests to w go to
  srv,       \* where the serveWorker goroutine of a connection is
  writer,    \* its write loop: off, on, failed (error waiting in writeErr)
  wcOut,     \* workerConn.out
  orphans,   \* requests whose handler the cleanup has still to wake
  pending,   \* requests with an entry in Server.pending
  ch,        \* pendingReq.ch
  h,         \* where the handleChatCompletions goroutine of a request is
  cand,      \* eligible workers of the registry.List snapshot
  wc,        \* the workerConn the handler holds
  got,       \* lines written to the HTTP client
  reap       \* stale workers of the reaper's snapshot, not yet removed

serverVars == <<registry, conns, srv, writer, wcOut, orphans, pending, ch, h,
                cand, wc, got, reap>>

Entry == [model : BOOLEAN, idle : BOOLEAN, fresh : BOOLEAN]

ASSUME EntryAssumption == None \notin Entry

\* What a pending channel carries: routed replies and the synthetic ChatDone
\* of cleanupWorkerPending, which has an Error and no RequestID.
Lost == [type |-> "lost"]
Reply == ChatReply \union {Lost}

\* serveWorker, in order.  closing: the read loop has returned; unlinked: out
\* of conns; sweeping: its pending requests are collected.
SrvState == {"hello", "added", "listed", "serving", "closing", "unlinked",
             "sweeping", "gone"}

Active == {"pended", "streaming", "leaving"}
Ended == {"refused", "failed", "done", "errored", "left", "cut"}
HandlerState == {"idle", "listed", "picked"} \union Active \union Ended

ServerInit == /\ registry = [w \in Workers |-> None]
              /\ conns = [w \in Workers |-> None]
              /\ srv = [c \in Conns |-> "hello"]
              /\ writer = [c \in Conns |-> "off"]
              /\ wcOut = [c \in Conns |-> <<>>]
              /\ orphans = [c \in Conns |-> {}]
              /\ pending = {}
              /\ ch = [r \in Reqs |-> <<>>]
              /\ h = [r \in Reqs |-> "idle"]
              /\ cand = [r \in Reqs |-> {}]
              /\ wc = [r \in Reqs |-> None]
              /\ got = [r \in Reqs |-> <<>>]
              /\ reap = {}

handlerVars == <<h, cand, wc, got>>
-----------------------------------------------------------------------------
(* Registry *)

\* A new entry is idle until a heartbeat says otherwise.
Add(w, model) ==
  [registry EXCEPT ![w] = [model |-> model, idle |-> TRUE, fresh |-> TRUE]]

Remove(w) == [registry EXCEPT ![w] = None]

\* A heartbeat refreshes an entry and never creates one.
Heartbeat(w, idle) ==
  IF registry[w] = None THEN registry
  ELSE [registry EXCEPT ![w] = [model |-> @.model, idle |-> idle, fresh |-> TRUE]]

\* heartbeatTimeout passes without a heartbeat.
Expire(w) ==
  /\ registry[w] # None
  /\ registry[w].fresh
  /\ registry' = [registry EXCEPT ![w].fresh = FALSE]
  /\ UNCHANGED <<conns, srv, writer, wcOut, orphans, pending, ch, handlerVars,
                 reap, wireVars>>

\* A tick of the reaper: it compares the LastHeartbeat copies of one List.
ReapScan ==
  /\ reap = {}
  /\ reap' = {w \in Workers : registry[w] # None /\ ~registry[w].fresh}
  /\ reap' # {}
  /\ UNCHANGED <<registry, conns, srv, writer, wcOut, orphans, pending, ch,
                 handlerVars, wireVars>>

\* Variant: the reaper also forgets the connection.
ReapOneUnlinks(w) ==
  /\ w \in reap
  /\ reap' = reap \ {w}
  /\ registry' = Remove(w)
  /\ conns' = [conns EXCEPT ![w] = None]
  /\ UNCHANGED <<srv, writer, wcOut, orphans, pending, ch, handlerVars,
                 wireVars>>

\* It removes each, one lock at a time, without looking at the entry again.
ReapOne(w) ==
  /\ w \in reap
  /\ reap' = reap \ {w}
  /\ registry' = Remove(w)
  /\ UNCHANGED <<conns, srv, writer, wcOut, orphans, pending, ch, handlerVars,
                 wireVars>>
-----------------------------------------------------------------------------
(* serveWorker *)

\* Hello is read and the worker registered.
ReadHello(c) ==
  /\ srv[c] = "hello"
  /\ toServer[c] # <<>>
  /\ LET m == Head(toServer[c])
     IN  IF m.type = "hello"
         THEN /\ srv' = [srv EXCEPT ![c] = "added"]
              /\ registry' = Add(Owner[c], m.model)
              /\ link' = link
         ELSE /\ srv' = [srv EXCEPT ![c] = "gone"]
              /\ registry' = registry
              /\ link' = [link EXCEPT ![c] = "down"]
  /\ toServer' = [toServer EXCEPT ![c] = Tail(@)]
  /\ UNCHANGED <<conns, writer, wcOut, orphans, pending, ch, handlerVars, reap,
                 toWorker, dropped>>

\* No Hello: the deadline or the connection's end comes first.
HelloFails(c) ==
  /\ srv[c] = "hello"
  /\ link[c] = "down"
  /\ srv' = [srv EXCEPT ![c] = "gone"]
  /\ toServer' = [toServer EXCEPT ![c] = <<>>]
  /\ UNCHANGED <<registry, conns, writer, wcOut, orphans, pending, ch,
                 handlerVars, reap, link, toWorker, dropped>>

\* Variant: the write loop is started with the registration.
AddConnWrites(c) ==
  /\ srv[c] = "added"
  /\ srv' = [srv EXCEPT ![c] = "listed"]
  /\ writer' = [writer EXCEPT ![c] = "on"]
  /\ conns' = [conns EXCEPT ![Owner[c]] = c]
  /\ UNCHANGED <<registry, wcOut, orphans, pending, ch, handlerVars, reap,
                 wireVars>>

\* The connection becomes the one requests to its worker go to, before the
\* worker has been welcomed.
AddConn(c) ==
  /\ srv[c] = "added"
  /\ srv' = [srv EXCEPT ![c] = "listed"]
  /\ conns' = [conns EXCEPT ![Owner[c]] = c]
  /\ UNCHANGED <<registry, writer, wcOut, orphans, pending, ch, handlerVars,
                 reap, wireVars>>

\* Welcome goes straight to the connection; only then the write loop starts.
SendWelcome(c) ==
  /\ srv[c] = "listed"
  /\ CanWrite(toWorker, c)
  /\ toWorker' = Written(toWorker, c, [type |-> "welcome"])
  /\ srv' = [srv EXCEPT ![c] = "serving"]
  /\ writer' = [writer EXCEPT ![c] = "on"]
  /\ UNCHANGED <<registry, conns, wcOut, orphans, pending, ch, handlerVars,
                 reap, link, toServer, dropped>>

WelcomeFails(c) ==
  /\ srv[c] = "listed"
  /\ CanFailWrite(toWorker, c)
  /\ srv' = [srv EXCEPT ![c] = "closing"]
  /\ UNCHANGED <<registry, conns, writer, wcOut, orphans, pending, ch,
                 handlerVars, reap, wireVars>>

\* Variant: a message that cannot be written is given up and the loop goes on.
WriteOutGoesOn(c) ==
  /\ writer[c] = "on"
  /\ wcOut[c] # <<>>
  /\ wcOut' = [wcOut EXCEPT ![c] = Tail(@)]
  /\ \/ /\ CanWrite(toWorker, c)
        /\ toWorker' = Written(toWorker, c, Head(wcOut[c]))
     \/ /\ CanFailWrite(toWorker, c)
        /\ toWorker' = toWorker
  /\ UNCHANGED <<registry, conns, srv, writer, orphans, pending, ch, handlerVars,
                 reap, link, toServer, dropped>>

\* The write loop.  cancelWrites stops it at an arbitrary point between
\* closing and gone: it then just takes no more steps.
WriteOut(c) ==
  /\ writer[c] = "on"
  /\ wcOut[c] # <<>>
  /\ wcOut' = [wcOut EXCEPT ![c] = Tail(@)]
  /\ \/ /\ CanWrite(toWorker, c)
        /\ toWorker' = Written(toWorker, c, Head(wcOut[c]))
        /\ writer' = writer
     \/ /\ CanFailWrite(toWorker, c)
        /\ writer' = [writer EXCEPT ![c] = "failed"]
        /\ toWorker' = toWorker
  /\ UNCHANGED <<registry, conns, srv, orphans, pending, ch, handlerVars, reap,
                 link, toServer, dropped>>

\* A write error ends the read loop, but only once a message has been read.
AfterRead(c) == [srv EXCEPT ![c] = IF writer[c] = "failed" THEN "closing" ELSE @]

ReadHeartbeat(c) ==
  /\ srv[c] = "serving"
  /\ toServer[c] # <<>>
  /\ Head(toServer[c]).type = "heartbeat"
  /\ registry' = Heartbeat(Owner[c], Head(toServer[c]).idle)
  /\ toServer' = [toServer EXCEPT ![c] = Tail(@)]
  /\ srv' = AfterRead(c)
  /\ UNCHANGED <<conns, writer, wcOut, orphans, pending, ch, handlerVars, reap,
                 link, toWorker, dropped>>

\* A reply goes to the channel of its request if that is still pending, and is
\* dropped when the channel is full.
RouteChatReply(c) ==
  /\ srv[c] = "serving"
  /\ toServer[c] # <<>>
  /\ LET m == Head(toServer[c])
     IN  /\ m.type \in {"chunk", "done"}
         /\ IF m.req \notin pending THEN UNCHANGED <<ch, dropped>>
            ELSE IF Len(ch[m.req]) < PendCap
                 THEN /\ ch' = [ch EXCEPT ![m.req] = Append(@, m)]
                      /\ dropped' = dropped
                 ELSE /\ ch' = ch
                      /\ dropped' = dropped \union {<<m.req, m.type>>}
  /\ toServer' = [toServer EXCEPT ![c] = Tail(@)]
  /\ srv' = AfterRead(c)
  /\ UNCHANGED <<registry, conns, writer, wcOut, orphans, pending, handlerVars,
                 reap, link, toWorker>>

\* Variant: the read loop continues after a read error.
ReadFailsGoesOn(c) ==
  /\ srv[c] = "serving"
  /\ link[c] = "down" \/ toServer[c] = <<>>
  /\ UNCHANGED <<serverVars, wireVars>>

\* The connection ended, or nothing came for pongWait.
ReadFails(c) ==
  /\ srv[c] = "serving"
  /\ link[c] = "down" \/ toServer[c] = <<>>
  /\ srv' = [srv EXCEPT ![c] = "closing"]
  /\ UNCHANGED <<registry, conns, writer, wcOut, orphans, pending, ch,
                 handlerVars, reap, wireVars>>

\* Variant: the entry of conns is left behind.
UnlinkForgets(c) ==
  /\ srv[c] = "closing"
  /\ srv' = [srv EXCEPT ![c] = "unlinked"]
  /\ UNCHANGED <<registry, conns, writer, wcOut, orphans, pending, ch,
                 handlerVars, reap, wireVars>>

\* The deferred calls, last first.  conns is keyed by worker ID: the entry
\* goes, whichever connection it names.
Unlink(c) ==
  /\ srv[c] = "closing"
  /\ srv' = [srv EXCEPT ![c] = "unlinked"]
  /\ conns' = [conns EXCEPT ![Owner[c]] = None]
  /\ UNCHANGED <<registry, writer, wcOut, orphans, pending, ch, handlerVars,
                 reap, wireVars>>

\* Variant: the cleanup does not look at the worker ID.
PendingOfAny(w) == pending

\* Variant: a handler that has not sent its request yet is passed over.
PendingOfAsked(w) == {r \in pending : Owner[wc[r]] = w /\ h[r] # "pended"}

\* pendingReq.workerID is the ID pickWorker returned with the connection.
PendingOf(w) == {r \in pending : Owner[wc[r]] = w}

\* Variant: the entries are deleted but nobody is woken.
CleanupForgets(c) ==
  /\ srv[c] = "unlinked"
  /\ srv' = [srv EXCEPT ![c] = "sweeping"]
  /\ pending' = pending \ PendingOf(Owner[c])
  /\ UNCHANGED <<registry, conns, writer, wcOut, orphans, ch, handlerVars, reap,
                 wireVars>>

CleanupCollect(c) ==
  /\ srv[c] = "unlinked"
  /\ srv' = [srv EXCEPT ![c] = "sweeping"]
  /\ orphans' = [orphans EXCEPT ![c] = PendingOf(Owner[c])]
  /\ pending' = pending \ PendingOf(Owner[c])
  /\ UNCHANGED <<registry, conns, writer, wcOut, ch, handlerVars, reap,
                 wireVars>>

\* The synthetic ChatDone, dropped when the channel is full (nothing is logged;
\* the channel of a handler that has returned is garbage).
CleanupPush(c, r) ==
  /\ r \in orphans[c]
  /\ orphans' = [orphans EXCEPT ![c] = @ \ {r}]
  /\ IF h[r] \notin Active THEN UNCHANGED <<ch, dropped>>
     ELSE IF Len(ch[r]) < PendCap
          THEN /\ ch' = [ch EXCEPT ![r] = Append(@, Lost)]
               /\ dropped' = dropped
          ELSE /\ ch' = ch
               /\ dropped' = dropped \union {<<r, "done">>}
  /\ UNCHANGED <<registry, conns, srv, writer, wcOut, pending, handlerVars,
                 reap, link, toServer, toWorker>>

\* Variant: the registry entry is left to the reaper.
CloseOnly(c) ==
  /\ srv[c] = "sweeping"
  /\ orphans[c] = {}
  /\ srv' = [srv EXCEPT ![c] = "gone"]
  /\ writer' = [writer EXCEPT ![c] = "off"]
  /\ link' = [link EXCEPT ![c] = "down"]
  /\ toServer' = [toServer EXCEPT ![c] = <<>>]
  /\ UNCHANGED <<registry, conns, wcOut, orphans, pending, ch, handlerVars, reap,
                 toWorker, dropped>>

RemoveAndClose(c) ==
  /\ srv[c] = "sweeping"
  /\ orphans[c] = {}
  /\ srv' = [srv EXCEPT ![c] = "gone"]
  /\ registry' = Remove(Owner[c])
  /\ writer' = [writer EXCEPT ![c] = "off"]
  /\ link' = [link EXCEPT ![c] = "down"]
  /\ toServer' = [toServer EXCEPT ![c] = <<>>]
  /\ UNCHANGED <<conns, wcOut, orphans, pending, ch, handlerVars, reap,
                 toWorker, dropped>>
-----------------------------------------------------------------------------
(* handleChatCompletions *)

connVars == <<registry, conns, srv, writer, orphans, reap>>

\* Variant: the loaded model is not looked at.
ListAnyIdle(r) ==
  /\ h[r] = "idle"
  /\ h' = [h EXCEPT ![r] = "listed"]
  /\ cand' = [cand EXCEPT ![r] =
       {w \in Workers : registry[w] # None /\ registry[w].idle}]
  /\ UNCHANGED <<connVars, wcOut, pending, ch, wc, got, wireVars>>

\* pickWorker takes its snapshot of the registry ...
ListCandidates(r) ==
  /\ h[r] = "idle"
  /\ h' = [h EXCEPT ![r] = "listed"]
  /\ cand' = [cand EXCEPT ![r] =
       {w \in Workers : /\ registry[w] # None
                        /\ registry[w].model
                        /\ registry[w].idle}]
  /\ UNCHANGED <<connVars, wcOut, pending, ch, wc, got, wireVars>>

\* ... and then looks the candidates up in conns, in no particular order.
PickWorker(r) ==
  /\ h[r] = "listed"
  /\ \E w \in cand[r] : /\ conns[w] # None
                        /\ wc' = [wc EXCEPT ![r] = conns[w]]
  /\ h' = [h EXCEPT ![r] = "picked"]
  /\ cand' = [cand EXCEPT ![r] = {}]
  /\ UNCHANGED <<connVars, wcOut, pending, ch, got, wireVars>>

NoWorker(r) ==
  /\ h[r] = "listed"
  /\ \A w \in cand[r] : conns[w] = None
  /\ h' = [h EXCEPT ![r] = "refused"]
  /\ cand' = [cand EXCEPT ![r] = {}]
  /\ UNCHANGED <<connVars, wcOut, pending, ch, wc, got, wireVars>>

RegisterPending(r) ==
  /\ h[r] = "picked"
  /\ h' = [h EXCEPT ![r] = "pended"]
  /\ pending' = pending \union {r}
  /\ UNCHANGED <<connVars, wcOut, ch, cand, wc, got, wireVars>>

\* Variant: a return that forgets closePending.
KeepPending(r, outcome) ==
  /\ h' = [h EXCEPT ![r] = outcome]
  /\ pending' = pending
  /\ ch' = [ch EXCEPT ![r] = <<>>]

\* Every return after registerPending runs closePending; the channel is then
\* garbage.
ClosePending(r, outcome) ==
  /\ h' = [h EXCEPT ![r] = outcome]
  /\ pending' = pending \ {r}
  /\ ch' = [ch EXCEPT ![r] = <<>>]

\* Variant: a buffer without a limit.
CanAlwaysSend(c) == c \in Conns

\* workerConn.send: queued, or given up after 2 s of a full buffer.
CanSend(c) == Len(wcOut[c]) < ConnOutCap
Queued(c, type, r) ==
  [wcOut EXCEPT ![c] = Append(@, [type |-> type, req |-> r])]

\* Variant: the request is sent again until it is answered.
DispatchRetries(r) ==
  /\ h[r] = "pended"
  /\ CanSend(wc[r])
  /\ wcOut' = Queued(wc[r], "request", r)
  /\ \E next \in {"pended", "streaming"} : h' = [h EXCEPT ![r] = next]
  /\ UNCHANGED <<connVars, pending, ch, cand, wc, got, wireVars>>

Dispatch(r) ==
  /\ h[r] = "pended"
  /\ CanSend(wc[r])
  /\ wcOut' = Queued(wc[r], "request", r)
  /\ h' = [h EXCEPT ![r] = "streaming"]
  /\ UNCHANGED <<connVars, pending, ch, cand, wc, got, wireVars>>

DispatchTimesOut(r) ==
  /\ h[r] = "pended"
  /\ ~CanSend(wc[r])
  /\ ClosePending(r, "failed")
  /\ UNCHANGED <<connVars, wcOut, cand, wc, got, wireVars>>

\* A body that is no JSON value cannot be embedded in the message.
EncodeFails(r) ==
  /\ h[r] = "pended"
  /\ ClosePending(r, "failed")
  /\ UNCHANGED <<connVars, wcOut, cand, wc, got, wireVars>>

ReceiveChunk(r) ==
  /\ h[r] = "streaming"
  /\ ch[r] # <<>>
  /\ Head(ch[r]).type = "chunk"
  /\ got' = [got EXCEPT ![r] = Append(@, Head(ch[r]).line)]
  /\ ch' = [ch EXCEPT ![r] = Tail(@)]
  /\ UNCHANGED <<connVars, wcOut, pending, h, cand, wc, wireVars>>

\* Variant: the error of a ChatDone is not looked at.
ReceiveAnyDone(r) ==
  /\ h[r] = "streaming"
  /\ ch[r] # <<>>
  /\ Head(ch[r]).type \in {"done", "lost"}
  /\ ClosePending(r, "done")
  /\ UNCHANGED <<connVars, wcOut, cand, wc, got, wireVars>>

ReceiveDone(r) ==
  /\ h[r] = "streaming"
  /\ ch[r] # <<>>
  /\ LET m == Head(ch[r])
     IN  \/ m.type = "done" /\ ClosePending(r, IF m.ok THEN "done" ELSE "errored")
         \/ m.type = "lost" /\ ClosePending(r, "errored")
  /\ UNCHANGED <<connVars, wcOut, cand, wc, got, wireVars>>

\* The client hangs up; select may notice it before any reply that waits.
ClientGone(r) ==
  /\ h[r] = "streaming"
  /\ h' = [h EXCEPT ![r] = "leaving"]
  /\ UNCHANGED <<connVars, wcOut, pending, ch, cand, wc, got, wireVars>>

CancelOnWorker(r) ==
  /\ h[r] = "leaving"
  /\ \/ CanSend(wc[r]) /\ wcOut' = Queued(wc[r], "cancel", r)
     \/ ~CanSend(wc[r]) /\ wcOut' = wcOut
  /\ ClosePending(r, "left")
  /\ UNCHANGED <<connVars, cand, wc, got, wireVars>>
-----------------------------------------------------------------------------
\* The orchestrator is killed, or told to stop: ListenAndServe returns as soon as
\* Shutdown is called, Run returns with it, and nobody waits the 5 s that Shutdown
\* would give the handlers.  Every goroutine is cut where it is, a response that
\* had not begun fails; the next orchestrator starts with empty maps.
OrchestratorStops ==
  /\ registry' = [w \in Workers |-> None]
  /\ conns' = [w \in Workers |-> None]
  /\ srv' = [c \in Conns |->
                 IF link[c] = "none" /\ srv[c] = "hello" THEN "hello" ELSE "gone"]
  /\ writer' = [c \in Conns |-> "off"]
  /\ wcOut' = [c \in Conns |-> <<>>]
  /\ orphans' = [c \in Conns |-> {}]
  /\ pending' = {}
  /\ ch' = [r \in Reqs |-> <<>>]
  /\ h' = [r \in Reqs |-> CASE h[r] \in {"streaming", "leaving"} -> "cut"
                            [] h[r] \in {"listed", "picked", "pended"} -> "failed"
                            [] OTHER -> h[r]]
  /\ cand' = [r \in Reqs |-> {}]
  /\ reap' = {}
  /\ link' = [c \in Conns |-> IF link[c] = "none" THEN "none" ELSE "down"]
  /\ toServer' = [c \in Conns |-> <<>>]
  /\ UNCHANGED <<wc, got, toWorker, dropped>>
-----------------------------------------------------------------------------
ServeStep(c) == \/ ReadHello(c) \/ HelloFails(c) \/ AddConn(c)
                \/ SendWelcome(c) \/ WelcomeFails(c)
                \/ ReadHeartbeat(c) \/ RouteChatReply(c) \/ ReadFails(c)
                \/ Unlink(c) \/ CleanupCollect(c)
                \/ \E r \in Reqs : CleanupPush(c, r)
                \/ RemoveAndClose(c)

HandlerStep(r) == \/ ListCandidates(r) \/ PickWorker(r) \/ NoWorker(r)
                  \/ RegisterPending(r) \/ Dispatch(r)
                  \/ DispatchTimesOut(r) \/ EncodeFails(r)
                  \/ ReceiveChunk(r) \/ ReceiveDone(r)
                  \/ ClientGone(r) \/ CancelOnWorker(r)

ServerNext == \/ \E c \in Conns : ServeStep(c) \/ WriteOut(c)
              \/ \E r \in Reqs : HandlerStep(r)
              \/ \E w \in Workers : Expire(w) \/ ReapOne(w)
              \/ ReapScan
              \/ OrchestratorStops

ServerTypeOK ==
  /\ registry \in [Workers -> {None} \union Entry]
  /\ conns \in [Workers -> {None} \union Conns]
  /\ srv \in [Conns -> SrvState]
  /\ writer \in [Conns -> {"off", "on", "failed"}]
  /\ Buffers(wcOut, Conns, ChatOrder, ConnOutCap)
  /\ orphans \in [Conns -> SUBSET Reqs]
  /\ pending \subseteq Reqs
  /\ Buffers(ch, Reqs, Reply, PendCap)
  /\ h \in [Reqs -> HandlerState]
  /\ cand \in [Reqs -> SUBSET Workers]
  /\ wc \in [Reqs -> {None} \union Conns]
  /\ got \in [Reqs -> Seq(1..Lines)]
  /\ reap \subseteq Workers
============================================================================
