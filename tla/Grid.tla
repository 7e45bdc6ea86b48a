------------------------------- MODULE Grid -------------------------------
(***************************************************************************)
(* The grid: one orchestrator (Server), the sessions of its workers        *)
(* (WorkerSession) and the connections between them (Wire), which may      *)
(* break at any moment.                                                    *)
(***************************************************************************)
EXTENDS Server, WorkerSession

vars == <<wireVars, serverVars, sessionVars>>

Init == WireInit /\ ServerInit /\ SessionInit

Breaks == /\ \E c \in Conns : LinkFails(c)
          /\ UNCHANGED <<serverVars, sessionVars>>

Next == \/ ServerNext /\ UNCHANGED sessionVars
        \/ SessionNext /\ UNCHANGED serverVars
        \/ Breaks

Spec == Init /\ [][Next]_vars

(***************************************************************************)
(* Fairness: every goroutine that can run does, a blocked Read learns of   *)
(* its connection's end (the 60 s read deadline on the server's side, a    *)
(* write deadline on the worker's), and llama-server's answers end.        *)
(* Nothing obliges a connection to break, a client to hang up or a worker  *)
(* to dial; a heartbeat ticks for ever.                                    *)
(***************************************************************************)
OfServer(A) == A /\ UNCHANGED sessionVars
OfSession(A) == A /\ UNCHANGED serverVars

ServeFair(c) == \/ ReadHello(c) \/ HelloFails(c) \/ AddConn(c)
                \/ SendWelcome(c) \/ WelcomeFails(c)
                \/ ReadHeartbeat(c) \/ RouteChatReply(c)
                \/ (link[c] = "down" /\ ReadFails(c))
                \/ Unlink(c) \/ CleanupCollect(c)
                \/ \E r \in Reqs : CleanupPush(c, r)
                \/ RemoveAndClose(c)

HandlerFair(r) == \/ PickWorker(r) \/ NoWorker(r) \/ RegisterPending(r)
                  \/ Dispatch(r) \/ DispatchTimesOut(r)
                  \/ ReceiveChunk(r) \/ ReceiveDone(r) \/ CancelOnWorker(r)

ReadFair(c) == RecvWelcome(c) \/ RecvRequest(c) \/ RecvCancel(c)

EndFair(c) == link[c] = "down" /\ (GreetingFails(c) \/ SessionEnds(c))

Fairness ==
  /\ \A c \in Conns :
       /\ WF_vars(OfServer(ServeFair(c)))
       /\ WF_vars(OfServer(srv[c] = "serving" /\ WriteOut(c)))
       /\ WF_vars(OfSession(ReadFair(c)))
       /\ WF_vars(OfSession(EndFair(c)))
       /\ WF_vars(OfSession(SessionWrite(c)))
       /\ WF_vars(OfSession(HeartbeatTick(c)))
  /\ \A r \in Reqs :
       /\ WF_vars(OfServer(HandlerFair(r)))
       /\ WF_vars(OfSession(TaskStep(r)))

FairSpec == Spec /\ Fairness
-----------------------------------------------------------------------------
(* Safety *)

TypeOK == WireTypeOK /\ ServerTypeOK /\ SessionTypeOK

Namesakes(c) == {d \in Conns \ {c} : Owner[d] = Owner[c]}

\* serveWorker has run (or is past) its deferred delete from conns.
Past == {"unlinked", "sweeping", "gone"}

\* pickWorker never hands out a connection that serveWorker has left: what
\* conns names is a connection of that worker, between its registration and its
\* deferred delete.
ConnsAlive ==
  \A w \in Workers : conns[w] # None =>
     /\ Owner[conns[w]] = w
     /\ srv[conns[w]] \in {"listed", "serving", "closing"}

\* A registry entry outlives no connection: some serveWorker of that worker is
\* still to run its deferred Remove.
RegistryOwned ==
  \A w \in Workers : registry[w] # None =>
     \E c \in Conns : /\ Owner[c] = w
                      /\ srv[c] \notin {"hello", "gone"}

\* A served connection disappears from conns only by the doing of another
\* connection of the same worker ID: one that registered after it, or one whose
\* deferred delete ran late.  A worker that never redials keeps its entry.
LostOnlyToNamesake ==
  \A c \in Conns :
     srv[c] \in {"listed", "serving", "closing"} /\ conns[Owner[c]] # c =>
        \E d \in Namesakes(c) : conns[Owner[c]] = d \/ srv[d] \in Past

\* A handler is told that its worker disconnected, while its own connection is
\* still served, only by the late cleanup of a namesake of that connection.
LostWhileServed ==
  \A r \in Reqs :
     /\ \E i \in DOMAIN ch[r] : ch[r][i].type = "lost"
     /\ srv[wc[r]] \notin Past
     => \E d \in Namesakes(wc[r]) : srv[d] \in {"sweeping", "gone"}

\* The first message a worker reads is the Welcome, though chat requests may be
\* queued for its connection before the Welcome is written.
WelcomeFirst ==
  \A c \in Conns : sess[c] = "greeting" /\ toWorker[c] # <<>> =>
     Head(toWorker[c]).type = "welcome"

\* The pending map holds no request whose handler has returned.
PendingActive == \A r \in pending : h[r] \in Active

\* A waiting handler that is no longer pending has its end of stream coming: a
\* cleanup is about to push it, or it is in the channel, or the channel was
\* full when it came.
EndIsComing ==
  \A r \in Reqs : h[r] \in {"pended", "streaming"} /\ r \notin pending =>
     \/ \E c \in Conns : r \in orphans[c]
     \/ \E i \in DOMAIN ch[r] : ch[r][i].type = "lost"
     \/ <<r, "done">> \in dropped

Carries(s, type, r) == \E i \in DOMAIN s : s[i].type = type /\ s[i].req = r

\* A handler that is still pending does not wait for nothing: its connection is
\* broken, so that a cleanup is due, or its order or its end of stream is on the
\* way, or its request runs, or a full buffer has dropped the end.
AnswerIsComing ==
  \A r \in pending : h[r] = "streaming" =>
     LET c == wc[r]
     IN  \/ link[c] = "down" \/ writer[c] = "failed"
         \/ Carries(wcOut[c], "request", r) \/ Carries(toWorker[c], "request", r)
         \/ task[r] \in {"spawned"} \union Running
         \/ Carries(sOut[c], "done", r) \/ Carries(toServer[c], "done", r)
         \/ Carries(ch[r], "done", r)
         \/ <<r, "done">> \in dropped

\* The lines a client receives are in llama-server's order and never repeated,
\* and no line comes after an end of stream, whatever is lost or dropped on the
\* way.
StreamInOrder ==
  \A r \in Reqs :
     /\ \A i, j \in DOMAIN got[r] : i < j => got[r][i] < got[r][j]
     /\ \A i, j \in DOMAIN ch[r] : i < j /\ ch[r][j].type = "chunk" =>
          ch[r][i].type = "chunk" /\ ch[r][i].line < ch[r][j].line
     /\ got[r] # <<>> => got[r][Len(got[r])] <= sent[r]

\* A stream that ends without error was answered in full, and the client has
\* every line of it unless a full buffer dropped one.
CleanEndIsWhole ==
  \A r \in Reqs : h[r] = "done" =>
     /\ task[r] = "answered"
     /\ \/ got[r] = [i \in 1..sent[r] |-> i]
        \/ <<r, "chunk">> \in dropped

\* The inflight map holds exactly the running requests that can still be
\* cancelled.
InflightExact == inflight = {r \in Reqs : task[r] \in Running} \ cancelled

\* A request reaches only a worker with a model, over the connection its
\* handler holds: handleChat's "worker has no model loaded" is never sent.
AskedOnlyLoaded ==
  \A r \in Reqs : task[r] # "none" => /\ Owner[home[r]] \in Loaded
                                      /\ home[r] = wc[r]

\* A Cancel comes to the session that was asked its request, once, and never
\* before it: it finds its cancel function registered, except in the two ways
\* handleChat leaves none, because its goroutine has not started or is over.
CancelFindsTask ==
  \A c \in Conns :
     sess[c] = "live" /\ toWorker[c] # <<>> /\ Head(toWorker[c]).type = "cancel" =>
        LET r == Head(toWorker[c]).req
        IN  /\ home[r] = c
            /\ r \in inflight \/ task[r] \in {"spawned"} \union Finished

\* The handler was registered after the last cleanup that could wake it.
Stranded(r) == r \in pending /\ srv[wc[r]] \in {"sweeping", "gone"}

\* A handler is missed by the cleanup of its connection only if it registers too
\* late; none that was pending in time is ever left behind.
OnlyLateStrands ==
  [][\A r \in Reqs : ~Stranded(r) /\ Stranded(r)' => h[r] = "picked"]_vars
-----------------------------------------------------------------------------
(* Liveness, under FairSpec *)

\* Every chat request is answered or refused, except in the two ways the code
\* loses the end of a stream: a full buffer, or a connection whose cleanup ran
\* between pickWorker and registerPending.
HandlerResolves ==
  \A r \in Reqs : h[r] = "listed" ~>
     h[r] \in Ended \/ <<r, "done">> \in dropped \/ Stranded(r)

\* A broken connection is eventually taken out of conns and registry and closed
\* on both sides.
BrokenIsClosed ==
  \A c \in Conns : link[c] = "down" ~> srv[c] = "gone" /\ sess[c] = "over"

\* llama-server is left alone once nobody wants the answer: a goroutine started
\* for a request always ends.
TasksEnd == \A r \in Reqs : task[r] = "spawned" ~> task[r] \in Finished
-----------------------------------------------------------------------------
(* The grid implements ChatService: what a handler's state means to its client, *)
(* and a goroutine's state to llama-server. *)

ClientSees(r) == CASE h[r] \in {"idle", "listed", "picked", "pended"} -> "waits"
                   [] h[r] \in {"refused", "failed"} -> "refused"
                   [] h[r] \in {"streaming", "leaving"} -> "reads"
                   [] h[r] = "done" -> "whole"
                   [] OTHER -> "short"

RunOf(r) == IF task[r] \in {"none"} \union Finished THEN task[r] ELSE "begun"

Service == INSTANCE ChatService
             WITH client <- [r \in Reqs |-> ClientSees(r)],
                  run <- [r \in Reqs |-> RunOf(r)],
                  made <- sent,
                  shown <- got,
                  lossy <- {r \in Reqs : <<r, "chunk">> \in dropped}

\* Whatever breaks, is dropped, retried or stopped on the way: a request is run at
\* most once and never after a refusal, its client reads the lines of that run in
\* order, and a stream that ends without error is whole unless a full buffer lost
\* a line.
ServesChats == Service!ServiceSpec
-----------------------------------------------------------------------------
(* What the repository says, and the code does not always do *)

\* server.go:37, "live worker connections, keyed by worker id": when no other
\* connection of its worker is left, a connection that both sides serve over a
\* working link is in the map.
LiveIsListed ==
  \A c \in Conns :
     /\ srv[c] = "serving" /\ sess[c] = "live" /\ link[c] = "up"
     /\ \A d \in Namesakes(c) : link[d] = "none" \/ srv[d] = "gone"
     => conns[Owner[c]] = c

\* chat.go:174-175, "so each waiting handler exits": once the cleanup of its
\* connection is over no handler is pending on it.
CleanupReachesAll ==
  \A r \in pending : srv[wc[r]] # "gone"

\* README.md:105, "l'annulation est propagee jusqu'a llama-server": a Cancel that
\* went out over a working connection and was read by the worker has
\* cancelled its request, if that is still running.
CancelPropagates ==
  \A r \in Reqs :
     /\ h[r] = "left" /\ task[r] \in Running /\ sess[home[r]] = "live"
     /\ link[home[r]] = "up" /\ writer[wc[r]] = "on"
     /\ \A i \in DOMAIN wcOut[wc[r]] : wcOut[wc[r]][i].req # r
     /\ \A i \in DOMAIN toWorker[wc[r]] : toWorker[wc[r]][i].type = "cancel" =>
                                             toWorker[wc[r]][i].req # r
     => r \in cancelled

\* worker/chat.go:20-21, "re-emit the SSE verbatim": a stream that ends without
\* error is whole.
Verbatim ==
  \A r \in Reqs : h[r] = "done" => got[r] = [i \in 1..sent[r] |-> i]
============================================================================
